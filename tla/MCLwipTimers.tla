---------------------------- MODULE MCLwipTimers ----------------------------
(***************************************************************************)
(* The TCP timer and two periodic ones, in the order of their lengths.     *)
(***************************************************************************)
EXTENDS LwipTimers

CONSTANTS tcp, reass, arp

MCPeriodic == {reass, arp}
MCOnDemand == {tcp}
MCInterval == [h \in {tcp, reass, arp} |->
                CASE h = tcp -> 2 [] h = reass -> 3 [] h = arp -> 5]
=============================================================================
