---------------------------- MODULE MCEthDriver ----------------------------
(***************************************************************************)
(* A frame of two pbufs, and one longer than a receive buffer.             *)
(***************************************************************************)
EXTENDS EthDriver

MCFrames == {[descs |-> 1, pbufs |-> 2], [descs |-> 2, pbufs |-> 2]}
=============================================================================
