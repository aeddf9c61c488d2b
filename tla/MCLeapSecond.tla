---------------------------- MODULE MCLeapSecond ----------------------------
(***************************************************************************)
(* The last leap second there was (31 December 2016), and 29 February 2028. *)
(* A device built before a leap second it has missed already, and one      *)
(* built after it.                                                         *)
(***************************************************************************)
EXTENDS LeapSecond

MCDays == {13509, 17586}
=============================================================================
