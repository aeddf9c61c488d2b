----------------------------- MODULE MCGnssCmd -----------------------------
(***************************************************************************)
(* Combinations that share commands, as the modes of acmode_set do, and a  *)
(* single command, as of baud_set and statement_set.                       *)
(***************************************************************************)
EXTENDS GnssCmd

CONSTANTS a, b, c

MCConfig == {<<a, b, c>>, <<b, a>>, <<c>>}
=============================================================================
