---------------------------- MODULE EepromFaults ----------------------------
(***************************************************************************)
(* eeprom.c when the power may go at any point at all, the one Eeprom      *)
(* leaves out included: EE_Init's recovery marks the new page VALID before *)
(* it erases the old one (eeprom.c:189, 196 and 280, 287), where           *)
(* EE_PageTransfer does the two in the other order.                        *)
(***************************************************************************)
EXTENDS Eeprom

NextAnywhere == WriteCall \/ Step \/ PowerLoss

SpecAnywhere == Init /\ [][NextAnywhere]_vars
=============================================================================
