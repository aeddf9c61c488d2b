------------------------------ MODULE VarStore ------------------------------
(***************************************************************************)
(* What the flash emulation of APP/Eeprom/eeprom.c promises its callers: a *)
(* map from virtual addresses to half-words.  A write takes effect at one  *)
(* instant or not at all; how a call ends (success, an error code, a power *)
(* loss) never changes what is stored.                                     *)
(***************************************************************************)
CONSTANTS Var,   \* virtual addresses
          Val,   \* half-words
          None   \* what a variable that was never written reads as

VARIABLES store, \* [Var -> Val \cup {None}], the last committed values
          req,   \* the argument of the write in progress, if there is one
          state  \* "free": no call; "busy": not yet committed; "done"

vars == <<store, req, state>>

Request == [v : Var, d : Val]

Init == /\ store = [v \in Var |-> None]
        /\ req \in Request
        /\ state = "free"

Begin == /\ state = "free"
         /\ state' = "busy"
         /\ req' \in Request
         /\ UNCHANGED store

Commit == /\ state = "busy"
          /\ state' = "done"
          /\ store' = [store EXCEPT ![req.v] = req.d]
          /\ UNCHANGED req

\* The call returns, or the power goes: the store stays as it is.
End == /\ state # "free"
       /\ state' = "free"
       /\ UNCHANGED <<store, req>>

Next == Begin \/ Commit \/ End

Spec == Init /\ [][Next]_vars
=============================================================================
