------------------------------- MODULE MCOrch -------------------------------
(***************************************************************************)
(* Instances of Orch for TLC.                                              *)
(***************************************************************************)
EXTENDS Orch, TLC

CONSTANTS ble, wifi

Move(from, to) == [id |-> "STATE_CHANGED", sized |-> TRUE, old |-> from, new |-> to]
Resized == [Move("LOCKED", "NORMAL") EXCEPT !.sized = FALSE]
Unrelated == [Move("BOOT", "BOOT") EXCEPT !.id = "unrelated"]

SomeCommands == {"AUTH_LOGIN", "IR_SEND"}
SomeEvents == {Move("BOOT", "LOCKED"), Move("LOCKED", "NORMAL"),
               Move("NORMAL", "other"), Resized, Unrelated}

\* For the run that shows a disagreement with the documentation.
LockAndUnlock == {Move("LOCKED", "NORMAL"), Move("NORMAL", "LOCKED")}
=============================================================================
