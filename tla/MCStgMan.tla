------------------------------ MODULE MCStgMan ------------------------------
(***************************************************************************)
(* Instances of StgMan for TLC.                                            *)
(***************************************************************************)
EXTENDS StgMan

CONSTANTS owner, user, cfg, log, a, b, none

SizeOf == [v \in {a, b, none} |-> IF v = none THEN 0 ELSE IF v = a THEN 1 ELSE 2]

Plain(op) == [op |-> op, file |-> cfg, val |-> none, buf |-> NoBuffer]
Check(f) == [op |-> "check", file |-> f, val |-> none, buf |-> NoBuffer]
WriteOf(f, v) == [op |-> "write", file |-> f, val |-> v, buf |-> NoBuffer]
ReadOf(f, n) == [op |-> "read", file |-> f, val |-> none, buf |-> n]

AllCalls == {Plain("init"), Plain("deinit"), Plain("format"), Check(log), Check(Unsafe),
             WriteOf(cfg, a), WriteOf(log, b), WriteOf(cfg, b),
             ReadOf(cfg, 1), ReadOf(log, 2), ReadOf(cfg, NoBuffer)}

\* Without I/O errors.
SimpleCalls == {Plain("init"), WriteOf(cfg, a), WriteOf(cfg, b)}

OnDisk == {Absent, Short, [kind |-> "magic", val |-> none],
           [kind |-> "version", val |-> none], Whole(b)}
=============================================================================
