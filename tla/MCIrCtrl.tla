------------------------------ MODULE MCIrCtrl ------------------------------
(***************************************************************************)
(* Instances of IrCtrl for TLC.                                            *)
(***************************************************************************)
EXTENDS IrCtrl, TLC

CONSTANTS c1, c2

Learn(s, o) == [op |-> "learn_start", slot |-> s, opts |-> o]
Send(s, r, b, k) == [op |-> "send", slot |-> s,
                     opts |-> [repeat |-> r, blocking |-> b, carrier |-> k]]
Cancel == [op |-> "learn_cancel"]
Info(s) == [op |-> "get_slot_info", slot |-> s]

\* Two symbols at least, five allowed (clamped to MaxSyms); with the hook.
Strict == [present |-> TRUE, min |-> 2, max |-> 5, hook |-> FALSE]
Hooked == [present |-> TRUE, min |-> 0, max |-> 2, hook |-> TRUE]

AllSlots == {0, 1}
SymCounts == {0, 2, 4}
BothCallbacks == {"store", "load"}

CoreCalls == {Learn(1, Strict), Learn(1, Hooked), Cancel,
              Send(1, 1, TRUE, "keep"), Send(1, 1, FALSE, "override"),
              Send(1, 0, TRUE, "invalid"), Info(1)}

\* For the liveness run: one of each.
LiveCalls == {Learn(1, Strict), Cancel, Send(1, 1, TRUE, "keep"),
              Send(1, 0, TRUE, "invalid")}

\* For the runs that show a disagreement with the documentation.
LearnCalls1 == {Learn(1, Strict), Cancel}
SendCalls1  == {Send(1, 0, TRUE, "keep")}
HeldCalls   == {Learn(1, NoOpts), Cancel, Send(1, 0, TRUE, "keep")}
LearnSendCalls == {Learn(1, NoOpts), Send(1, 0, FALSE, "keep")}
InfoCalls1  == {Learn(1, NoOpts), Info(1)}

ClientSymmetry == Permutations({c1, c2})
=============================================================================
