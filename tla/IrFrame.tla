------------------------------- MODULE IrFrame -------------------------------
(***************************************************************************)
(* What happens to the symbols of a frame between a remote control, the    *)
(* storage of one transceiver, and the storage of another that learns from *)
(* it: ir_handle_rx_done and ir_do_send of components/ir_ctrl/ir_ctrl.c    *)
(* with the postprocess hook apps/test_ir_ctrl/utilities.c and the storage *)
(* callbacks of test_ir_ctrl_main.c.  IrCtrl has the control flow around   *)
(* it; a capture and its processing are one step here.                     *)
(*                                                                         *)
(* The air is the environment: the receiver answers a burst with a low     *)
(* level, so a capture has the levels inverted, each duration is off by an *)
(* amount in Jitter, and the last symbol ends in the idle line, which the  *)
(* peripheral writes as duration 0.  Durations are in microseconds.        *)
(***************************************************************************)
EXTENDS Integers, Sequences

CONSTANTS
    Units,     \* transceivers, each with its controller and its storage
    Slots,     \* the slots of a storage
    Opts,      \* the options a learn may be given
    Remotes,   \* the frames remote controls send
    Jitter,    \* the errors of a captured duration
    MaxFrame,  \* IR_CTRL_MAX_FRAME_SIZE
    MaxSends   \* bound: transmissions in a behaviour

Symbol    == [level0 : {0, 1}, duration0 : Nat, level1 : {0, 1}, duration1 : Nat]
Symbols   == Seq(Symbol)
LearnOpts == [invert : BOOLEAN, normalize : BOOLEAN, min : Nat, max : Nat]

\* A burst and the pause after it.
Pulse(d0, d1) ==
    [level0 |-> 1, duration0 |-> d0, level1 |-> 0, duration1 |-> d1]

\* Every symbol is a burst and a pause.
BurstsFirst(f) == \A i \in 1..Len(f) : f[i].level0 = 1 /\ f[i].level1 = 0

\* The halfway point between the short and the long pulse is 1125: an error of up
\* to 564 leaves each on its own side of it.
ASSUME IrFrameAssumption ==
    /\ Opts \subseteq LearnOpts
    /\ Remotes \subseteq Symbols
    /\ \A f \in Remotes :
         /\ Len(f) > 0 /\ BurstsFirst(f)
         /\ \A i \in 1..Len(f) : f[i].duration0 > 0 /\ f[i].duration1 > 0
    /\ Jitter \subseteq -564..564
    /\ MaxFrame \in Nat
    /\ MaxSends \in Nat

VARIABLES
    slots,   \* s_slots of each unit; << >> where s_slot_valid is false
    unit,    \* each unit's learn: its slot and options, or Idle
    air,     \* the frame last sent, with its ancestry
    kin,     \* history: the ancestry of what each slot holds
    sends    \* transmissions so far

vars == <<slots, unit, air, kin, sends>>

(* The ancestry of a frame: the remote control's frame it was copied from, and *)
(* the first copy of it, if every copy since was learned with inversion and    *)
(* normalisation; << >> otherwise.                                             *)
Unknown == [origin |-> << >>, first |-> << >>]

Idle == [learning |-> FALSE]
-----------------------------------------------------------------------------
(* The hook ir_post_nec_canon.                                             *)

Lead   == Pulse(9000, 4500)
Repeat == Pulse(9000, 2250)
Zero   == Pulse(560, 560)
One    == Pulse(560, 1690)

Distance(a, b) == IF a < b THEN b - a ELSE a - b

Within(v, ref, tol) == Distance(v, ref) <= tol

\* Mutant: a duration far beyond both bins is left as it is.
SnapNear(v, a, b) ==
    IF v > 3 * b THEN v ELSE IF Distance(v, a) <= Distance(v, b) THEN a ELSE b

Snap(v, a, b) == IF Distance(v, a) <= Distance(v, b) THEN a ELSE b

\* The symbol s is the codeword c, give or take.
Near(s, c, tol0, tol1) ==
    /\ Within(s.duration0, c.duration0, tol0)
    /\ Within(s.duration1, c.duration1, tol1)

As(s, d0, d1) == [s EXCEPT !.duration0 = d0, !.duration1 = d1]

\* Mutant: one window for both leading codes, so a repeat code that comes late
\* is taken for a leading code.
CanonWide(s) ==
    CASE s.duration1 = 0          -> As(s, Snap(s.duration0, 560, 560), 0)
      [] Near(s, Lead, 1200, 1700) -> As(s, 9000, 4500)
      [] OTHER -> As(s, Snap(s.duration0, 560, 1690), Snap(s.duration1, 560, 1690))

\* nec_canon_symbol: the end marker, the codewords, else each duration by itself.
\* The windows do not overlap.
Canon(s) ==
    CASE s.duration1 = 0            -> As(s, Snap(s.duration0, 560, 560), 0)
      [] Near(s, Lead, 1200, 1200)  -> As(s, 9000, 4500)
      [] Near(s, Repeat, 1200, 800) -> As(s, 9000, 2250)
      [] Near(s, Zero, 250, 250)    -> As(s, 560, 560)
      [] Near(s, One, 250, 350)     -> As(s, 560, 1690)
      [] OTHER -> As(s, Snap(s.duration0, 560, 1690), Snap(s.duration1, 560, 1690))

Normalized(f) == [i \in 1..Len(f) |-> Canon(f[i])]
-----------------------------------------------------------------------------
(* The capture and what ir_handle_rx_done makes of it.                     *)

Flipped(s) == [s EXCEPT !.level0 = 1 - @, !.level1 = 1 - @]

\* ir_apply_invert.
Inverted(f) == [i \in 1..Len(f) |-> Flipped(f[i])]

\* What the receiver makes of frame f.
Heard(f, noise) ==
    [i \in 1..Len(f) |->
        As(Flipped(f[i]), f[i].duration0 + noise[2 * i - 1],
           IF i = Len(f) THEN 0 ELSE f[i].duration1 + noise[2 * i])]

\* No pulse of the capture is lost.
Clear(raw) ==
    \A i \in 1..Len(raw) :
        raw[i].duration0 > 0 /\ (i < Len(raw) => raw[i].duration1 > 0)

\* The inversion and the hook, each as the options ask.
Processed(opts, raw) ==
    LET upright == IF opts.invert THEN Inverted(raw) ELSE raw
    IN  IF opts.normalize THEN Normalized(upright) ELSE upright

\* What ir_ctrl_learn_start makes of the limits: neither exceeds MaxFrame, and no
\* maximum is the largest one.
Shortest(opts) == IF opts.min > MaxFrame THEN MaxFrame ELSE opts.min
Longest(opts)  == IF opts.max = 0 \/ opts.max > MaxFrame THEN MaxFrame ELSE opts.max

\* Mutant: no upper limit is checked.
AcceptedLong(opts, raw) == Len(raw) > 0 /\ Len(raw) >= Shortest(opts)

\* The length checks of the handler, of the hook and of ir_store_frame.
Accepted(opts, raw) ==
    /\ Len(raw) \in 1..MaxFrame
    /\ Len(raw) >= Shortest(opts)
    /\ Len(raw) <= Longest(opts)

Ancestry(opts, heard, f) ==
    IF opts.invert /\ opts.normalize
    THEN [heard EXCEPT !.first = IF @ = << >> THEN f ELSE @]
    ELSE Unknown
-----------------------------------------------------------------------------
(* The units and what is on the air.                                       *)

\* A learn is refused while one is under way.
LearnStart(u) ==
    /\ unit[u] = Idle
    /\ \E s \in Slots, o \in Opts :
         unit' = [unit EXCEPT ![u] = [learning |-> TRUE, slot |-> s, opts |-> o]]
    /\ UNCHANGED <<slots, air, kin, sends>>

LearnCancel(u) ==
    /\ unit[u] # Idle
    /\ unit' = [unit EXCEPT ![u] = Idle]
    /\ UNCHANGED <<slots, air, kin, sends>>

\* Somebody presses a button of a remote control.
Press ==
    /\ sends < MaxSends
    /\ sends' = sends + 1
    /\ \E f \in Remotes :
         air' = [frame |-> f, kin |-> [origin |-> f, first |-> << >>]]
    /\ UNCHANGED <<slots, unit, kin>>

\* A unit that is not learning replays a slot that test_load finds valid.
Send(u) ==
    /\ unit[u] = Idle
    /\ sends < MaxSends
    /\ sends' = sends + 1
    /\ \E s \in Slots :
         /\ Len(slots[u][s]) \in 1..MaxFrame
         /\ air' = [frame |-> slots[u][s], kin |-> kin[u][s]]
    /\ UNCHANGED <<slots, unit, kin>>

\* What a receiver makes of a frame sent with its levels inverted, the pauses as
\* bursts, is left open.
Waveforms(f) == IF BurstsFirst(f) THEN {f} ELSE Remotes

\* The capture is stored in the slot of the learn.
Stored(u, raw) ==
    LET l == unit[u]
        f == Processed(l.opts, raw)
    IN  /\ Accepted(l.opts, raw)
        /\ slots' = [slots EXCEPT ![u][l.slot] = f]
        /\ kin' = [kin EXCEPT ![u][l.slot] = Ancestry(l.opts, air.kin, f)]

\* A learning unit captures what is on the air, and ir_handle_rx_done ends the
\* learn.  A capture that is not accepted, and one the storage does not take,
\* leaves the slot as it was.
RxDone(u) ==
    /\ unit[u] # Idle
    /\ air.frame # << >>
    /\ \E f \in Waveforms(air.frame) :
         \E noise \in [1..2 * Len(f) - 1 -> Jitter] :
            LET raw == Heard(f, noise)
            IN  Clear(raw) /\ (Stored(u, raw) \/ UNCHANGED <<slots, kin>>)
    /\ unit' = [unit EXCEPT ![u] = Idle]
    /\ UNCHANGED <<air, sends>>

Init ==
    /\ slots = [u \in Units |-> [s \in Slots |-> << >>]]
    /\ unit = [u \in Units |-> Idle]
    /\ air = [frame |-> << >>, kin |-> Unknown]
    /\ kin = [u \in Units |-> [s \in Slots |-> Unknown]]
    /\ sends = 0

Next ==
    \/ Press
    \/ \E u \in Units :
         LearnStart(u) \/ LearnCancel(u) \/ Send(u) \/ RxDone(u)

Spec == Init /\ [][Next]_vars
-----------------------------------------------------------------------------
(* Correctness.                                                            *)

Kinship  == [origin : Symbols, first : Symbols]
Learning == [learning : {TRUE}, slot : Slots, opts : LearnOpts]

TypeOK ==
    /\ slots \in [Units -> [Slots -> Symbols]]
    /\ \A u \in Units, s \in Slots : Len(slots[u][s]) <= MaxFrame
    /\ unit \in [Units -> {Idle} \cup Learning]
    /\ air \in [frame : Symbols, kin : Kinship]
    /\ kin \in [Units -> [Slots -> Kinship]]
    /\ sends \in 0..MaxSends

\* An NEC frame: a leading or a repeat code, then bits and the final burst.
IsNec(f) ==
    /\ Len(f) > 1
    /\ f[1] \in {Lead, Repeat}
    /\ \A i \in 2..Len(f) : f[i] \in {Zero, One}

\* The comparison of the tests: all but the pause after the last burst.
SameButTrailer(got, gold) ==
    /\ Len(got) = Len(gold)
    /\ \A i \in 1..Len(gold) :
         i < Len(gold) => got[i] = gold[i]
    /\ LET n == Len(gold)
       IN  n > 0 => As(got[n], got[n].duration0, 0) = As(gold[n], gold[n].duration0, 0)

\* An NEC frame learned with inversion and normalisation, from the remote control
\* or through any number of transceivers that learned it likewise, is the frame
\* the remote control sent.
LearnsNecExactly ==
    \A u \in Units, s \in Slots :
        IsNec(kin[u][s].origin) => SameButTrailer(slots[u][s], kin[u][s].origin)

\* utilities.c:80 "doesn't drift": whatever was learned first, a copy of a copy
\* equals the first copy, however many replays and captures lie between.
NoDrift ==
    \A u \in Units, s \in Slots :
        kin[u][s].first # << >> => slots[u][s] = kin[u][s].first
=============================================================================
