------------------------------ MODULE MCIrFrame ------------------------------
(***************************************************************************)
(* An instance of IrFrame for TLC: two transceivers with a slot each, a    *)
(* code, a repeat code, a frame of another protocol whose durations lie    *)
(* between the windows of the hook, a single burst and a frame that is     *)
(* too long.                                                               *)
(***************************************************************************)
EXTENDS IrFrame, TLC

CONSTANTS u1, u2

Code    == <<Lead, One, Zero>>
Again   == <<Repeat, Zero>>
Foreign == <<Pulse(8000, 3200), Pulse(1125, 600)>>
Blip    == <<Pulse(1690, 1690)>>
Long    == <<Lead, One, One, One>>

Frames == {Code, Again, Foreign, Blip, Long}

\* The tests' options, a learn without the hook, and one without inversion whose
\* least length is beyond the largest.
Tested == [invert |-> TRUE, normalize |-> TRUE, min |-> 1, max |-> 0]
Plain  == [invert |-> TRUE, normalize |-> FALSE, min |-> 2, max |-> 2]
Raw    == [invert |-> FALSE, normalize |-> TRUE, min |-> 4, max |-> 5]

Options == {Tested, Plain, Raw}

Errors == {-559, 564}

UnitSymmetry == Permutations({u1, u2})
=============================================================================
