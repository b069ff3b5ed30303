----------------------------- MODULE IrSession -----------------------------
(***************************************************************************)
(* What the IR controller promises about its two operations, without its   *)
(* tasks, queues and interrupts: learning and sending exclude each other,  *)
(* a learn stores at most one frame, in its own slot and within its own    *)
(* limits, and stores nothing once it has ended.                           *)
(***************************************************************************)
EXTENDS Integers

CONSTANTS Learns,    \* learn commands: [op, slot, opts]
          MaxSyms,   \* IR_CTRL_MAX_FRAME_SIZE
          None       \* no session

VARIABLES phase,     \* "quiet", "learning" or "sending"
          session,   \* the learn that may still store a frame, or None
          frames     \* what storage holds, by slot

sessionVars == <<phase, session, frames>>

\* The length of a frame the learn may store; a hook may change the length.
Fits(learn, n) ==
    /\ n \in 1..MaxSyms
    /\ (learn.opts.present /\ ~learn.opts.hook) =>
           learn.opts.min <= n /\ n <= learn.opts.max

LearnBegins ==
    /\ phase = "quiet"
    /\ session = None
    /\ phase' = "learning"
    /\ session' \in Learns
    /\ UNCHANGED frames

\* The one store of a session.  A deinit may have made the controller quiet
\* between the capture and the store.
FrameStored ==
    /\ session # None
    /\ \E n \in 1..MaxSyms :
         /\ Fits(session, n)
         /\ frames' = [frames EXCEPT ![session.slot] = [for |-> session, syms |-> n]]
    /\ session' = None
    /\ UNCHANGED phase

\* The learn loses the right to store: its capture is refused.
CaptureRefused ==
    /\ session # None
    /\ session' = None
    /\ UNCHANGED <<phase, frames>>

LearnEnds ==
    /\ phase = "learning"
    /\ phase' = "quiet"
    /\ session' = None
    /\ UNCHANGED frames

SendBegins ==
    /\ phase = "quiet"
    /\ session = None
    /\ phase' = "sending"
    /\ UNCHANGED <<session, frames>>

SendEnds ==
    /\ phase = "sending"
    /\ phase' = "quiet"
    /\ UNCHANGED <<session, frames>>

\* ir_ctrl_deinit cuts a learn short; a store already under way may finish.
LearnAbandoned ==
    /\ phase = "learning"
    /\ phase' = "quiet"
    /\ UNCHANGED <<session, frames>>

SessionInit == phase = "quiet" /\ session = None

SessionNext ==
    \/ LearnBegins \/ FrameStored \/ CaptureRefused \/ LearnEnds \/ LearnAbandoned
    \/ SendBegins \/ SendEnds

SessionSpec == SessionInit /\ [][SessionNext]_sessionVars
=============================================================================
