# TLA+ specifications of the infrared transceiver firmware

This directory holds TLA+ specifications of the code under `src/`: an ESP32
firmware that learns infrared frames from a remote control and sends them again.
The modules are translated from the C sources; the documents and tests were read
for what they *promise*, and a promise the code does not keep is shown by a run
of its own (see "Disagreements").

## The system

| Component | State it keeps | Operations | Talks to |
|---|---|---|---|
| `ir_ctrl` (`components/ir_ctrl`) | `s_ctx`: state, learn generation, slot and options, two FreeRTOS queues, RMT channels and encoder, one mutex, one worker task | `ir_ctrl_init`, `_deinit`, `_learn_start`, `_learn_cancel`, `_send`, `_get_slot_info`, `_is_busy`; the receive-done interrupt; the worker task | the RMT driver; two storage callbacks the application supplies |
| `stg_man` (`components/stg_man`) | `s_inited`, `s_lock`, `s_wl_handle`, and the files of a FAT volume on flash | `stg_man_init`, `_deinit`, `_format`, `_check`, `_write`, `_read` | the FAT file system of ESP-IDF |
| `orchestrator` (`components/orchestrator/orch.c`) | `g_state`, `g_next_op_id` | `orch_init`, `orch_process_req`, the callback `on_state_change` | the event bus; a table of handlers |
| production handlers (`orch_handlers_prod.c`) | none | one stub per command | nothing yet |
| `evt_bus` (git submodule, no code in the repository) | a bounded queue, subscriptions, one dispatcher task | subscribe, publish | its subscribers |
| `retrofit_os` | none (types only) | - | - |
| frame data path: the symbols inside `ir_ctrl`, the hook `ir_post_nec_canon` (`apps/test_ir_ctrl/utilities.c`) and the slot storage of `test_ir_ctrl_main.c` | `s_slots`, `s_slot_valid` | invert, normalise, `test_store`, `test_load` | called by the worker of `ir_ctrl`; remote controls and other units over the air |
| `apps/system_demo`, `apps/test_*`, build, CI | none of the product's | - | - |
| communication, CMD service, scheduler, clock, authentication, error manager, power, config store | described in `docs/DESIGN.md` | no code exists | - |

At this commit the components do not call one another: the handlers of the
orchestrator are stubs, and the storage callbacks of `ir_ctrl` are the
application's (the test application keeps frames in RAM). So each component is
specified with its own environment.

What is hard in this code, and what makes each component correct:

* **`ir_ctrl`** is concurrent in four ways at once. Clients check the state under
  the lock, *release it*, and then post; the worker acts on the command later;
  the interrupt posts events for a learn that may be over; `ir_ctrl_deinit` may
  come at any moment and deletes the worker wherever it is. Correct means: the
  state agrees with the hardware; a learn has exactly one capture that may end
  it; learning and sending exclude each other; a stored frame belongs to the
  learn whose slot and limits it was checked against; a blocking send leaves the
  transmitter with a pointer to a frame that no longer exists only if it fails;
  nothing is freed while somebody uses it, and nothing is left behind; every command
  is served and every call returns.
* **The frame data path** sees a captured frame inverted, with inexact durations
  and without its last pause, and what it stores is sent and captured again.
  Correct means: an NEC frame is recovered exactly, and a copy of a copy does not
  drift away from the first, whatever protocol it was.
* **`stg_man`** must keep files whole through failures and power losses, while
  all files share one temporary file and a missing or short file is healed
  on the way. Correct means: each file is an atomic register, an acknowledged
  write stays readable, a failure of one call does not touch another file,
  nobody works on a volume that was taken down while it waited, and no path
  returns with the mutex held.
* **`orchestrator`** reads its state in one task and writes it in another. Correct
  means: the gate follows the announced states in order and catches up with
  them, and concurrent handlers have distinct nonzero operation ids.

`PROJECT.json` lists every hazard with its line and the properties aimed at it.

## The modules

| Module | What it is |
|---|---|
| `IrCtrl` | the controller: clients, owner, worker, RMT peripheral |
| `IrSession` | what the controller promises, without tasks, queues or interrupts |
| `MCIrCtrl` | instances of `IrCtrl` for TLC |
| `IrCtrlProofs` | theorems about `IrCtrl` |
| `IrSessionProofs` | the theorem that `IrCtrl` implements `IrSession` |
| `IrFrame` | what happens to the symbols of a frame: capture, inversion, the NEC hook, storage, replay, and capture by another unit |
| `MCIrFrame` | an instance of `IrFrame` for TLC |
| `IrFrameProofs` | theorems about `IrFrame` |
| `StgMan` | the storage manager, one step per file-system call, with power loss |
| `StgStore` | what it promises: each file is an atomic register |
| `MCStgMan` | instances of `StgMan` for TLC |
| `StgManProofs` | theorems about `StgMan`, with the refinement of `StgStore` |
| `Orch` | the gate, the operation counter, and the bus around them |
| `MCOrch` | instances of `Orch` for TLC |
| `OrchProofs` | theorems about `Orch` |

### `IrCtrl`

A critical section of `s_ctx.lock` is one step, since none of them blocks. What
runs *outside* the lock is a step per call into the driver, a queue or a storage
callback.

| Actor | Actions | Code |
|---|---|---|
| client | `Check` | a call up to `ir_unlock()`: initialised, busy |
| | `Enqueue` | `xQueueSend` with no timeout; a full queue refuses |
| | `Poll` | a blocking send polling `ir_ctrl_is_busy` |
| | `SlotInfoDone` | the load callback of `get_slot_info`, unlocked |
| RMT | `RxDone` | `ir_rx_done_isr`: an event, or a drop |
| | `TxDone` | the transaction on the air ends |
| worker | `RxTake`, `Judge`, `Store`, `Finish`, `Reject` | `ir_handle_rx_done` |
| | `Drained`, `CmdTimeout`, `CmdTake`, `WorkerStop` | the loop of `ir_ctrl_task` |
| | `LearnStart`, `LearnCancel` | `ir_do_learn_start`, `ir_do_learn_cancel` |
| | `SendBegin`, `Load`, `Prepare`, `Transmit`, `TxWait`, `Transmitted`, `SendEnd` | `ir_do_send` |
| owner | `InitOpen`, `StartTask`, `InitDone` | `ir_ctrl_init`; it may fail after any resource |
| | `DeinitBegin`, `PostStop`, `StopSeen`, `StopExpired`, `Free`, `Clear` | `ir_ctrl_deinit`, `ir_ctrl_stop_task` |

`Free` is one conditional delete, in the order `AfterFree` gives; `Clear` is the
`memset` at the end. An entry of the transmitter's queue (`Jobs`) says whether its send
was a blocking one and what became of that send: it runs, it is done, or it is broken,
by a failure or by the delete of the worker, and the buffer of its frames is gone.

Abstractions. A frame is the learn command that captured it and its number of
symbols. Time is left out: a timeout may expire at any moment. The postprocess hook
may return any length. Return codes are accepted or refused. A call on a NULL mutex
or queue, and a second delete of a task that is gone, set `panic`, and the system
stops. The receiver is `off`, `ready` or `receiving`, and a receive starts only from
`ready`; even then the driver may refuse it. Any call into the driver or the storage
may fail, with two exceptions that belong to the driver: `rmt_disable` of a channel
that is enabled succeeds, and a delete it refuses leaks inside the driver, since
`ir_ctrl_deinit` drops the handle all the same. The constant `Disciplined` says
whether clients call only between init and deinit; the safety run does without it.

`IrSession` has two variables besides the frames, the phase and the learn that
may still store. `IrCtrl` maps onto it by `PhaseOf` and `SessionOf`, and
`ImplementsSession` is checked as a property.

### `IrFrame`

`IrCtrl` has the control flow of a learn and forgets the symbols; `IrFrame` has
the symbols and makes a capture with its processing one step. The learn of a unit
is `LearnStart` and `LearnCancel` (a learn while one is under way is refused) and
ends with `RxDone`, which is `ir_handle_rx_done` from the capture to the store;
`Send` loads a slot and puts it on the air; `Press` is a remote control. `Canon`
is `nec_canon_symbol`, with its cases in their order.

The air is the environment: a receiver inverts the levels, each duration may be off
by an amount in `Jitter`, and the last pause is the idle line, which the RMT
peripheral writes as 0. A capture is delivered as a whole: what the driver does with
one longer than the buffer it was given (`ir_ctrl.c:277`) is not in the repository,
and the model leaves such a capture to the length checks behind it. What a receiver
makes of a frame that was stored, and is therefore sent, with its levels inverted is
left open (`Waveforms`): any frame of a remote control. `kin` is a history variable:
the remote control's frame a slot descends from, and the first copy of it.

### `StgMan`

A call is `Call` (up to `stg_lock()`), `Enter` (mutex, `s_inited`, path), then one
action per file-system call: `Mount`, `Unmount`, `Format`, `Stat`, `Heal`,
`Healing`, `OpenTmp`, `Fill`, `Remove`, `Rename`, `Clean`, `Read`. `Crash` may come
between any two of them: the disk stays, everything in RAM goes, and a write or a
format in progress may be cut anywhere. With `IOErrors` every operation may also
fail. A failed `stat()` makes the code take any file for a missing one, and a failed
`fread` for a short one: `Stat` then goes to `overwrite`, from where `Heal`
truncates the file in place, and what was acknowledged for it ends with that
decision. A format that fails may leave the volume out of the VFS (`mounted =
"lost"`) with `s_inited` still set; calls on files then fail until a deinit and a
new init. A file is what its header and length tell a reader: absent, short, of
another magic or version, torn, or whole. `rename` refuses an existing target, as
FAT does.

`StgStore` maps each file to what a reader would get (`StoredOf`). Between
`remove` and `rename` the file still counts as what it held: the mutex hides the
gap from every caller, though not from a power loss. A value is lost by a format or by
a call on that very file (`Lost`): a write that fails or is cut short, or any call that
fails to see the file.

### `Orch`

`Request` reads `g_state` once and decides; `NextOpId` and `NextOpIdAgain` are the
one or two atomic fetches; `Handle` runs the handler. `OrchInit` subscribes,
`Publish` fills the bus's queue or is refused, `Dispatch` takes one event, and
`OnStateChange` is one call of the callback, of which there may be several if
`orch_init` ran more than once. Every atomic access is a step. The code uses
relaxed ordering; the two atomics are never read together, and no property
relates them, so interleaving single accesses loses nothing.

## The runs

Runs that pass:

| Run | Bounds | What it shows |
|---|---|---|
| `core` | 2 clients (symmetric), undisciplined; 7 calls (strict, hooked learn, cancel, blocking, non-blocking and invalid send, slot info); 3 calls, 2 inits; `CmdDepth` 2, `RxDepth` 1, `TransDepth` 2, `GenMod` 2; 0.64 million states | `TypeOK`, `OneOperation`, `OneCapturePerLearn`, `BlockingSendOwnsItsFrames`, `BlockingSendWentOut`, `ReleaseIsQuiet`, `LeaksOnlyOnRetry`, `AssertsOnlyOutside`, `WorkerAdvances`, `ImplementsSession` |
| `live` | 2 clients, disciplined, 3 calls, 1 init, `CmdDepth` 1; no symmetry; 29 thousand states | `CommandsServed`, `CancelEnds`, `BlockingSendReturns`, `DeinitReturns` |
| `frame` | 2 units (symmetric) with one slot, 5 frames (code, repeat code, another protocol between the bins, one burst, too long), 3 options, errors -559 and 564 us, 2 transmissions; 69 thousand states | `TypeOK`, `LearnsNecExactly`, `NoDrift` |
| `store` | 2 tasks, 2 files, 5 contents at boot, 3 calls, 1 power loss, every operation may fail; 0.15 million states | `TypeOK`, `Durable`, `MountedWhileInside`, `NoLostMutex`, `NewBeforeOld`, `CallsAdvance`, `ImplementsStore`, `CallsReturn` |
| `gate` | 2 clients, 3 requests, 3 events of 5 kinds, queue of 1, 2 subscriptions, `OpIdMod` 3; 0.2 million states | `TypeOK`, `OpIdsDistinct`, `FollowsBus`, `NothingLost`, `LagBounded`, `CatchesUp` |

Why the bounds are enough. Three calls let one call finish, another race with it
from the other client and a third find the result; two inits let a failed or
finished life of the controller be followed by another one. A command queue of
two, or of one, overflows with three calls. `RxDepth` 1 makes any second receive
event a drop, which `OneCapturePerLearn` rules out for every depth. `GenMod` 2
lets the 16-bit generation wrap, `OpIdMod` 3 lets the operation counter wrap and
fetch 0. Repeats stay below `RepeatMod - 1`, where `1u + repeat` overflows in the
code. Two storage tasks on two files meet on the shared temporary file and on one
file; three calls are enough for a mount, a write, and a second call that reads,
fails, loses power or takes the volume down while the other waits; the theorems
below hold for any number. In `gate` one event is in delivery, one waits in the queue
of one, and the third finds it full. Two transmissions are a frame and its copy by the
other unit; the errors are the largest ones that leave a short and a long pulse
on their own sides of the halfway point 1125 us (560 + 564 and 1690 - 564; -559
keeps a short pulse above zero). The proofs below do away with the bounds for all the
safety properties. `CHECK_DEADLOCK FALSE` is set because a behaviour ends when its
budget of calls is spent, or in `panic`.

Symmetry is used in `core` and `frame` only, whose properties are safety properties
and in which the two clients, or the two units, are interchangeable.

## Fairness

* `Worker`: the worker task is scheduled, and its queue waits time out (50 ms).
* `Enqueue`, `Poll`, `SlotInfoDone` per client: a client inside a call is
  scheduled, and the storage callbacks return.
* `TxDone`: the transmitter finishes what it sends.
* Owner: an `ir_ctrl_init` or `_deinit` that began goes on; its poll is bounded by
  50 rounds, so `StopExpired` is as certain as `StopSeen`.
* `Step` per storage task: it is scheduled, and the file system answers or fails.
  Weak fairness is enough, also for the mutex: the calls of a behaviour are
  bounded, so a holder cannot take it again for ever. A mutex of FreeRTOS serves
  its waiters by priority and age; starvation by endless calls is outside the
  runs.
* `Bus`: the dispatcher task is scheduled.

No client has to call, no remote control has to answer a learn, and nobody has to
publish: hence a learn may stay open, and `BlockingSendReturns` says that it is the
only thing that can hold a blocking send: if no learn stays open for ever the send
returns. That a learn holds it at all is contrary to the documents (`timeout` below).

## Disagreements

Runs that end in a counterexample, each stating what a document, comment or test
says:

| Run | Said | Done |
|---|---|---|
| `relearn` | `ir_ctrl/README.md:95` "`IDLE`: accepts learn/send/get_slot_info" | the end of a learn disables the receive channel and nothing enables it again (`ir_ctrl.c:307`, `:413`, `:653`): every later learn fails until the controller is initialised anew |
| `blocking` | `ir_ctrl.h:134` "waits until TX is complete" | the poll may see a controller that is not busy *yet* and return before the worker took the command (`ir_ctrl.c:751`) |
| `timeout` | `ir_ctrl.h:207` "ESP_ERR_INVALID_STATE if busy learning/sending", `ir_ctrl/README.md:96` "`LEARNING`: rejects new learn/send/get_slot_info"; `ir_ctrl.h:87` "Max time to wait for a frame to be received" | a send while learning is accepted (`ir_ctrl.c:734` refuses `SENDING` only), the worker drops it, and a blocking one polls until the learn ends, then answers `ESP_OK`; `timeout_ms` is never read, so it may never end |
| `slotinfo` | `test_ir_ctrl_main.c:484` "avoids racing storage callbacks" | the busy check is made before the lock is released, the callback after it (`ir_ctrl.c:776`) |
| `sending` | `ir_ctrl.h:200` "The module enters SENDING state while TX is active." | a non-blocking send writes IDLE as soon as its frames are queued (`ir_ctrl.c:520`); a learn may start and hear the unit itself, and the transmitter reads a stack frame that is gone |
| `powerloss` | `stg_man/README.md:42` "Safe against power loss during writes" | `remove` comes before `rename` (`stg_man.c:408`); a power loss in between leaves neither the old nor the new payload |
| `stale` | `CONTROL_PLANE_ASYNC_WORKFLOW_MVP.md:62` "Gate all commands based on: Current state" | the state is read once (`orch.c:93`); a handler may start after the gate was locked |

Five more need no run, since the code can be seen to do it. `stg_man.h:57` says of
`stg_man_init` "Ensures the default file exists and contains a valid header.", and
the code mounts the volume and returns without looking at it; the first write or
check creates it. `stg_man.h:82` says of `stg_man_deinit` "ESP_ERR_INVALID_STATE if
the storage manager was not initialized", and the code answers `ESP_OK`.
`ir_ctrl.h:135` says of an override "use carrier_hz/duty_cycle instead of slot/default
config": a send without one applies nothing (`ir_ctrl.c:137`), and the default is
applied by `ir_ctrl_init` only (`:634`), so after one override every later send goes out
with that carrier. The variable `carrier` keeps it. `stg_man.h:155` says of
`stg_man_check` "Verifies that the file exists", and the code creates a missing file, as
`test_stg_man_main.c:99` expects. The same path makes `stg_man_check` rewrite an
existing file when `stat()` fails for another reason (`stg_man.c:152`), although
`stg_man.h:153` announces to "Validate the storage file header."

## What is proved

The theorems hold for every value of the constants that satisfies the module's
named assumption: any number of clients, tasks, files and calls, any queue
depth. The assumptions say what kind of thing each constant is (`IrCtrlAssumption`:
depths and moduli are positive, the calls are API calls; `StgManAssumption`: the
owner is a task, the temporary file is no caller's file, `NoFile` is no payload;
`IrFrameAssumption`: remote controls send bursts and pauses of positive length, and
an error of a duration is at most 564 us; `OrchAssumption`: the queue and the
subscriptions hold at least one, the counter wraps at more than 2)
and are evaluated by TLC in every run. Every safety property of every passing run,
the two refinements included, is a theorem.

**`IrCtrlProofs`.** `TypeCorrect`, `StateAgrees` (`OneOperation`), `OneCapture`
(`OneCapturePerLearn`), `FramesOwned` (`BlockingSendOwnsItsFrames`),
`BlockingSendSent` (`BlockingSendWentOut`), `QuietRelease` (`ReleaseIsQuiet`),
`ReleasesEverything` (`LeaksOnlyOnRetry`), `MisuseOnly` (`AssertsOnlyOutside`),
`WorkerComesBack` (`WorkerAdvances`) and `DrainIsShort`. None of the invariants is inductive by
itself. The strengthening is
`IInv == TypeOK /\ InHand /\ Lifecycle /\ ReleaseInv /\ ReceiveInv /\ SendInv /\ AirInv`:

* `InHand`: what each program counter says of the command in hand;
* `Lifecycle`: where the worker can be in each phase of the owner, and that the
  resources are there as long as the worker may touch them, and gone once the
  controller is down;
* `ReleaseInv`: which of them the release has come past, and that what is in a queue
  or in a channel implies that the queue or the channel is there still; hence
  `ReleasesEverything`, that the final `memset` has nothing left to forget;
* `ReceiveInv`: at most one capture exists *as long as the worker runs*, also in
  the state `UNINIT` that a deinit under way makes of any other, and a stale event
  is drained before the next command is taken;
* `SendInv`: during a send there is no capture, and a queued blocking frame means
  that the worker waits for it or that its send has failed;
* `AirInv`: frames of a blocking send gone out, on the air and left add up to its
  total, and its frame is behind those of earlier sends in the transmitter's queue.

Types have one lemma per action; each other conjunct has one lemma with a step per
action (`HandStep`, `LifecycleStep`, `ReceiveStep`, `SendStep`, `AirStep`).

`BlockingSendSent` speaks of the error inside `ir_do_send`; the client is answered
`ESP_OK` in any case, since the worker keeps that error to itself. When the wait of a
blocking send fails (`ir_ctrl.c:504`) its frame stays queued while the buffer goes with
the stack: `FramesOwned` confines such a frame to sends that failed, and the wait of the
next send, which asks for an empty queue, counts only its own.

Three theorems are about progress, without its fairness. `WorkLeft` counts the steps
the worker can still take before it looks at the command queue: what is left of the
command in hand, and five steps for each capture it may meet on the way.
`WorkerComesBack` says that every step of the worker lowers it and no interrupt or
other task raises it; a frame that arrives only moves its capture from the receiver to
`rx_evt_q`, for which the proof needs `ReceiveInv`, a capture counted once.
`DrainIsShort` adds that in the drain loop it is six at most, since at most one capture
exists. With a scheduled worker this is what `CommandsServed` and `CancelEnds` rest on.
`MisuseOnly` confines the assertions of NULL handles to calls before a successful init
or after the end of a deinit's poll (`Lifecycle`), and to the second delete of the
worker at `ir_ctrl.c:197`.

**`IrSessionProofs`.** `Implements` (`ImplementsSession`), over `IInv /\ LearnInv`.
`LearnInv` says that the captures in `rx_evt_q`, the slot and options in `s_ctx` and
the worker's snapshot of them all belong to one learn, that the API has replaced a
maximum of 0 on every way a command takes to the worker, and that a frame about to be
stored fits its learn. `SessionStep` maps every action to an action of `IrSession` or
to a stutter. The steps that matter are `RxTake`, a stutter because the capture is of
the learn under way; `Store`, the one store of the session; and `DeinitBegin`, which
ends a learn, unless its frame is in the worker's hand already.

**`IrFrameProofs`.** `TypeCorrect`, `NecIsExact` (`LearnsNecExactly`),
`CopiesDoNotDrift` (`NoDrift`), `CanonSettles` and `ToleranceIsExact`, for every set of frames, every length and every
number of units. Two lemmas carry them. `CanonRecovers`: a codeword whose
durations are each off by at most 564 us is brought back by `nec_canon_symbol`,
within its window by the window, outside by the nearest bin, and the same holds of a
symbol already made of bins. `Recovery`: hence the processing of a capture of a
frame of such symbols gives the frame, but for the last pause, which is 0 and stays
0. The invariant `IInv == TypeOK /\ KinInv` says of each slot and of the frame on the
air that it is normal and of the ancestry `kin` tells.

Two theorems are about the hook itself. `CanonSettles`: normalising a symbol twice is
normalising it once, for every symbol, a codeword or not; this is the comment "doesn't
drift" at `utilities.c:80` without any error of the air. `ToleranceIsExact`: 564 us is
the largest error the hook corrects in every codeword, since a long pause 565 us short
is read as a short one; so the bound on `Jitter` in `IrFrameAssumption` cannot be made
any weaker.

**`StgManProofs`.** `TypeCorrect`, `AcknowledgedIsDurable` (`Durable`),
`MountedForCalls` (`MountedWhileInside`), `MutexIsGivenBack` (`NoLostMutex`),
`OldOrNewIsThere` (`NewBeforeOld`), `CallsGoOn` (`CallsAdvance`) and `Implements`
(`ImplementsStore`), over
`IInv == TypeOK /\ InCall /\ NoLostMutex /\ OnTheDisk /\ Durable /\ MountInv`: who is
past `stg_lock()` holds the mutex (`InCall`), who holds it is in a call
(`NoLostMutex`), and what it knows of the disk is still so (`OnTheDisk`): the temporary
file holds its payload until the rename, and the file it is about to replace is gone or
is still what it was; a file it is about to overwrite has nothing acknowledged.
`MountInv` says that `s_inited` implies that the volume was mounted and not unmounted
since, and that who is inside has read it under the mutex. The refinement maps every action to an action of
`StgStore` or to a stutter; the step that matters is `Remove`, which is a stutter, and
`Rename`, at which the register changes.

`NewBeforeOld` is what is left of the promise that `powerloss` refutes: when an old
payload is given up by a write, by a failed rename or by a power loss behind `remove`,
the new one is whole in `UTSTG.TMP` at that moment, although no code looks for it there.
What it excepts, a format and the rewrite of a file that `stat()` or `fread` failed to
see, is what else the code gives a payload up for. `AcknowledgedIsDurable` says the same
of what was acknowledged, with the second exception as the step `Stat` to `overwrite`.
`NoLostMutex` and `CallsAdvance` are the safety half of `CallsReturn`: the mutex is
never left behind, and no failure sends a call back to an earlier step.

**`OrchProofs`.** `TypeCorrect`, `OpIdsAreDistinct` (`OpIdsDistinct`), `GateFollows`
(`FollowsBus`), `NothingIsLost` (`NothingLost`) and `StalenessIsBounded`
(`LagBounded`), over
`IInv == TypeOK /\ Numbered /\ Queued /\ Followed /\ Fetched /\ OpIdsDistinct`.
`Fetched` says how far the counter has run ahead of each op_id in use, modulo
`OpIdMod`: less than a round, unless the client was overtaken, so the counter cannot
be back at it; and after a second fetch it is not 0. `Numbered` says that the entries
of the queue carry the states announced last, so that `Taken`, how many of them the
dispatcher has taken, can be read off the head of the queue. `Followed` ties what the
gate has applied to `Taken`: between deliveries it has applied all that was announced
since the subscription, and during one all but the event in delivery, however many
callbacks of it are left. `Queued` finds in the queue an entry for each state
announced and not yet taken, no further back than there are entries behind it. `NothingIsLost` is the safety half of `CatchesUp`; and
`StalenessIsBounded` says how far wrong the read in the decision that `stale` shows
can be: `g_state` lacks at most the states a full queue holds and the one in delivery.

## What is only model-checked

* Liveness: `CommandsServed`, `CancelEnds`, `BlockingSendReturns`, `DeinitReturns`,
  `CallsReturn`, `CatchesUp`. Liveness under fairness, and `ENABLED`, are out of the
  reach of the provers installed. For the worker, the storage calls and the gate the
  part that does not depend on fairness is proved (`WorkerAdvances`, `NoLostMutex` and
  `CallsAdvance`, `NothingLost`). That a blocking send and a deinit return
  (`BlockingSendReturns`, `DeinitReturns`) also rests on polls, and stays with TLC.

No module uses a recursive operator.

## What is not modelled, and why

* A second `ir_ctrl_init` on a running controller, calls of init and deinit from
  two tasks at once, and two tasks in the first `stg_man_init`: `stg_man.h:70` asks
  for one call at startup; a second `ir_ctrl_init` clears `s_ctx` under the running
  worker, whose next `ir_lock` asserts, so there is nothing to say of what follows.
* The interrupt counters of `ir_ctrl` and their printing: statistics.
* Gaps between repeats: time. Of the carrier frequencies only whether the default or
  an override is applied (`carrier`).
* In `IrFrame`: timing within a learn, and more than one frame on the air at once.
  The hook is the one the test application passes; `IrCtrl` lets a hook return any
  length.
* A relative path equal to `UTSTG.TMP`, path lengths, and the checks of the
  configuration.
* Of the event bus: unsubscribing, handle generations, several subscribers. Its
  code is not in the repository.
* The demonstration and test applications, the type definitions, the build, and
  the services that exist only in `docs/`.

## Plan

Done: the inventory; `IrCtrl`, `IrFrame`, `StgMan` and `Orch` with their runs, their
theorems and both refinement proofs; the safety halves of the liveness properties, by
measures. What could follow:

1. An abstract gate (a state that moves only along the announced ones, requests
   answered by a state of the recent past) and the proof that `Orch` implements it.
2. A measure for the rounds of `ir_ctrl_deinit` and the poll of a blocking send.
3. A composition of `ir_ctrl` with `stg_man` behind its storage callbacks, as
   `docs/DESIGN.md` plans it, once the code has one.
4. The event bus in a module of its own, with unsubscribing and handle generations,
   once its code is in the repository or a component under `src/` uses them.
