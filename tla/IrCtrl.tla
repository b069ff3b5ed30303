------------------------------- MODULE IrCtrl -------------------------------
(***************************************************************************)
(* The IR learn/replay controller, components/ir_ctrl/ir_ctrl.c.           *)
(*                                                                         *)
(* Four kinds of actor share the context s_ctx:                            *)
(*   - client tasks, which call learn_start, learn_cancel, send and        *)
(*     get_slot_info: each checks the state under the lock, releases the   *)
(*     lock, and only then posts a command;                                *)
(*   - the owner task, which calls ir_ctrl_init and ir_ctrl_deinit;        *)
(*   - the worker task, which drains rx_evt_q and then takes one command;  *)
(*   - the RMT peripheral: the receive-done interrupt and the transmitter. *)
(*                                                                         *)
(* A critical section of s_ctx.lock is one step: none of them blocks.      *)
(* Symbols are abstracted to their number, and a frame to the learn        *)
(* command that captured it.  Time is abstracted: a timeout may expire at  *)
(* any moment.  Return codes are abstracted to accepted and refused.       *)
(***************************************************************************)
EXTENDS Integers, Sequences, FiniteSets

CONSTANTS
    Clients,      \* application tasks that call the API
    Slots,        \* slot indices, with 0
    Calls,        \* the calls a client may make
    Counts,       \* symbol counts the receiver may report
    Callbacks,    \* the storage callbacks the configuration sets
    MaxSyms,      \* IR_CTRL_MAX_FRAME_SIZE
    CmdDepth,     \* IR_CTRL_CMD_QUEUE_DEPTH
    RxDepth,      \* IR_CTRL_RX_QUEUE_DEPTH
    TransDepth,   \* trans_queue_depth of the TX channel
    GenMod,       \* 2^16 in the code: learn_gen is a uint16_t
    RepeatMod,    \* 2^32 in the code: repeat and total are uint32_t
    MaxCalls,     \* bound: API calls in a behaviour
    MaxInits,     \* bound: calls of ir_ctrl_init in a behaviour
    Disciplined   \* clients call only between init and deinit

LearnOpts == [present : BOOLEAN, min : Nat, max : Nat, hook : BOOLEAN]
SendOpts  == [repeat : Nat, blocking : BOOLEAN,
              carrier : {"keep", "override", "invalid"}]

LearnCalls  == [op : {"learn_start"}, slot : Slots, opts : LearnOpts]
SendCalls   == [op : {"send"}, slot : Slots, opts : SendOpts]
CancelCalls == [op : {"learn_cancel"}]
InfoCalls   == [op : {"get_slot_info"}, slot : Slots]
ApiCalls    == LearnCalls \cup SendCalls \cup CancelCalls \cup InfoCalls

ASSUME IrCtrlAssumption ==
    /\ 0 \in Slots
    /\ Slots \subseteq Nat
    /\ Calls \subseteq ApiCalls
    /\ Counts \subseteq Nat
    /\ Callbacks \subseteq {"store", "load"}
    /\ {MaxSyms, CmdDepth, RxDepth, TransDepth, GenMod, RepeatMod}
           \subseteq Nat \ {0}
    /\ MaxCalls \in Nat
    /\ MaxInits \in Nat
    /\ Disciplined \in BOOLEAN

VARIABLES
    state,      \* s_ctx.state
    learnGen,   \* s_ctx.learn_gen
    activeGen,  \* s_ctx.active_learn_gen
    learnSlot,  \* s_ctx.learn_slot
    learnOpts,  \* s_ctx.learn_opts and learn_opts_present
    handles,    \* resources s_ctx holds: lock, queues, channels, encoder
    cmdq,       \* s_ctx.cmd_q
    rxq,        \* s_ctx.rx_evt_q
    rxHw,       \* the RX channel
    txq,        \* the TX channel's transactions, the head on the air
    carrier,    \* the carrier applied to the TX channel
    frames,     \* what the storage callbacks have stored, by slot
    wpc,        \* where the worker task is
    wcmd,       \* the worker's current command
    wev,        \* the RX event it handles, with its snapshot of s_ctx
    wleft,      \* transmissions the current send has left
    wok,        \* err == ESP_OK at the end of the current send
    cpc,        \* where each client is
    ccall,      \* each client's current call
    owner,      \* where the owner task is
    panic,      \* a FreeRTOS assertion on a NULL handle, or a corrupted heap
    calls,      \* API calls made so far
    inits,      \* calls of ir_ctrl_init made so far
    rxFor,      \* history: the learn call the receiver was armed for
    aired       \* history: frames of the current send that have gone out

ctxVars    == <<state, learnGen, activeGen, learnSlot, learnOpts>>
workerVars == <<wpc, wcmd, wev, wleft, wok>>
clientVars == <<cpc, ccall, calls>>
ownerVars  == <<owner, inits>>
vars == <<ctxVars, handles, cmdq, rxq, rxHw, txq, carrier, frames, workerVars,
          clientVars, ownerVars, panic, rxFor, aired>>

NoOpts   == [present |-> FALSE, min |-> 0, max |-> 0, hook |-> FALSE]
NoCall   == [op |-> "none"]
StopCmd  == [from |-> "owner", call |-> [op |-> "stop"]]
NoCmd    == [from |-> "owner", call |-> NoCall]
NoEvent  == [n |-> 0, for |-> NoCall, slot |-> 0, opts |-> NoOpts]
Empty    == [for |-> NoCall, syms |-> 0]

States    == {"UNINIT", "IDLE", "LEARNING", "SENDING"}
Resources == {"lock", "rx_evt_q", "cmd_q", "rx_chan", "tx_chan", "copy_enc"}
Driver    == {"rx_chan", "tx_chan", "copy_enc"}

\* What ir_ctrl_init creates before it looks whether it got it, in its order.
Opening == <<{"lock"}, {"rx_evt_q", "cmd_q"}, {"rx_chan"}, {"tx_chan"}, {"copy_enc"}>>
Opened(k) == UNION {Opening[i] : i \in 1..k}

\* Program counters: the worker inside ir_handle_rx_done and inside ir_do_send.
InRxDone == {"judge", "store", "finish", "reject"}
InSend   == {"load", "prepare", "tx", "wait", "end"}
\* The owner inside ir_ctrl_init, and inside ir_ctrl_deinit: stopping the task, and
\* at the delete of a resource or at the memset that ends it.
Starting == {"opened", "started"}
Freeing  == Resources \cup {"clear"}
Closing  == {"stop", "poll"} \cup Freeing
-----------------------------------------------------------------------------
(* Utilities.                                                              *)

Inited == state # "UNINIT" /\ Driver \subseteq handles

Busy == state \in {"LEARNING", "SENDING"}

\* What ir_finish_to_idle_locked writes.
FinishToIdle ==
    /\ state' = "IDLE"
    /\ learnSlot' = 0
    /\ learnOpts' = NoOpts

\* Mutant: the cancel forgets ir_finish_to_idle_locked.
StopLearningKeepsState ==
    /\ activeGen' = 0
    /\ rxHw' = "off"
    /\ UNCHANGED <<state, learnSlot, learnOpts, learnGen>>

\* Mutant: a refused capture is waited for again.
StopLearningRetries == rxHw' = "receiving" /\ UNCHANGED ctxVars

\* ir_do_learn_cancel past its guards: the capture is dropped with the channel.
StopLearning ==
    /\ activeGen' = 0
    /\ rxHw' = "off"
    /\ FinishToIdle
    /\ UNCHANGED learnGen

CancelLearn ==
    IF Inited /\ state = "LEARNING"
    THEN StopLearning
    ELSE UNCHANGED <<ctxVars, rxHw>>

\* The limits a capture of n symbols is held to.
WithinLimits(opts, n) ==
    /\ n <= MaxSyms
    /\ opts.present =>
         /\ opts.min # 0 => n >= opts.min
         /\ opts.max # 0 => n <= opts.max

\* The options as ir_ctrl_learn_start posts them.
Clamp(opts) ==
    IF opts.present
    THEN [opts EXCEPT !.max = IF @ = 0 \/ @ > MaxSyms THEN MaxSyms ELSE @,
                      !.min = IF @ > MaxSyms THEN MaxSyms ELSE @]
    ELSE NoOpts

\* Mutant: the first transmission is counted as a repetition.
TotalOffByOne(opts) == opts.repeat

\* uint32_t total = 1u + repeat.
Total(opts) == (1 + opts.repeat) % RepeatMod
-----------------------------------------------------------------------------
(* Client tasks.                                                           *)

\* What each call asks of the state before it goes on.
Admits(call) ==
    /\ Inited
    /\ CASE call.op \in {"learn_start", "get_slot_info"} -> ~Busy
         [] call.op = "send" -> state # "SENDING"
         [] call.op = "learn_cancel" -> TRUE

\* The command a call posts.
Posted(call) ==
    IF call.op = "learn_start" THEN [call EXCEPT !.opts = Clamp(@)] ELSE call

Blocking(call) == call.op = "send" /\ call.opts.blocking

\* The API returns to its caller.
Return(c) ==
    /\ cpc' = [cpc EXCEPT ![c] = "idle"]
    /\ ccall' = [ccall EXCEPT ![c] = NoCall]

\* A call up to ir_unlock().  ir_lock() on a NULL mutex asserts.
Check(c) ==
    /\ ~panic
    /\ cpc[c] = "idle"
    /\ calls < MaxCalls
    /\ Disciplined => owner = "up"
    /\ \E call \in Calls :
         IF "lock" \notin handles
         THEN panic' = TRUE /\ UNCHANGED clientVars
         ELSE /\ calls' = calls + 1
              /\ IF Admits(call)
                 THEN /\ ccall' = [ccall EXCEPT ![c] = Posted(call)]
                      /\ cpc' = [cpc EXCEPT ![c] = IF call.op = "get_slot_info"
                                                   THEN "loading" ELSE "enqueue"]
                 ELSE UNCHANGED <<ccall, cpc>>
              /\ UNCHANGED panic
    /\ UNCHANGED <<ctxVars, handles, cmdq, rxq, rxHw, txq, carrier, frames,
                   workerVars, ownerVars, rxFor, aired>>

\* xQueueSend with no timeout: a full queue refuses the command.  A blocking
\* send goes on to poll ir_ctrl_is_busy.
Enqueue(c) ==
    /\ ~panic
    /\ cpc[c] = "enqueue"
    /\ IF "cmd_q" \notin handles
       THEN panic' = TRUE /\ UNCHANGED <<cmdq, cpc, ccall>>
       ELSE /\ IF Len(cmdq) < CmdDepth
               THEN /\ cmdq' = Append(cmdq, [from |-> c, call |-> ccall[c]])
                    /\ IF Blocking(ccall[c])
                       THEN cpc' = [cpc EXCEPT ![c] = "poll"] /\ UNCHANGED ccall
                       ELSE Return(c)
               ELSE Return(c) /\ UNCHANGED cmdq
            /\ UNCHANGED panic
    /\ UNCHANGED <<ctxVars, handles, rxq, rxHw, txq, carrier, frames, workerVars,
                   calls, ownerVars, rxFor, aired>>

\* The poll of a blocking send that finds the controller not busy.
Poll(c) ==
    /\ ~panic
    /\ cpc[c] = "poll"
    /\ IF "lock" \notin handles
       THEN panic' = TRUE /\ UNCHANGED <<cpc, ccall>>
       ELSE ~Busy /\ Return(c) /\ UNCHANGED panic
    /\ UNCHANGED <<ctxVars, handles, cmdq, rxq, rxHw, txq, carrier, frames,
                   workerVars, calls, ownerVars, rxFor, aired>>

\* get_slot_info comes back from the load callback, which it runs unlocked.
SlotInfoDone(c) ==
    /\ ~panic
    /\ cpc[c] = "loading"
    /\ Return(c)
    /\ UNCHANGED <<ctxVars, handles, cmdq, rxq, rxHw, txq, carrier, frames,
                   workerVars, calls, ownerVars, panic, rxFor, aired>>
-----------------------------------------------------------------------------
(* The RMT peripheral and its driver.                                      *)

\* The receive started by rmt_receive ends with n symbols: the channel is
\* ready again and ir_rx_done_isr posts the event, or drops it.
RxDone ==
    /\ ~panic
    /\ rxHw = "receiving"
    /\ \E n \in Counts :
         rxq' = IF Len(rxq) < RxDepth
                THEN Append(rxq, [n |-> n, for |-> rxFor])
                ELSE rxq
    /\ rxHw' = "ready"
    /\ UNCHANGED <<ctxVars, handles, cmdq, txq, carrier, frames, workerVars,
                   clientVars, ownerVars, panic, rxFor, aired>>

\* The transaction on the air ends; the next one starts.
TxDone ==
    /\ ~panic
    /\ txq # << >>
    /\ txq' = Tail(txq)
    /\ aired' = IF Head(txq).send = "runs" THEN aired + 1 ELSE aired
    /\ UNCHANGED <<ctxVars, handles, cmdq, rxq, rxHw, carrier, frames, workerVars,
                   clientVars, ownerVars, panic, rxFor>>
-----------------------------------------------------------------------------
(* The worker task, ir_ctrl_task.                                          *)

\* The worker goes on at pc with no command or event in hand.
GoTo(pc) ==
    /\ wpc' = pc
    /\ wcmd' = NoCmd
    /\ wev' = NoEvent
    /\ wleft' = 0
    /\ wok' = TRUE
    /\ aired' = 0

\* Mutant: a command trusts the check the API made before posting it.
MayBeginUnchecked(callback) == Inited /\ callback \in Callbacks

\* What a learn and a send ask of the state before they begin.
MayBegin(callback) == Inited /\ ~Busy /\ callback \in Callbacks

\* Take an RX event and snapshot the learn under the lock.  Outside LEARNING,
\* or from an older learn, the event is stale.
RxTake ==
    /\ wpc = "drain"
    /\ rxq # << >>
    /\ rxq' = Tail(rxq)
    /\ IF state = "LEARNING" /\ activeGen = learnGen
       THEN /\ wpc' = "judge"
            /\ wev' = [n |-> Head(rxq).n, for |-> Head(rxq).for,
                       slot |-> learnSlot, opts |-> learnOpts]
       ELSE UNCHANGED <<wpc, wev>>
    /\ UNCHANGED <<ctxVars, handles, cmdq, rxHw, txq, carrier, frames, wcmd,
                   wleft, wok, clientVars, ownerVars, panic, rxFor, aired>>

\* The length checks, then the optional postprocess hook, which may produce any
\* number of symbols, and the check of what it produced and of ir_store_frame.
Judge ==
    /\ wpc = "judge"
    /\ \E n \in IF wev.opts.hook THEN Counts ELSE {wev.n} :
         IF WithinLimits(wev.opts, wev.n) /\ n \in 1..MaxSyms
         THEN wpc' = "store" /\ wev' = [wev EXCEPT !.n = n]
         ELSE wpc' = "reject" /\ UNCHANGED wev
    /\ UNCHANGED <<ctxVars, handles, cmdq, rxq, rxHw, txq, carrier, frames, wcmd,
                   wleft, wok, clientVars, ownerVars, panic, rxFor, aired>>

\* The store callback returns, with or without having stored.
Store ==
    /\ wpc = "store"
    /\ \/ /\ frames' = [frames EXCEPT ![wev.slot] =
                          [for |-> wev.for, syms |-> wev.n]]
          /\ wpc' = "finish"
       \/ /\ wpc' = "reject"
          /\ UNCHANGED frames
    /\ UNCHANGED <<ctxVars, handles, cmdq, rxq, rxHw, txq, carrier, wcmd, wev,
                   wleft, wok, clientVars, ownerVars, panic, rxFor, aired>>

\* The learn is over: the receiver is switched off and the state is IDLE,
\* whatever it was.
Finish ==
    /\ wpc = "finish"
    /\ GoTo("drain")
    /\ rxHw' = "off"
    /\ FinishToIdle
    /\ UNCHANGED <<learnGen, activeGen, handles, cmdq, rxq, txq, carrier, frames,
                   clientVars, ownerVars, panic, rxFor>>

\* A refused capture cancels the learn.
Reject ==
    /\ wpc = "reject"
    /\ GoTo("drain")
    /\ CancelLearn
    /\ UNCHANGED <<handles, cmdq, rxq, txq, carrier, frames, clientVars, ownerVars,
                   panic, rxFor>>

\* The RX queue is empty: on to the command queue.
Drained ==
    /\ wpc = "drain"
    /\ rxq = << >>
    /\ wpc' = "cmd"
    /\ UNCHANGED <<ctxVars, handles, cmdq, rxq, rxHw, txq, carrier, frames, wcmd,
                   wev, wleft, wok, clientVars, ownerVars, panic, rxFor, aired>>

\* 50 ms without a command: back to the RX queue.
CmdTimeout ==
    /\ wpc = "cmd"
    /\ cmdq = << >>
    /\ wpc' = "drain"
    /\ UNCHANGED <<ctxVars, handles, cmdq, rxq, rxHw, txq, carrier, frames, wcmd,
                   wev, wleft, wok, clientVars, ownerVars, panic, rxFor, aired>>

\* Take one command.
CmdTake ==
    /\ wpc = "cmd"
    /\ cmdq # << >>
    /\ cmdq' = Tail(cmdq)
    /\ wcmd' = Head(cmdq)
    /\ wpc' = wcmd'.call.op
    /\ UNCHANGED <<ctxVars, handles, rxq, rxHw, txq, carrier, frames, wev, wleft,
                   wok, clientVars, ownerVars, panic, rxFor, aired>>

\* Mutant: a failed rmt_receive leaves the learn standing.
ReceiveRefusedIgnored ==
    /\ state' = "LEARNING"
    /\ UNCHANGED <<learnSlot, learnOpts, rxHw, rxFor>>

\* rmt_receive failed: the learn is over before it began.
ReceiveRefused == FinishToIdle /\ UNCHANGED <<rxHw, rxFor>>

\* ir_do_learn_start.  rmt_receive wants an enabled channel that is not receiving,
\* and may fail on one; the generation advances even then.
LearnStart ==
    /\ wpc = "learn_start"
    /\ GoTo("drain")
    /\ IF ~MayBegin("store")
       THEN UNCHANGED <<ctxVars, rxHw, rxFor>>
       ELSE /\ learnGen' = (learnGen + 1) % GenMod
            /\ activeGen' = learnGen'
            /\ \/ /\ rxHw = "ready"
                  /\ state' = "LEARNING"
                  /\ learnSlot' = wcmd.call.slot
                  /\ learnOpts' = wcmd.call.opts
                  /\ rxHw' = "receiving"
                  /\ rxFor' = wcmd.call
               \/ ReceiveRefused
    /\ UNCHANGED <<handles, cmdq, rxq, txq, carrier, frames, clientVars, ownerVars,
                   panic>>

\* ir_do_learn_cancel.
LearnCancel ==
    /\ wpc = "learn_cancel"
    /\ GoTo("drain")
    /\ CancelLearn
    /\ UNCHANGED <<handles, cmdq, rxq, txq, carrier, frames, clientVars, ownerVars,
                   panic, rxFor>>

\* The frames of the ir_do_send under way, whose obj they are read from, when it is
\* over.
SendIsOver(how) ==
    txq' = [i \in DOMAIN txq |->
              IF txq[i].send = "runs" THEN [txq[i] EXCEPT !.send = how] ELSE txq[i]]

\* ir_do_send up to the first ir_unlock().
SendBegin ==
    /\ wpc = "send"
    /\ IF ~MayBegin("load")
       THEN GoTo("drain") /\ UNCHANGED state
       ELSE /\ wpc' = "load"
            /\ state' = "SENDING"
            /\ UNCHANGED <<wcmd, wev, wleft, wok, aired>>
    /\ UNCHANGED <<learnGen, activeGen, learnSlot, learnOpts, handles, cmdq, rxq,
                   rxHw, txq, carrier, frames, clientVars, ownerVars, panic, rxFor>>

\* Mutants: an early return past the label out, and a retry without end.
SendFailedReturns == wpc' = "drain" /\ wok' = FALSE
SendFailedRetries == UNCHANGED <<wpc, wok>>

\* goto out with an error.
SendFailed == wpc' = "end" /\ wok' = FALSE

\* Mutant: a blocking send does not wait for the transmitter.
AfterTransmitNoWait == "tx"

\* Where the transmission loop goes after rmt_transmit.
AfterTransmit == IF Blocking(wcmd.call) THEN "wait" ELSE "tx"

\* The load callback returns; it may fail even for a stored frame.
Load ==
    /\ wpc = "load"
    /\ \/ /\ frames[wcmd.call.slot] # Empty
          /\ wpc' = "prepare"
          /\ UNCHANGED wok
       \/ SendFailed
    /\ UNCHANGED <<ctxVars, handles, cmdq, rxq, rxHw, txq, carrier, frames, wcmd,
                   wev, wleft, clientVars, ownerVars, panic, rxFor, aired>>

\* The carrier override and the number of transmissions.
Prepare ==
    /\ wpc = "prepare"
    /\ LET opts == wcmd.call.opts
       IN  IF opts.carrier = "invalid"
           THEN SendFailed /\ UNCHANGED <<carrier, wleft>>
           ELSE /\ wpc' = "tx"
                /\ wleft' = Total(opts)
                /\ carrier' = IF opts.carrier = "override" THEN "override"
                                                           ELSE carrier
                /\ UNCHANGED wok
    /\ UNCHANGED <<ctxVars, handles, cmdq, rxq, rxHw, txq, frames, wcmd, wev,
                   clientVars, ownerVars, panic, rxFor, aired>>

\* One round of the transmission loop: rmt_transmit queues the frame, waiting
\* for a free transaction, or fails.
Transmit ==
    /\ wpc = "tx"
    /\ wleft > 0
    /\ \/ /\ Len(txq) < TransDepth
          /\ txq' = Append(txq, [blocking |-> Blocking(wcmd.call), send |-> "runs"])
          /\ wleft' = wleft - 1
          /\ wpc' = AfterTransmit
          /\ UNCHANGED wok
       \/ SendFailed /\ UNCHANGED <<txq, wleft>>
    /\ UNCHANGED <<ctxVars, handles, cmdq, rxq, rxHw, carrier, frames, wcmd, wev,
                   clientVars, ownerVars, panic, rxFor, aired>>

\* rmt_tx_wait_all_done with no timeout; when it fails the frame may be queued still.
TxWait ==
    /\ wpc = "wait"
    /\ \/ txq = << >> /\ wpc' = "tx" /\ UNCHANGED wok
       \/ SendFailed
    /\ UNCHANGED <<ctxVars, handles, cmdq, rxq, rxHw, txq, carrier, frames, wcmd,
                   wev, wleft, clientVars, ownerVars, panic, rxFor, aired>>

\* The loop ends.
Transmitted ==
    /\ wpc = "tx"
    /\ wleft = 0
    /\ wpc' = "end"
    /\ wok' = TRUE
    /\ UNCHANGED <<ctxVars, handles, cmdq, rxq, rxHw, txq, carrier, frames, wcmd,
                   wev, wleft, clientVars, ownerVars, panic, rxFor, aired>>

\* The end of ir_do_send: IDLE, whatever the state was, and its stack is gone.
SendEnd ==
    /\ wpc = "end"
    /\ GoTo("drain")
    /\ state' = "IDLE"
    /\ SendIsOver(IF wok THEN "done" ELSE "broken")
    /\ UNCHANGED <<learnGen, activeGen, learnSlot, learnOpts, handles, cmdq, rxq,
                   rxHw, carrier, frames, clientVars, ownerVars, panic, rxFor>>

\* IR_CMD_TASK_STOP: the worker deletes itself.
WorkerStop ==
    /\ wpc = "stop"
    /\ GoTo("gone")
    /\ UNCHANGED <<ctxVars, handles, cmdq, rxq, rxHw, txq, carrier, frames,
                   clientVars, ownerVars, panic, rxFor>>

WorkerStep ==
    \/ RxTake \/ Judge \/ Store \/ Finish \/ Reject
    \/ Drained \/ CmdTimeout \/ CmdTake
    \/ LearnStart \/ LearnCancel
    \/ SendBegin \/ Load \/ Prepare \/ Transmit \/ TxWait \/ Transmitted \/ SendEnd
    \/ WorkerStop

Worker == ~panic /\ WorkerStep
-----------------------------------------------------------------------------
(* The owner task.                                                         *)

\* Mutant: the result of a failed step is not looked at.
AbortsIgnored == owner' = "opened"

\* An early return of ir_ctrl_init: what it got so far stays in s_ctx.
Aborts == owner' = "failed"

\* ir_ctrl_init up to xTaskCreate.  It clears s_ctx, forgetting what a failed
\* init left in it, and stops at the first thing it cannot get or enable.
InitOpen ==
    /\ ~panic
    /\ owner \in {"down", "failed"}
    /\ inits < MaxInits
    /\ inits' = inits + 1
    /\ \/ /\ Aborts
          /\ \/ handles' = Resources
             \/ \E k \in 1..Len(Opening) :
                  \E got \in SUBSET Opening[k] \ {Opening[k]} :
                     handles' = Opened(k - 1) \cup got
          /\ rxHw' \in IF handles' = Resources THEN {"off", "ready"} ELSE {"off"}
       \/ /\ owner' = "opened"
          /\ handles' = Resources
          /\ rxHw' = "ready"
    /\ state' = "UNINIT"
    /\ learnGen' = 0
    /\ activeGen' = 0
    /\ learnSlot' = 0
    /\ learnOpts' = NoOpts
    /\ carrier' = "default"
    /\ cmdq' = << >>
    /\ UNCHANGED <<rxq, txq, frames, workerVars, clientVars, panic, rxFor, aired>>

\* xTaskCreate: the worker may run before the state is IDLE.
StartTask ==
    /\ ~panic
    /\ owner = "opened"
    /\ owner' = "started"
    /\ wpc' = "drain"
    /\ UNCHANGED <<ctxVars, handles, cmdq, rxq, rxHw, txq, carrier, frames, wcmd,
                   wev, wleft, wok, clientVars, inits, panic, rxFor, aired>>

\* The last statement of ir_ctrl_init.
InitDone ==
    /\ ~panic
    /\ owner = "started"
    /\ owner' = "up"
    /\ state' = "IDLE"
    /\ UNCHANGED <<learnGen, activeGen, learnSlot, learnOpts, handles, cmdq, rxq,
                   rxHw, txq, carrier, frames, workerVars, clientVars, inits,
                   panic, rxFor, aired>>

\* ir_ctrl_deinit marks the context UNINIT.
DeinitBegin ==
    /\ ~panic
    /\ owner \in {"up", "failed"}
    /\ Disciplined => \A c \in Clients : cpc[c] = "idle"
    /\ state' = "UNINIT"
    /\ owner' = IF wpc = "none" THEN "tx_chan" ELSE "stop"
    /\ UNCHANGED <<learnGen, activeGen, learnSlot, learnOpts, handles, cmdq, rxq,
                   rxHw, txq, carrier, frames, workerVars, clientVars, inits,
                   panic, rxFor, aired>>

\* Mutant: TASK_STOP is forced into a full queue.
PostStopForced ==
    /\ ~panic
    /\ owner = "stop"
    /\ owner' = "poll"
    /\ cmdq' = Append(cmdq, StopCmd)
    /\ UNCHANGED <<ctxVars, handles, rxq, rxHw, txq, carrier, frames, workerVars,
                   clientVars, inits, panic, rxFor, aired>>

\* ir_ctrl_stop_task posts TASK_STOP, which a full queue drops.
PostStop ==
    /\ ~panic
    /\ owner = "stop"
    /\ owner' = "poll"
    /\ cmdq' = IF Len(cmdq) < CmdDepth THEN Append(cmdq, StopCmd) ELSE cmdq
    /\ UNCHANGED <<ctxVars, handles, rxq, rxHw, txq, carrier, frames, workerVars,
                   clientVars, inits, panic, rxFor, aired>>

\* The poll sees eDeleted.
StopSeen ==
    /\ ~panic
    /\ owner = "poll"
    /\ wpc = "gone"
    /\ owner' = "tx_chan"
    /\ UNCHANGED <<ctxVars, handles, cmdq, rxq, rxHw, txq, carrier, frames,
                   workerVars, clientVars, inits, panic, rxFor, aired>>

\* Mutant: the poll runs out and the worker is left alone.
DeleteWorkerSkipped == UNCHANGED <<workerVars, aired, txq>>

\* vTaskDelete, wherever the worker is.
DeleteWorker == GoTo("gone") /\ SendIsOver("broken")

\* Mutant: the poll has no bound.
StopExpiredWaits == ~panic /\ owner = "poll" /\ wpc # "gone" /\ UNCHANGED vars

\* The 50 rounds of the poll run out and the worker is deleted.  One that is gone
\* already may be read as alive, since its control block has been freed, and be
\* deleted twice: that corrupts the heap or goes unnoticed.
StopExpired ==
    /\ ~panic
    /\ owner = "poll"
    /\ owner' = "tx_chan"
    /\ DeleteWorker
    /\ panic' \in IF wpc = "gone" THEN BOOLEAN ELSE {FALSE}
    /\ UNCHANGED <<ctxVars, handles, cmdq, rxq, rxHw, carrier, frames,
                   clientVars, inits, rxFor>>

\* Mutant: ir_ctrl_deinit forgets the encoder.
AfterFreeNoEncoder(r) ==
    CASE r = "tx_chan" -> "rx_chan" [] r = "rx_chan" -> "rx_evt_q"
      [] r = "rx_evt_q" -> "cmd_q" [] r = "cmd_q" -> "lock" [] OTHER -> "clear"

\* The order in which ir_ctrl_deinit looks at what s_ctx holds.
AfterFree(r) ==
    CASE r = "tx_chan" -> "rx_chan" [] r = "rx_chan" -> "copy_enc"
      [] r = "copy_enc" -> "rx_evt_q" [] r = "rx_evt_q" -> "cmd_q"
      [] r = "cmd_q" -> "lock" [] OTHER -> "clear"

\* One conditional delete of ir_ctrl_deinit.  A channel is disabled first, which ends
\* what it is doing; the handle is dropped even if the driver refuses the delete.
Free ==
    /\ ~panic
    /\ owner \in Resources
    /\ owner' = AfterFree(owner)
    /\ handles' = handles \ {owner}
    /\ txq'  = IF owner = "tx_chan"  THEN << >> ELSE txq
    /\ rxHw' = IF owner = "rx_chan"  THEN "off" ELSE rxHw
    /\ rxq'  = IF owner = "rx_evt_q" THEN << >> ELSE rxq
    /\ cmdq' = IF owner = "cmd_q"    THEN << >> ELSE cmdq
    /\ UNCHANGED <<ctxVars, carrier, frames, workerVars, clientVars, inits, panic,
                   rxFor, aired>>

\* The memset that ends ir_ctrl_deinit forgets whatever s_ctx still holds.
Clear ==
    /\ ~panic
    /\ owner = "clear"
    /\ owner' = "down"
    /\ handles' = {}
    /\ state' = "UNINIT"
    /\ learnGen' = 0
    /\ activeGen' = 0
    /\ learnSlot' = 0
    /\ learnOpts' = NoOpts
    /\ wpc' = "none"
    /\ UNCHANGED <<cmdq, rxq, txq, rxHw, carrier, frames, wcmd, wev, wleft, wok,
                   clientVars, inits, panic, rxFor, aired>>
-----------------------------------------------------------------------------
Init ==
    /\ state = "UNINIT"
    /\ learnGen = 0 /\ activeGen = 0
    /\ learnSlot = 0 /\ learnOpts = NoOpts
    /\ handles = {}
    /\ cmdq = << >> /\ rxq = << >> /\ txq = << >>
    /\ rxHw = "off" /\ carrier = "default"
    /\ frames = [s \in Slots |-> Empty]
    /\ wpc = "none" /\ wcmd = NoCmd /\ wev = NoEvent /\ wleft = 0 /\ wok = TRUE
    /\ cpc = [c \in Clients |-> "idle"]
    /\ ccall = [c \in Clients |-> NoCall]
    /\ owner = "down" /\ panic = FALSE
    /\ calls = 0 /\ inits = 0
    /\ rxFor = NoCall /\ aired = 0

Next ==
    \/ \E c \in Clients : Check(c) \/ Enqueue(c) \/ Poll(c) \/ SlotInfoDone(c)
    \/ RxDone \/ TxDone
    \/ Worker
    \/ InitOpen \/ StartTask \/ InitDone
    \/ DeinitBegin \/ PostStop \/ StopSeen \/ StopExpired \/ Free \/ Clear

Spec == Init /\ [][Next]_vars

(* The tasks are scheduled, the storage callbacks return, and the transmitter *)
(* finishes what it sends.  No client has to call, and no remote control has   *)
(* to answer a learn.                                                        *)
Fairness ==
    /\ WF_vars(Worker)
    /\ \A c \in Clients :
         WF_vars(Enqueue(c)) /\ WF_vars(Poll(c)) /\ WF_vars(SlotInfoDone(c))
    /\ WF_vars(TxDone)
    /\ WF_vars(StartTask \/ InitDone)
    /\ WF_vars(PostStop \/ StopSeen \/ StopExpired \/ Free \/ Clear)

FairSpec == Spec /\ Fairness
-----------------------------------------------------------------------------
(* Type correctness.                                                       *)

Commands   == LearnCalls \cup SendCalls \cup CancelCalls
Learns     == LearnCalls \cup {NoCall}
Posters    == Clients \cup {"owner"}
QueueCmds  == [from : Posters, call : Commands \cup {StopCmd.call}]
WorkerCmds == [from : Posters, call : Commands \cup {StopCmd.call, NoCall}]
Jobs       == [blocking : BOOLEAN, send : {"runs", "done", "broken"}]
RxEvents   == [n : Nat, for : Learns]
Events     == [n : Nat, for : Learns, slot : Slots, opts : LearnOpts]
Stored     == [for : Learns, syms : Nat]
WorkerPcs  == {"none", "drain", "cmd", "learn_start", "learn_cancel", "send",
               "stop", "gone"} \cup InRxDone \cup InSend
ClientPcs  == {"idle", "enqueue", "poll", "loading"}
OwnerPcs   == {"down", "failed", "up"} \cup Starting \cup Closing

CtxType ==
    /\ state \in States
    /\ learnGen \in Nat /\ activeGen \in Nat
    /\ learnSlot \in Slots /\ learnOpts \in LearnOpts
    /\ handles \subseteq Resources

QueueType ==
    /\ cmdq \in Seq(QueueCmds) /\ Len(cmdq) <= CmdDepth
    /\ rxq \in Seq(RxEvents)
    /\ txq \in Seq(Jobs) /\ Len(txq) <= TransDepth
    /\ rxHw \in {"off", "ready", "receiving"}
    /\ carrier \in {"default", "override"}
    /\ frames \in [Slots -> Stored]
    /\ rxFor \in Learns

WorkerType ==
    /\ wpc \in WorkerPcs
    /\ wcmd \in WorkerCmds
    /\ wev \in Events
    /\ wleft \in Nat /\ wok \in BOOLEAN /\ aired \in Nat

ApiType ==
    /\ cpc \in [Clients -> ClientPcs]
    /\ ccall \in [Clients -> ApiCalls \cup {NoCall}]
    /\ owner \in OwnerPcs
    /\ panic \in BOOLEAN
    /\ calls \in 0..MaxCalls /\ inits \in 0..MaxInits

TypeOK == CtxType /\ QueueType /\ WorkerType /\ ApiType
-----------------------------------------------------------------------------
(* Safety.                                                                 *)

\* The state and the hardware agree while the controller is up: SENDING is the
\* time the worker spends in ir_do_send, and the receiver runs only for a learn.
\* The states a client polls are written from five places of the worker.
OneOperation ==
    owner = "up" =>
        /\ state = "SENDING" <=> wpc \in InSend
        /\ rxHw = "receiving" => state = "LEARNING"

\* Receives that may still end the learn: under way, in the queue, in hand.
CapturesOf(hw, q, pc) ==
    (IF hw = "receiving" THEN 1 ELSE 0) + Len(q) + (IF pc \in InRxDone THEN 1 ELSE 0)

Captures == CapturesOf(rxHw, rxq, wpc)

\* A learn has exactly one receive that can end it, whichever way the interrupt,
\* the worker and a cancel interleave and whenever the driver refuses one: it never
\* waits for a frame that cannot come, and rx_evt_q never overflows.
OneCapturePerLearn ==
    owner = "up" => /\ state = "LEARNING" => Captures = 1
                    /\ Captures <= 1

\* A frame of a blocking send that the transmitter still reads from the worker's stack
\* is one the worker waits for, or one whose wait or a later step has failed: a
\* blocking send that reports no error leaves no frame behind.
BlockingSendOwnsItsFrames ==
    owner = "up" =>
        \A i \in 1..Len(txq) :
            txq[i].blocking =>
                \/ txq[i].send = "runs" /\ (wpc = "wait" \/ (wpc = "end" /\ ~wok))
                \/ txq[i].send = "broken"

\* A blocking send that ends without an error has put every repetition on the
\* air, unless their number wraps.
BlockingSendWentOut ==
    (wpc = "end" /\ wok /\ Blocking(wcmd.call) /\ wcmd.call.opts.repeat < RepeatMod - 1)
        => aired = 1 + wcmd.call.opts.repeat

\* While ir_ctrl_deinit frees what s_ctx holds nothing uses what is freed: the worker
\* no longer runs, the receiver's interrupt has its queue, and the transmitter its
\* channel and its encoder.
ReleaseIsQuiet ==
    owner \in Freeing =>
        /\ wpc \in {"none", "gone"}
        /\ rxHw = "receiving" => "rx_evt_q" \in handles
        /\ txq # << >> => {"tx_chan", "copy_enc"} \subseteq handles

\* A resource leaves s_ctx only at its own delete, except that an ir_ctrl_init which
\* follows a failed one forgets what that left: neither its memset nor the one that
\* ends ir_ctrl_deinit loses anything else, however far the init before had come.
LeaksOnlyOnRetry ==
    [][\A r \in handles \ handles' : owner = r \/ owner = "failed"]_vars

\* A disciplined client never meets a NULL handle, and nobody meets one between a
\* successful ir_ctrl_init and the end of ir_ctrl_deinit's poll: ir_ctrl_init does
\* not go on without a resource, and the worker is gone before one is freed.  Else
\* only the poll itself may panic, by deleting a worker that has deleted itself.
AssertsOnlyOutside ==
    [][panic' # panic =>
         \/ owner \in {"down", "failed"} \cup Freeing /\ ~Disciplined
         \/ owner = "poll" /\ wpc = "gone"]_vars

\* The most steps the worker can still take before it looks at the command queue,
\* or is gone: what is left of the command, then of the captures to drain.
WorkLeft ==
    LET after == 5 * Captures
        sends == 2 * Total(wcmd.call.opts)
    IN  CASE wpc = "drain"                          -> after + 1
          [] wpc = "judge"                          -> after
          [] wpc = "store"                          -> after - 1
          [] wpc \in {"finish", "reject"}           -> after - 2
          [] wpc \in {"learn_start", "learn_cancel"} -> after + 7
          [] wpc = "send"                           -> after + sends + 6
          [] wpc = "load"                           -> after + sends + 5
          [] wpc = "prepare"                        -> after + sends + 4
          [] wpc = "tx"                             -> after + 2 * wleft + 3
          [] wpc = "wait"                           -> after + 2 * wleft + 4
          [] wpc = "end"                            -> after + 2
          [] wpc = "stop"                           -> 1
          [] OTHER                                  -> 0

\* Once the worker has taken a command it comes back to the command queue, whatever
\* fails on the way and however the captures come in: every step of it brings it
\* nearer, no interrupt and no step of another task pushes it back, and so no retry and
\* no capture refused can keep a cancel or a stop from being read.
WorkerAdvances ==
    [][\/ wpc \in {"none", "gone", "cmd"}
       \/ WorkLeft' < WorkLeft
       \/ WorkLeft' = WorkLeft /\ UNCHANGED workerVars /\ Len(rxq') >= Len(rxq)]_vars
-----------------------------------------------------------------------------
(* The inductive invariant behind the safety properties.                   *)

Running == wpc \notin {"none", "gone"}

\* What each program counter says about the call or command in hand.
InHand ==
    /\ wpc = "learn_start" => wcmd.call \in LearnCalls
    /\ wpc \in {"send"} \cup InSend => wcmd.call \in SendCalls
    /\ \A c \in Clients : cpc[c] = "enqueue" => ccall[c] \in Commands

\* Where the worker can be in each phase of the owner.
Lifecycle ==
    /\ owner \in {"down", "failed", "opened"} => wpc = "none"
    /\ owner \in {"started", "up", "stop", "poll"} => wpc # "none"
    /\ owner \in {"started", "up", "stop"} => wpc \notin {"stop", "gone"}
    /\ owner \in {"down", "failed", "opened", "started"} => state = "UNINIT"
    /\ owner \in {"opened", "started", "up", "stop", "poll"} => handles = Resources
    /\ owner = "down" => handles = {}
    /\ owner = "started" => Captures = 0 /\ wpc \notin InSend
    /\ owner = "up" => state # "UNINIT"
    /\ owner \in Freeing => wpc \in {"none", "gone"}
    /\ wpc = "none" => rxHw # "receiving" /\ rxq = << >> /\ txq = << >>
    /\ owner \notin {"poll"} \cup Freeing =>
         \A i \in 1..Len(cmdq) : cmdq[i].call \in Commands
    /\ (Disciplined /\ owner # "up") => \A c \in Clients : cpc[c] = "idle"

\* What ir_ctrl_deinit has looked at already, and what that leaves.
Freed(pc) ==
    CASE pc = "rx_chan"  -> {"tx_chan"}
      [] pc = "copy_enc" -> {"tx_chan", "rx_chan"}
      [] pc = "rx_evt_q" -> Driver
      [] pc = "cmd_q"    -> Driver \cup {"rx_evt_q"}
      [] pc = "lock"     -> Resources \ {"lock"}
      [] pc = "clear"    -> Resources
      [] OTHER           -> {}

ReleaseInv ==
    /\ handles \cap Freed(owner) = {}
    /\ txq # << >> => {"tx_chan", "copy_enc"} \subseteq handles
    /\ rxHw = "receiving" => {"rx_chan", "rx_evt_q"} \subseteq handles
    /\ rxq # << >> => "rx_evt_q" \in handles
    /\ cmdq # << >> => "cmd_q" \in handles

\* The receive side.  A stale event is drained before the next command is taken.
\* UNINIT is what a deinit under way makes of any state.
ReceiveInv ==
    Running =>
        /\ Captures <= 1
        /\ rxHw = "receiving" => state \in {"LEARNING", "UNINIT"}
        /\ wpc \in InRxDone => state \in {"LEARNING", "UNINIT"}
        /\ state = "LEARNING" => Captures = 1 /\ activeGen = learnGen
        /\ (wpc # "drain" /\ rxq # << >>) => state \in {"LEARNING", "UNINIT"}

\* The send side.
SendInv ==
    Running =>
        /\ state = "SENDING" => wpc \in InSend
        /\ wpc \in InSend => state \in {"SENDING", "UNINIT"} /\ Captures = 0
        /\ \A i \in 1..Len(txq) :
             /\ txq[i].send = "runs" => txq[i].blocking = Blocking(wcmd.call)
             /\ txq[i].blocking =>
                  \/ txq[i].send = "runs" /\ (wpc = "wait" \/ (wpc = "end" /\ ~wok))
                  \/ txq[i].send = "broken"

\* What has gone out of a blocking send in hand: the frame it waits for is the last
\* in the queue, and those before it are of earlier sends.
AirInv ==
    /\ wpc \notin {"learn_start", "learn_cancel", "send", "stop"} \cup InSend =>
         wcmd = NoCmd /\ aired = 0
    /\ wpc \notin {"tx", "wait", "end"} =>
         \A i \in 1..Len(txq) : txq[i].send # "runs"
    /\ Blocking(wcmd.call) =>
         /\ wpc \in {"send", "load", "prepare"} => aired = 0
         /\ wpc = "tx" => aired + wleft = Total(wcmd.call.opts)
         /\ wpc = "wait" =>
              /\ aired + wleft + (IF txq = << >> THEN 0 ELSE 1) = Total(wcmd.call.opts)
              /\ \A i \in 1..Len(txq) : txq[i].send = "runs" <=> i = Len(txq)
         /\ (wpc = "end" /\ wok) => aired = Total(wcmd.call.opts)

IInv == TypeOK /\ InHand /\ Lifecycle /\ ReleaseInv /\ ReceiveInv /\ SendInv /\ AirInv
-----------------------------------------------------------------------------
(* The controller implements IrSession.                                    *)

PhaseOf == CASE state = "LEARNING" -> "learning"
             [] state = "SENDING"  -> "sending"
             [] OTHER              -> "quiet"

SessionOf ==
    IF wpc \in {"judge", "store"} THEN wev.for
    ELSE IF state = "LEARNING" /\ wpc \notin {"finish", "reject", "gone"} THEN rxFor
    ELSE NoCall

Session == INSTANCE IrSession
               WITH Learns <- LearnCalls, None <- NoCall,
                    phase <- PhaseOf, session <- SessionOf

\* Learning and sending exclude each other, and a learn stores at most one frame,
\* of its own, in its own slot and within its own limits, before it has ended.
ImplementsSession == Session!SessionSpec

\* A limit of 0 symbols, which means none, has been replaced by the API.
HasMax(call) == (call.op = "learn_start" /\ call.opts.present) => call.opts.max # 0

\* What the refinement needs besides IInv: which learn s_ctx, the receiver, the queue
\* and the frame in hand belong to, and that the frame fits it.
LearnInv ==
    /\ wpc = "none" => state = "UNINIT"
    /\ \A i \in 1..Len(rxq) : rxq[i].for = rxFor
    /\ state = "LEARNING" =>
         rxFor \in LearnCalls /\ learnSlot = rxFor.slot /\ learnOpts = rxFor.opts
    /\ wpc \in {"judge", "store"} =>
         /\ wev.for \in LearnCalls /\ HasMax(wev.for)
         /\ wev.slot = wev.for.slot /\ wev.opts = wev.for.opts
    /\ wpc = "store" => Session!Fits(wev.for, wev.n)
    /\ HasMax(wcmd.call) /\ HasMax(rxFor)
    /\ \A i \in 1..Len(cmdq) : HasMax(cmdq[i].call)
    /\ \A c \in Clients : cpc[c] = "enqueue" => HasMax(ccall[c])
-----------------------------------------------------------------------------
(* Liveness.                                                               *)

\* Every command posted is taken by the worker, or dropped with the queue.
CommandsServed == (cmdq # << >>) ~> (cmdq = << >> \/ panic)

\* A cancel in the queue ends the learn, whichever way it races with the frame.
CancelEnds ==
    (\E i \in 1..Len(cmdq) : cmdq[i].call.op = "learn_cancel")
        ~> (state # "LEARNING" \/ panic)

\* A blocking send returns, whatever fails in it and whoever else sends, unless a learn
\* stays open for ever: one dropped by the worker because of a learn returns with it.
BlockingSendReturns ==
    []<>(state # "LEARNING" \/ panic) =>
        \A c \in Clients : (cpc[c] = "poll") ~> (cpc[c] # "poll" \/ panic)

\* ir_ctrl_deinit returns, whatever the worker is doing.
DeinitReturns == (owner \in Closing) ~> (owner = "down" \/ panic)
-----------------------------------------------------------------------------
(* What the documentation says and the code does not do.                   *)

\* README.md:95 "`IDLE`: accepts learn/send/get_slot_info": a learn that the worker
\* takes in state IDLE begins, unless the driver refuses an enabled, idle receiver.
IdleAcceptsLearn ==
    [][(owner = "up" /\ wpc = "learn_start" /\ wpc' = "drain" /\ state = "IDLE")
           => state' = "LEARNING" \/ rxHw = "ready"]_vars

\* test_ir_ctrl_main.c:484 "get_slot_info should reject while busy (avoids racing
\* storage callbacks vs capture/send)": the load of get_slot_info and a storage
\* callback of the worker never run at the same time.
SlotInfoExclusive ==
    \A c \in Clients : cpc[c] = "loading" => wpc \notin {"store", "load"}

\* ir_ctrl.h:134 "If true, ir_ctrl_send waits until TX is complete": when a blocking
\* send returns, the worker has executed its command.
BlockingSendReturnsDone ==
    [][\A c \in Clients :
         (cpc[c] = "poll" /\ cpc'[c] = "idle") =>
             /\ wcmd.from # c
             /\ \A i \in 1..Len(cmdq) : cmdq[i].from # c]_vars

\* ir_ctrl.h:200 "The module enters SENDING state while TX is active": no frame is
\* on the air, or queued for it, in another state.
SendingWhileOnAir == (owner = "up" /\ txq # << >>) => state = "SENDING"

\* ir_ctrl.h:207 "ESP_ERR_INVALID_STATE if busy learning/sending" and ir_ctrl.h:87 "Max
\* time to wait for a frame to be received": a client that finds a learn under way is
\* not left in a blocking send for ever, since the send is refused, or the learn ends.
LearnHoldsNoSend ==
    \A c \in Clients :
        (state = "LEARNING" /\ cpc[c] = "idle") ~> [](cpc[c] # "poll")
=============================================================================
