---------------------------- MODULE IrCtrlProofs ----------------------------
(***************************************************************************)
(* Proofs about IrCtrl: type correctness and the safety properties of the  *)
(* controller, for every number of clients, every queue depth and every    *)
(* set of calls, from the inductive invariant IInv.                        *)
(***************************************************************************)
EXTENDS IrCtrl, TLAPS
-----------------------------------------------------------------------------
(* Facts about the constants and the helpers.                              *)

\* The constants of the module have the types of the variables they initialise.
LEMMA TypeFacts ==
    /\ NoOpts \in LearnOpts
    /\ NoCall \in Learns
    /\ NoCmd \in WorkerCmds
    /\ NoEvent \in Events
    /\ Empty \in Stored
    /\ StopCmd \in QueueCmds
    /\ QueueCmds \subseteq WorkerCmds
    /\ LearnCalls \subseteq Learns
BY IrCtrlAssumption DEF NoOpts, LearnOpts, NoCall, Learns, NoCmd, WorkerCmds,
   NoEvent, Events, Empty, Stored, StopCmd, QueueCmds, Posters

\* What the fields of a call are.
LEMMA CallFacts ==
    /\ \A call \in LearnCalls : /\ call.op = "learn_start"
                                /\ call.slot \in Slots
                                /\ call.opts \in LearnOpts
    /\ \A call \in SendCalls : /\ call.op = "send"
                               /\ call.slot \in Slots
                               /\ call.opts \in SendOpts
    /\ \A call \in CancelCalls : call.op = "learn_cancel"
    /\ \A call \in InfoCalls : call.op = "get_slot_info"
    /\ StopCmd.call.op = "stop"
    /\ NoCall.op = "none"
BY DEF LearnCalls, SendCalls, CancelCalls, InfoCalls, StopCmd, NoCall

\* The API posts only commands, with options in range.
LEMMA PostedFacts ==
    ASSUME NEW call \in Calls
    PROVE  /\ Posted(call) \in ApiCalls
           /\ call.op # "get_slot_info" => Posted(call) \in Commands
<1>1. \A opts \in LearnOpts : Clamp(opts) \in LearnOpts
  BY IrCtrlAssumption, TypeFacts DEF Clamp, LearnOpts
<1>2. CASE call \in LearnCalls
  <2>1. Posted(call) = [call EXCEPT !.opts = Clamp(call.opts)]
    BY <1>2, CallFacts DEF Posted
  <2>2. Posted(call) \in LearnCalls
    BY <1>1, <1>2, <2>1 DEF LearnCalls
  <2> QED  BY <2>2 DEF ApiCalls, Commands
<1>3. CASE call \in SendCalls \cup CancelCalls
  <2>1. Posted(call) = call
    BY <1>3, CallFacts DEF Posted
  <2> QED  BY <1>3, <2>1 DEF ApiCalls, Commands
<1>4. CASE call \in InfoCalls
  <2>1. Posted(call) = call /\ call.op = "get_slot_info"
    BY <1>4, CallFacts DEF Posted
  <2> QED  BY <1>4, <2>1 DEF ApiCalls
<1> QED  BY <1>2, <1>3, <1>4, IrCtrlAssumption DEF ApiCalls

\* A queued command names one of the worker's entry points.
LEMMA QueueOps ==
    ASSUME NEW cmd \in QueueCmds
    PROVE  /\ cmd \in WorkerCmds
           /\ cmd.call.op \in {"learn_start", "learn_cancel", "send", "stop"}
           /\ cmd.call.op = "learn_start" => cmd.call \in LearnCalls
           /\ cmd.call.op = "send" => cmd.call \in SendCalls
           /\ cmd.call.op = "stop" => cmd.call \notin Commands
BY CallFacts, TypeFacts DEF QueueCmds, Commands

\* Appending to a queue that is not full.
LEMMA AppendBound ==
    ASSUME NEW S, NEW q \in Seq(S), NEW x \in S, NEW depth \in Nat, Len(q) < depth
    PROVE  Append(q, x) \in Seq(S) /\ Len(Append(q, x)) <= depth
OBVIOUS

\* The number of transmissions is a natural number, whatever the repeat.
LEMMA TotalType ==
    ASSUME NEW opts \in SendOpts
    PROVE  Total(opts) \in Nat
BY IrCtrlAssumption DEF Total, SendOpts

\* The resources an interrupted init leaves are resources.
LEMMA OpeningFacts ==
    ASSUME NEW k \in 1..Len(Opening), NEW got \in SUBSET Opening[k]
    PROVE  Opened(k - 1) \cup got \subseteq Resources
<1>1. Len(Opening) = 5 /\ \A i \in 1..5 : Opening[i] \subseteq Resources
  BY DEF Opening, Resources
<1>2. Opened(k - 1) \subseteq Resources
  BY <1>1 DEF Opened
<1> QED  BY <1>1, <1>2

\* What is left on the air when a send is over: the same frames, none of which is of a
\* send under way.
LEMMA SendIsOverFacts ==
    ASSUME NEW how \in {"done", "broken"}, SendIsOver(how), txq \in Seq(Jobs)
    PROVE  /\ txq' \in Seq(Jobs) /\ Len(txq') = Len(txq)
           /\ txq' = << >> <=> txq = << >>
           /\ \A i \in 1..Len(txq') :
                /\ txq'[i].send # "runs"
                /\ txq'[i].blocking = txq[i].blocking
                /\ txq[i].send = "runs" => txq'[i].send = how
                /\ txq[i].send # "runs" => txq'[i] = txq[i]
<1>1. \A i \in 1..Len(txq) : txq[i] \in Jobs
  OBVIOUS
<1>2. \A i \in 1..Len(txq) :
         LET x == IF txq[i].send = "runs" THEN [txq[i] EXCEPT !.send = how] ELSE txq[i]
         IN  /\ x \in Jobs /\ x.send # "runs" /\ x.blocking = txq[i].blocking
             /\ txq[i].send = "runs" => x.send = how
             /\ txq[i].send # "runs" => x = txq[i]
  BY <1>1 DEF Jobs
<1>3. DOMAIN txq = 1..Len(txq)
  OBVIOUS
<1>4. txq' = [i \in 1..Len(txq) |->
                IF txq[i].send = "runs" THEN [txq[i] EXCEPT !.send = how] ELSE txq[i]]
  BY <1>3 DEF SendIsOver
<1>5. txq' \in [1..Len(txq) -> Jobs]
  BY <1>2, <1>4
<1>6. Len(txq) \in Nat
  OBVIOUS
<1>7. txq' \in Seq(Jobs) /\ Len(txq') = Len(txq)
  BY <1>5, <1>6
<1>8. txq' = << >> <=> txq = << >>
  BY <1>7
<1> QED  BY <1>2, <1>4, <1>7, <1>8

-----------------------------------------------------------------------------
(* Type correctness, action by action.                                     *)

\* A call up to its unlock preserves the types.
LEMMA CheckType ==
    ASSUME TypeOK, InHand, NEW c \in Clients, Check(c)
    PROVE  TypeOK'
<1>1. CtxType'
  BY DEF Check, Admits, Posted, Clamp, TypeOK, CtxType, ctxVars
<1>2. QueueType'
  BY DEF Check, Admits, Posted, Clamp, TypeOK, QueueType
<1>3. WorkerType'
  BY DEF Check, Admits, Posted, Clamp, TypeOK, WorkerType, workerVars
<1>4. ApiType'
  <2> USE IrCtrlAssumption DEF Check, TypeOK, ApiType, ClientPcs, OwnerPcs, clientVars
  <2>1. cpc' \in [Clients -> ClientPcs]
    OBVIOUS
  <2>2. ccall' \in [Clients -> ApiCalls \cup {NoCall}]
    BY PostedFacts
  <2>3. calls' \in 0..MaxCalls
    OBVIOUS
  <2>4. panic' \in BOOLEAN /\ UNCHANGED <<owner, inits>>
    BY DEF ownerVars
  <2> QED  BY <2>1, <2>2, <2>3, <2>4
<1> QED  BY <1>1, <1>2, <1>3, <1>4 DEF TypeOK

\* Posting a command preserves the types.
LEMMA EnqueueType ==
    ASSUME TypeOK, InHand, NEW c \in Clients, Enqueue(c)
    PROVE  TypeOK'
<1>1. CtxType'
  BY DEF Enqueue, Return, TypeOK, CtxType, ctxVars
<1>2. QueueType'
  <2>1. [from |-> c, call |-> ccall[c]] \in QueueCmds
    BY DEF Enqueue, InHand, QueueCmds, Posters
  <2>2. UNCHANGED cmdq \/ (Len(cmdq) < CmdDepth /\ cmdq' = Append(cmdq, [from |-> c, call |-> ccall[c]]))
    BY DEF Enqueue
  <2>3. cmdq' \in Seq(QueueCmds) /\ Len(cmdq') <= CmdDepth
    BY <2>1, <2>2, AppendBound, IrCtrlAssumption DEF TypeOK, QueueType
  <2>4. UNCHANGED <<rxq, txq, rxHw, carrier, frames, rxFor>>
    BY DEF Enqueue
  <2> QED  BY <2>3, <2>4 DEF TypeOK, QueueType
<1>3. WorkerType'
  BY DEF Enqueue, Return, TypeOK, WorkerType, workerVars
<1>4. ApiType'
  BY IrCtrlAssumption, TypeFacts, CallFacts DEF Enqueue, Return, TypeOK,
     ApiType, OwnerPcs, Starting, Closing, Freeing, Resources, ClientPcs, clientVars, ownerVars
<1> QED  BY <1>1, <1>2, <1>3, <1>4 DEF TypeOK

\* The poll of a blocking send preserves the types.
LEMMA PollType ==
    ASSUME TypeOK, InHand, NEW c \in Clients, Poll(c)
    PROVE  TypeOK'
<1>1. CtxType'
  BY DEF Poll, Return, TypeOK, CtxType, ctxVars
<1>2. QueueType'
  BY DEF Poll, Return, TypeOK, QueueType
<1>3. WorkerType'
  BY DEF Poll, Return, TypeOK, WorkerType, workerVars
<1>4. ApiType'
  BY IrCtrlAssumption, TypeFacts, CallFacts DEF Poll, Return, TypeOK, ApiType,
     OwnerPcs, Starting, Closing, Freeing, Resources, ClientPcs, clientVars, ownerVars
<1> QED  BY <1>1, <1>2, <1>3, <1>4 DEF TypeOK

\* The end of get_slot_info preserves the types.
LEMMA SlotInfoDoneType ==
    ASSUME TypeOK, InHand, NEW c \in Clients, SlotInfoDone(c)
    PROVE  TypeOK'
<1>1. CtxType'
  BY DEF SlotInfoDone, Return, TypeOK, CtxType, ctxVars
<1>2. QueueType'
  BY DEF SlotInfoDone, Return, TypeOK, QueueType
<1>3. WorkerType'
  BY DEF SlotInfoDone, Return, TypeOK, WorkerType, workerVars
<1>4. ApiType'
  BY IrCtrlAssumption, TypeFacts, CallFacts DEF SlotInfoDone, Return, TypeOK,
     ApiType, OwnerPcs, Starting, Closing, Freeing, Resources, ClientPcs, clientVars, ownerVars
<1> QED  BY <1>1, <1>2, <1>3, <1>4 DEF TypeOK

\* The receive interrupt preserves the types.
LEMMA RxDoneType ==
    ASSUME TypeOK, InHand, RxDone
    PROVE  TypeOK'
<1>1. CtxType'
  BY DEF RxDone, TypeOK, CtxType, ctxVars
<1>2. QueueType'
  <2>1. \A n \in Counts : [n |-> n, for |-> rxFor] \in RxEvents
    BY IrCtrlAssumption DEF TypeOK, QueueType, RxEvents
  <2> QED  BY <2>1 DEF RxDone, TypeOK, QueueType
<1>3. WorkerType'
  BY DEF RxDone, TypeOK, WorkerType, workerVars
<1>4. ApiType'
  BY DEF RxDone, TypeOK, ApiType, clientVars, ownerVars
<1> QED  BY <1>1, <1>2, <1>3, <1>4 DEF TypeOK

\* The end of a transmission preserves the types.
LEMMA TxDoneType ==
    ASSUME TypeOK, InHand, TxDone
    PROVE  TypeOK'
<1>1. CtxType'
  BY DEF TxDone, TypeOK, CtxType, ctxVars
<1>2. QueueType'
  BY IrCtrlAssumption, TypeFacts, CallFacts DEF TxDone, TypeOK, QueueType,
     CtxType, QueueType, WorkerType
<1>3. WorkerType'
  BY IrCtrlAssumption, TypeFacts, CallFacts DEF TxDone, TypeOK, WorkerType,
     CtxType, QueueType, WorkerType, WorkerPcs, InRxDone, InSend, workerVars
<1>4. ApiType'
  BY DEF TxDone, TypeOK, ApiType, clientVars, ownerVars
<1> QED  BY <1>1, <1>2, <1>3, <1>4 DEF TypeOK

\* Taking an RX event preserves the types.
LEMMA RxTakeType ==
    ASSUME TypeOK, InHand, RxTake
    PROVE  TypeOK'
<1>1. CtxType'
  BY DEF RxTake, TypeOK, CtxType, ctxVars
<1>2. QueueType'
  BY IrCtrlAssumption, TypeFacts, CallFacts DEF RxTake, TypeOK, QueueType,
     CtxType, QueueType, WorkerType
<1>3. WorkerType'
  <2>1. Head(rxq) \in RxEvents
    BY DEF RxTake, TypeOK, QueueType
  <2>2. [n |-> Head(rxq).n, for |-> Head(rxq).for, slot |-> learnSlot,
         opts |-> learnOpts] \in Events
    BY <2>1 DEF RxEvents, Events, TypeOK, CtxType
  <2> QED  BY <2>2 DEF RxTake, TypeOK, WorkerType, WorkerPcs, InRxDone
<1>4. ApiType'
  BY DEF RxTake, TypeOK, ApiType, clientVars, ownerVars
<1> QED  BY <1>1, <1>2, <1>3, <1>4 DEF TypeOK

\* The length checks preserves the types.
LEMMA JudgeType ==
    ASSUME TypeOK, InHand, Judge
    PROVE  TypeOK'
<1>1. CtxType'
  BY DEF Judge, TypeOK, CtxType, ctxVars
<1>2. QueueType'
  BY DEF Judge, TypeOK, QueueType
<1>3. WorkerType'
  <2>1. \A n \in 1..MaxSyms : [wev EXCEPT !.n = n] \in Events
    BY IrCtrlAssumption DEF TypeOK, WorkerType, Events
  <2> QED  BY <2>1 DEF Judge, TypeOK, WorkerType, WorkerPcs, InRxDone
<1>4. ApiType'
  BY DEF Judge, TypeOK, ApiType, clientVars, ownerVars
<1> QED  BY <1>1, <1>2, <1>3, <1>4 DEF TypeOK

\* The store callback preserves the types.
LEMMA StoreType ==
    ASSUME TypeOK, InHand, Store
    PROVE  TypeOK'
<1>1. CtxType'
  BY DEF Store, TypeOK, CtxType, ctxVars
<1>2. QueueType'
  <2>1. wev.slot \in Slots /\ [for |-> wev.for, syms |-> wev.n] \in Stored
    BY DEF TypeOK, WorkerType, Events, Stored
  <2> QED  BY <2>1 DEF Store, TypeOK, QueueType
<1>3. WorkerType'
  BY IrCtrlAssumption, TypeFacts, CallFacts DEF Store, TypeOK, WorkerType,
     CtxType, QueueType, WorkerType, WorkerPcs, InRxDone, InSend, workerVars
<1>4. ApiType'
  BY DEF Store, TypeOK, ApiType, clientVars, ownerVars
<1> QED  BY <1>1, <1>2, <1>3, <1>4 DEF TypeOK

\* The end of a learn preserves the types.
LEMMA FinishType ==
    ASSUME TypeOK, InHand, Finish
    PROVE  TypeOK'
<1>1. CtxType'
  BY IrCtrlAssumption, TypeFacts, CallFacts DEF Finish, GoTo, FinishToIdle,
     TypeOK, CtxType, States, InSend, ctxVars
<1>2. QueueType'
  BY IrCtrlAssumption, TypeFacts, CallFacts DEF Finish, GoTo, FinishToIdle,
     TypeOK, QueueType
<1>3. WorkerType'
  BY IrCtrlAssumption, TypeFacts, CallFacts DEF Finish, GoTo, FinishToIdle,
     TypeOK, WorkerType, WorkerPcs, InRxDone, InSend, workerVars
<1>4. ApiType'
  BY DEF Finish, GoTo, FinishToIdle, TypeOK, ApiType, clientVars, ownerVars
<1> QED  BY <1>1, <1>2, <1>3, <1>4 DEF TypeOK

\* The refusal of a capture preserves the types.
LEMMA RejectType ==
    ASSUME TypeOK, InHand, Reject
    PROVE  TypeOK'
<1>1. CtxType'
  BY IrCtrlAssumption, TypeFacts, CallFacts DEF Reject, GoTo, CancelLearn,
     StopLearning, FinishToIdle, TypeOK, CtxType, States, InSend, ctxVars
<1>2. QueueType'
  BY IrCtrlAssumption, TypeFacts, CallFacts DEF Reject, GoTo, CancelLearn,
     StopLearning, FinishToIdle, TypeOK, QueueType
<1>3. WorkerType'
  BY IrCtrlAssumption, TypeFacts, CallFacts DEF Reject, GoTo, CancelLearn,
     StopLearning, FinishToIdle, TypeOK, WorkerType, WorkerPcs, InRxDone,
     InSend, workerVars
<1>4. ApiType'
  BY DEF Reject, GoTo, CancelLearn, StopLearning, FinishToIdle, TypeOK, ApiType,
     clientVars, ownerVars
<1> QED  BY <1>1, <1>2, <1>3, <1>4 DEF TypeOK

\* Leaving the RX queue preserves the types.
LEMMA DrainedType ==
    ASSUME TypeOK, InHand, Drained
    PROVE  TypeOK'
<1>1. CtxType'
  BY DEF Drained, TypeOK, CtxType, ctxVars
<1>2. QueueType'
  BY DEF Drained, TypeOK, QueueType
<1>3. WorkerType'
  BY IrCtrlAssumption, TypeFacts, CallFacts DEF Drained, TypeOK, WorkerType,
     WorkerPcs, InRxDone, InSend, workerVars
<1>4. ApiType'
  BY DEF Drained, TypeOK, ApiType, clientVars, ownerVars
<1> QED  BY <1>1, <1>2, <1>3, <1>4 DEF TypeOK

\* An empty command queue preserves the types.
LEMMA CmdTimeoutType ==
    ASSUME TypeOK, InHand, CmdTimeout
    PROVE  TypeOK'
<1>1. CtxType'
  BY DEF CmdTimeout, TypeOK, CtxType, ctxVars
<1>2. QueueType'
  BY DEF CmdTimeout, TypeOK, QueueType
<1>3. WorkerType'
  BY IrCtrlAssumption, TypeFacts, CallFacts DEF CmdTimeout, TypeOK, WorkerType,
     WorkerPcs, InRxDone, InSend, workerVars
<1>4. ApiType'
  BY DEF CmdTimeout, TypeOK, ApiType, clientVars, ownerVars
<1> QED  BY <1>1, <1>2, <1>3, <1>4 DEF TypeOK

\* Taking a command preserves the types.
LEMMA CmdTakeType ==
    ASSUME TypeOK, InHand, CmdTake
    PROVE  TypeOK'
<1>1. CtxType'
  BY DEF CmdTake, TypeOK, CtxType, ctxVars
<1>2. QueueType'
  BY IrCtrlAssumption, TypeFacts, CallFacts DEF CmdTake, TypeOK, QueueType,
     CtxType, QueueType, WorkerType
<1>3. WorkerType'
  <2>1. Head(cmdq) \in QueueCmds
    BY DEF CmdTake, TypeOK, QueueType
  <2> QED  BY <2>1, QueueOps DEF CmdTake, TypeOK, WorkerType, WorkerPcs
<1>4. ApiType'
  BY DEF CmdTake, TypeOK, ApiType, clientVars, ownerVars
<1> QED  BY <1>1, <1>2, <1>3, <1>4 DEF TypeOK

\* ir_do_learn_start preserves the types.
LEMMA LearnStartType ==
    ASSUME TypeOK, InHand, LearnStart
    PROVE  TypeOK'
<1>1. CtxType'
  <2>1. wcmd.call.slot \in Slots /\ wcmd.call.opts \in LearnOpts
    BY CallFacts DEF LearnStart, InHand
  <2> QED  BY <2>1, IrCtrlAssumption, TypeFacts
           DEF LearnStart, ReceiveRefused, FinishToIdle, TypeOK, CtxType, States,
               ctxVars
<1>2. QueueType'
  <2>1. wcmd.call \in Learns
    BY TypeFacts DEF LearnStart, InHand
  <2> QED  BY <2>1 DEF LearnStart, ReceiveRefused, TypeOK, QueueType
<1>3. WorkerType'
  BY IrCtrlAssumption, TypeFacts, CallFacts DEF LearnStart, GoTo,
     ReceiveRefused, FinishToIdle, TypeOK, WorkerType, WorkerPcs, InRxDone,
     InSend, workerVars
<1>4. ApiType'
  BY DEF LearnStart, GoTo, ReceiveRefused, FinishToIdle, TypeOK, ApiType,
     clientVars, ownerVars
<1> QED  BY <1>1, <1>2, <1>3, <1>4 DEF TypeOK

\* ir_do_learn_cancel preserves the types.
LEMMA LearnCancelType ==
    ASSUME TypeOK, InHand, LearnCancel
    PROVE  TypeOK'
<1>1. CtxType'
  BY IrCtrlAssumption, TypeFacts, CallFacts DEF LearnCancel, GoTo, CancelLearn,
     StopLearning, FinishToIdle, TypeOK, CtxType, States, InSend, ctxVars
<1>2. QueueType'
  BY IrCtrlAssumption, TypeFacts, CallFacts DEF LearnCancel, GoTo, CancelLearn,
     StopLearning, FinishToIdle, TypeOK, QueueType
<1>3. WorkerType'
  BY IrCtrlAssumption, TypeFacts, CallFacts DEF LearnCancel, GoTo, CancelLearn,
     StopLearning, FinishToIdle, TypeOK, WorkerType, WorkerPcs, InRxDone,
     InSend, workerVars
<1>4. ApiType'
  BY DEF LearnCancel, GoTo, CancelLearn, StopLearning, FinishToIdle, TypeOK,
     ApiType, clientVars, ownerVars
<1> QED  BY <1>1, <1>2, <1>3, <1>4 DEF TypeOK

\* The start of ir_do_send preserves the types.
LEMMA SendBeginType ==
    ASSUME TypeOK, InHand, SendBegin
    PROVE  TypeOK'
<1>1. CtxType'
  BY IrCtrlAssumption, TypeFacts, CallFacts DEF SendBegin, GoTo, TypeOK,
     CtxType, States, InSend, ctxVars
<1>2. QueueType'
  BY DEF SendBegin, GoTo, TypeOK, QueueType
<1>3. WorkerType'
  BY IrCtrlAssumption, TypeFacts, CallFacts DEF SendBegin, GoTo, TypeOK,
     WorkerType, WorkerPcs, InRxDone, InSend, workerVars
<1>4. ApiType'
  BY DEF SendBegin, GoTo, TypeOK, ApiType, clientVars, ownerVars
<1> QED  BY <1>1, <1>2, <1>3, <1>4 DEF TypeOK

\* The load callback preserves the types.
LEMMA LoadType ==
    ASSUME TypeOK, InHand, Load
    PROVE  TypeOK'
<1>1. CtxType'
  BY DEF Load, SendFailed, TypeOK, CtxType, ctxVars
<1>2. QueueType'
  BY DEF Load, SendFailed, TypeOK, QueueType
<1>3. WorkerType'
  BY IrCtrlAssumption, TypeFacts, CallFacts DEF Load, SendFailed, TypeOK,
     WorkerType, WorkerPcs, InRxDone, InSend, workerVars
<1>4. ApiType'
  BY DEF Load, SendFailed, TypeOK, ApiType, clientVars, ownerVars
<1> QED  BY <1>1, <1>2, <1>3, <1>4 DEF TypeOK

\* The preparation of a send preserves the types.
LEMMA PrepareType ==
    ASSUME TypeOK, InHand, Prepare
    PROVE  TypeOK'
<1>1. CtxType'
  BY DEF Prepare, SendFailed, TypeOK, CtxType, ctxVars
<1>2. QueueType'
  BY IrCtrlAssumption, TypeFacts, CallFacts DEF Prepare, SendFailed, TypeOK,
     QueueType
<1>3. WorkerType'
  <2>1. Total(wcmd.call.opts) \in Nat
    BY CallFacts, TotalType DEF Prepare, InHand, InSend
  <2> QED  BY <2>1 DEF Prepare, SendFailed, TypeOK, WorkerType, WorkerPcs, InSend
<1>4. ApiType'
  BY DEF Prepare, SendFailed, TypeOK, ApiType, clientVars, ownerVars
<1> QED  BY <1>1, <1>2, <1>3, <1>4 DEF TypeOK

\* A round of the transmission loop preserves the types.
LEMMA TransmitType ==
    ASSUME TypeOK, InHand, Transmit
    PROVE  TypeOK'
<1>1. CtxType'
  BY DEF Transmit, SendFailed, AfterTransmit, TypeOK, CtxType, ctxVars
<1>2. QueueType'
  <2> DEFINE job == [blocking |-> Blocking(wcmd.call), send |-> "runs"]
  <2>1. job \in Jobs
    <3>1. Blocking(wcmd.call) \in BOOLEAN
      BY DEF Blocking
    <3> QED  BY <3>1 DEF Jobs
  <2>2. UNCHANGED txq \/ (Len(txq) < TransDepth /\ txq' = Append(txq, job))
    BY DEF Transmit
  <2> HIDE DEF job
  <2>3. txq' \in Seq(Jobs) /\ Len(txq') <= TransDepth
    BY <2>1, <2>2, AppendBound, IrCtrlAssumption DEF TypeOK, QueueType
  <2>4. UNCHANGED <<cmdq, rxq, rxHw, carrier, frames, rxFor>>
    BY DEF Transmit
  <2> QED  BY <2>3, <2>4 DEF TypeOK, QueueType
<1>3. WorkerType'
  <2>1. wleft' \in Nat
    BY DEF Transmit, TypeOK, WorkerType
  <2>2. wpc' \in WorkerPcs /\ wok' \in BOOLEAN
    BY DEF Transmit, SendFailed, AfterTransmit, TypeOK, WorkerType, WorkerPcs, InSend
  <2>3. UNCHANGED <<wcmd, wev, aired>>
    BY DEF Transmit
  <2> QED  BY <2>1, <2>2, <2>3 DEF TypeOK, WorkerType
<1>4. ApiType'
  BY DEF Transmit, SendFailed, AfterTransmit, TypeOK, ApiType, clientVars,
     ownerVars
<1> QED  BY <1>1, <1>2, <1>3, <1>4 DEF TypeOK

\* The wait for the transmitter preserves the types.
LEMMA TxWaitType ==
    ASSUME TypeOK, InHand, TxWait
    PROVE  TypeOK'
<1>1. CtxType'
  BY DEF TxWait, SendFailed, TypeOK, CtxType, ctxVars
<1>2. QueueType'
  BY DEF TxWait, SendFailed, TypeOK, QueueType
<1>3. WorkerType'
  BY IrCtrlAssumption, TypeFacts, CallFacts DEF TxWait, SendFailed, TypeOK, WorkerType,
     WorkerPcs, InRxDone, InSend, workerVars
<1>4. ApiType'
  BY DEF TxWait, SendFailed, TypeOK, ApiType, clientVars, ownerVars
<1> QED  BY <1>1, <1>2, <1>3, <1>4 DEF TypeOK

\* The end of the transmission loop preserves the types.
LEMMA TransmittedType ==
    ASSUME TypeOK, InHand, Transmitted
    PROVE  TypeOK'
<1>1. CtxType'
  BY DEF Transmitted, TypeOK, CtxType, ctxVars
<1>2. QueueType'
  BY DEF Transmitted, TypeOK, QueueType
<1>3. WorkerType'
  BY IrCtrlAssumption, TypeFacts, CallFacts DEF Transmitted, TypeOK, WorkerType,
     WorkerPcs, InRxDone, InSend, workerVars
<1>4. ApiType'
  BY DEF Transmitted, TypeOK, ApiType, clientVars, ownerVars
<1> QED  BY <1>1, <1>2, <1>3, <1>4 DEF TypeOK

\* The end of ir_do_send preserves the types.
LEMMA SendEndType ==
    ASSUME TypeOK, InHand, SendEnd
    PROVE  TypeOK'
<1>1. CtxType'
  BY IrCtrlAssumption, TypeFacts, CallFacts DEF SendEnd, GoTo, TypeOK, CtxType,
     States, InSend, ctxVars
<1>2. QueueType'
  <2>1. wok \in BOOLEAN /\ SendIsOver(IF wok THEN "done" ELSE "broken")
    BY DEF SendEnd, TypeOK, WorkerType
  <2>2. txq' \in Seq(Jobs) /\ Len(txq') = Len(txq)
    BY <2>1, SendIsOverFacts DEF TypeOK, QueueType
  <2> QED  BY <2>2 DEF SendEnd, TypeOK, QueueType
<1>3. WorkerType'
  BY IrCtrlAssumption, TypeFacts, CallFacts DEF SendEnd, GoTo, TypeOK,
     WorkerType, WorkerPcs, InRxDone, InSend, workerVars
<1>4. ApiType'
  BY DEF SendEnd, GoTo, TypeOK, ApiType, clientVars, ownerVars
<1> QED  BY <1>1, <1>2, <1>3, <1>4 DEF TypeOK

\* TASK_STOP preserves the types.
LEMMA WorkerStopType ==
    ASSUME TypeOK, InHand, WorkerStop
    PROVE  TypeOK'
<1>1. CtxType'
  BY DEF WorkerStop, GoTo, TypeOK, CtxType, ctxVars
<1>2. QueueType'
  BY DEF WorkerStop, GoTo, TypeOK, QueueType
<1>3. WorkerType'
  BY IrCtrlAssumption, TypeFacts, CallFacts DEF WorkerStop, GoTo, TypeOK,
     WorkerType, WorkerPcs, InRxDone, InSend, workerVars
<1>4. ApiType'
  BY DEF WorkerStop, GoTo, TypeOK, ApiType, clientVars, ownerVars
<1> QED  BY <1>1, <1>2, <1>3, <1>4 DEF TypeOK

\* ir_ctrl_init up to the task preserves the types.
LEMMA InitOpenType ==
    ASSUME TypeOK, InHand, InitOpen
    PROVE  TypeOK'
<1>1. CtxType'
  <2>1. handles' \subseteq Resources
    <3>1. CASE \E k \in 1..Len(Opening) : \E got \in SUBSET Opening[k] \ {Opening[k]} :
                  handles' = Opened(k - 1) \cup got
      BY <3>1, OpeningFacts
    <3> QED  BY <3>1 DEF InitOpen
  <2>2. /\ state' = "UNINIT" /\ learnGen' = 0 /\ activeGen' = 0
        /\ learnSlot' = 0 /\ learnOpts' = NoOpts
    BY DEF InitOpen
  <2> QED  BY <2>1, <2>2, IrCtrlAssumption, TypeFacts DEF CtxType, States
<1>2. QueueType'
  BY IrCtrlAssumption, TypeFacts, CallFacts DEF InitOpen, TypeOK, QueueType
<1>3. WorkerType'
  BY DEF InitOpen, TypeOK, WorkerType, workerVars
<1>4. ApiType'
  BY IrCtrlAssumption, TypeFacts, CallFacts DEF InitOpen, Aborts, TypeOK, ApiType,
     OwnerPcs, Starting, Closing, Freeing, Resources, ClientPcs, clientVars, ownerVars
<1> QED  BY <1>1, <1>2, <1>3, <1>4 DEF TypeOK

\* The creation of the worker preserves the types.
LEMMA StartTaskType ==
    ASSUME TypeOK, InHand, StartTask
    PROVE  TypeOK'
<1>1. CtxType'
  BY DEF StartTask, TypeOK, CtxType, ctxVars
<1>2. QueueType'
  BY DEF StartTask, TypeOK, QueueType
<1>3. WorkerType'
  BY IrCtrlAssumption, TypeFacts, CallFacts DEF StartTask, TypeOK, WorkerType,
     WorkerPcs, InRxDone, InSend, workerVars
<1>4. ApiType'
  BY IrCtrlAssumption, TypeFacts, CallFacts DEF StartTask, TypeOK, ApiType,
     OwnerPcs, Starting, Closing, Freeing, Resources, ClientPcs, clientVars, ownerVars
<1> QED  BY <1>1, <1>2, <1>3, <1>4 DEF TypeOK

\* The end of ir_ctrl_init preserves the types.
LEMMA InitDoneType ==
    ASSUME TypeOK, InHand, InitDone
    PROVE  TypeOK'
<1>1. CtxType'
  BY IrCtrlAssumption, TypeFacts, CallFacts DEF InitDone, TypeOK, CtxType,
     States, InSend, ctxVars
<1>2. QueueType'
  BY DEF InitDone, TypeOK, QueueType
<1>3. WorkerType'
  BY DEF InitDone, TypeOK, WorkerType, workerVars
<1>4. ApiType'
  BY IrCtrlAssumption, TypeFacts, CallFacts DEF InitDone, TypeOK, ApiType,
     OwnerPcs, Starting, Closing, Freeing, Resources, ClientPcs, clientVars, ownerVars
<1> QED  BY <1>1, <1>2, <1>3, <1>4 DEF TypeOK

\* The start of ir_ctrl_deinit preserves the types.
LEMMA DeinitBeginType ==
    ASSUME TypeOK, InHand, DeinitBegin
    PROVE  TypeOK'
<1>1. CtxType'
  BY IrCtrlAssumption, TypeFacts, CallFacts DEF DeinitBegin, TypeOK, CtxType,
     States, InSend, ctxVars
<1>2. QueueType'
  BY DEF DeinitBegin, TypeOK, QueueType
<1>3. WorkerType'
  BY DEF DeinitBegin, TypeOK, WorkerType, workerVars
<1>4. ApiType'
  BY IrCtrlAssumption, TypeFacts, CallFacts DEF DeinitBegin, TypeOK, ApiType,
     OwnerPcs, Starting, Closing, Freeing, Resources, ClientPcs, clientVars, ownerVars
<1> QED  BY <1>1, <1>2, <1>3, <1>4 DEF TypeOK

\* Posting TASK_STOP preserves the types.
LEMMA PostStopType ==
    ASSUME TypeOK, InHand, PostStop
    PROVE  TypeOK'
<1>1. CtxType'
  BY DEF PostStop, TypeOK, CtxType, ctxVars
<1>2. QueueType'
  BY IrCtrlAssumption, TypeFacts, CallFacts DEF PostStop, TypeOK, QueueType,
     CtxType, QueueType, WorkerType
<1>3. WorkerType'
  BY DEF PostStop, TypeOK, WorkerType, workerVars
<1>4. ApiType'
  BY IrCtrlAssumption, TypeFacts, CallFacts DEF PostStop, TypeOK, ApiType,
     OwnerPcs, Starting, Closing, Freeing, Resources, ClientPcs, clientVars, ownerVars
<1> QED  BY <1>1, <1>2, <1>3, <1>4 DEF TypeOK

\* A stop that is seen preserves the types.
LEMMA StopSeenType ==
    ASSUME TypeOK, InHand, StopSeen
    PROVE  TypeOK'
<1>1. CtxType'
  BY DEF StopSeen, TypeOK, CtxType, ctxVars
<1>2. QueueType'
  BY DEF StopSeen, TypeOK, QueueType
<1>3. WorkerType'
  BY DEF StopSeen, TypeOK, WorkerType, workerVars
<1>4. ApiType'
  BY IrCtrlAssumption, TypeFacts, CallFacts DEF StopSeen, TypeOK, ApiType,
     OwnerPcs, Starting, Closing, Freeing, Resources, ClientPcs, clientVars, ownerVars
<1> QED  BY <1>1, <1>2, <1>3, <1>4 DEF TypeOK

\* A stop that is forced preserves the types.
LEMMA StopExpiredType ==
    ASSUME TypeOK, InHand, StopExpired
    PROVE  TypeOK'
<1>1. CtxType'
  BY DEF StopExpired, DeleteWorker, GoTo, TypeOK, CtxType, ctxVars
<1>2. QueueType'
  <2>1. txq' \in Seq(Jobs) /\ Len(txq') = Len(txq)
    BY SendIsOverFacts DEF StopExpired, DeleteWorker, TypeOK, QueueType
  <2> QED  BY <2>1 DEF StopExpired, TypeOK, QueueType
<1>3. WorkerType'
  BY IrCtrlAssumption, TypeFacts, CallFacts DEF StopExpired, DeleteWorker, GoTo,
     TypeOK, WorkerType, WorkerPcs, InRxDone, InSend, workerVars
<1>4. ApiType'
  BY IrCtrlAssumption, TypeFacts, CallFacts DEF StopExpired, DeleteWorker, GoTo,
     TypeOK, ApiType, OwnerPcs, Starting, Closing, Freeing, Resources, ClientPcs, clientVars,
     ownerVars
<1> QED  BY <1>1, <1>2, <1>3, <1>4 DEF TypeOK

\* A delete of ir_ctrl_deinit preserves the types.
LEMMA FreeType ==
    ASSUME TypeOK, InHand, Free
    PROVE  TypeOK'
<1>1. CtxType'
  BY DEF Free, TypeOK, CtxType, ctxVars
<1>2. QueueType'
  BY IrCtrlAssumption DEF Free, TypeOK, QueueType
<1>3. WorkerType'
  BY DEF Free, TypeOK, WorkerType, workerVars
<1>4. ApiType'
  BY DEF Free, AfterFree, TypeOK, ApiType, OwnerPcs, Closing, Freeing, Resources,
     clientVars
<1> QED  BY <1>1, <1>2, <1>3, <1>4 DEF TypeOK

\* The end of ir_ctrl_deinit preserves the types.
LEMMA ClearType ==
    ASSUME TypeOK, InHand, Clear
    PROVE  TypeOK'
<1>1. CtxType'
  BY IrCtrlAssumption, TypeFacts DEF Clear, TypeOK, CtxType, States
<1>2. QueueType'
  BY DEF Clear, TypeOK, QueueType
<1>3. WorkerType'
  BY DEF Clear, TypeOK, WorkerType, WorkerPcs
<1>4. ApiType'
  BY DEF Clear, TypeOK, ApiType, OwnerPcs, clientVars
<1> QED  BY <1>1, <1>2, <1>3, <1>4 DEF TypeOK

-----------------------------------------------------------------------------
(* The inductive invariant, part by part.                                  *)

\* Every step preserves the types.
LEMMA TypeStep ==
    ASSUME TypeOK, InHand, [Next]_vars
    PROVE  TypeOK'
<1>1. CASE UNCHANGED vars
  BY <1>1 DEF vars, ctxVars, workerVars, clientVars, ownerVars, TypeOK,
     CtxType, QueueType, WorkerType, ApiType
<1> QED
  BY <1>1, CheckType, EnqueueType, PollType, SlotInfoDoneType, RxDoneType,
     TxDoneType, RxTakeType, JudgeType, StoreType, FinishType, RejectType,
     DrainedType, CmdTimeoutType, CmdTakeType, LearnStartType, LearnCancelType,
     SendBeginType, LoadType, PrepareType, TransmitType, TxWaitType,
     TransmittedType, SendEndType, WorkerStopType, InitOpenType, StartTaskType,
     InitDoneType, DeinitBeginType, PostStopType, StopSeenType, StopExpiredType,
     FreeType, ClearType DEF Next, Worker, WorkerStep

\* Every step preserves what the program counters say.
LEMMA HandStep ==
    ASSUME TypeOK, InHand, [Next]_vars
    PROVE  InHand'
<1>1. ASSUME NEW c \in Clients, Check(c)  PROVE  InHand'
  <2>1. \A d \in Clients : cpc'[d] = "enqueue" => ccall'[d] \in Commands
    BY <1>1, PostedFacts DEF Check, InHand, TypeOK, ApiType, clientVars
  <2> QED  BY <1>1, <2>1 DEF Check, InHand, workerVars
<1>2. ASSUME NEW c \in Clients, Enqueue(c)  PROVE  InHand'
  BY <1>2 DEF Enqueue, Return, InHand, InSend, TypeOK, ApiType, workerVars
<1>3. ASSUME NEW c \in Clients, Poll(c)  PROVE  InHand'
  BY <1>3 DEF Poll, Return, InHand, InSend, TypeOK, ApiType, workerVars
<1>4. ASSUME NEW c \in Clients, SlotInfoDone(c)  PROVE  InHand'
  BY <1>4 DEF SlotInfoDone, Return, InHand, InSend, TypeOK, ApiType, workerVars
<1>5. CASE RxDone
  BY <1>5 DEF RxDone, InHand, InSend, workerVars, clientVars
<1>6. CASE TxDone
  BY <1>6 DEF TxDone, InHand, InSend, workerVars, clientVars
<1>7. CASE RxTake
  BY <1>7 DEF RxTake, InHand, InSend, clientVars
<1>8. CASE Judge
  BY <1>8 DEF Judge, InHand, InSend, clientVars
<1>9. CASE Store
  BY <1>9 DEF Store, InHand, InSend, clientVars
<1>10. CASE Finish
  BY <1>10 DEF Finish, GoTo, FinishToIdle, InHand, InSend, clientVars
<1>11. CASE Reject
  BY <1>11 DEF Reject, GoTo, CancelLearn, StopLearning, FinishToIdle, InHand,
     InSend, clientVars
<1>12. CASE Drained
  BY <1>12 DEF Drained, InHand, InSend, clientVars
<1>13. CASE CmdTimeout
  BY <1>13 DEF CmdTimeout, InHand, InSend, clientVars
<1>14. CASE CmdTake
  <2>1. Head(cmdq) \in QueueCmds
    BY <1>14 DEF CmdTake, TypeOK, QueueType
  <2> QED  BY <1>14, <2>1, QueueOps DEF CmdTake, InHand, InSend, clientVars
<1>15. CASE LearnStart
  BY <1>15 DEF LearnStart, GoTo, ReceiveRefused, FinishToIdle, InHand, InSend,
     clientVars
<1>16. CASE LearnCancel
  BY <1>16 DEF LearnCancel, GoTo, CancelLearn, StopLearning, FinishToIdle,
     InHand, InSend, clientVars
<1>17. CASE SendBegin
  BY <1>17 DEF SendBegin, GoTo, InHand, InSend, clientVars
<1>18. CASE Load
  BY <1>18 DEF Load, SendFailed, InHand, InSend, clientVars
<1>19. CASE Prepare
  BY <1>19 DEF Prepare, SendFailed, InHand, InSend, clientVars
<1>20. CASE Transmit
  BY <1>20 DEF Transmit, SendFailed, AfterTransmit, InHand, InSend, clientVars
<1>21. CASE TxWait
  BY <1>21 DEF TxWait, SendFailed, InHand, InSend, clientVars
<1>22. CASE Transmitted
  BY <1>22 DEF Transmitted, InHand, InSend, clientVars
<1>23. CASE SendEnd
  BY <1>23 DEF SendEnd, GoTo, InHand, InSend, clientVars
<1>24. CASE WorkerStop
  BY <1>24 DEF WorkerStop, GoTo, InHand, InSend, clientVars
<1>25. CASE InitOpen
  BY <1>25 DEF InitOpen, InHand, InSend, workerVars, clientVars
<1>26. CASE StartTask
  BY <1>26 DEF StartTask, InHand, InSend, clientVars
<1>27. CASE InitDone
  BY <1>27 DEF InitDone, InHand, InSend, workerVars, clientVars
<1>28. CASE DeinitBegin
  BY <1>28 DEF DeinitBegin, InHand, InSend, workerVars, clientVars
<1>29. CASE PostStop
  BY <1>29 DEF PostStop, InHand, InSend, workerVars, clientVars
<1>30. CASE StopSeen
  BY <1>30 DEF StopSeen, InHand, InSend, workerVars, clientVars
<1>31. CASE StopExpired
  BY <1>31 DEF StopExpired, DeleteWorker, GoTo, InHand, InSend, clientVars
<1>32. CASE Free \/ Clear
  BY <1>32 DEF Free, Clear, InHand, InSend, workerVars, clientVars
<1>33. CASE UNCHANGED vars
  BY <1>33 DEF vars, ctxVars, workerVars, clientVars, ownerVars,
     InHand, InSend
<1> QED
  BY <1>1, <1>2, <1>3, <1>4, <1>5, <1>6, <1>7, <1>8, <1>9, <1>10, <1>11, <1>12,
     <1>13, <1>14, <1>15, <1>16, <1>17, <1>18, <1>19, <1>20, <1>21, <1>22,
     <1>23, <1>24, <1>25, <1>26, <1>27, <1>28, <1>29, <1>30, <1>31, <1>32, <1>33
     DEF Next, Worker, WorkerStep

\* What the number of captures says about where they are.
LEMMA CaptureFacts ==
    ASSUME NEW hw, NEW q \in Seq(RxEvents), NEW pc
    PROVE  /\ CapturesOf(hw, q, pc) \in Nat
           /\ Len(q) \in Nat
           /\ Len(q) = 0 <=> q = << >>
           /\ CapturesOf(hw, q, pc) = 0 <=>
                hw # "receiving" /\ q = << >> /\ pc \notin InRxDone
           /\ CapturesOf(hw, q, pc) = 1 <=>
                \/ hw = "receiving" /\ q = << >> /\ pc \notin InRxDone
                \/ hw # "receiving" /\ Len(q) = 1 /\ pc \notin InRxDone
                \/ hw # "receiving" /\ q = << >> /\ pc \in InRxDone
<1>1. Len(q) \in Nat /\ (Len(q) = 0 <=> q = << >>)
  OBVIOUS
<1>2. CASE hw = "receiving" /\ pc \in InRxDone
  <2>1. CapturesOf(hw, q, pc) = Len(q) + 2
    BY <1>1, <1>2 DEF CapturesOf
  <2> QED  BY <1>1, <1>2, <2>1
<1>3. CASE hw = "receiving" /\ pc \notin InRxDone
  <2>1. CapturesOf(hw, q, pc) = Len(q) + 1
    BY <1>1, <1>3 DEF CapturesOf
  <2> QED  BY <1>1, <1>3, <2>1
<1>4. CASE hw # "receiving" /\ pc \in InRxDone
  <2>1. CapturesOf(hw, q, pc) = Len(q) + 1
    BY <1>1, <1>4 DEF CapturesOf
  <2> QED  BY <1>1, <1>4, <2>1
<1>5. CASE hw # "receiving" /\ pc \notin InRxDone
  <2>1. CapturesOf(hw, q, pc) = Len(q)
    BY <1>1, <1>5 DEF CapturesOf
  <2> QED  BY <1>1, <1>5, <2>1
<1> QED  BY <1>2, <1>3, <1>4, <1>5

\* Every step keeps the worker where the owner's phase allows it.
LEMMA LifecycleStep ==
    ASSUME TypeOK, InHand, Lifecycle, ReleaseInv, [Next]_vars
    PROVE  Lifecycle'
<1>1. ASSUME NEW c \in Clients, Check(c)  PROVE  Lifecycle'
  BY <1>1 DEF Check, Lifecycle, Captures, CapturesOf, InRxDone, InSend, TypeOK,
     QueueType, ApiType, ctxVars, workerVars, clientVars, ownerVars
<1>2. ASSUME NEW c \in Clients, Enqueue(c)  PROVE  Lifecycle'
  <2>1. ccall[c] \in Commands
    BY <1>2 DEF Enqueue, InHand
  <2>2. \A x : \A i \in 1..Len(Append(cmdq, x)) :
          Append(cmdq, x)[i] = IF i <= Len(cmdq) THEN cmdq[i] ELSE x
    BY DEF TypeOK, QueueType
  <2>3. \/ UNCHANGED cmdq
        \/ cmdq' = Append(cmdq, [from |-> c, call |-> ccall[c]])
    BY <1>2 DEF Enqueue
  <2>4. owner \notin {"poll"} \cup Freeing =>
          \A i \in 1..Len(cmdq') : cmdq'[i].call \in Commands
    <3>1. SUFFICES ASSUME owner \notin {"poll"} \cup Freeing,
                          cmdq' = Append(cmdq, [from |-> c, call |-> ccall[c]]),
                          NEW i \in 1..Len(cmdq')
                   PROVE  cmdq'[i].call \in Commands
      BY <2>3 DEF Lifecycle
    <3>2. CASE i <= Len(cmdq)
      BY <2>2, <3>1, <3>2 DEF Lifecycle, TypeOK, QueueType
    <3>3. CASE ~(i <= Len(cmdq))
      BY <2>1, <2>2, <3>1, <3>3
    <3> QED  BY <3>2, <3>3
  <2>5. cpc[c] # "idle" /\ UNCHANGED owner
    BY <1>2 DEF Enqueue, ownerVars
  <2>6. UNCHANGED <<state, handles, rxHw, rxq, txq, wpc, Captures>>
    BY <1>2 DEF Enqueue, ctxVars, workerVars, Captures
  <2>7. (Disciplined /\ owner' # "up") => \A d \in Clients : cpc'[d] = "idle"
    BY <2>5 DEF Lifecycle
  <2> QED  BY <2>4, <2>5, <2>6, <2>7 DEF Lifecycle
<1>3. ASSUME NEW c \in Clients, Poll(c)  PROVE  Lifecycle'
  BY <1>3 DEF Poll, Return, Lifecycle, Captures, CapturesOf, InRxDone, InSend,
     TypeOK, QueueType, ApiType, ctxVars, workerVars, clientVars,
     ownerVars
<1>4. ASSUME NEW c \in Clients, SlotInfoDone(c)  PROVE  Lifecycle'
  BY <1>4 DEF SlotInfoDone, Return, Lifecycle, Captures, CapturesOf, InRxDone,
     InSend, TypeOK, QueueType, ApiType, ctxVars, workerVars,
     clientVars, ownerVars
<1>5. CASE RxDone
  <2>1. Captures # 0
    BY <1>5, CaptureFacts DEF RxDone, Captures, TypeOK, QueueType
  <2>3. owner # "started" /\ wpc # "none"
    BY <1>5, <2>1 DEF RxDone, Lifecycle
  <2>4. UNCHANGED <<state, handles, txq, cmdq, wpc, owner, cpc>>
    BY <1>5 DEF RxDone, ctxVars, workerVars, ownerVars, clientVars
  <2> QED  BY <2>3, <2>4 DEF Lifecycle
<1>6. CASE TxDone
  BY <1>6 DEF TxDone, Lifecycle, Captures, CapturesOf, InRxDone, InSend, TypeOK,
     QueueType, ApiType, ctxVars, workerVars, clientVars, ownerVars
<1>7. CASE RxTake
  <2>1. Captures # 0
    BY <1>7, CaptureFacts DEF RxTake, Captures, TypeOK, QueueType
  <2>2. owner # "started" /\ wpc = "drain"
    BY <1>7, <2>1 DEF RxTake, Lifecycle
  <2>3. /\ UNCHANGED <<state, handles, rxHw, txq, cmdq, owner, cpc>>
        /\ wpc' \in {"drain", "judge"}
    BY <1>7 DEF RxTake, ctxVars, ownerVars, clientVars
  <2> QED  BY <2>2, <2>3 DEF Lifecycle
<1>8. CASE Judge
  BY <1>8 DEF Judge, Lifecycle, Captures, CapturesOf, InRxDone, InSend, TypeOK,
     QueueType, ApiType, ctxVars, workerVars, clientVars, ownerVars
<1>9. CASE Store
  BY <1>9 DEF Store, Lifecycle, Captures, CapturesOf, InRxDone, InSend, TypeOK,
     QueueType, ApiType, ctxVars, workerVars, clientVars, ownerVars
<1>10. CASE Finish
  BY <1>10 DEF Finish, GoTo, FinishToIdle, Lifecycle, Captures, CapturesOf,
     InRxDone, InSend, TypeOK, QueueType, ApiType, ctxVars, workerVars,
     clientVars, ownerVars
<1>11. CASE Reject
  BY <1>11 DEF Reject, GoTo, CancelLearn, StopLearning, FinishToIdle, Lifecycle,
     Captures, CapturesOf, InRxDone, InSend, TypeOK, QueueType, ApiType,
     ctxVars, workerVars, clientVars, ownerVars
<1>12. CASE Drained
  BY <1>12 DEF Drained, Lifecycle, Captures, CapturesOf, InRxDone, InSend,
     TypeOK, QueueType, ApiType, ctxVars, workerVars, clientVars,
     ownerVars
<1>13. CASE CmdTimeout
  BY <1>13 DEF CmdTimeout, Lifecycle, Captures, CapturesOf, InRxDone, InSend,
     TypeOK, QueueType, ApiType, ctxVars, workerVars, clientVars,
     ownerVars
<1>14. CASE CmdTake
  <2>1. Head(cmdq) \in QueueCmds /\ Head(cmdq) = cmdq[1] /\ Len(cmdq) > 0
    BY <1>14 DEF CmdTake, TypeOK, QueueType
  <2>2. wpc' \in {"learn_start", "learn_cancel", "send", "stop"}
    BY <1>14, <2>1, QueueOps DEF CmdTake
  <2>3. owner \notin {"poll"} \cup Freeing => wpc' # "stop"
    BY <1>14, <2>1, QueueOps DEF CmdTake, Lifecycle
  <2>4. \A i \in 1..Len(cmdq') : \E j \in 1..Len(cmdq) : cmdq'[i] = cmdq[j]
    <3>1. /\ Len(cmdq') = Len(cmdq) - 1
          /\ \A i \in 1..Len(cmdq') : cmdq'[i] = cmdq[i + 1]
      BY <1>14 DEF CmdTake, TypeOK, QueueType
    <3> QED  BY <3>1 DEF TypeOK, QueueType
  <2>5. UNCHANGED <<state, handles, rxHw, rxq, txq, owner, cpc>> /\ wpc = "cmd"
    BY <1>14 DEF CmdTake, ctxVars, ownerVars, clientVars
  <2>6. UNCHANGED Captures
    BY <2>2, <2>5 DEF Captures, CapturesOf, InRxDone
  <2> QED  BY <2>2, <2>3, <2>4, <2>5, <2>6 DEF Lifecycle, InSend
<1>15. CASE LearnStart
  <2>1. owner \notin {"down", "failed", "opened"} \cup Freeing /\ wpc = "learn_start"
    BY <1>15 DEF LearnStart, Lifecycle
  <2>2. UNCHANGED <<handles, rxq, txq, cmdq, owner, cpc>> /\ wpc' = "drain"
    BY <1>15 DEF LearnStart, GoTo, ownerVars, clientVars
  <2>3. owner = "started" => UNCHANGED <<state, rxHw>>
    BY <1>15 DEF LearnStart, MayBegin, Inited, Lifecycle, ctxVars
  <2>4. state # "UNINIT" => state' # "UNINIT"
    BY <1>15 DEF LearnStart, ReceiveRefused, FinishToIdle, ctxVars
  <2>5. owner = "started" => UNCHANGED Captures
    BY <2>1, <2>2, <2>3 DEF Captures, CapturesOf, InRxDone
  <2> QED  BY <2>1, <2>2, <2>3, <2>4, <2>5 DEF Lifecycle, InSend
<1>16. CASE LearnCancel
  BY <1>16 DEF LearnCancel, GoTo, CancelLearn, StopLearning, FinishToIdle,
     Lifecycle, Captures, CapturesOf, InRxDone, InSend, TypeOK, QueueType,
     ApiType, ctxVars, workerVars, clientVars, ownerVars
<1>17. CASE SendBegin
  <2>1. owner \notin {"down", "failed", "opened"} \cup Freeing /\ wpc = "send"
    BY <1>17 DEF SendBegin, Lifecycle
  <2>2. /\ UNCHANGED <<handles, rxHw, rxq, txq, cmdq, owner, cpc>>
        /\ wpc' \in {"drain", "load"}
    BY <1>17 DEF SendBegin, GoTo, ownerVars, clientVars
  <2>3. owner = "started" => wpc' = "drain" /\ UNCHANGED state
    BY <1>17 DEF SendBegin, GoTo, MayBegin, Inited, Lifecycle
  <2>4. state # "UNINIT" => state' # "UNINIT"
    BY <1>17 DEF SendBegin
  <2>5. UNCHANGED Captures
    BY <2>1, <2>2 DEF Captures, CapturesOf, InRxDone
  <2> QED  BY <2>1, <2>2, <2>3, <2>4, <2>5 DEF Lifecycle, InSend
<1>18. CASE Load
  BY <1>18 DEF Load, SendFailed, Lifecycle, Captures, CapturesOf, InRxDone,
     InSend, TypeOK, QueueType, ApiType, ctxVars, workerVars,
     clientVars, ownerVars
<1>19. CASE Prepare
  BY <1>19 DEF Prepare, SendFailed, Lifecycle, Captures, CapturesOf, InRxDone,
     InSend, TypeOK, QueueType, ApiType, ctxVars, workerVars,
     clientVars, ownerVars
<1>20. CASE Transmit
  BY <1>20 DEF Transmit, SendFailed, AfterTransmit, Lifecycle, Captures,
     CapturesOf, InRxDone, InSend, TypeOK, QueueType, ApiType, ctxVars,
     workerVars, clientVars, ownerVars
<1>21. CASE TxWait
  BY <1>21 DEF TxWait, SendFailed, Lifecycle, Captures, CapturesOf, InRxDone, InSend,
     TypeOK, QueueType, ApiType, ctxVars, workerVars, clientVars,
     ownerVars
<1>22. CASE Transmitted
  BY <1>22 DEF Transmitted, Lifecycle, Captures, CapturesOf, InRxDone, InSend,
     TypeOK, QueueType, ApiType, ctxVars, workerVars, clientVars,
     ownerVars
<1>23. CASE SendEnd
  BY <1>23 DEF SendEnd, GoTo, Lifecycle, Captures, CapturesOf, InRxDone, InSend,
     TypeOK, QueueType, ApiType, ctxVars, workerVars, clientVars,
     ownerVars
<1>24. CASE WorkerStop
  BY <1>24 DEF WorkerStop, GoTo, Lifecycle, Captures, CapturesOf, InRxDone,
     InSend, TypeOK, QueueType, ApiType, ctxVars, workerVars,
     clientVars, ownerVars
<1>25. CASE InitOpen
  <2>1. owner \in {"down", "failed"} /\ owner' \in {"failed", "opened"}
    BY <1>25 DEF InitOpen, Aborts
  <2>2. /\ state' = "UNINIT" /\ rxHw' # "receiving" /\ cmdq' = << >>
        /\ owner' = "opened" => handles' = Resources
    BY <1>25 DEF InitOpen, Aborts
  <2>3. UNCHANGED <<rxq, txq, wpc, cpc>>
    BY <1>25 DEF InitOpen, workerVars, clientVars
  <2> QED  BY <2>1, <2>2, <2>3 DEF Lifecycle
<1>26. CASE StartTask
  BY <1>26 DEF StartTask, Lifecycle, Captures, CapturesOf, InRxDone, InSend,
     TypeOK, QueueType, ApiType, ctxVars, workerVars, clientVars,
     ownerVars, Freeing, Resources
<1>27. CASE InitDone
  BY <1>27 DEF InitDone, Lifecycle, Captures, CapturesOf, InRxDone, InSend,
     TypeOK, QueueType, ApiType, ctxVars, workerVars, clientVars,
     ownerVars, Freeing, Resources
<1>28. CASE DeinitBegin
  BY <1>28 DEF DeinitBegin, Lifecycle, Captures, CapturesOf, InRxDone, InSend,
     TypeOK, QueueType, ApiType, ctxVars, workerVars, clientVars,
     ownerVars, Freeing, Resources
<1>29. CASE PostStop
  BY <1>29 DEF PostStop, Lifecycle, Captures, CapturesOf, InRxDone, InSend,
     TypeOK, QueueType, ApiType, ctxVars, workerVars, clientVars,
     ownerVars, Freeing, Resources
<1>30. CASE StopSeen
  BY <1>30 DEF StopSeen, Lifecycle, Captures, CapturesOf, InRxDone, InSend,
     TypeOK, QueueType, ApiType, ctxVars, workerVars, clientVars,
     ownerVars, Freeing, Resources
<1>31. CASE StopExpired
  BY <1>31 DEF StopExpired, DeleteWorker, GoTo, Lifecycle, Captures, CapturesOf,
     InRxDone, InSend, TypeOK, QueueType, ApiType, ctxVars, workerVars,
     clientVars, ownerVars, Freeing, Resources
<1>32. CASE Free \/ Clear
  <2>1. CASE Free
    <3>1. owner \in Resources /\ owner' \in Freeing /\ wpc \in {"none", "gone"}
      BY <2>1 DEF Free, AfterFree, Freeing, Resources, Lifecycle
    <3>2. owner' \notin {"down", "failed", "opened", "started", "up", "stop", "poll"}
      BY <3>1 DEF Freeing, Resources
    <3>3. UNCHANGED <<wpc, cpc>>
      BY <2>1 DEF Free, workerVars, clientVars
    <3>4. wpc = "none" => rxHw' # "receiving" /\ rxq' = << >> /\ txq' = << >>
      BY <2>1 DEF Free, Lifecycle
    <3>5. owner # "up"
      BY <3>1 DEF Resources
    <3> QED  BY <3>1, <3>2, <3>3, <3>4, <3>5 DEF Lifecycle
  <2>2. CASE Clear
    <3>1. handles = {}
      BY <2>2 DEF Clear, ReleaseInv, Freed, TypeOK, CtxType
    <3>2. rxHw # "receiving" /\ rxq = << >> /\ txq = << >> /\ cmdq = << >>
      BY <3>1 DEF ReleaseInv
    <3> QED  BY <2>2, <3>2 DEF Clear, Lifecycle, clientVars
  <2> QED  BY <1>32, <2>1, <2>2
<1>33. CASE UNCHANGED vars
  BY <1>33 DEF vars, ctxVars, workerVars, clientVars, ownerVars,
     Lifecycle, Captures, CapturesOf, InRxDone, InSend
<1> QED
  BY <1>1, <1>2, <1>3, <1>4, <1>5, <1>6, <1>7, <1>8, <1>9, <1>10, <1>11, <1>12,
     <1>13, <1>14, <1>15, <1>16, <1>17, <1>18, <1>19, <1>20, <1>21, <1>22,
     <1>23, <1>24, <1>25, <1>26, <1>27, <1>28, <1>29, <1>30, <1>31, <1>32, <1>33
     DEF Next, Worker, WorkerStep

\* While the worker runs, or is about to, every resource is there.
LEMMA HeldWhileRunning ==
    ASSUME TypeOK, Lifecycle, owner \notin {"down", "failed"} \cup Freeing
    PROVE  handles = Resources
BY DEF Lifecycle, TypeOK, ApiType, OwnerPcs, Starting, Closing

\* A step that leaves the owner and the resources alone.
LEMMA ReleaseSame ==
    ASSUME ReleaseInv, UNCHANGED <<handles, owner>>,
           txq' # << >> => txq # << >>,
           rxHw' = "receiving" => rxHw = "receiving",
           rxq' # << >> => rxq # << >> \/ "rx_evt_q" \in handles,
           cmdq' # << >> => cmdq # << >> \/ "cmd_q" \in handles
    PROVE  ReleaseInv'
BY DEF ReleaseInv, Freed

\* A step that ends with every resource held and none deleted.
LEMMA ReleaseNotBegun ==
    ASSUME handles' = Resources, Freed(owner') = {}
    PROVE  ReleaseInv'
BY DEF ReleaseInv, Resources

\* Every step preserves what the release leaves: a queue or a channel in use is held.
LEMMA ReleaseStep ==
    ASSUME TypeOK, InHand, Lifecycle, ReleaseInv, [Next]_vars
    PROVE  ReleaseInv'
<1>1. ASSUME NEW c \in Clients,
             Check(c) \/ Enqueue(c) \/ Poll(c) \/ SlotInfoDone(c)
      PROVE  ReleaseInv'
  <2>1. /\ UNCHANGED <<handles, owner, txq, rxHw, rxq>>
        /\ UNCHANGED cmdq \/ "cmd_q" \in handles
    BY <1>1 DEF Check, Enqueue, Poll, SlotInfoDone, ownerVars
  <2> QED  BY <2>1, ReleaseSame
<1>2. CASE RxDone
  <2>1. "rx_evt_q" \in handles
    BY <1>2 DEF RxDone, ReleaseInv
  <2> QED  BY <1>2, <2>1, ReleaseSame DEF RxDone, ownerVars
<1>3. CASE TxDone
  BY <1>3, ReleaseSame DEF TxDone, ownerVars
<1>4. CASE WorkerStep
  <2>1. wpc \notin {"none", "gone"} /\ UNCHANGED <<handles, owner>>
    BY <1>4 DEF WorkerStep, RxTake, Judge, Store, Finish, Reject, Drained, CmdTimeout,
       CmdTake, LearnStart, LearnCancel, SendBegin, Load, Prepare, Transmit, TxWait,
       Transmitted, SendEnd, WorkerStop, ownerVars
  <2>2. owner \notin {"down", "failed"} \cup Freeing
    BY <2>1 DEF Lifecycle
  <2>3. Freed(owner) = {}
    BY <2>2 DEF Freed, Freeing, Resources
  <2> QED  BY <2>1, <2>2, <2>3, HeldWhileRunning, ReleaseNotBegun DEF Freed
<1>5. CASE StartTask \/ InitDone \/ PostStop \/ StopSeen \/ StopExpired
  <2>1. /\ owner \in {"opened", "started", "stop", "poll"} /\ UNCHANGED handles
        /\ owner' \in {"started", "up", "poll", "tx_chan"}
    BY <1>5 DEF StartTask, InitDone, PostStop, StopSeen, StopExpired
  <2>2. handles = Resources
    BY <2>1 DEF Lifecycle
  <2> QED  BY <2>1, <2>2, ReleaseNotBegun DEF Freed
<1>6. CASE DeinitBegin
  <2>1. /\ UNCHANGED <<handles, txq, rxHw, rxq, cmdq>>
        /\ owner' \in {"tx_chan", "stop"}
    BY <1>6 DEF DeinitBegin
  <2> QED  BY <2>1 DEF ReleaseInv, Freed
<1>7. CASE InitOpen
  <2>1. /\ owner \in {"down", "failed"} /\ owner' \in {"failed", "opened"}
        /\ rxHw' # "receiving" /\ cmdq' = << >> /\ UNCHANGED <<rxq, txq>>
    BY <1>7 DEF InitOpen, Aborts
  <2>2. rxq = << >> /\ txq = << >>
    BY <2>1 DEF Lifecycle
  <2> QED  BY <2>1, <2>2 DEF ReleaseInv, Freed
<1>8. CASE Free
  <2>1. /\ owner \in Resources /\ owner' = AfterFree(owner)
        /\ handles' = handles \ {owner}
        /\ txq'  = IF owner = "tx_chan"  THEN << >> ELSE txq
        /\ rxHw' = IF owner = "rx_chan"  THEN "off" ELSE rxHw
        /\ rxq'  = IF owner = "rx_evt_q" THEN << >> ELSE rxq
        /\ cmdq' = IF owner = "cmd_q"    THEN << >> ELSE cmdq
    BY <1>8 DEF Free
  <2>2. Freed(owner') \subseteq Freed(owner) \cup {owner}
    BY <2>1 DEF AfterFree, Freed, Resources, Driver
  <2>3. handles' \cap Freed(owner') = {}
    BY <2>1, <2>2 DEF ReleaseInv
  <2>4. /\ owner = "copy_enc" => "tx_chan" \notin handles
        /\ owner = "rx_evt_q" => "rx_chan" \notin handles
    BY DEF ReleaseInv, Freed, Driver
  <2> QED  BY <2>1, <2>3, <2>4 DEF ReleaseInv
<1>9. CASE Clear
  <2>1. handles = {}
    BY <1>9 DEF Clear, ReleaseInv, Freed, TypeOK, CtxType
  <2> QED  BY <1>9, <2>1 DEF Clear, ReleaseInv, Freed
<1>10. CASE UNCHANGED vars
  BY <1>10, ReleaseSame DEF vars, ownerVars
<1> QED
  BY <1>1, <1>2, <1>3, <1>4, <1>5, <1>6, <1>7, <1>8, <1>9, <1>10 DEF Next, Worker

\* Every step preserves the receive side.
LEMMA ReceiveStep ==
    ASSUME TypeOK, InHand, Lifecycle, ReceiveInv, SendInv, [Next]_vars
    PROVE  ReceiveInv'
<1>a. /\ Captures \in Nat /\ Captures' \in Nat
      /\ Captures = 0 <=> rxHw # "receiving" /\ rxq = << >> /\ wpc \notin InRxDone
      /\ Captures' = 0 <=> rxHw' # "receiving" /\ rxq' = << >> /\ wpc' \notin InRxDone
  BY TypeStep, CaptureFacts DEF Captures, TypeOK, QueueType
<1>b. /\ Captures = 1 <=>
           \/ rxHw = "receiving" /\ rxq = << >> /\ wpc \notin InRxDone
           \/ rxHw # "receiving" /\ Len(rxq) = 1 /\ wpc \notin InRxDone
           \/ rxHw # "receiving" /\ rxq = << >> /\ wpc \in InRxDone
      /\ Captures' = 1 <=>
           \/ rxHw' = "receiving" /\ rxq' = << >> /\ wpc' \notin InRxDone
           \/ rxHw' # "receiving" /\ Len(rxq') = 1 /\ wpc' \notin InRxDone
           \/ rxHw' # "receiving" /\ rxq' = << >> /\ wpc' \in InRxDone
  BY TypeStep, CaptureFacts DEF Captures, TypeOK, QueueType
<1>1. ASSUME NEW c \in Clients, Check(c)  PROVE  ReceiveInv'
  BY <1>1, <1>a, <1>b DEF Check, ReceiveInv, Running, InRxDone, ctxVars,
     workerVars
<1>2. ASSUME NEW c \in Clients, Enqueue(c)  PROVE  ReceiveInv'
  BY <1>2, <1>a, <1>b DEF Enqueue, Return, ReceiveInv, Running, InRxDone,
     ctxVars, workerVars
<1>3. ASSUME NEW c \in Clients, Poll(c)  PROVE  ReceiveInv'
  BY <1>3, <1>a, <1>b DEF Poll, Return, ReceiveInv, Running, InRxDone, ctxVars,
     workerVars
<1>4. ASSUME NEW c \in Clients, SlotInfoDone(c)  PROVE  ReceiveInv'
  BY <1>4, <1>a, <1>b DEF SlotInfoDone, Return, ReceiveInv, Running, InRxDone,
     ctxVars, workerVars
<1>5. CASE RxDone
  <2>1. CASE ~Running
    BY <1>5, <2>1 DEF RxDone, ReceiveInv, Running, workerVars
  <2>2. CASE Running
    <3>1. Captures = 1 /\ state \in {"LEARNING", "UNINIT"}
      BY <1>5, <2>2, <1>a DEF RxDone, ReceiveInv
    <3>2. rxq = << >> /\ wpc \notin InRxDone
      BY <1>5, <3>1, <1>b DEF RxDone
    <3>3. Len(rxq') = 1
      BY <1>5, <3>2, IrCtrlAssumption DEF RxDone
    <3>4. rxHw' # "receiving" /\ UNCHANGED <<state, activeGen, learnGen, wpc>>
      BY <1>5 DEF RxDone, ctxVars, workerVars
    <3>5. Captures' = 1
      BY <1>b, <3>2, <3>3, <3>4
    <3> QED  BY <2>2, <3>1, <3>4, <3>5 DEF ReceiveInv, InRxDone
  <2> QED  BY <2>1, <2>2
<1>6. CASE TxDone
  BY <1>6, <1>a, <1>b DEF TxDone, ReceiveInv, Running, InRxDone, ctxVars,
     workerVars
<1>7. CASE RxTake
  <2>1. Running /\ wpc = "drain" /\ rxq # << >>
    BY <1>7 DEF RxTake, Running
  <2>2. Captures = 1 /\ rxHw # "receiving"
    BY <2>1, <1>a, <1>b DEF ReceiveInv
  <2>3. Len(rxq) = 1 /\ rxq' = Tail(rxq)
    BY <1>7, <2>1, <2>2, <1>b DEF RxTake
  <2>4. rxq' = << >>
    BY <2>3 DEF TypeOK, QueueType
  <2>5. UNCHANGED <<state, activeGen, learnGen, rxHw>>
    BY <1>7 DEF RxTake, ctxVars
  <2>6. CASE state = "LEARNING"
    <3>1. wpc' = "judge"
      BY <1>7, <2>1, <2>6 DEF RxTake, ReceiveInv
    <3>2. Captures' = 1
      BY <1>b, <2>2, <2>4, <2>5, <3>1 DEF InRxDone
    <3> QED  BY <2>1, <2>2, <2>4, <2>5, <2>6, <3>1, <3>2 DEF ReceiveInv
  <2>7. CASE state # "LEARNING"
    <3>1. wpc' = "drain"
      BY <1>7, <2>7 DEF RxTake
    <3>2. Captures' = 0
      BY <1>a, <2>2, <2>4, <2>5, <3>1 DEF InRxDone
    <3> QED  BY <2>2, <2>4, <2>5, <2>7, <3>1, <3>2 DEF ReceiveInv, InRxDone
  <2> QED  BY <2>6, <2>7
<1>8. CASE Judge
  BY <1>8, <1>a, <1>b DEF Judge, ReceiveInv, Running, InRxDone, ctxVars,
     workerVars
<1>9. CASE Store
  BY <1>9, <1>a, <1>b DEF Store, ReceiveInv, Running, InRxDone, ctxVars,
     workerVars
<1>10. CASE Finish
  BY <1>10, <1>a, <1>b DEF Finish, GoTo, FinishToIdle, ReceiveInv, Running,
     InRxDone, ctxVars, workerVars
<1>11. CASE Reject
  <2>1. Running /\ wpc \in InRxDone /\ wpc' = "drain" /\ UNCHANGED rxq
    BY <1>11 DEF Reject, GoTo, Running, InRxDone
  <2>2. rxHw # "receiving" /\ rxq = << >> /\ state \in {"LEARNING", "UNINIT"}
    BY <2>1, <1>a, <1>b DEF ReceiveInv
  <2>3. handles = Resources
    BY <1>11, <2>1 DEF Reject, Lifecycle, TypeOK, ApiType, OwnerPcs, Starting, Closing, Freeing, Resources
  <2>4. state' # "LEARNING" /\ rxHw' # "receiving"
    BY <1>11, <2>2, <2>3 DEF Reject, CancelLearn, StopLearning, FinishToIdle, Inited,
       Driver, Resources, ctxVars
  <2>5. Captures' = 0
    BY <1>a, <2>1, <2>2, <2>4 DEF InRxDone
  <2> QED  BY <2>1, <2>2, <2>4, <2>5 DEF ReceiveInv, InRxDone
<1>12. CASE Drained
  BY <1>12, <1>a, <1>b DEF Drained, ReceiveInv, Running, InRxDone, ctxVars,
     workerVars
<1>13. CASE CmdTimeout
  BY <1>13, <1>a, <1>b DEF CmdTimeout, ReceiveInv, Running, InRxDone, ctxVars,
     workerVars
<1>14. CASE CmdTake
  <2>1. Head(cmdq) \in QueueCmds
    BY <1>14 DEF CmdTake, TypeOK, QueueType
  <2>2. Running /\ wpc \notin InRxDone /\ wpc' \notin InRxDone
    BY <1>14, <2>1, QueueOps DEF CmdTake, Running, InRxDone
  <2>3. UNCHANGED <<state, activeGen, learnGen, rxHw, rxq>> /\ wpc # "drain"
    BY <1>14 DEF CmdTake, ctxVars
  <2>4. UNCHANGED Captures
    BY <2>2, <2>3 DEF Captures, CapturesOf
  <2> QED  BY <2>2, <2>3, <2>4 DEF ReceiveInv
<1>15. CASE LearnStart
  <2>1. Running /\ wpc = "learn_start" /\ wpc' = "drain" /\ UNCHANGED rxq
    BY <1>15 DEF LearnStart, GoTo, Running
  <2>2. wpc \notin InRxDone /\ wpc' \notin InRxDone /\ wpc \notin InSend
    BY <2>1 DEF InRxDone, InSend
  <2>3. CASE ~MayBegin("store")
    <3>1. UNCHANGED <<state, activeGen, learnGen, rxHw>>
      BY <1>15, <2>3 DEF LearnStart, ctxVars
    <3>2. UNCHANGED Captures
      BY <2>1, <2>2, <3>1 DEF Captures, CapturesOf
    <3> QED  BY <2>1, <2>2, <3>1, <3>2 DEF ReceiveInv
  <2>4. CASE MayBegin("store")
    <3>1. state \notin {"UNINIT", "LEARNING"}
      BY <2>4 DEF MayBegin, Inited, Busy
    <3>2. Captures = 0
      BY <2>1, <2>2, <3>1, <1>a DEF ReceiveInv
    <3>3. activeGen' = learnGen' /\ state' \in {"LEARNING", "IDLE"}
      BY <1>15, <2>4 DEF LearnStart, ReceiveRefused, FinishToIdle
    <3>4. CASE rxHw' = "receiving" /\ state' = "LEARNING"
      <4>1. Captures' = 1
        BY <1>a, <1>b, <2>1, <2>2, <3>2, <3>4
      <4> QED  BY <2>1, <2>2, <3>3, <3>4, <4>1 DEF ReceiveInv
    <3>5. CASE UNCHANGED rxHw /\ state' = "IDLE"
      <4>1. Captures' = 0
        BY <1>a, <2>1, <2>2, <3>2, <3>5
      <4> QED  BY <1>a, <2>1, <2>2, <3>5, <4>1 DEF ReceiveInv
    <3>6. \/ rxHw' = "receiving" /\ state' = "LEARNING"
          \/ UNCHANGED rxHw /\ state' = "IDLE"
      BY <1>15, <2>4 DEF LearnStart, ReceiveRefused, FinishToIdle
    <3> QED  BY <3>4, <3>5, <3>6
  <2> QED  BY <2>3, <2>4
<1>16. CASE LearnCancel
  BY <1>16, <1>a, <1>b DEF LearnCancel, GoTo, CancelLearn, StopLearning,
     FinishToIdle, ReceiveInv, Running, InRxDone, ctxVars, workerVars
<1>17. CASE SendBegin
  <2>1. Running /\ wpc = "send" /\ UNCHANGED <<activeGen, learnGen, rxHw, rxq>>
    BY <1>17 DEF SendBegin, Running
  <2>2. wpc' \in {"drain", "load"}
    BY <1>17 DEF SendBegin, GoTo
  <2>3. UNCHANGED Captures
    BY <2>1, <2>2 DEF Captures, CapturesOf, InRxDone
  <2>4. CASE MayBegin("load")
    <3>1. state \notin {"UNINIT", "LEARNING"} /\ state' = "SENDING"
      BY <1>17, <2>4 DEF SendBegin, MayBegin, Inited, Busy
    <3>2. Captures = 0
      BY <1>a, <2>1, <3>1 DEF ReceiveInv, InRxDone
    <3> QED  BY <1>a, <2>2, <2>3, <3>1, <3>2 DEF ReceiveInv
  <2>5. CASE ~MayBegin("load")
    <3>1. UNCHANGED state /\ wpc' = "drain"
      BY <1>17, <2>5 DEF SendBegin, GoTo
    <3> QED  BY <2>1, <2>3, <3>1 DEF ReceiveInv, InRxDone
  <2> QED  BY <2>4, <2>5
<1>18. CASE Load
  BY <1>18, <1>a, <1>b DEF Load, SendFailed, ReceiveInv, Running, InRxDone,
     ctxVars, workerVars
<1>19. CASE Prepare
  BY <1>19, <1>a, <1>b DEF Prepare, SendFailed, ReceiveInv, Running, InRxDone,
     ctxVars, workerVars
<1>20. CASE Transmit
  BY <1>20, <1>a, <1>b DEF Transmit, SendFailed, AfterTransmit, ReceiveInv,
     Running, InRxDone, ctxVars, workerVars
<1>21. CASE TxWait
  BY <1>21, <1>a, <1>b DEF TxWait, SendFailed, ReceiveInv, Running, InRxDone, ctxVars,
     workerVars
<1>22. CASE Transmitted
  BY <1>22, <1>a, <1>b DEF Transmitted, ReceiveInv, Running, InRxDone, ctxVars,
     workerVars
<1>23. CASE SendEnd
  <2>1. Running /\ wpc \in InSend
    BY <1>23 DEF SendEnd, Running, InSend
  <2>2. Captures = 0
    BY <2>1 DEF SendInv
  <2>3. UNCHANGED <<rxHw, rxq>> /\ wpc' = "drain" /\ state' = "IDLE"
    BY <1>23 DEF SendEnd, GoTo
  <2>4. Captures' = 0
    BY <1>a, <2>2, <2>3 DEF InRxDone
  <2> QED  BY <1>a, <2>3, <2>4 DEF ReceiveInv
<1>24. CASE WorkerStop
  BY <1>24, <1>a, <1>b DEF WorkerStop, GoTo, ReceiveInv, Running, InRxDone,
     ctxVars, workerVars
<1>25. CASE InitOpen
  BY <1>25, <1>a, <1>b DEF InitOpen, ReceiveInv, Running, InRxDone, ctxVars,
     workerVars
<1>26. CASE StartTask
  <2>1. wpc = "none" /\ state = "UNINIT"
    BY <1>26 DEF StartTask, Lifecycle
  <2>2. rxHw # "receiving" /\ rxq = << >>
    BY <2>1 DEF Lifecycle
  <2>3. UNCHANGED <<rxHw, rxq, state>> /\ wpc' = "drain"
    BY <1>26 DEF StartTask, ctxVars
  <2>4. Captures' = 0
    BY <1>a, <2>2, <2>3 DEF InRxDone
  <2> QED  BY <1>a, <2>1, <2>3, <2>4 DEF ReceiveInv
<1>27. CASE InitDone
  <2>1. Captures = 0
    BY <1>27 DEF InitDone, Lifecycle
  <2>2. UNCHANGED <<rxHw, rxq, wpc>> /\ state' = "IDLE"
    BY <1>27 DEF InitDone, workerVars
  <2>3. Captures' = 0
    BY <1>a, <2>1, <2>2
  <2> QED  BY <1>a, <2>2, <2>3 DEF ReceiveInv
<1>28. CASE DeinitBegin
  BY <1>28, <1>a, <1>b DEF DeinitBegin, ReceiveInv, Running, InRxDone, ctxVars,
     workerVars
<1>29. CASE PostStop
  BY <1>29, <1>a, <1>b DEF PostStop, ReceiveInv, Running, InRxDone, ctxVars,
     workerVars
<1>30. CASE StopSeen
  BY <1>30, <1>a, <1>b DEF StopSeen, ReceiveInv, Running, InRxDone, ctxVars,
     workerVars
<1>31. CASE StopExpired
  BY <1>31, <1>a, <1>b DEF StopExpired, DeleteWorker, GoTo, ReceiveInv, Running,
     InRxDone, ctxVars, workerVars
<1>32. CASE Free \/ Clear
  BY <1>32, <1>a, <1>b DEF Free, Clear, Lifecycle, Freeing, ReceiveInv, Running, InRxDone, ctxVars,
     workerVars
<1>33. CASE UNCHANGED vars
  BY <1>33 DEF vars, ctxVars, workerVars, clientVars, ownerVars,
     ReceiveInv, Running, InRxDone, Captures
<1> QED
  BY <1>1, <1>2, <1>3, <1>4, <1>5, <1>6, <1>7, <1>8, <1>9, <1>10, <1>11, <1>12,
     <1>13, <1>14, <1>15, <1>16, <1>17, <1>18, <1>19, <1>20, <1>21, <1>22,
     <1>23, <1>24, <1>25, <1>26, <1>27, <1>28, <1>29, <1>30, <1>31, <1>32, <1>33
     DEF Next, Worker, WorkerStep

\* Every step preserves the send side.
LEMMA SendStep ==
    ASSUME TypeOK, InHand, Lifecycle, ReceiveInv, SendInv, AirInv, [Next]_vars
    PROVE  SendInv'
<1>a. /\ Captures \in Nat /\ Captures' \in Nat
      /\ Captures = 0 <=> rxHw # "receiving" /\ rxq = << >> /\ wpc \notin InRxDone
      /\ Captures' = 0 <=> rxHw' # "receiving" /\ rxq' = << >> /\ wpc' \notin InRxDone
  BY TypeStep, CaptureFacts DEF Captures, TypeOK, QueueType
<1>b. /\ Captures = 1 <=>
           \/ rxHw = "receiving" /\ rxq = << >> /\ wpc \notin InRxDone
           \/ rxHw # "receiving" /\ Len(rxq) = 1 /\ wpc \notin InRxDone
           \/ rxHw # "receiving" /\ rxq = << >> /\ wpc \in InRxDone
      /\ Captures' = 1 <=>
           \/ rxHw' = "receiving" /\ rxq' = << >> /\ wpc' \notin InRxDone
           \/ rxHw' # "receiving" /\ Len(rxq') = 1 /\ wpc' \notin InRxDone
           \/ rxHw' # "receiving" /\ rxq' = << >> /\ wpc' \in InRxDone
  BY TypeStep, CaptureFacts DEF Captures, TypeOK, QueueType
<1>c. /\ txq \in Seq(Jobs) /\ Len(txq) \in Nat /\ Blocking(wcmd.call) \in BOOLEAN
      /\ wpc \notin {"tx", "wait", "end"} => \A i \in 1..Len(txq) : txq[i].send # "runs"
  BY DEF TypeOK, QueueType, Blocking, AirInv
<1>1. ASSUME NEW c \in Clients, Check(c)  PROVE  SendInv'
  BY <1>1, <1>a, <1>b DEF Check, SendInv, Running, InRxDone, InSend, ReceiveInv,
     ctxVars, workerVars
<1>2. ASSUME NEW c \in Clients, Enqueue(c)  PROVE  SendInv'
  BY <1>2, <1>a, <1>b DEF Enqueue, Return, SendInv, Running, InRxDone, InSend,
     ReceiveInv, ctxVars, workerVars
<1>3. ASSUME NEW c \in Clients, Poll(c)  PROVE  SendInv'
  BY <1>3, <1>a, <1>b DEF Poll, Return, SendInv, Running, InRxDone, InSend,
     ReceiveInv, ctxVars, workerVars
<1>4. ASSUME NEW c \in Clients, SlotInfoDone(c)  PROVE  SendInv'
  BY <1>4, <1>a, <1>b DEF SlotInfoDone, Return, SendInv, Running, InRxDone,
     InSend, ReceiveInv, ctxVars, workerVars
<1>5. CASE RxDone
  BY <1>5, <1>a, <1>b DEF RxDone, SendInv, Running, InRxDone, InSend,
     ReceiveInv, ctxVars, workerVars
<1>6. CASE TxDone
  <2>1. UNCHANGED <<state, wpc, wcmd, wok, rxHw, rxq>>
    BY <1>6 DEF TxDone, ctxVars, workerVars
  <2>2. UNCHANGED Captures
    BY <2>1 DEF Captures
  <2>3. \A i \in 1..Len(txq') : i + 1 \in 1..Len(txq) /\ txq'[i] = txq[i + 1]
    BY <1>6, <1>c DEF TxDone
  <2> QED  BY <2>1, <2>2, <2>3 DEF SendInv, Running
<1>7. CASE RxTake
  BY <1>7, <1>a, <1>b DEF RxTake, SendInv, Running, InRxDone, InSend,
     ReceiveInv, ctxVars, workerVars
<1>8. CASE Judge
  BY <1>8, <1>a, <1>b DEF Judge, SendInv, Running, InRxDone, InSend, ReceiveInv,
     ctxVars, workerVars
<1>9. CASE Store
  BY <1>9, <1>a, <1>b DEF Store, SendInv, Running, InRxDone, InSend, ReceiveInv,
     ctxVars, workerVars
<1>10. CASE Finish
  BY <1>10, <1>a, <1>b, <1>c DEF Finish, GoTo, FinishToIdle, SendInv, Running,
     InRxDone, InSend, ReceiveInv, ctxVars, workerVars
<1>11. CASE Reject
  BY <1>11, <1>a, <1>b, <1>c DEF Reject, GoTo, CancelLearn, StopLearning,
     FinishToIdle, SendInv, Running, InRxDone, InSend, ReceiveInv, ctxVars,
     workerVars
<1>12. CASE Drained
  BY <1>12, <1>a, <1>b DEF Drained, SendInv, Running, InRxDone, InSend,
     ReceiveInv, ctxVars, workerVars
<1>13. CASE CmdTimeout
  BY <1>13, <1>a, <1>b DEF CmdTimeout, SendInv, Running, InRxDone, InSend,
     ReceiveInv, ctxVars, workerVars
<1>14. CASE CmdTake
  <2>1. Head(cmdq) \in QueueCmds
    BY <1>14 DEF CmdTake, TypeOK, QueueType
  <2>2. Running /\ wpc' \notin InSend /\ wpc = "cmd"
    BY <1>14, <2>1, QueueOps DEF CmdTake, Running, InSend
  <2>3. UNCHANGED <<state, txq>>
    BY <1>14 DEF CmdTake, ctxVars
  <2> QED  BY <1>c, <2>2, <2>3 DEF SendInv, InSend
<1>15. CASE LearnStart
  BY <1>15, <1>a, <1>b, <1>c DEF LearnStart, GoTo, ReceiveRefused, FinishToIdle,
     SendInv, Running, InRxDone, InSend, ReceiveInv, ctxVars, workerVars
<1>16. CASE LearnCancel
  BY <1>16, <1>a, <1>b, <1>c DEF LearnCancel, GoTo, CancelLearn, StopLearning,
     FinishToIdle, SendInv, Running, InRxDone, InSend, ReceiveInv, ctxVars,
     workerVars
<1>17. CASE SendBegin
  <2>1. Running /\ wpc = "send" /\ UNCHANGED <<rxHw, rxq, txq>>
    BY <1>17 DEF SendBegin, Running
  <2>2. /\ state # "SENDING"
        /\ \A i \in 1..Len(txq) :
             txq[i].send # "runs" /\ (txq[i].blocking => txq[i].send = "broken")
    BY <1>c, <2>1 DEF SendInv, InSend
  <2>3. CASE MayBegin("load")
    <3>1. state \notin {"UNINIT", "LEARNING"} /\ state' = "SENDING" /\ wpc' = "load"
      BY <1>17, <2>3 DEF SendBegin, MayBegin, Inited, Busy
    <3>2. Captures = 0
      BY <1>a, <2>1, <3>1 DEF ReceiveInv, InRxDone
    <3>3. Captures' = 0
      BY <1>a, <2>1, <3>1, <3>2 DEF InRxDone
    <3> QED  BY <2>1, <2>2, <3>1, <3>3 DEF SendInv, InSend
  <2>4. CASE ~MayBegin("load")
    <3>1. UNCHANGED state /\ wpc' = "drain"
      BY <1>17, <2>4 DEF SendBegin, GoTo
    <3> QED  BY <2>1, <2>2, <3>1 DEF SendInv, InSend
  <2> QED  BY <2>3, <2>4
<1>18. CASE Load
  BY <1>18, <1>a, <1>b DEF Load, SendFailed, SendInv, Running, InRxDone, InSend,
     ReceiveInv, ctxVars, workerVars
<1>19. CASE Prepare
  BY <1>19, <1>a, <1>b DEF Prepare, SendFailed, SendInv, Running, InRxDone,
     InSend, ReceiveInv, ctxVars, workerVars
<1>20. CASE Transmit
  <2>1. wpc = "tx" /\ UNCHANGED <<state, wcmd, rxHw, rxq>>
    BY <1>20 DEF Transmit, ctxVars
  <2>2. Running /\ wpc' \in InSend /\ wpc \in InSend
    BY <1>20, <2>1 DEF Transmit, SendFailed, AfterTransmit, Running, InSend
  <2>3. UNCHANGED Captures
    BY <2>1, <2>2 DEF Captures, CapturesOf, InRxDone, InSend
  <2>4. \A i \in 1..Len(txq) : txq[i].blocking => txq[i].send = "broken"
    BY <2>1, <2>2 DEF SendInv
  <2>5. \A i \in 1..Len(txq) : txq[i].send = "runs" => txq[i].blocking = Blocking(wcmd.call)
    BY <2>2 DEF SendInv
  <2>6. CASE UNCHANGED txq
    BY <2>1, <2>2, <2>3, <2>4, <2>5, <2>6 DEF SendInv, Blocking
  <2>7. CASE /\ txq' = Append(txq, [blocking |-> Blocking(wcmd.call), send |-> "runs"])
             /\ wpc' = AfterTransmit
    <3>1. /\ Len(txq') = Len(txq) + 1
          /\ \A i \in 1..Len(txq) : txq'[i] = txq[i]
          /\ txq'[Len(txq) + 1].blocking = Blocking(wcmd.call)
          /\ txq'[Len(txq) + 1].send = "runs"
      BY <1>c, <2>7
    <3>2. \A i \in 1..Len(txq') : i \in 1..Len(txq) \/ i = Len(txq) + 1
      BY <1>c, <3>1
    <3>3. Blocking(wcmd.call) => wpc' = "wait"
      BY <2>7 DEF AfterTransmit
    <3>4. Blocking(wcmd'.call) = Blocking(wcmd.call)
      BY <2>1
    <3>5. \A i \in 1..Len(txq') :
             /\ txq'[i].send = "runs" => txq'[i].blocking = Blocking(wcmd'.call)
             /\ txq'[i].blocking =>
                  \/ txq'[i].send = "runs" /\ wpc' = "wait"
                  \/ txq'[i].send = "broken"
      BY <2>4, <2>5, <3>1, <3>2, <3>3, <3>4
    <3> QED  BY <2>1, <2>2, <2>3, <3>5 DEF SendInv
  <2> QED  BY <1>20, <2>6, <2>7 DEF Transmit
<1>21. CASE TxWait
  BY <1>21, <1>a, <1>b DEF TxWait, SendFailed, SendInv, Running, InRxDone, InSend,
     ReceiveInv, ctxVars, workerVars
<1>22. CASE Transmitted
  BY <1>22, <1>a, <1>b DEF Transmitted, SendInv, Running, InRxDone, InSend,
     ReceiveInv, ctxVars, workerVars
<1>23. CASE SendEnd
  <2>1. wpc = "end" /\ wpc' = "drain" /\ state' = "IDLE"
    BY <1>23 DEF SendEnd, GoTo
  <2>2. wok \in BOOLEAN /\ SendIsOver(IF wok THEN "done" ELSE "broken")
    BY <1>23 DEF SendEnd, TypeOK, WorkerType
  <2>3. /\ Len(txq') = Len(txq)
        /\ \A i \in 1..Len(txq') :
             /\ txq'[i].send # "runs"
             /\ txq'[i].blocking = txq[i].blocking
             /\ txq[i].send = "runs" => txq'[i].send = IF wok THEN "done" ELSE "broken"
             /\ txq[i].send # "runs" => txq'[i] = txq[i]
    BY <1>c, <2>2, SendIsOverFacts
  <2>4. \A i \in 1..Len(txq') : txq'[i].blocking => txq'[i].send = "broken"
    BY <2>1, <2>3 DEF SendInv, Running
  <2> QED  BY <2>1, <2>3, <2>4 DEF SendInv, InSend
<1>24. CASE WorkerStop
  BY <1>24, <1>a, <1>b, <1>c DEF WorkerStop, GoTo, SendInv, Running, InRxDone, InSend,
     ReceiveInv, ctxVars, workerVars
<1>25. CASE InitOpen
  BY <1>25, <1>a, <1>b DEF InitOpen, SendInv, Running, InRxDone, InSend,
     ReceiveInv, ctxVars, workerVars
<1>26. CASE StartTask
  <2>1. wpc = "none" /\ state = "UNINIT"
    BY <1>26 DEF StartTask, Lifecycle
  <2>2. txq = << >>
    BY <2>1 DEF Lifecycle
  <2>3. UNCHANGED <<txq, state>> /\ wpc' = "drain"
    BY <1>26 DEF StartTask, ctxVars
  <2> QED  BY <2>1, <2>2, <2>3 DEF SendInv, InSend
<1>27. CASE InitDone
  <2>1. wpc \notin InSend
    BY <1>27 DEF InitDone, Lifecycle
  <2>2. UNCHANGED <<wpc, wcmd, wok, txq>> /\ state' = "IDLE"
    BY <1>27 DEF InitDone, workerVars
  <2> QED  BY <2>1, <2>2 DEF SendInv, Running
<1>28. CASE DeinitBegin
  BY <1>28, <1>a, <1>b DEF DeinitBegin, SendInv, Running, InRxDone, InSend,
     ReceiveInv, ctxVars, workerVars
<1>29. CASE PostStop
  BY <1>29, <1>a, <1>b DEF PostStop, SendInv, Running, InRxDone, InSend,
     ReceiveInv, ctxVars, workerVars
<1>30. CASE StopSeen
  BY <1>30, <1>a, <1>b DEF StopSeen, SendInv, Running, InRxDone, InSend,
     ReceiveInv, ctxVars, workerVars
<1>31. CASE StopExpired
  BY <1>31, <1>a, <1>b DEF StopExpired, DeleteWorker, GoTo, SendInv, Running,
     InRxDone, InSend, ReceiveInv, ctxVars, workerVars
<1>32. CASE Free \/ Clear
  BY <1>32, <1>a, <1>b DEF Free, Clear, Lifecycle, Freeing, SendInv, Running, InRxDone, InSend,
     ReceiveInv, ctxVars, workerVars
<1>33. CASE UNCHANGED vars
  BY <1>33 DEF vars, ctxVars, workerVars, clientVars, ownerVars,
     SendInv, Running, InRxDone, InSend, Captures
<1> QED
  BY <1>1, <1>2, <1>3, <1>4, <1>5, <1>6, <1>7, <1>8, <1>9, <1>10, <1>11, <1>12,
     <1>13, <1>14, <1>15, <1>16, <1>17, <1>18, <1>19, <1>20, <1>21, <1>22,
     <1>23, <1>24, <1>25, <1>26, <1>27, <1>28, <1>29, <1>30, <1>31, <1>32, <1>33
     DEF Next, Worker, WorkerStep

-----------------------------------------------------------------------------
(* What a blocking send puts on the air.                                   *)

Between(pc) == pc \notin {"learn_start", "learn_cancel", "send", "stop"} \cup InSend

\* A command that is not in hand is no blocking send.
LEMMA NotBlocking == ~Blocking(NoCmd.call)
BY CallFacts DEF NoCmd, Blocking

\* The counters of the current send, and the jobs of the transmitter.
LEMMA AirTypes ==
    ASSUME TypeOK
    PROVE  /\ aired \in Nat /\ wleft \in Nat /\ wok \in BOOLEAN
           /\ txq \in Seq(Jobs) /\ Len(txq) \in Nat
BY DEF TypeOK, WorkerType, QueueType

\* A step that moves neither the worker nor what is on the air.
LEMMA AirSame ==
    ASSUME AirInv, UNCHANGED <<wpc, wcmd, wleft, wok, aired, txq>>
    PROVE  AirInv'
BY DEF AirInv, Blocking

\* A step after which the worker has no command in hand and no frame is of one.
LEMMA AirNone ==
    ASSUME wcmd' = NoCmd, aired' = 0, \A i \in 1..Len(txq') : txq'[i].send # "runs"
    PROVE  AirInv'
BY NotBlocking DEF AirInv, Blocking

\* The transmitter ends a frame of the blocking send only while the worker waits for
\* it, and then it was the only one.
LEMMA AirTxDone ==
    ASSUME TypeOK, InHand, Lifecycle, SendInv, AirInv, TxDone
    PROVE  AirInv'
<1>1. /\ txq # << >> /\ txq' = Tail(txq) /\ UNCHANGED <<wpc, wcmd, wleft, wok>>
      /\ aired' = IF Head(txq).send = "runs" THEN aired + 1 ELSE aired
  BY DEF TxDone, workerVars
<1>2. /\ Head(txq) = txq[1] /\ 1 \in 1..Len(txq) /\ Len(txq') = Len(txq) - 1
      /\ \A i \in 1..Len(txq) - 1 : txq'[i] = txq[i + 1]
      /\ \A i \in 1..Len(txq') : i + 1 \in 1..Len(txq) /\ txq'[i] = txq[i + 1]
      /\ txq' \in Seq(Jobs)
  BY <1>1, AirTypes
<1>3. ASSUME wpc \notin {"tx", "wait", "end"}  PROVE AirInv'
  <2>1. \A i \in 1..Len(txq) : txq[i].send # "runs"
    BY <1>3 DEF AirInv
  <2>2. aired' = aired /\ \A i \in 1..Len(txq') : txq'[i].send # "runs"
    BY <1>1, <1>2, <2>1
  <2> QED  BY <1>1, <1>3, <2>2 DEF AirInv, Blocking
<1>4. ASSUME wpc \in {"tx", "wait", "end"}, ~Blocking(wcmd.call)  PROVE AirInv'
  BY <1>1, <1>4 DEF AirInv, InSend, Blocking
<1>5. ASSUME Blocking(wcmd.call), wpc = "tx" \/ (wpc = "end" /\ wok)  PROVE AirInv'
  <2>1. Running
    BY <1>5 DEF Running
  <2>2. txq[1].send # "runs"
    BY <1>2, <1>5, <2>1 DEF SendInv
  <2>3. aired' = aired
    BY <1>1, <1>2, <2>2
  <2> QED  BY <1>1, <1>5, <2>3 DEF AirInv, InSend, Blocking
<1>6. ASSUME wpc = "end", ~wok  PROVE AirInv'
  BY <1>1, <1>6 DEF AirInv, InSend
<1>7. ASSUME Blocking(wcmd.call), wpc = "wait"  PROVE AirInv'
  <2>1. /\ aired + wleft + 1 = Total(wcmd.call.opts)
        /\ \A i \in 1..Len(txq) : txq[i].send = "runs" <=> i = Len(txq)
    BY <1>1, <1>7 DEF AirInv
  <2>2. aired \in Nat /\ wleft \in Nat /\ Len(txq) \in Nat
    BY AirTypes
  <2>3. \A i \in 1..Len(txq') : txq'[i].send = "runs" <=> i = Len(txq')
    <3>1. SUFFICES ASSUME NEW i \in 1..Len(txq')
                   PROVE  txq'[i].send = "runs" <=> i = Len(txq')
      OBVIOUS
    <3>2. i + 1 \in 1..Len(txq) /\ txq'[i] = txq[i + 1]
      BY <1>2, <2>2
    <3>3. i + 1 = Len(txq) <=> i = Len(txq')
      BY <1>2, <2>2
    <3> QED  BY <2>1, <3>2, <3>3
  <2>4. aired' + wleft' + (IF txq' = << >> THEN 0 ELSE 1) = Total(wcmd'.call.opts)
    <3>1. CASE Len(txq) = 1
      <4>1. Head(txq).send = "runs"
        BY <1>2, <2>1, <3>1
      <4>2. txq' = << >>
        BY <1>1, <3>1, AirTypes
      <4> QED  BY <1>1, <2>1, <2>2, <4>1, <4>2
    <3>2. CASE Len(txq) # 1
      <4>1. Head(txq).send # "runs"
        BY <1>2, <2>1, <3>2
      <4>2. txq' # << >>
        BY <1>2, <2>2, <3>2
      <4> QED  BY <1>1, <2>1, <2>2, <4>1, <4>2
    <3> QED  BY <3>1, <3>2
  <2> QED  BY <1>1, <1>7, <2>3, <2>4 DEF AirInv, InSend, Blocking
<1> QED  BY <1>3, <1>4, <1>5, <1>6, <1>7

\* The transmission loop hands one frame to the transmitter in each round.
LEMMA AirTransmit ==
    ASSUME TypeOK, SendInv, AirInv, Transmit
    PROVE  AirInv'
<1>1. wpc = "tx" /\ wleft > 0 /\ UNCHANGED <<wcmd, aired>>
  BY DEF Transmit
<1>2. CASE SendFailed
  BY <1>1, <1>2 DEF SendFailed, AirInv, InSend, Blocking
<1>3. CASE /\ txq' = Append(txq, [blocking |-> Blocking(wcmd.call), send |-> "runs"])
           /\ wleft' = wleft - 1
           /\ wpc' = AfterTransmit
  <2>1. CASE ~Blocking(wcmd.call)
    BY <1>1, <1>3, <2>1 DEF AirInv, AfterTransmit, InSend, Blocking
  <2>2. CASE Blocking(wcmd.call)
    <3>1. wpc' = "wait" /\ aired + wleft = Total(wcmd.call.opts)
      BY <1>1, <1>3, <2>2 DEF AirInv, AfterTransmit
    <3>2. aired \in Nat /\ wleft \in Nat /\ txq \in Seq(Jobs) /\ Len(txq) \in Nat
      BY AirTypes
    <3>3. \A i \in 1..Len(txq) : txq[i].send # "runs"
      <4>1. Running
        BY <1>1 DEF Running
      <4> QED  BY <1>1, <2>2, <4>1 DEF SendInv
    <3>4. /\ Len(txq') = Len(txq) + 1 /\ txq'[Len(txq) + 1].send = "runs"
          /\ txq' # << >>
          /\ \A i \in 1..Len(txq) : txq'[i] = txq[i]
      BY <1>3, <3>2
    <3>5. \A i \in 1..Len(txq') : txq'[i].send = "runs" <=> i = Len(txq')
      BY <3>2, <3>3, <3>4
    <3>6. aired' + wleft' + 1 = Total(wcmd'.call.opts)
      BY <1>1, <1>3, <3>1, <3>2
    <3> QED  BY <1>1, <3>1, <3>4, <3>5, <3>6 DEF AirInv, InSend, Blocking
  <2> QED  BY <2>1, <2>2
<1> QED  BY <1>2, <1>3 DEF Transmit

\* Every step keeps count of what a blocking send puts on the air.
LEMMA AirStep ==
    ASSUME TypeOK, InHand, Lifecycle, SendInv, AirInv, [Next]_vars
    PROVE  AirInv'
<1>1. ASSUME NEW c \in Clients,
             Check(c) \/ Enqueue(c) \/ Poll(c) \/ SlotInfoDone(c)
      PROVE  AirInv'
  BY <1>1, AirSame DEF Check, Enqueue, Poll, SlotInfoDone, workerVars
<1>2. CASE \/ RxDone \/ InitOpen \/ InitDone \/ DeinitBegin \/ PostStop \/ StopSeen
           \/ UNCHANGED vars
  BY <1>2, AirSame DEF RxDone, InitOpen, InitDone, DeinitBegin, PostStop, StopSeen,
     workerVars, vars
<1>3. CASE \/ Finish \/ Reject \/ LearnStart \/ LearnCancel \/ WorkerStop
           \/ SendEnd \/ StopExpired
  <2>1. wcmd' = NoCmd /\ aired' = 0
    BY <1>3 DEF Finish, Reject, LearnStart, LearnCancel, SendEnd, WorkerStop,
       StopExpired, DeleteWorker, GoTo
  <2>2. CASE \/ Finish \/ Reject \/ LearnStart \/ LearnCancel \/ WorkerStop
    <3>1. UNCHANGED txq /\ wpc \notin {"tx", "wait", "end"}
      BY <2>2 DEF Finish, Reject, LearnStart, LearnCancel, WorkerStop
    <3> QED  BY <2>1, <3>1, AirNone DEF AirInv
  <2>3. CASE SendEnd \/ StopExpired
    <3>1. PICK how \in {"done", "broken"} : SendIsOver(how)
      BY <2>3 DEF SendEnd, StopExpired, DeleteWorker
    <3>2. \A i \in 1..Len(txq') : txq'[i].send # "runs"
      BY <3>1, SendIsOverFacts, AirTypes
    <3> QED  BY <2>1, <3>2, AirNone
  <2> QED  BY <1>3, <2>2, <2>3
<1>4. CASE \/ RxTake \/ Judge \/ Store \/ Drained \/ CmdTimeout \/ StartTask
           \/ Free \/ Clear
  <2>1. UNCHANGED <<wcmd, aired>> /\ (UNCHANGED txq \/ txq' = << >>)
    BY <1>4 DEF RxTake, Judge, Store, Drained, CmdTimeout, StartTask, Free, Clear,
       workerVars
  <2>2. Between(wpc)
    BY <1>4 DEF RxTake, Judge, Store, Drained, CmdTimeout, StartTask, Free, Clear,
       Freeing, Lifecycle, Between, InSend
  <2>3. wcmd = NoCmd /\ aired = 0
    BY <2>2 DEF AirInv, Between
  <2>4. \A i \in 1..Len(txq) : txq[i].send # "runs"
    BY <2>2 DEF AirInv, Between, InSend
  <2> QED  BY <2>1, <2>3, <2>4, AirNone
<1>5. CASE CmdTake
  <2>1. wpc = "cmd" /\ wpc' = wcmd'.call.op /\ aired' = aired /\ UNCHANGED txq
    BY <1>5 DEF CmdTake
  <2>2. wcmd' \in QueueCmds
    BY <1>5 DEF CmdTake, TypeOK, QueueType
  <2>3. wpc' \in {"learn_start", "learn_cancel", "send", "stop"}
    BY <2>1, <2>2, QueueOps
  <2>4. aired' = 0 /\ \A i \in 1..Len(txq') : txq'[i].send # "runs"
    BY <2>1 DEF AirInv, InSend
  <2> QED  BY <2>3, <2>4 DEF AirInv
<1>6. CASE SendBegin
  <2>1. CASE MayBegin("load")
    BY <1>6, <2>1 DEF SendBegin, AirInv, InSend, Blocking
  <2>2. CASE ~MayBegin("load")
    <3>1. wcmd' = NoCmd /\ aired' = 0 /\ UNCHANGED txq /\ wpc = "send"
      BY <1>6, <2>2 DEF SendBegin, GoTo
    <3> QED  BY <3>1, AirNone DEF AirInv
  <2> QED  BY <2>1, <2>2
<1>7. CASE Load
  BY <1>7 DEF Load, SendFailed, AirInv, InSend, Blocking
<1>8. CASE Prepare
  <2>1. wpc = "prepare" /\ UNCHANGED <<wcmd, aired, txq>>
    BY <1>8 DEF Prepare
  <2>2. CASE SendFailed
    BY <2>1, <2>2 DEF SendFailed, AirInv, InSend, Blocking
  <2>3. CASE wpc' = "tx" /\ wleft' = Total(wcmd.call.opts)
    <3>1. Total(wcmd.call.opts) \in Nat
      <4>1. wcmd.call \in SendCalls
        BY <2>1 DEF InHand, InSend
      <4> QED  BY <4>1, CallFacts, TotalType
    <3>2. Blocking(wcmd.call) => aired' + wleft' = Total(wcmd'.call.opts)
      BY <2>1, <2>3, <3>1 DEF AirInv
    <3> QED  BY <2>1, <2>3, <3>2 DEF AirInv, InSend, Blocking
  <2> QED  BY <1>8, <2>2, <2>3 DEF Prepare
<1>9. CASE TxWait
  <2>1. wpc = "wait" /\ UNCHANGED <<wcmd, wleft, aired, txq>>
    BY <1>9 DEF TxWait
  <2>2. CASE txq = << >> /\ wpc' = "tx"
    <3>1. Blocking(wcmd.call) => aired + wleft = Total(wcmd.call.opts)
      BY <2>1, <2>2, AirTypes DEF AirInv
    <3> QED  BY <2>1, <2>2, <3>1 DEF AirInv, InSend, Blocking
  <2>3. CASE SendFailed
    BY <2>1, <2>3 DEF SendFailed, AirInv, InSend, Blocking
  <2> QED  BY <1>9, <2>2, <2>3 DEF TxWait
<1>10. CASE Transmitted
  <2>1. wpc = "tx" /\ wleft = 0 /\ wpc' = "end" /\ UNCHANGED <<wcmd, aired>>
    BY <1>10 DEF Transmitted
  <2>2. Blocking(wcmd.call) => aired = Total(wcmd.call.opts)
    BY <2>1, AirTypes DEF AirInv
  <2> QED  BY <2>1, <2>2 DEF AirInv, InSend, Blocking
<1> QED
  BY <1>1, <1>2, <1>3, <1>4, <1>5, <1>6, <1>7, <1>8, <1>9, <1>10, AirTxDone,
     AirTransmit DEF Next, Worker, WorkerStep

-----------------------------------------------------------------------------
(* The invariant and what follows from it.                                 *)

\* The initial states satisfy the inductive invariant.
LEMMA InitIInv == Init => IInv
<1> SUFFICES ASSUME Init  PROVE  IInv
  OBVIOUS
<1>1. CtxType
  BY IrCtrlAssumption, TypeFacts DEF Init, CtxType, States
<1>2. QueueType
  BY IrCtrlAssumption, TypeFacts DEF Init, QueueType
<1>3. WorkerType
  BY TypeFacts DEF Init, WorkerType, WorkerPcs
<1>4. ApiType
  <2>1. /\ cpc \in [Clients -> ClientPcs]
        /\ ccall \in [Clients -> ApiCalls \cup {NoCall}]
    BY DEF Init, ClientPcs
  <2>2. owner \in OwnerPcs /\ panic \in BOOLEAN
    BY DEF Init, OwnerPcs
  <2>3. calls \in 0..MaxCalls /\ inits \in 0..MaxInits
    BY IrCtrlAssumption DEF Init
  <2> QED  BY <2>1, <2>2, <2>3 DEF ApiType
<1>5. InHand
  BY DEF Init, InHand, InSend
<1>6. Lifecycle
  BY DEF Init, Lifecycle
<1>7. ReceiveInv /\ SendInv /\ ReleaseInv
  BY DEF Init, ReceiveInv, SendInv, ReleaseInv, Running
<1>8. AirInv
  BY NotBlocking DEF Init, AirInv
<1> QED  BY <1>1, <1>2, <1>3, <1>4, <1>5, <1>6, <1>7, <1>8 DEF IInv, TypeOK

\* The inductive invariant is preserved by every step.
LEMMA NextIInv == IInv /\ [Next]_vars => IInv'
BY TypeStep, HandStep, LifecycleStep, ReleaseStep, ReceiveStep, SendStep, AirStep
   DEF IInv

\* The inductive invariant holds of the controller.
THEOREM Invariance == Spec => []IInv
BY InitIInv, NextIInv, PTL DEF Spec

\* Every variable keeps its type: the queues stay within their depths, and the
\* worker only ever has a command in hand that a client or the owner posted.
THEOREM TypeCorrect == Spec => []TypeOK
<1>1. IInv => TypeOK
  BY DEF IInv
<1> QED  BY <1>1, Invariance, PTL

\* The state ir_ctrl_is_busy reads agrees with what the worker and the receiver
\* are doing, although five places of the worker write it.
THEOREM StateAgrees == Spec => []OneOperation
<1>1. IInv => OneOperation
  <2> SUFFICES ASSUME IInv, owner = "up"
               PROVE  /\ state = "SENDING" <=> wpc \in InSend
                      /\ rxHw = "receiving" => state = "LEARNING"
    BY DEF OneOperation
  <2>1. Running /\ state # "UNINIT"
    BY DEF IInv, Lifecycle, Running
  <2> QED  BY <2>1 DEF IInv, ReceiveInv, SendInv
<1> QED  BY <1>1, Invariance, PTL

\* While the controller is up a learn has exactly one receive that can end it, however
\* the interrupt, the worker, a cancel and a failing driver interleave.
THEOREM OneCapture == Spec => []OneCapturePerLearn
<1>1. IInv => OneCapturePerLearn
  <2> SUFFICES ASSUME IInv, owner = "up"
               PROVE  (state = "LEARNING" => Captures = 1) /\ Captures <= 1
    BY DEF OneCapturePerLearn
  <2>1. Running
    BY DEF IInv, Lifecycle, Running
  <2> QED  BY <2>1 DEF IInv, ReceiveInv
<1> QED  BY <1>1, Invariance, PTL

\* A frame of a blocking send that the transmitter still reads is one the worker waits
\* for, or one whose send has failed, in rmt_tx_wait_all_done or after it: no other way
\* out of ir_do_send leaves a frame behind.
THEOREM FramesOwned == Spec => []BlockingSendOwnsItsFrames
<1>1. IInv => BlockingSendOwnsItsFrames
  <2> SUFFICES ASSUME IInv, owner = "up"
               PROVE  \A i \in 1..Len(txq) :
                         txq[i].blocking =>
                           \/ txq[i].send = "runs" /\ (wpc = "wait" \/ (wpc = "end" /\ ~wok))
                           \/ txq[i].send = "broken"
    BY DEF BlockingSendOwnsItsFrames
  <2>1. Running
    BY DEF IInv, Lifecycle, Running
  <2> QED  BY <2>1 DEF IInv, SendInv
<1> QED  BY <1>1, Invariance, PTL

\* A blocking send that ends without an error has put all its transmissions on the
\* air, whatever the queue of the transmitter held of earlier sends.
THEOREM BlockingSendSent == Spec => []BlockingSendWentOut
<1>1. IInv => BlockingSendWentOut
  <2> SUFFICES ASSUME IInv, wpc = "end", wok, Blocking(wcmd.call),
                      wcmd.call.opts.repeat < RepeatMod - 1
               PROVE  aired = 1 + wcmd.call.opts.repeat
    BY DEF BlockingSendWentOut
  <2>1. aired = Total(wcmd.call.opts)
    BY DEF IInv, AirInv
  <2>2. wcmd.call \in SendCalls
    BY DEF IInv, InHand, InSend
  <2>3. wcmd.call.opts.repeat \in Nat
    BY <2>2, CallFacts DEF SendOpts
  <2> QED  BY <2>1, <2>3, IrCtrlAssumption DEF Total
<1> QED  BY <1>1, Invariance, PTL

\* While ir_ctrl_deinit frees what s_ctx holds, one resource after the other, the worker
\* no longer runs, the receiver has its queue, and the transmitter its channel and
\* encoder.
THEOREM QuietRelease == Spec => []ReleaseIsQuiet
<1>1. IInv => ReleaseIsQuiet
  BY DEF IInv, Lifecycle, ReleaseInv, ReleaseIsQuiet
<1> QED  BY <1>1, Invariance, PTL

\* No step but a new ir_ctrl_init after a failed one loses a resource: the conditional
\* deletes of ir_ctrl_deinit have dealt with all of them, in whatever state an
\* ir_ctrl_init left them, when its memset forgets the handles.
THEOREM ReleasesEverything == Spec => LeaksOnlyOnRetry
<1>1. ASSUME IInv, Next, NEW r \in handles \ handles'
      PROVE  owner = r \/ owner = "failed"
  <2>1. CASE InitOpen
    <3>1. owner \in {"down", "failed"}
      BY <2>1 DEF InitOpen
    <3> QED  BY <1>1, <3>1 DEF IInv, Lifecycle
  <2>2. CASE Free
    BY <1>1, <2>2 DEF Free
  <2>3. CASE Clear
    <3>1. handles \subseteq Resources /\ handles \cap Resources = {}
      BY <1>1, <2>3 DEF Clear, IInv, ReleaseInv, Freed, TypeOK, CtxType
    <3> QED  BY <1>1, <3>1
  <2>4. CASE WorkerStep
    BY <1>1, <2>4 DEF WorkerStep, RxTake, Judge, Store, Finish, Reject, Drained,
       CmdTimeout, CmdTake, LearnStart, LearnCancel, SendBegin, Load, Prepare,
       Transmit, TxWait, Transmitted, SendEnd, WorkerStop
  <2>5. ASSUME NEW c \in Clients,
               Check(c) \/ Enqueue(c) \/ Poll(c) \/ SlotInfoDone(c)
        PROVE  UNCHANGED handles
    BY <2>5 DEF Check, Enqueue, Poll, SlotInfoDone
  <2>6. CASE \/ RxDone \/ TxDone \/ StartTask \/ InitDone \/ DeinitBegin
             \/ PostStop \/ StopSeen \/ StopExpired
    BY <1>1, <2>6 DEF RxDone, TxDone, StartTask, InitDone, DeinitBegin, PostStop,
       StopSeen, StopExpired
  <2> QED  BY <1>1, <2>1, <2>2, <2>3, <2>4, <2>5, <2>6 DEF Next, Worker
<1>2. IInv /\ [Next]_vars =>
        [\A r \in handles \ handles' : owner = r \/ owner = "failed"]_vars
  BY <1>1
<1> QED  BY <1>2, Invariance, PTL DEF Spec, LeaksOnlyOnRetry

\* A NULL handle is met only outside the time the controller is up, and not by a
\* disciplined client.
LEMMA AssertStep ==
    ASSUME IInv, Next, panic' # panic
    PROVE  \/ owner \in {"down", "failed"} \cup Freeing /\ ~Disciplined
           \/ owner = "poll" /\ wpc = "gone"
<1>1. handles # Resources => owner \in {"down", "failed"} \cup Freeing
  BY DEF IInv, Lifecycle, TypeOK, ApiType, OwnerPcs, Starting, Closing, Freeing, Resources
<1>2. ASSUME NEW c \in Clients, Check(c)
      PROVE  owner \in {"down", "failed"} \cup Freeing /\ ~Disciplined
  <2>1. "lock" \notin handles /\ (Disciplined => owner = "up")
    BY <1>2 DEF Check
  <2> QED  BY <1>1, <2>1 DEF Freeing, Resources
<1>3. ASSUME NEW c \in Clients, Enqueue(c) \/ Poll(c)
      PROVE  owner \in {"down", "failed"} \cup Freeing /\ ~Disciplined
  <2>1. cpc[c] # "idle" /\ ("lock" \notin handles \/ "cmd_q" \notin handles)
    BY <1>3 DEF Enqueue, Poll
  <2>2. owner \in {"down", "failed"} \cup Freeing
    BY <1>1, <2>1 DEF Resources
  <2> QED  BY <2>1, <2>2 DEF IInv, Lifecycle
<1>4. CASE StopExpired
  <2>1. owner = "poll" /\ ~panic /\ panic' \in IF wpc = "gone" THEN BOOLEAN ELSE {FALSE}
    BY <1>4 DEF StopExpired
  <2>2. panic = FALSE
    BY <2>1 DEF IInv, TypeOK, ApiType
  <2> QED  BY <2>1, <2>2
<1>5. CASE WorkerStep
  BY <1>5 DEF WorkerStep, RxTake, Judge, Store, Finish, Reject, Drained, CmdTimeout,
     CmdTake, LearnStart, LearnCancel, SendBegin, Load, Prepare, Transmit, TxWait,
     Transmitted, SendEnd, WorkerStop
<1>6. CASE \/ RxDone \/ TxDone \/ InitOpen \/ StartTask \/ InitDone
           \/ DeinitBegin \/ PostStop \/ StopSeen \/ Free \/ Clear
  BY <1>6 DEF RxDone, TxDone, InitOpen, StartTask, InitDone, DeinitBegin, PostStop,
     StopSeen, Free, Clear
<1>7. ASSUME NEW c \in Clients, SlotInfoDone(c)  PROVE FALSE
  BY <1>7 DEF SlotInfoDone
<1> QED  BY <1>2, <1>3, <1>4, <1>5, <1>6, <1>7 DEF Next, Worker

\* ir_ctrl_init goes on only with every resource, and ir_ctrl_deinit frees none while
\* the worker lives: FreeRTOS asserts only on misuse, or on the poll of a worker that
\* has deleted itself.
THEOREM MisuseOnly == Spec => AssertsOnlyOutside
<1>1. IInv /\ [Next]_vars =>
        [panic' # panic =>
           \/ owner \in {"down", "failed"} \cup Freeing /\ ~Disciplined
           \/ owner = "poll" /\ wpc = "gone"]_vars
  BY AssertStep
<1> QED  BY <1>1, Invariance, PTL DEF Spec, AssertsOnlyOutside
-----------------------------------------------------------------------------
(* The way back to the command queue.                                      *)

\* Nothing in hand, or the command queue at hand.
AtRest == wpc \in {"none", "gone", "cmd"}

\* The terms of the work left, as numbers.
LEMMA WorkFacts ==
    ASSUME TypeOK, InHand
    PROVE  /\ Captures \in Nat /\ wleft \in Nat /\ Len(rxq) \in Nat
           /\ wpc \in InRxDone => Captures > 0
           /\ wpc \in {"send", "load", "prepare"} => Total(wcmd.call.opts) \in Nat
           /\ wpc \in WorkerPcs
<1>1. /\ Captures \in Nat /\ wleft \in Nat /\ Len(rxq) \in Nat
      /\ wpc \in InRxDone => Captures > 0 /\ wpc \in WorkerPcs
  BY CaptureFacts DEF Captures, TypeOK, QueueType, WorkerType
<1>2. wpc \in {"send", "load", "prepare"} => Total(wcmd.call.opts) \in Nat
  BY CallFacts, TotalType DEF InHand, InSend
<1> QED  BY <1>1, <1>2 DEF TypeOK, WorkerType

\* There is work left until the worker is at rest.
LEMMA WorkPositive ==
    ASSUME TypeOK, InHand, ~AtRest
    PROVE  WorkLeft > 0
<1>1. /\ Captures \in Nat /\ wleft \in Nat
      /\ wpc \in InRxDone => Captures > 0
      /\ wpc \in {"send", "load", "prepare"} => Total(wcmd.call.opts) \in Nat
      /\ wpc \in WorkerPcs
  BY WorkFacts
<1>2. CASE wpc \in InRxDone
  BY <1>1, <1>2 DEF WorkLeft, InRxDone
<1>3. CASE wpc \in {"send", "load", "prepare"}
  BY <1>1, <1>3 DEF WorkLeft
<1>4. CASE wpc \in {"drain", "learn_start", "learn_cancel", "tx", "wait", "end", "stop"}
  BY <1>1, <1>4 DEF WorkLeft
<1> QED  BY <1>1, <1>2, <1>3, <1>4 DEF AtRest, WorkerPcs, InRxDone, InSend

\* A step that leaves the worker and its captures alone.
LEMMA WorkSame ==
    ASSUME UNCHANGED <<wpc, wcmd, wleft>>, Captures' = Captures
    PROVE  WorkLeft' = WorkLeft
BY DEF WorkLeft

\* A capture that is lost is one less to drain.
LEMMA WorkFewer ==
    ASSUME TypeOK, InHand, ~AtRest, wpc # "stop", UNCHANGED <<wpc, wcmd, wleft>>,
           Captures' \in Nat, Captures' < Captures
    PROVE  WorkLeft' < WorkLeft
<1>1. /\ Captures \in Nat /\ wleft \in Nat
      /\ wpc \in {"send", "load", "prepare"} => Total(wcmd.call.opts) \in Nat
      /\ wpc \in WorkerPcs
  BY WorkFacts
<1>2. CASE wpc \in InRxDone \cup {"drain", "learn_start", "learn_cancel"}
  BY <1>1, <1>2 DEF WorkLeft, InRxDone
<1>3. CASE wpc \in {"send", "load", "prepare"}
  BY <1>1, <1>3 DEF WorkLeft
<1>4. CASE wpc \in {"tx", "wait", "end"}
  BY <1>1, <1>4 DEF WorkLeft
<1> QED  BY <1>1, <1>2, <1>3, <1>4 DEF AtRest, WorkerPcs, InRxDone, InSend

\* What WorkerAdvances says of a step.
Advances ==
    \/ WorkLeft' < WorkLeft
    \/ WorkLeft' = WorkLeft /\ UNCHANGED workerVars /\ Len(rxq') >= Len(rxq)

\* A step of somebody else that leaves the receiver alone.
LEMMA WorkElsewhere ==
    ASSUME TypeOK, UNCHANGED <<workerVars, rxq, rxHw>>
    PROVE  Advances
<1>1. UNCHANGED <<wpc, wcmd, wleft>> /\ Captures' = Captures
  BY DEF workerVars, Captures, CapturesOf
<1>2. Len(rxq') = Len(rxq) /\ Len(rxq) \in Nat
  BY DEF TypeOK, QueueType
<1> QED  BY <1>1, <1>2, WorkSame DEF Advances

\* The drain and the handler of a capture: each capture is drained once.
LEMMA DrainAdvances ==
    ASSUME TypeOK, TypeOK', InHand,
           RxTake \/ Judge \/ Store \/ Finish \/ Reject \/ Drained
    PROVE  WorkLeft' < WorkLeft
<1>1. /\ Captures \in Nat /\ Captures' \in Nat /\ Len(rxq) \in Nat
      /\ Len(rxq') \in Nat /\ (wpc \in InRxDone => Captures > 0)
  BY WorkFacts, CaptureFacts DEF Captures, TypeOK, QueueType
<1>2. CASE RxTake
  <2>1. /\ wpc = "drain" /\ UNCHANGED rxHw /\ Len(rxq') = Len(rxq) - 1
        /\ wpc' \in {"judge", "drain"}
    BY <1>2 DEF RxTake, TypeOK, QueueType
  <2>2. CASE wpc' = "judge"
    <3>1. Captures' = Captures
      BY <1>1, <2>1, <2>2 DEF Captures, CapturesOf, InRxDone
    <3> QED  BY <1>1, <2>1, <2>2, <3>1 DEF WorkLeft
  <2>3. CASE wpc' = "drain"
    <3>1. Captures' = Captures - 1
      BY <1>1, <2>1, <2>3 DEF Captures, CapturesOf, InRxDone
    <3> QED  BY <1>1, <2>1, <2>3, <3>1 DEF WorkLeft
  <2> QED  BY <2>1, <2>2, <2>3
<1>3. CASE Judge \/ Store
  <2>1. /\ UNCHANGED <<rxHw, rxq>>
        /\ \/ wpc = "judge" /\ wpc' \in {"store", "reject"}
           \/ wpc = "store" /\ wpc' \in {"finish", "reject"}
    BY <1>3 DEF Judge, Store
  <2>2. Captures' = Captures
    BY <2>1 DEF Captures, CapturesOf, InRxDone
  <2> QED  BY <1>1, <2>1, <2>2 DEF WorkLeft
<1>4. CASE Finish \/ Reject
  <2>1. /\ wpc \in {"finish", "reject"} /\ wpc' = "drain" /\ UNCHANGED rxq
        /\ rxHw' = "off" \/ UNCHANGED rxHw
    BY <1>4 DEF Finish, Reject, GoTo, CancelLearn, StopLearning
  <2>2. Captures' <= Captures - 1
    <3>1. wpc \in InRxDone /\ wpc' \notin InRxDone
      BY <2>1 DEF InRxDone
    <3>2. CASE rxHw' = "receiving"
      BY <1>1, <2>1, <3>1, <3>2 DEF Captures, CapturesOf
    <3>3. CASE rxHw' # "receiving"
      BY <1>1, <2>1, <3>1, <3>3 DEF Captures, CapturesOf
    <3> QED  BY <3>2, <3>3
  <2> QED  BY <1>1, <2>1, <2>2 DEF WorkLeft
<1>5. CASE Drained
  <2>1. wpc = "drain" /\ wpc' = "cmd"
    BY <1>5 DEF Drained
  <2> QED  BY <1>1, <2>1 DEF WorkLeft
<1> QED  BY <1>2, <1>3, <1>4, <1>5

\* A command is carried out once: a learn arms the receiver at most once, a cancel
\* never does, and a stop ends the worker.
LEMMA CommandAdvances ==
    ASSUME TypeOK, TypeOK', InHand, LearnStart \/ LearnCancel \/ WorkerStop
    PROVE  WorkLeft' < WorkLeft
<1>1. /\ Captures \in Nat /\ Captures' \in Nat /\ Len(rxq) \in Nat
  BY WorkFacts, CaptureFacts DEF Captures, TypeOK, QueueType
<1>2. CASE LearnStart \/ LearnCancel
  <2>1. /\ wpc \in {"learn_start", "learn_cancel"} /\ wpc' = "drain"
        /\ UNCHANGED rxq
    BY <1>2 DEF LearnStart, LearnCancel, GoTo
  <2>2. Captures' <= Captures + 1
    <3>1. wpc \notin InRxDone /\ wpc' \notin InRxDone
      BY <2>1 DEF InRxDone
    <3>2. CASE rxHw = "receiving"
      BY <1>1, <2>1, <3>1, <3>2 DEF Captures, CapturesOf
    <3>3. CASE rxHw # "receiving"
      BY <1>1, <2>1, <3>1, <3>3 DEF Captures, CapturesOf
    <3> QED  BY <3>2, <3>3
  <2> QED  BY <1>1, <2>1, <2>2 DEF WorkLeft
<1>3. CASE WorkerStop
  <2>1. wpc = "stop" /\ wpc' = "gone"
    BY <1>3 DEF WorkerStop, GoTo
  <2> QED  BY <2>1 DEF WorkLeft
<1> QED  BY <1>2, <1>3

\* A send counts its transmissions down, and an error ends it.
LEMMA SendAdvances ==
    ASSUME TypeOK, TypeOK', InHand,
           SendBegin \/ Load \/ Prepare \/ Transmit \/ TxWait \/ Transmitted \/ SendEnd
    PROVE  WorkLeft' < WorkLeft
<1>1. /\ Captures \in Nat /\ wleft \in Nat
      /\ wpc \in {"send", "load", "prepare"} => Total(wcmd.call.opts) \in Nat
  BY WorkFacts
<1>2. /\ UNCHANGED <<rxHw, rxq>> /\ wpc \in {"send"} \cup InSend
      /\ wpc' \in {"drain"} \cup InSend
  BY DEF SendBegin, GoTo, Load, Prepare, Transmit, TxWait, Transmitted, SendEnd,
     SendFailed, AfterTransmit, InSend
<1>3. Captures' = Captures
  BY <1>2 DEF Captures, CapturesOf, InRxDone, InSend
<1>4. CASE SendBegin
  <2>1. /\ wpc = "send"
        /\ wpc' = "drain" \/ (wpc' = "load" /\ UNCHANGED wcmd)
    BY <1>4 DEF SendBegin, GoTo
  <2>2. CASE wpc' = "drain"
    BY <1>1, <1>3, <2>1, <2>2 DEF WorkLeft
  <2>3. CASE wpc' = "load" /\ UNCHANGED wcmd
    BY <1>1, <1>3, <2>1, <2>3 DEF WorkLeft
  <2> QED  BY <2>1, <2>2, <2>3
<1>5. CASE Load
  <2>1. wpc = "load" /\ wpc' \in {"prepare", "end"} /\ UNCHANGED wcmd
    BY <1>5 DEF Load, SendFailed
  <2> QED  BY <1>1, <1>3, <2>1 DEF WorkLeft
<1>6. CASE Prepare
  <2>1. /\ wpc = "prepare"
        /\ wpc' = "end" \/ (wpc' = "tx" /\ wleft' = Total(wcmd.call.opts))
    BY <1>6 DEF Prepare, SendFailed
  <2>2. CASE wpc' = "end"
    BY <1>1, <1>3, <2>1, <2>2 DEF WorkLeft
  <2>3. CASE wpc' = "tx" /\ wleft' = Total(wcmd.call.opts)
    BY <1>1, <1>3, <2>1, <2>3 DEF WorkLeft
  <2> QED  BY <2>1, <2>2, <2>3
<1>7. CASE Transmit
  <2>1. /\ wpc = "tx"
        /\ wpc' = "end" \/ (wpc' \in {"tx", "wait"} /\ wleft' = wleft - 1)
    BY <1>7 DEF Transmit, SendFailed, AfterTransmit
  <2> QED  BY <1>1, <1>3, <2>1 DEF WorkLeft
<1>8. CASE TxWait
  <2>1. wpc = "wait" /\ wpc' \in {"tx", "end"} /\ UNCHANGED wleft
    BY <1>8 DEF TxWait, SendFailed
  <2> QED  BY <1>1, <1>3, <2>1 DEF WorkLeft
<1>9. CASE Transmitted \/ SendEnd
  <2>1. \/ wpc = "tx" /\ wpc' = "end"
        \/ wpc = "end" /\ wpc' = "drain"
    BY <1>9 DEF Transmitted, SendEnd, GoTo
  <2> QED  BY <1>1, <1>3, <2>1 DEF WorkLeft
<1> QED  BY <1>4, <1>5, <1>6, <1>7, <1>8, <1>9

\* The interrupt only moves a capture, or loses it.
LEMMA InterruptAdvances ==
    ASSUME TypeOK, TypeOK', InHand, ~AtRest, RxDone
    PROVE  Advances
<1>1. /\ Captures \in Nat /\ Captures' \in Nat /\ Len(rxq) \in Nat
  BY WorkFacts, CaptureFacts DEF Captures, TypeOK, QueueType
<1>2. /\ UNCHANGED workerVars /\ rxHw = "receiving" /\ rxHw' = "ready"
      /\ Len(rxq') = Len(rxq) + 1 \/ rxq' = rxq
  BY DEF RxDone, TypeOK, QueueType
<1>3. UNCHANGED <<wpc, wcmd, wleft>>
  BY <1>2 DEF workerVars
<1>4. CASE Len(rxq') = Len(rxq) + 1
  <2>1. Captures' = Captures
    BY <1>1, <1>2, <1>3, <1>4 DEF Captures, CapturesOf
  <2> QED  BY <1>1, <1>2, <1>3, <1>4, <2>1, WorkSame DEF Advances
<1>5. CASE rxq' = rxq
  <2>1. Captures' < Captures
    BY <1>1, <1>2, <1>3, <1>5 DEF Captures, CapturesOf
  <2>2. CASE wpc = "stop"
    <3>1. WorkLeft' = WorkLeft
      BY <1>3, <2>2 DEF WorkLeft
    <3> QED  BY <1>1, <1>2, <1>5, <3>1 DEF Advances
  <2>3. CASE wpc # "stop"
    BY <1>1, <1>3, <2>1, <2>3, WorkFewer DEF Advances
  <2> QED  BY <2>2, <2>3
<1> QED  BY <1>2, <1>4, <1>5

\* Every step with something in hand brings the worker nearer to the command queue,
\* or is somebody else's and leaves it where it is.
LEMMA AdvanceStep ==
    ASSUME IInv, IInv', [Next]_vars, ~AtRest
    PROVE  Advances
<1>1. TypeOK /\ TypeOK' /\ InHand /\ Lifecycle
  BY DEF IInv
<1>2. CASE WorkerStep
  <2>1. ~(CmdTimeout \/ CmdTake)
    BY DEF AtRest, CmdTimeout, CmdTake
  <2> QED
    BY <1>1, <1>2, <2>1, DrainAdvances, CommandAdvances, SendAdvances
       DEF WorkerStep, Advances
<1>3. ASSUME NEW c \in Clients,
             Check(c) \/ Enqueue(c) \/ Poll(c) \/ SlotInfoDone(c)
      PROVE  Advances
  BY <1>1, <1>3, WorkElsewhere DEF Check, Enqueue, Poll, SlotInfoDone
<1>4. CASE RxDone
  BY <1>1, <1>4, InterruptAdvances
<1>5. CASE TxDone \/ InitDone \/ DeinitBegin \/ PostStop \/ StopSeen \/ UNCHANGED vars
  BY <1>1, <1>5, WorkElsewhere
     DEF TxDone, InitDone, DeinitBegin, PostStop, StopSeen, vars
<1>6. CASE InitOpen \/ StartTask \/ Free \/ Clear
  <2>1. AtRest
    BY <1>1, <1>6 DEF InitOpen, StartTask, Free, Clear, Freeing, Lifecycle, AtRest
  <2> QED  BY <2>1
<1>7. CASE StopExpired
  <2>1. wpc' = "gone"
    BY <1>7 DEF StopExpired, DeleteWorker, GoTo
  <2>2. WorkLeft' = 0
    BY <2>1 DEF WorkLeft
  <2> QED  BY <1>1, <2>2, WorkPositive DEF Advances
<1> QED  BY <1>2, <1>3, <1>4, <1>5, <1>6, <1>7 DEF Next, Worker

\* The worker comes back to the command queue after every command, whatever fails and
\* whatever is received meanwhile.
THEOREM WorkerComesBack == Spec => WorkerAdvances
<1>1. IInv /\ IInv' /\ [Next]_vars =>
        [\/ wpc \in {"none", "gone", "cmd"}
         \/ WorkLeft' < WorkLeft
         \/ WorkLeft' = WorkLeft /\ UNCHANGED workerVars /\ Len(rxq') >= Len(rxq)]_vars
  BY AdvanceStep DEF Advances, AtRest
<1> QED  BY <1>1, Invariance, PTL DEF Spec, WorkerAdvances

\* What is received delays a command by one capture at most: six steps of the worker.
THEOREM DrainIsShort ==
    Spec => [](wpc \in {"drain"} \cup InRxDone => WorkLeft <= 6)
<1>1. ASSUME IInv, wpc \in {"drain"} \cup InRxDone  PROVE WorkLeft <= 6
  <2>1. Captures \in Nat
    BY <1>1, WorkFacts DEF IInv
  <2>2. Captures <= 1
    BY <1>1 DEF IInv, ReceiveInv, Running, InRxDone
  <2> QED  BY <1>1, <2>1, <2>2 DEF WorkLeft, InRxDone
<1>2. IInv => (wpc \in {"drain"} \cup InRxDone => WorkLeft <= 6)
  BY <1>1
<1> QED  BY <1>2, Invariance, PTL
=============================================================================
