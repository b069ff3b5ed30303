-------------------------- MODULE IrSessionProofs --------------------------
(***************************************************************************)
(* The controller implements IrSession: every step of its tasks, of the    *)
(* receiver and of the owner is a step of the abstract session or leaves   *)
(* it alone, for every number of clients, every queue depth and every set  *)
(* of calls.                                                               *)
(***************************************************************************)
EXTENDS IrCtrlProofs
-----------------------------------------------------------------------------
(* Which learn a capture, a frame and a command belong to.                 *)

\* What the API posts has a maximum.
LEMMA PostedMax ==
    ASSUME NEW call \in Calls
    PROVE  HasMax(Posted(call))
<1>1. CASE call \in LearnCalls
  <2>1. Posted(call) = [call EXCEPT !.opts = Clamp(call.opts)]
    BY <1>1, CallFacts DEF Posted
  <2>2. Posted(call).opts = Clamp(call.opts)
    BY <1>1, <2>1 DEF LearnCalls
  <2>3. Clamp(call.opts).present => Clamp(call.opts).max # 0
    <3>1. call.opts \in LearnOpts
      BY <1>1, CallFacts
    <3> QED  BY <3>1, IrCtrlAssumption DEF Clamp, LearnOpts, NoOpts
  <2> QED  BY <2>2, <2>3 DEF HasMax
<1>2. CASE call \notin LearnCalls
  <2>1. call.op # "learn_start"
    BY <1>2, CallFacts, IrCtrlAssumption DEF ApiCalls
  <2> QED  BY <2>1 DEF Posted, HasMax
<1> QED  BY <1>1, <1>2

\* No command is a command without limits.
LEMMA NoMax == HasMax(NoCmd.call) /\ HasMax(NoCall)
BY CallFacts DEF HasMax, NoCmd

\* The captures and the commands, by index.
LEMMA QueueFacts ==
    ASSUME TypeOK
    PROVE  /\ rxq \in Seq(RxEvents) /\ Len(rxq) \in Nat
           /\ cmdq \in Seq(QueueCmds) /\ Len(cmdq) \in Nat
           /\ rxq # << >> => /\ Head(rxq) = rxq[1] /\ 1 \in 1..Len(rxq)
                             /\ Len(Tail(rxq)) = Len(rxq) - 1
                             /\ \A i \in 1..Len(rxq) - 1 : Tail(rxq)[i] = rxq[i + 1]
           /\ cmdq # << >> => /\ Head(cmdq) = cmdq[1] /\ 1 \in 1..Len(cmdq)
                              /\ Len(Tail(cmdq)) = Len(cmdq) - 1
                              /\ \A i \in 1..Len(cmdq) - 1 : Tail(cmdq)[i] = cmdq[i + 1]
BY DEF TypeOK, QueueType

\* What a client's call and a command of the queue keep.
LearnQueues ==
    /\ \A i \in 1..Len(cmdq) : HasMax(cmdq[i].call)
    /\ \A c \in Clients : cpc[c] = "enqueue" => HasMax(ccall[c])

\* What the receiver and s_ctx keep of the learn.
LearnReceiver ==
    /\ wpc = "none" => state = "UNINIT"
    /\ \A i \in 1..Len(rxq) : rxq[i].for = rxFor
    /\ state = "LEARNING" =>
         rxFor \in LearnCalls /\ learnSlot = rxFor.slot /\ learnOpts = rxFor.opts
    /\ HasMax(rxFor)

\* What the worker has in hand.
LearnWorker ==
    /\ wpc \in {"judge", "store"} =>
         /\ wev.for \in LearnCalls /\ HasMax(wev.for)
         /\ wev.slot = wev.for.slot /\ wev.opts = wev.for.opts
    /\ wpc = "store" => Session!Fits(wev.for, wev.n)
    /\ HasMax(wcmd.call)

\* LearnInv in these three parts.
LEMMA LearnParts == LearnInv <=> LearnQueues /\ LearnReceiver /\ LearnWorker
BY DEF LearnInv, LearnQueues, LearnReceiver, LearnWorker

\* The same in the next state.
LEMMA LearnPartsNext == LearnInv' <=> LearnQueues' /\ LearnReceiver' /\ LearnWorker'
BY DEF LearnInv, LearnQueues, LearnReceiver, LearnWorker

\* The commands keep their maximum on the way to the worker.
LEMMA LearnQueuesStep ==
    ASSUME TypeOK, LearnQueues, [Next]_vars
    PROVE  LearnQueues'
<1>1. ASSUME NEW c \in Clients, Check(c)  PROVE LearnQueues'
  <2>1. UNCHANGED cmdq
    BY <1>1 DEF Check
  <2>2. CASE UNCHANGED <<cpc, ccall>>
    BY <2>1, <2>2 DEF LearnQueues
  <2>3. CASE \E call \in Calls :
               /\ ccall' = [ccall EXCEPT ![c] = Posted(call)]
               /\ cpc' = [cpc EXCEPT ![c] = IF call.op = "get_slot_info"
                                            THEN "loading" ELSE "enqueue"]
    <3>1. PICK call \in Calls :
               /\ ccall' = [ccall EXCEPT ![c] = Posted(call)]
               /\ cpc' = [cpc EXCEPT ![c] = IF call.op = "get_slot_info"
                                            THEN "loading" ELSE "enqueue"]
      BY <2>3
    <3>2. HasMax(Posted(call))
      BY PostedMax
    <3>3. ASSUME NEW d \in Clients, cpc'[d] = "enqueue"  PROVE HasMax(ccall'[d])
      BY <3>1, <3>2, <3>3 DEF LearnQueues, TypeOK, ApiType
    <3> QED  BY <2>1, <3>3 DEF LearnQueues
  <2> QED  BY <1>1, <2>2, <2>3 DEF Check, clientVars
<1>2. ASSUME NEW c \in Clients, Enqueue(c)  PROVE LearnQueues'
  <2>1. ASSUME NEW d \in Clients, cpc'[d] = "enqueue"  PROVE HasMax(ccall'[d])
    BY <1>2, <2>1 DEF Enqueue, Return, LearnQueues, TypeOK, ApiType
  <2>2. \A i \in 1..Len(cmdq') : HasMax(cmdq'[i].call)
    <3>1. CASE UNCHANGED cmdq
      BY <3>1 DEF LearnQueues
    <3>2. CASE cmdq' = Append(cmdq, [from |-> c, call |-> ccall[c]])
      <4>1. HasMax([from |-> c, call |-> ccall[c]].call)
        BY <1>2 DEF Enqueue, LearnQueues
      <4>2. /\ Len(cmdq') = Len(cmdq) + 1 /\ Len(cmdq) \in Nat
            /\ \A i \in 1..Len(cmdq) : cmdq'[i] = cmdq[i]
            /\ cmdq'[Len(cmdq) + 1] = [from |-> c, call |-> ccall[c]]
        BY <3>2, QueueFacts
      <4> QED  BY <4>1, <4>2 DEF LearnQueues
    <3> QED  BY <1>2, <3>1, <3>2 DEF Enqueue, Return
  <2> QED  BY <2>1, <2>2 DEF LearnQueues
<1>3. ASSUME NEW c \in Clients, Poll(c) \/ SlotInfoDone(c)  PROVE LearnQueues'
  BY <1>3 DEF Poll, SlotInfoDone, Return, LearnQueues, TypeOK, ApiType
<1>4. CASE CmdTake
  <2>1. cmdq # << >> /\ cmdq' = Tail(cmdq) /\ UNCHANGED <<cpc, ccall>>
    BY <1>4 DEF CmdTake, clientVars
  <2>2. \A i \in 1..Len(cmdq') : i + 1 \in 1..Len(cmdq) /\ cmdq'[i] = cmdq[i + 1]
    BY <2>1, QueueFacts
  <2> QED  BY <2>1, <2>2 DEF LearnQueues
<1>5. CASE PostStop
  <2>1. UNCHANGED <<cpc, ccall>>
    BY <1>5 DEF PostStop, clientVars
  <2>2. \A i \in 1..Len(cmdq') : HasMax(cmdq'[i].call)
    <3>1. CASE UNCHANGED cmdq
      BY <3>1 DEF LearnQueues
    <3>2. CASE cmdq' = Append(cmdq, StopCmd)
      <4>1. HasMax(StopCmd.call)
        BY CallFacts DEF HasMax
      <4>2. /\ Len(cmdq') = Len(cmdq) + 1 /\ Len(cmdq) \in Nat
            /\ \A i \in 1..Len(cmdq) : cmdq'[i] = cmdq[i]
            /\ cmdq'[Len(cmdq) + 1] = StopCmd
        BY <3>2, QueueFacts
      <4> QED  BY <4>1, <4>2 DEF LearnQueues
    <3> QED  BY <1>5, <3>1, <3>2 DEF PostStop
  <2> QED  BY <2>1, <2>2 DEF LearnQueues
<1>6. CASE InitOpen \/ Free \/ Clear
  <2>1. (cmdq' = << >> \/ UNCHANGED cmdq) /\ UNCHANGED <<cpc, ccall>>
    BY <1>6 DEF InitOpen, Free, Clear, clientVars
  <2> QED  BY <2>1 DEF LearnQueues
<1>7. CASE \/ RxDone \/ TxDone \/ StartTask \/ InitDone \/ DeinitBegin \/ StopSeen
           \/ StopExpired \/ UNCHANGED vars
  BY <1>7 DEF RxDone, TxDone, StartTask, InitDone, DeinitBegin, StopSeen, StopExpired,
     vars, clientVars, LearnQueues
<1>8. CASE WorkerStep /\ ~CmdTake
  BY <1>8 DEF WorkerStep, RxTake, Judge, Store, Finish, Reject, Drained, CmdTimeout,
     LearnStart, LearnCancel, SendBegin, Load, Prepare, Transmit, TxWait, Transmitted,
     SendEnd, WorkerStop, clientVars, LearnQueues
<1> QED  BY <1>1, <1>2, <1>3, <1>4, <1>5, <1>6, <1>7, <1>8 DEF Next, Worker

\* A step that leaves the receiver, its queue and the learn of s_ctx alone.
LEMMA ReceiverSame ==
    ASSUME LearnReceiver,
           UNCHANGED <<state, learnSlot, learnOpts, rxq, rxFor>>,
           wpc' = "none" => wpc = "none"
    PROVE  LearnReceiver'
BY DEF LearnReceiver

\* A step after which no learn is on.
LEMMA ReceiverOff ==
    ASSUME LearnReceiver, UNCHANGED <<rxq, rxFor>>, state' # "LEARNING",
           wpc' = "none" => state' = "UNINIT"
    PROVE  LearnReceiver'
BY DEF LearnReceiver

\* The captures belong to the learn the receiver was armed for last.
LEMMA LearnReceiverStep ==
    ASSUME IInv, LearnReceiver, LearnWorker, [Next]_vars
    PROVE  LearnReceiver'
<1> USE DEF IInv
<1>1. ASSUME NEW c \in Clients,
             Check(c) \/ Enqueue(c) \/ Poll(c) \/ SlotInfoDone(c)
      PROVE  LearnReceiver'
  BY <1>1, ReceiverSame DEF Check, Enqueue, Poll, SlotInfoDone, ctxVars, workerVars
<1>2. CASE RxDone
  <2>1. UNCHANGED <<state, learnSlot, learnOpts, rxFor, wpc>>
    BY <1>2 DEF RxDone, ctxVars, workerVars
  <2>2. \A i \in 1..Len(rxq') : rxq'[i].for = rxFor
    <3>1. CASE UNCHANGED rxq
      BY <3>1 DEF LearnReceiver
    <3>2. CASE \E n \in Counts : rxq' = Append(rxq, [n |-> n, for |-> rxFor])
      <4>1. PICK n \in Counts : rxq' = Append(rxq, [n |-> n, for |-> rxFor])
        BY <3>2
      <4>2. /\ Len(rxq') = Len(rxq) + 1 /\ Len(rxq) \in Nat
            /\ \A i \in 1..Len(rxq) : rxq'[i] = rxq[i]
            /\ rxq'[Len(rxq) + 1] = [n |-> n, for |-> rxFor]
        BY <4>1, QueueFacts
      <4> QED  BY <4>2 DEF LearnReceiver
    <3> QED  BY <1>2, <3>1, <3>2 DEF RxDone
  <2> QED  BY <2>1, <2>2 DEF LearnReceiver
<1>3. CASE RxTake
  <2>1. /\ rxq # << >> /\ rxq' = Tail(rxq) /\ wpc' # "none"
        /\ UNCHANGED <<state, learnSlot, learnOpts, rxFor>>
    BY <1>3 DEF RxTake, ctxVars
  <2>2. \A i \in 1..Len(rxq') : i + 1 \in 1..Len(rxq) /\ rxq'[i] = rxq[i + 1]
    BY <2>1, QueueFacts
  <2> QED  BY <2>1, <2>2 DEF LearnReceiver
<1>4. CASE LearnStart
  <2>1. wpc' = "drain" /\ wpc = "learn_start" /\ rxq' = rxq
    BY <1>4 DEF LearnStart, GoTo
  <2>2. CASE ~MayBegin("store")
    BY <1>4, <2>1, <2>2, ReceiverSame DEF LearnStart, ctxVars
  <2>3. CASE ReceiveRefused
    BY <2>1, <2>3, ReceiverOff DEF ReceiveRefused, FinishToIdle
  <2>4. CASE MayBegin("store") /\ ~ReceiveRefused
    <3>1. /\ state' = "LEARNING" /\ rxFor' = wcmd.call
          /\ learnSlot' = wcmd.call.slot /\ learnOpts' = wcmd.call.opts
      BY <1>4, <2>4 DEF LearnStart
    <3>2. rxq = << >>
      <4>1. Running /\ state \notin {"LEARNING", "UNINIT"}
        BY <2>1, <2>4 DEF Running, MayBegin, Inited, Busy
      <4> QED  BY <2>1, <4>1 DEF ReceiveInv
    <3>3. wcmd.call \in LearnCalls
      BY <2>1 DEF InHand
    <3> QED  BY <2>1, <3>1, <3>2, <3>3 DEF LearnReceiver, LearnWorker
  <2> QED  BY <2>2, <2>3, <2>4
<1>5. CASE Reject \/ LearnCancel
  <2>1. wpc' = "drain" /\ UNCHANGED <<rxq, rxFor>>
    BY <1>5 DEF Reject, LearnCancel, GoTo
  <2>2. CASE Inited /\ state = "LEARNING"
    BY <1>5, <2>1, <2>2, ReceiverOff DEF Reject, LearnCancel, CancelLearn,
       StopLearning, FinishToIdle
  <2>3. CASE ~(Inited /\ state = "LEARNING")
    BY <1>5, <2>1, <2>3, ReceiverSame DEF Reject, LearnCancel, CancelLearn, ctxVars
  <2> QED  BY <2>2, <2>3
<1>6. CASE Finish \/ SendEnd
  BY <1>6, ReceiverOff DEF Finish, SendEnd, GoTo, FinishToIdle
<1>7. CASE SendBegin
  <2>1. wpc' # "none" /\ UNCHANGED <<learnSlot, learnOpts, rxq, rxFor>>
    BY <1>7 DEF SendBegin, GoTo
  <2>2. UNCHANGED state \/ state' = "SENDING"
    BY <1>7 DEF SendBegin
  <2> QED  BY <2>1, <2>2, ReceiverSame, ReceiverOff
<1>8. CASE \/ TxDone \/ Judge \/ Store \/ Drained \/ CmdTimeout
           \/ Load \/ Prepare \/ Transmit \/ TxWait \/ Transmitted \/ WorkerStop
           \/ StartTask \/ PostStop \/ StopSeen \/ StopExpired \/ UNCHANGED vars
  BY <1>8, ReceiverSame DEF TxDone, Judge, Store, Drained, CmdTimeout, Load, Prepare,
     Transmit, TxWait, Transmitted, WorkerStop, StartTask, PostStop, StopSeen,
     StopExpired, DeleteWorker, GoTo, SendFailed, AfterTransmit, ctxVars, workerVars, vars
<1>9. CASE CmdTake
  <2>1. Head(cmdq) \in QueueCmds
    BY <1>9 DEF CmdTake, TypeOK, QueueType
  <2>2. wpc' # "none"
    BY <1>9, <2>1, QueueOps DEF CmdTake
  <2> QED  BY <1>9, <2>2, ReceiverSame DEF CmdTake, ctxVars
<1>10. CASE InitOpen \/ DeinitBegin
  BY <1>10, ReceiverOff DEF InitOpen, DeinitBegin
<1>11. CASE InitDone
  <2>1. wpc # "none"
    BY <1>11 DEF InitDone, Lifecycle
  <2> QED  BY <1>11, <2>1, ReceiverOff DEF InitDone, workerVars
<1>12. CASE Free
  <2>1. UNCHANGED <<state, learnSlot, learnOpts, rxFor, wpc>> /\ (UNCHANGED rxq \/ rxq' = << >>)
    BY <1>12 DEF Free, ctxVars, workerVars
  <2> QED  BY <2>1 DEF LearnReceiver
<1>13. CASE Clear
  BY <1>13, ReceiverOff DEF Clear
<1> QED
  BY <1>1, <1>2, <1>3, <1>4, <1>5, <1>6, <1>7, <1>8, <1>9, <1>10, <1>11, <1>12,
     <1>13 DEF Next, Worker, WorkerStep

\* The frame in hand is of one learn, in its slot and within its limits.
LEMMA LearnWorkerStep ==
    ASSUME IInv, LearnQueues, LearnReceiver, LearnWorker, [Next]_vars
    PROVE  LearnWorker'
<1> USE DEF IInv
<1>1. ASSUME UNCHANGED <<wcmd, wev>>, wpc' \in {"judge", "store"} => wpc' = wpc
      PROVE  LearnWorker'
  BY <1>1 DEF LearnWorker, Session!Fits
<1>2. ASSUME wcmd' = NoCmd, wpc' \notin {"judge", "store"}  PROVE LearnWorker'
  BY <1>2, NoMax DEF LearnWorker
<1>3. ASSUME NEW c \in Clients,
             Check(c) \/ Enqueue(c) \/ Poll(c) \/ SlotInfoDone(c)
      PROVE  LearnWorker'
  BY <1>1, <1>3 DEF Check, Enqueue, Poll, SlotInfoDone, workerVars
<1>4. CASE \/ RxDone \/ TxDone \/ InitOpen \/ InitDone \/ DeinitBegin \/ PostStop
           \/ StopSeen \/ StartTask \/ Free \/ Clear \/ UNCHANGED vars
  BY <1>1, <1>4 DEF RxDone, TxDone, InitOpen, InitDone, DeinitBegin, PostStop, StopSeen,
     StartTask, Free, Clear, workerVars, vars
<1>5. CASE \/ Finish \/ Reject \/ LearnStart \/ LearnCancel \/ SendEnd \/ WorkerStop
           \/ StopExpired
  <2>1. wcmd' = NoCmd /\ wpc' \in {"drain", "gone"}
    BY <1>5 DEF Finish, Reject, LearnStart, LearnCancel, SendEnd, WorkerStop,
       StopExpired, DeleteWorker, GoTo
  <2> QED  BY <1>2, <2>1
<1>6. CASE SendBegin
  BY <1>1, <1>2, <1>6 DEF SendBegin, GoTo
<1>7. CASE \/ Store \/ Drained \/ CmdTimeout \/ Load \/ Prepare \/ Transmit \/ TxWait
           \/ Transmitted
  BY <1>1, <1>7 DEF Store, Drained, CmdTimeout, Load, Prepare, Transmit, TxWait,
     Transmitted, SendFailed, AfterTransmit
<1>8. CASE RxTake
  <2>1. rxq # << >> /\ wcmd' = wcmd /\ wpc = "drain"
    BY <1>8 DEF RxTake
  <2>2. CASE ~(state = "LEARNING" /\ activeGen = learnGen)
    BY <1>1, <1>8, <2>2 DEF RxTake
  <2>3. CASE state = "LEARNING" /\ activeGen = learnGen
    <3>1. /\ wpc' = "judge" /\ wev'.for = rxq[1].for
          /\ wev'.slot = learnSlot /\ wev'.opts = learnOpts
      BY <1>8, <2>1, <2>3, QueueFacts DEF RxTake
    <3>2. rxq[1].for = rxFor
      BY <2>1, QueueFacts DEF LearnReceiver
    <3> QED  BY <2>1, <2>3, <3>1, <3>2 DEF LearnReceiver, LearnWorker
  <2> QED  BY <2>2, <2>3
<1>9. CASE CmdTake
  <2>1. wcmd' = cmdq[1] /\ 1 \in 1..Len(cmdq) /\ wpc' = wcmd'.call.op
    BY <1>9, QueueFacts DEF CmdTake
  <2>2. wcmd' \in QueueCmds
    BY <1>9 DEF CmdTake, TypeOK, QueueType
  <2>3. HasMax(wcmd'.call) /\ wpc' \notin {"judge", "store"}
    BY <2>1, <2>2, QueueOps DEF LearnQueues
  <2> QED  BY <2>3 DEF LearnWorker
<1>10. CASE Judge
  <2>1. wpc = "judge" /\ wcmd' = wcmd
    BY <1>10 DEF Judge
  <2>2. PICK n \in IF wev.opts.hook THEN Counts ELSE {wev.n} :
          \/ /\ WithinLimits(wev.opts, wev.n) /\ n \in 1..MaxSyms
             /\ wpc' = "store" /\ wev' = [wev EXCEPT !.n = n]
          \/ wpc' = "reject" /\ UNCHANGED wev
    BY <1>10 DEF Judge
  <2>3. CASE wpc' = "reject" /\ UNCHANGED wev
    BY <1>1, <2>1, <2>3
  <2>4. CASE /\ WithinLimits(wev.opts, wev.n) /\ n \in 1..MaxSyms
             /\ wpc' = "store" /\ wev' = [wev EXCEPT !.n = n]
    <3>1. wev \in Events
      BY DEF TypeOK, WorkerType
    <3>2. /\ wev'.n = n /\ wev'.for = wev.for /\ wev'.slot = wev.slot
          /\ wev'.opts = wev.opts
      BY <2>4, <3>1 DEF Events
    <3>3. /\ wev.for \in LearnCalls /\ HasMax(wev.for)
          /\ wev.slot = wev.for.slot /\ wev.opts = wev.for.opts
      BY <2>1 DEF LearnWorker
    <3>4. Session!Fits(wev.for, n)
      <4>1. ASSUME wev.for.opts.present, ~wev.for.opts.hook
            PROVE  wev.for.opts.min <= n /\ n <= wev.for.opts.max
        <5>1. n = wev.n
          BY <2>2, <3>3, <4>1
        <5>2. /\ wev.opts.min # 0 => n >= wev.opts.min
              /\ wev.opts.max # 0 => n <= wev.opts.max
          BY <2>4, <3>3, <4>1, <5>1 DEF WithinLimits
        <5>3. wev.for.opts.max # 0
          BY <3>3, <4>1, CallFacts DEF HasMax
        <5>4. n \in Nat
          BY <2>4, IrCtrlAssumption
        <5> QED  BY <3>3, <5>2, <5>3, <5>4
      <4> QED  BY <2>4, <4>1 DEF Session!Fits
    <3> QED  BY <2>1, <2>4, <3>2, <3>3, <3>4 DEF LearnWorker, Session!Fits
  <2> QED  BY <2>2, <2>3, <2>4
<1> QED
  BY <1>3, <1>4, <1>5, <1>6, <1>7, <1>8, <1>9, <1>10 DEF Next, Worker, WorkerStep

\* Every step keeps all of it.
LEMMA LearnStep == IInv /\ LearnInv /\ [Next]_vars => LearnInv'
<1> SUFFICES ASSUME IInv, LearnInv, [Next]_vars  PROVE LearnInv'
  OBVIOUS
<1>1. LearnQueues /\ LearnReceiver /\ LearnWorker
  BY LearnParts
<1>2. LearnQueues'
  BY <1>1, LearnQueuesStep DEF IInv
<1>3. LearnReceiver' /\ LearnWorker'
  BY <1>1, LearnReceiverStep, LearnWorkerStep
<1> QED  BY <1>2, <1>3, LearnPartsNext

\* It holds of the controller, together with IInv.
LEMMA LearnInvariance == Spec => [](IInv /\ LearnInv)
<1>1. Init => IInv /\ LearnInv
  <2>1. Init => LearnInv
    BY NoMax DEF Init, LearnInv
  <2> QED  BY <2>1, InitIInv
<1>2. (IInv /\ LearnInv) /\ [Next]_vars => (IInv /\ LearnInv)'
  BY NextIInv, LearnStep
<1> QED  BY <1>1, <1>2, PTL DEF Spec
-----------------------------------------------------------------------------
(* The refinement.                                                         *)

\* The phase of the session, case by case.
LEMMA PhaseMaps ==
    /\ state = "LEARNING" => PhaseOf = "learning"
    /\ state = "SENDING" => PhaseOf = "sending"
    /\ state \notin {"LEARNING", "SENDING"} => PhaseOf = "quiet"
    /\ state' = "LEARNING" => PhaseOf' = "learning"
    /\ state' = "SENDING" => PhaseOf' = "sending"
    /\ state' \notin {"LEARNING", "SENDING"} => PhaseOf' = "quiet"
    /\ state' = state => PhaseOf' = PhaseOf
BY DEF PhaseOf

\* The learn that may still store, case by case.
LEMMA SessionMaps ==
    /\ wpc \in {"judge", "store"} => SessionOf = wev.for
    /\ wpc \in {"finish", "reject"} => SessionOf = NoCall
    /\ wpc \notin InRxDone =>
         /\ state = "LEARNING" /\ wpc # "gone" => SessionOf = rxFor
         /\ state # "LEARNING" \/ wpc = "gone" => SessionOf = NoCall
BY DEF SessionOf, InRxDone

\* The same in the next state.
LEMMA SessionMapsNext ==
    /\ wpc' \in {"judge", "store"} => SessionOf' = wev'.for
    /\ wpc' \in {"finish", "reject"} => SessionOf' = NoCall
    /\ wpc' \notin InRxDone =>
         /\ state' = "LEARNING" /\ wpc' # "gone" => SessionOf' = rxFor'
         /\ state' # "LEARNING" \/ wpc' = "gone" => SessionOf' = NoCall
BY DEF SessionOf, InRxDone

\* A step that changes neither the state nor the learn of the worker is none of the
\* session.
LEMMA Outside ==
    ASSUME UNCHANGED <<state, rxFor, frames>>,
           \/ UNCHANGED <<wpc, wev>>
           \/ wpc \notin InRxDone \cup {"gone"} /\ wpc' \notin InRxDone \cup {"gone"}
    PROVE  UNCHANGED Session!sessionVars
BY PhaseMaps, SessionMaps, SessionMapsNext DEF SessionOf, Session!sessionVars

\* A learn ends with its phase, whatever it had in hand.
LEMMA Ends ==
    ASSUME state = "LEARNING", state' \notin {"LEARNING", "SENDING"},
           SessionOf' = NoCall, frames' = frames
    PROVE  Session!LearnEnds
BY PhaseMaps DEF Session!LearnEnds

\* The right to store is given up, or there was none.
LEMMA GivesUp ==
    ASSUME UNCHANGED <<state, frames>>, SessionOf' = NoCall
    PROVE  UNCHANGED Session!sessionVars \/ Session!CaptureRefused
BY PhaseMaps DEF Session!CaptureRefused, Session!sessionVars

\* Where the worker is in each part of the controller's life.
LEMMA RunningFacts ==
    ASSUME IInv, LearnInv
    PROVE  /\ Running => owner \in {"started", "up", "stop", "poll"}
           /\ Running /\ state # "UNINIT" => Inited
           /\ wpc = "none" => state = "UNINIT"
           /\ wpc \in InRxDone => Running
<1>1. owner \in OwnerPcs /\ state \in States
  BY DEF IInv, TypeOK, ApiType, CtxType
<1>2. Running => owner \in {"started", "up", "stop", "poll"}
  BY <1>1 DEF IInv, Lifecycle, Running, OwnerPcs, Starting, Closing
<1>3. Running => handles = Resources
  BY <1>2 DEF IInv, Lifecycle
<1>4. Running /\ state # "UNINIT" => Inited
  BY <1>3 DEF Inited, Driver, Resources
<1> QED  BY <1>2, <1>4 DEF LearnInv, InRxDone, Running

\* Every step of the controller is one of the session or leaves it alone.
LEMMA SessionStep ==
    ASSUME IInv, LearnInv, [Next]_vars
    PROVE  [Session!SessionNext]_(Session!sessionVars)
<1> DEFINE Stutters == UNCHANGED Session!sessionVars
<1>0. SUFFICES Stutters \/ Session!SessionNext
  OBVIOUS
<1>1. ASSUME NEW c \in Clients,
             Check(c) \/ Enqueue(c) \/ Poll(c) \/ SlotInfoDone(c)
      PROVE  Stutters
  BY <1>1, Outside DEF Check, Enqueue, Poll, SlotInfoDone, ctxVars, workerVars
<1>2. CASE RxDone \/ TxDone \/ PostStop \/ StopSeen \/ Free \/ UNCHANGED vars
  BY <1>2, Outside
     DEF RxDone, TxDone, PostStop, StopSeen, Free, ctxVars, workerVars, vars
<1>3. CASE \/ Drained \/ CmdTimeout \/ Load \/ Prepare \/ Transmit \/ TxWait
           \/ Transmitted
  <2>1. wpc \notin InRxDone \cup {"gone"} /\ wpc' \notin InRxDone \cup {"gone"}
    BY <1>3 DEF Drained, CmdTimeout, Load, Prepare, Transmit, TxWait, Transmitted,
       SendFailed, AfterTransmit, InRxDone
  <2>2. UNCHANGED <<state, rxFor, frames>>
    BY <1>3 DEF Drained, CmdTimeout, Load, Prepare, Transmit, TxWait, Transmitted,
       ctxVars
  <2> QED  BY <2>1, <2>2, Outside
<1>4. CASE CmdTake
  <2>1. wcmd' \in QueueCmds
    BY <1>4 DEF CmdTake, IInv, TypeOK, QueueType
  <2>2. wpc \notin InRxDone \cup {"gone"} /\ wpc' \notin InRxDone \cup {"gone"}
    BY <1>4, <2>1, QueueOps DEF CmdTake, InRxDone
  <2>3. UNCHANGED <<state, rxFor, frames>>
    BY <1>4 DEF CmdTake, ctxVars
  <2> QED  BY <2>2, <2>3, Outside
<1>5. CASE RxTake
  <2>1. wpc = "drain" /\ rxq # << >> /\ UNCHANGED <<state, rxFor, frames>>
    BY <1>5 DEF RxTake, ctxVars
  <2>2. CASE ~(state = "LEARNING" /\ activeGen = learnGen)
    BY <1>5, <2>1, <2>2, Outside DEF RxTake
  <2>3. CASE state = "LEARNING" /\ activeGen = learnGen
    <3>1. wpc' = "judge" /\ wev'.for = rxq[1].for
      BY <1>5, <2>1, <2>3, QueueFacts DEF RxTake, IInv
    <3>2. rxq[1].for = rxFor
      BY <2>1, QueueFacts DEF LearnInv, IInv
    <3>3. SessionOf = rxFor /\ SessionOf' = rxFor
      BY <2>1, <2>3, <3>1, <3>2, SessionMaps, SessionMapsNext DEF InRxDone
    <3> QED  BY <2>1, <3>3, PhaseMaps DEF Session!sessionVars
  <2> QED  BY <2>2, <2>3
<1>6. CASE Judge
  <2>1. wpc = "judge" /\ UNCHANGED <<state, frames>>
    BY <1>6 DEF Judge, ctxVars
  <2>2. CASE wpc' = "store" /\ \E n \in Nat : wev' = [wev EXCEPT !.n = n]
    <3>1. wev'.for = wev.for
      BY <2>2 DEF IInv, TypeOK, WorkerType, Events
    <3> QED  BY <2>1, <2>2, <3>1, PhaseMaps, SessionMaps, SessionMapsNext
             DEF Session!sessionVars
  <2>3. CASE wpc' = "reject"
    <3>1. SessionOf' = NoCall
      BY <2>3, SessionMapsNext
    <3> QED  BY <2>1, <3>1, GivesUp DEF Session!SessionNext
  <2> QED  BY <1>6, <2>2, <2>3, IrCtrlAssumption DEF Judge
<1>7. CASE Store
  <2>1. wpc = "store" /\ state' = state /\ wpc' \in {"finish", "reject"}
    BY <1>7 DEF Store, ctxVars
  <2>2. SessionOf = wev.for /\ SessionOf' = NoCall
    BY <2>1, SessionMaps, SessionMapsNext
  <2>3. CASE UNCHANGED frames
    BY <2>1, <2>2, <2>3, GivesUp DEF Session!SessionNext
  <2>4. CASE frames' = [frames EXCEPT ![wev.slot] = [for |-> wev.for, syms |-> wev.n]]
    <3>1. /\ wev.for \in LearnCalls /\ wev.slot = wev.for.slot
          /\ Session!Fits(wev.for, wev.n)
      BY <2>1 DEF LearnInv
    <3>2. SessionOf # NoCall
      BY <2>2, <3>1, CallFacts
    <3>3. wev.n \in 1..MaxSyms
      BY <3>1 DEF Session!Fits
    <3>4. frames' = [frames EXCEPT ![SessionOf.slot] =
                        [for |-> SessionOf, syms |-> wev.n]]
      BY <2>2, <2>4, <3>1
    <3>5. Session!Fits(SessionOf, wev.n)
      BY <2>2, <3>1
    <3>6. Session!FrameStored
      BY <2>1, <2>2, <3>2, <3>3, <3>4, <3>5, PhaseMaps DEF Session!FrameStored
    <3> QED  BY <3>6 DEF Session!SessionNext
  <2> QED  BY <1>7, <2>3, <2>4 DEF Store
<1>8. CASE Finish
  <2>1. /\ wpc = "finish" /\ wpc' = "drain" /\ state' = "IDLE" /\ frames' = frames
    BY <1>8 DEF Finish, GoTo, FinishToIdle
  <2>2. SessionOf = NoCall /\ SessionOf' = NoCall
    BY <2>1, SessionMaps, SessionMapsNext DEF InRxDone
  <2>3. state \in {"LEARNING", "UNINIT"}
    BY <2>1 DEF IInv, ReceiveInv, Running, InRxDone
  <2>4. CASE state = "LEARNING"
    BY <2>1, <2>2, <2>4, Ends DEF Session!SessionNext
  <2>5. CASE state = "UNINIT"
    BY <2>1, <2>2, <2>5, PhaseMaps DEF Session!sessionVars
  <2> QED  BY <2>3, <2>4, <2>5
<1>9. CASE Reject \/ LearnCancel
  <2>1. /\ wpc \in {"reject", "learn_cancel"} /\ wpc' = "drain" /\ frames' = frames
        /\ rxFor' = rxFor
    BY <1>9 DEF Reject, LearnCancel, GoTo
  <2>2. CASE state = "LEARNING"
    <3>1. Inited
      BY <2>1, <2>2, RunningFacts DEF Running
    <3>2. state' = "IDLE"
      BY <1>9, <2>2, <3>1 DEF Reject, LearnCancel, CancelLearn, StopLearning, FinishToIdle
    <3>3. SessionOf' = NoCall
      BY <2>1, <3>2, SessionMapsNext DEF InRxDone
    <3> QED  BY <2>1, <2>2, <3>2, <3>3, Ends DEF Session!SessionNext
  <2>3. CASE state # "LEARNING"
    <3>1. state' = state
      BY <1>9, <2>3 DEF Reject, LearnCancel, CancelLearn, ctxVars
    <3>2. SessionOf = NoCall /\ SessionOf' = NoCall
      BY <2>1, <2>3, <3>1, SessionMaps, SessionMapsNext DEF InRxDone
    <3> QED  BY <2>1, <3>1, <3>2, PhaseMaps DEF Session!sessionVars
  <2> QED  BY <2>2, <2>3
<1>10. CASE LearnStart
  <2>1. wpc = "learn_start" /\ wpc' = "drain" /\ frames' = frames
    BY <1>10 DEF LearnStart, GoTo
  <2>2. wpc \notin InRxDone \cup {"gone"} /\ wpc' \notin InRxDone \cup {"gone"}
    BY <2>1 DEF InRxDone
  <2>3. CASE ~MayBegin("store")
    BY <1>10, <2>1, <2>2, <2>3, Outside DEF LearnStart, ctxVars
  <2>4. CASE MayBegin("store")
    <3>1. state \notin {"LEARNING", "SENDING"} /\ SessionOf = NoCall
      BY <2>2, <2>4, SessionMaps DEF MayBegin, Busy
    <3>2. CASE ~ReceiveRefused
      <4>1. state' = "LEARNING" /\ rxFor' = wcmd.call
        BY <1>10, <2>4, <3>2 DEF LearnStart
      <4>2. wcmd.call \in LearnCalls
        BY <2>1 DEF IInv, InHand
      <4>3. SessionOf' \in LearnCalls
        BY <2>2, <4>1, <4>2, SessionMapsNext
      <4> QED  BY <2>1, <3>1, <4>1, <4>3, PhaseMaps
               DEF Session!LearnBegins, Session!SessionNext
    <3>3. CASE ReceiveRefused
      <4>1. state' = "IDLE"
        BY <3>3 DEF ReceiveRefused, FinishToIdle
      <4>2. SessionOf' = NoCall
        BY <2>2, <4>1, SessionMapsNext
      <4> QED  BY <2>1, <3>1, <4>1, <4>2, PhaseMaps DEF Session!sessionVars
    <3> QED  BY <3>2, <3>3
  <2> QED  BY <2>3, <2>4
<1>11. CASE SendBegin
  <2>1. wpc = "send" /\ wpc' \in {"load", "drain"} /\ UNCHANGED <<frames, rxFor>>
    BY <1>11 DEF SendBegin, GoTo
  <2>2. wpc \notin InRxDone \cup {"gone"} /\ wpc' \notin InRxDone \cup {"gone"}
    BY <2>1 DEF InRxDone
  <2>3. CASE ~MayBegin("load")
    BY <1>11, <2>1, <2>2, <2>3, Outside DEF SendBegin
  <2>4. CASE MayBegin("load")
    <3>1. state \notin {"LEARNING", "SENDING"} /\ state' = "SENDING"
      BY <1>11, <2>4 DEF SendBegin, MayBegin, Busy
    <3>2. SessionOf = NoCall /\ SessionOf' = NoCall
      BY <2>2, <3>1, SessionMaps, SessionMapsNext
    <3> QED  BY <2>1, <3>1, <3>2, PhaseMaps DEF Session!SendBegins, Session!SessionNext
  <2> QED  BY <2>3, <2>4
<1>12. CASE SendEnd
  <2>1. wpc = "end" /\ wpc' = "drain" /\ state' = "IDLE" /\ frames' = frames
    BY <1>12 DEF SendEnd, GoTo
  <2>2. state \in {"SENDING", "UNINIT"}
    BY <2>1 DEF IInv, SendInv, Running, InSend
  <2>3. SessionOf = NoCall /\ SessionOf' = NoCall
    BY <2>1, <2>2, SessionMaps, SessionMapsNext DEF InRxDone
  <2> QED  BY <2>1, <2>2, <2>3, PhaseMaps
           DEF Session!SendEnds, Session!SessionNext, Session!sessionVars
<1>13. CASE WorkerStop \/ StopExpired
  <2>1. wpc' = "gone" /\ UNCHANGED <<state, frames>>
    BY <1>13 DEF WorkerStop, StopExpired, DeleteWorker, GoTo, ctxVars
  <2>2. SessionOf' = NoCall
    BY <2>1, SessionMapsNext DEF InRxDone
  <2> QED  BY <2>1, <2>2, GivesUp DEF Session!SessionNext
<1>14. CASE InitOpen \/ StartTask \/ InitDone
  <2>1. state = "UNINIT" /\ state' \in {"UNINIT", "IDLE"} /\ frames' = frames
    BY <1>14 DEF InitOpen, StartTask, InitDone, IInv, Lifecycle, ctxVars
  <2>2. wpc \notin InRxDone /\ wpc' \notin InRxDone
    <3>1. CASE InitOpen \/ StartTask
      BY <3>1 DEF InitOpen, StartTask, IInv, Lifecycle, InRxDone, workerVars
    <3>2. CASE InitDone
      <4>1. Captures = 0 /\ wpc' = wpc
        BY <3>2 DEF InitDone, IInv, Lifecycle, workerVars
      <4> QED  BY <4>1, CaptureFacts DEF Captures, IInv, TypeOK, QueueType
    <3> QED  BY <1>14, <3>1, <3>2
  <2>3. SessionOf = NoCall /\ SessionOf' = NoCall
    BY <2>1, <2>2, SessionMaps, SessionMapsNext
  <2> QED  BY <2>1, <2>3, PhaseMaps DEF Session!sessionVars
<1>15. CASE DeinitBegin
  <2>1. state' = "UNINIT" /\ UNCHANGED <<wpc, wev, frames>>
    BY <1>15 DEF DeinitBegin, workerVars
  <2>2. CASE wpc \in {"judge", "store"}
    <3>1. SessionOf' = SessionOf
      BY <2>1, <2>2, SessionMaps, SessionMapsNext
    <3>2. state \in {"LEARNING", "UNINIT"}
      BY <2>2 DEF IInv, ReceiveInv, Running, InRxDone
    <3> QED  BY <2>1, <3>1, <3>2, PhaseMaps
             DEF Session!LearnAbandoned, Session!SessionNext, Session!sessionVars
  <2>3. CASE wpc \notin {"judge", "store"}
    <3>1. SessionOf' = NoCall
      BY <2>1, <2>3, SessionMapsNext DEF InRxDone
    <3>2. CASE state = "LEARNING"
      BY <2>1, <3>1, <3>2, Ends DEF Session!SessionNext
    <3>3. CASE state # "LEARNING"
      <4>1. SessionOf = NoCall
        BY <2>3, <3>3, SessionMaps DEF InRxDone
      <4> QED  BY <2>1, <3>1, <3>3, <4>1, PhaseMaps
               DEF Session!SendEnds, Session!SessionNext, Session!sessionVars
    <3> QED  BY <3>2, <3>3
  <2> QED  BY <2>2, <2>3
<1>16. CASE Clear
  <2>1. /\ state' = "UNINIT" /\ frames' = frames /\ wpc' = "none"
        /\ wpc \in {"none", "gone"}
    BY <1>16 DEF Clear, Freeing, IInv, Lifecycle
  <2>2. SessionOf = NoCall /\ SessionOf' = NoCall
    BY <2>1, RunningFacts, SessionMaps, SessionMapsNext DEF InRxDone
  <2>3. CASE state = "LEARNING"
    BY <2>1, <2>2, <2>3, Ends DEF Session!SessionNext
  <2>4. CASE state # "LEARNING"
    BY <2>1, <2>2, <2>4, PhaseMaps
       DEF Session!SendEnds, Session!SessionNext, Session!sessionVars
  <2> QED  BY <2>3, <2>4
<1> QED
  BY <1>1, <1>2, <1>3, <1>4, <1>5, <1>6, <1>7, <1>8, <1>9, <1>10, <1>11, <1>12,
     <1>13, <1>14, <1>15, <1>16 DEF Next, Worker, WorkerStep

\* The controller implements IrSession: learning and sending exclude each other, and a
\* learn stores at most one frame, of its own, in its own slot and within its own
\* limits, before it has ended.
THEOREM Implements == Spec => ImplementsSession
<1>1. Init => Session!SessionInit
  BY PhaseMaps, SessionMaps DEF Init, Session!SessionInit, InRxDone
<1>2. (IInv /\ LearnInv) /\ [Next]_vars => [Session!SessionNext]_(Session!sessionVars)
  BY SessionStep
<1> QED
  BY <1>1, <1>2, LearnInvariance, PTL DEF Spec, ImplementsSession, Session!SessionSpec
=============================================================================
