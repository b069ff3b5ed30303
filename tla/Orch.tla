-------------------------------- MODULE Orch --------------------------------
(***************************************************************************)
(* The orchestrator, components/orchestrator/orch.c: the gate in front of  *)
(* every command, driven by state-change events of the event bus.          *)
(*                                                                         *)
(* Client tasks call orch_process_req; anybody publishes; the bus's one    *)
(* dispatcher task calls on_state_change.  g_state and g_next_op_id are    *)
(* atomics: each access is a step.  The bus is a submodule outside the     *)
(* repository and is modelled from how orch.c and its test use it: a       *)
(* bounded queue that refuses new events when full, and in-order dispatch  *)
(* by one task.  What a request returns is abstracted to refused or not,   *)
(* and the arguments the code refuses before it reads any state (NULL, an  *)
(* unknown command) are left out.                                          *)
(***************************************************************************)
EXTENDS Integers, Sequences

CONSTANTS
    Clients,     \* tasks that call orch_process_req
    Commands,    \* the commands they send
    Events,      \* the events that are published
    QueueDepth,  \* EVT_BUS_PORT_QUEUE_DEPTH
    MaxSubs,     \* subscriptions the bus can hold for the event
    OpIdMod,     \* 2^32 in the code: g_next_op_id is a uint32_t
    MaxCalls,    \* bound: requests in a behaviour
    MaxEvents,   \* bound: events published in a behaviour
    MaxInits     \* bound: calls of orch_init in a behaviour

GateStates == {"BOOT", "LOCKED", "NORMAL", "other"}
CmdIds == {"AUTH_LOGIN", "AUTH_LOGOUT", "IR_LEARN_START", "IR_LEARN_CANCEL",
           "IR_SEND", "SCHED_SET_TABLE", "FACTORY_RESET"}
\* An event of another id only takes room in the queue; one that is not of the
\* length of the payload is ignored.
AllEvents == [id : {"STATE_CHANGED", "unrelated"}, sized : BOOLEAN,
              old : GateStates, new : GateStates]

ASSUME OrchAssumption ==
    /\ Commands \subseteq CmdIds
    /\ Events \subseteq AllEvents
    /\ {QueueDepth, MaxSubs} \subseteq Nat \ {0}
    /\ OpIdMod \in Nat /\ OpIdMod > 2
    /\ {MaxCalls, MaxEvents, MaxInits} \subseteq Nat

VARIABLES
    gState,     \* g_state
    nextOpId,   \* g_next_op_id
    subs,       \* live subscriptions of on_state_change
    queue,      \* the bus's queue
    delivery,   \* the event being dispatched, and the callbacks it has left
    pc,         \* where each client is in orch_process_req
    cmd,        \* each client's command
    opId,       \* the op_id each client's handler runs with
    told,       \* history: the states announced by well-formed events, in order
    since,      \* history: how many of them came before the subscription
    applied,    \* history: the last of them the gate has applied
    fetches,    \* history: op_ids fetched so far
    began,      \* history: fetches before each client's own
    calls, published, inits  \* calls made so far

gateVars   == <<gState, nextOpId>>
busVars    == <<subs, queue, delivery>>
clientVars == <<pc, cmd, opId>>
history    == <<told, since, applied, fetches, began>>
bounds     == <<calls, published, inits>>
vars == <<gateVars, busVars, clientVars, history, bounds>>

NoCommand  == "none"
NoDelivery == [evt |-> [id |-> "none", sized |-> FALSE, old |-> "BOOT",
                        new |-> "BOOT"], num |-> 0, left |-> 0]
-----------------------------------------------------------------------------
(* The gate.                                                               *)

CmdIsValidInLocked(id) == id = "AUTH_LOGIN"

\* Whether orch_process_req goes on to the handler in state st.
Admits(id, st) == st = "NORMAL" \/ (st = "LOCKED" /\ CmdIsValidInLocked(id))

\* The state is read once, at the start; a refused request ends there.
Request(c) ==
    /\ pc[c] = "idle"
    /\ calls < MaxCalls
    /\ calls' = calls + 1
    /\ \E id \in Commands :
         IF Admits(id, gState)
         THEN /\ pc' = [pc EXCEPT ![c] = "fetch"]
              /\ cmd' = [cmd EXCEPT ![c] = id]
         ELSE UNCHANGED <<pc, cmd>>
    /\ UNCHANGED <<gateVars, busVars, opId, history, published, inits>>

\* atomic_fetch_add.
FetchAdd(c) ==
    /\ nextOpId' = (nextOpId + 1) % OpIdMod
    /\ opId' = [opId EXCEPT ![c] = nextOpId]
    /\ fetches' = fetches + 1

\* Mutant: the counter is taken as it comes when it wraps.
AfterFetchUnchecked(id) == "handler"

\* 0 is fetched again.
AfterFetch(id) == IF id = 0 THEN "again" ELSE "handler"

\* orch_next_op_id.
NextOpId(c) ==
    /\ pc[c] = "fetch"
    /\ FetchAdd(c)
    /\ began' = [began EXCEPT ![c] = fetches]
    /\ pc' = [pc EXCEPT ![c] = AfterFetch(nextOpId)]
    /\ UNCHANGED <<gState, busVars, cmd, told, since, applied, bounds>>

\* Its second fetch, whatever it returns.
NextOpIdAgain(c) ==
    /\ pc[c] = "again"
    /\ FetchAdd(c)
    /\ pc' = [pc EXCEPT ![c] = "handler"]
    /\ UNCHANGED <<gState, busVars, cmd, told, since, applied, began, bounds>>

\* The handler runs and returns; the production handlers do nothing else.
Handle(c) ==
    /\ pc[c] = "handler"
    /\ pc' = [pc EXCEPT ![c] = "idle"]
    /\ cmd' = [cmd EXCEPT ![c] = NoCommand]
    /\ opId' = [opId EXCEPT ![c] = 0]
    /\ began' = [began EXCEPT ![c] = 0]
    /\ UNCHANGED <<gateVars, busVars, told, since, applied, fetches, bounds>>
-----------------------------------------------------------------------------
(* The event bus and the orchestrator's callback.                          *)

\* orch_init: a subscription more; the handle, valid or not, is not looked at.
OrchInit ==
    /\ inits < MaxInits
    /\ inits' = inits + 1
    /\ subs' = IF subs < MaxSubs THEN subs + 1 ELSE subs
    /\ since' = IF subs = 0 THEN Len(told) ELSE since
    /\ UNCHANGED <<gateVars, queue, delivery, clientVars, told, applied, fetches,
                   began, calls, published>>

\* A well-formed event of a state change.
Announces(evt) == evt.id = "STATE_CHANGED" /\ evt.sized

\* Mutant: a payload is copied only if it is longer than it should be.
AcceptsLonger(evt) == evt.id = "STATE_CHANGED" /\ ~evt.sized

\* What on_state_change looks at before it copies the payload.
Accepts(evt) == evt.id = "STATE_CHANGED" /\ evt.sized

\* Mutant: the queue takes one event too many.
HasRoomOffByOne == Len(queue) <= QueueDepth

HasRoom == Len(queue) < QueueDepth

\* evt_bus_publish: a full queue refuses the event.
Publish ==
    /\ published < MaxEvents
    /\ published' = published + 1
    /\ \E evt \in Events :
         IF HasRoom
         THEN /\ told' = IF Announces(evt) THEN Append(told, evt.new) ELSE told
              /\ queue' = Append(queue, [evt |-> evt, num |-> Len(told')])
         ELSE UNCHANGED <<told, queue>>
    /\ UNCHANGED <<gateVars, subs, delivery, clientVars, since, applied, fetches,
                   began, calls, inits>>

\* The dispatcher takes an event once it is done with the one before.
Dispatch ==
    /\ delivery.left = 0
    /\ queue # << >>
    /\ queue' = Tail(queue)
    /\ LET head == Head(queue)
       IN  delivery' = IF head.evt.id = "STATE_CHANGED" /\ subs > 0
                       THEN [evt |-> head.evt, num |-> head.num, left |-> subs]
                       ELSE NoDelivery
    /\ UNCHANGED <<gateVars, subs, clientVars, history, bounds>>

\* Mutant: an event whose old state is not the present one is ignored.
StateUpdateIfOld(evt) == gState' = IF evt.old = gState THEN evt.new ELSE gState

\* orch_state_update.
StateUpdate(evt) == gState' = evt.new

\* One call of on_state_change.
OnStateChange ==
    /\ delivery.left > 0
    /\ IF Accepts(delivery.evt)
       THEN StateUpdate(delivery.evt) /\ applied' = delivery.num
       ELSE UNCHANGED <<gState, applied>>
    /\ delivery' = IF delivery.left > 1 THEN [delivery EXCEPT !.left = @ - 1]
                                        ELSE NoDelivery
    /\ UNCHANGED <<nextOpId, subs, queue, clientVars, told, since, fetches, began,
                   bounds>>
-----------------------------------------------------------------------------
Init ==
    /\ gState = "BOOT" /\ nextOpId = 1
    /\ subs = 0 /\ queue = << >> /\ delivery = NoDelivery
    /\ pc = [c \in Clients |-> "idle"]
    /\ cmd = [c \in Clients |-> NoCommand]
    /\ opId = [c \in Clients |-> 0]
    /\ told = << >> /\ since = 0 /\ applied = 0
    /\ fetches = 0 /\ began = [c \in Clients |-> 0]
    /\ calls = 0 /\ published = 0 /\ inits = 0

Bus == Dispatch \/ OnStateChange

Next ==
    \/ \E c \in Clients : Request(c) \/ NextOpId(c) \/ NextOpIdAgain(c) \/ Handle(c)
    \/ OrchInit \/ Publish \/ Bus

Spec == Init /\ [][Next]_vars

(* The dispatcher task is scheduled. *)
FairSpec == Spec /\ WF_vars(Bus)
-----------------------------------------------------------------------------
Deliveries == [evt : Events \cup {NoDelivery.evt}, num : Nat, left : 0..MaxSubs]

TypeOK ==
    /\ gState \in GateStates /\ nextOpId \in 0..OpIdMod - 1
    /\ subs \in 0..MaxSubs
    /\ queue \in Seq([evt : Events, num : Nat]) /\ Len(queue) <= QueueDepth
    /\ delivery \in Deliveries
    /\ pc \in [Clients -> {"idle", "fetch", "again", "handler"}]
    /\ cmd \in [Clients -> Commands \cup {NoCommand}]
    /\ opId \in [Clients -> 0..OpIdMod - 1]
    /\ told \in Seq(GateStates)
    /\ since \in 0..Len(told) /\ applied \in 0..Len(told)
    /\ fetches \in Nat /\ began \in [Clients -> Nat]
    /\ calls \in 0..MaxCalls /\ published \in 0..MaxEvents /\ inits \in 0..MaxInits

\* A client that has been overtaken by a whole round of the counter.
Overtaken(c) == fetches - began[c] >= OpIdMod

\* Handlers that run at the same time have op_ids of their own, none of them 0,
\* across the wrap of the counter and its second fetch.
OpIdsDistinct ==
    \A c, d \in Clients :
        (pc[c] = "handler" /\ ~Overtaken(c)) =>
            /\ opId[c] # 0
            /\ (c # d /\ pc[d] = "handler" /\ ~Overtaken(d)) => opId[c] # opId[d]

\* The gate is in the state announced by the last event it applied, and it applies
\* the events announced since the subscription one by one, in their order: however
\* many times it is subscribed, it never falls back to an older state.
FollowsBus ==
    [][/\ applied' # applied =>
            /\ applied' > applied
            /\ \A n \in applied + 1 .. applied' - 1 : n <= since
       /\ applied' # 0 => gState' = told'[applied']]_vars

\* The nth state announced has not reached the gate, which was subscribed to it.
Pending(n) == subs > 0 /\ n \in 1..Len(told) /\ n > since /\ n > applied

\* The event e carries the nth state announced.
Carries(e, n) == e.num = n /\ Announces(e.evt) /\ e.evt.new = told[n]

\* No announced state is lost between the bus and the gate: until it is applied, it is
\* in the queue or in delivery.
NothingLost ==
    \A n \in 1..Len(told) : Pending(n) =>
        \/ \E i \in 1..Len(queue) : Carries(queue[i], n)
        \/ delivery.left > 0 /\ Carries(delivery, n)

\* How stale g_state may be when orch_process_req reads it: the gate is behind by the
\* states a full queue holds and the one in delivery, at most.
LagBounded == \A n \in 1..Len(told) : Pending(n) => Len(told) - n <= QueueDepth

\* Every state the bus accepted after the subscription reaches the gate.
CatchesUp ==
    \A n \in 1..MaxEvents :
        (subs > 0 /\ since < n /\ n <= Len(told)) ~> (applied >= n)
-----------------------------------------------------------------------------
(* The inductive invariant behind the safety properties.                   *)

Adds(evt) == IF Accepts(evt) THEN 1 ELSE 0

\* How many of the states announced the dispatcher has taken from the queue.
Taken == IF queue = << >> THEN Len(told)
                          ELSE queue[1].num - Adds(queue[1].evt)

\* The events in the queue carry the states announced last, in their order.
Numbered ==
    /\ \A i \in 1..Len(queue) :
         /\ Adds(queue[i].evt) <= queue[i].num /\ queue[i].num <= Len(told)
         /\ Accepts(queue[i].evt) => told[queue[i].num] = queue[i].evt.new
         /\ i > 1 => queue[i].num = queue[i - 1].num + Adds(queue[i].evt)
    /\ queue # << >> => queue[Len(queue)].num = Len(told)

\* The states not yet taken are in the queue, none behind more entries than the
\* queue has.
Queued ==
    /\ \A n \in Taken + 1 .. Len(told) :
         \E i \in 1..Len(queue) : queue[i].num = n /\ Accepts(queue[i].evt)
    /\ \A i \in 1..Len(queue) : Len(told) - queue[i].num <= Len(queue) - i

\* What the gate has applied of the events taken.
Followed ==
    /\ subs = 0 => applied = 0 /\ delivery.left = 0
    /\ applied # 0 => gState = told[applied]
    /\ applied <= Taken
    /\ (delivery.left = 0 /\ subs > 0) => \A n \in applied + 1 .. Taken : n <= since
    /\ delivery.left > 0 =>
         /\ delivery.num = Taken
         /\ Adds(delivery.evt) <= Taken
         /\ Accepts(delivery.evt) => told[Taken] = delivery.evt.new
         /\ applied # Taken =>
              \A n \in applied + 1 .. Taken - Adds(delivery.evt) : n <= since

\* How far the counter is ahead of each op_id fetched.
Fetched ==
    \A c \in Clients :
        /\ pc[c] \in {"again", "handler"} => began[c] < fetches
        /\ (pc[c] = "again" /\ ~Overtaken(c)) => nextOpId = fetches - began[c]
        /\ (pc[c] = "handler" /\ ~Overtaken(c)) =>
             \E ahead \in 1..fetches - began[c] :
                nextOpId \in {opId[c] + ahead, opId[c] + ahead - OpIdMod}

IInv == TypeOK /\ Numbered /\ Queued /\ Followed /\ Fetched /\ OpIdsDistinct
-----------------------------------------------------------------------------
\* CONTROL_PLANE_ASYNC_WORKFLOW_MVP.md:62 "Gate all commands based on:" 63 "Current
\* state": a handler that is not the login's starts only in NORMAL.
GatedByCurrentState ==
    [][\A c \in Clients :
         (pc[c] # "handler" /\ pc'[c] = "handler" /\ cmd[c] # "AUTH_LOGIN")
             => gState = "NORMAL"]_vars
=============================================================================
