----------------------------- MODULE OrchProofs -----------------------------
(***************************************************************************)
(* Proofs about Orch: type correctness, that op_ids of handlers that run   *)
(* at the same time differ across every wrap of the counter, that the gate *)
(* follows the announced states in their order, that none of them is lost  *)
(* on its way and that the gate lags by a bounded number of them, for      *)
(* every number of clients, events and subscriptions and every depth of    *)
(* the queue.                                                              *)
(***************************************************************************)
EXTENDS Orch, SequenceTheorems, TLAPS
-----------------------------------------------------------------------------
(* Type correctness.                                                       *)

\* The counter wraps at OpIdMod.
LEMMA Increment ==
    ASSUME NEW n \in 0..OpIdMod - 1
    PROVE  /\ (n + 1) % OpIdMod \in 0..OpIdMod - 1
           /\ n < OpIdMod - 1 => (n + 1) % OpIdMod = n + 1
           /\ n = OpIdMod - 1 => (n + 1) % OpIdMod = 0
BY OrchAssumption

\* The bounds are natural numbers.
LEMMA BoundFacts ==
    /\ QueueDepth \in Nat /\ MaxSubs \in Nat /\ MaxSubs > 0
    /\ MaxCalls \in Nat /\ MaxEvents \in Nat /\ MaxInits \in Nat
    /\ OpIdMod \in Nat /\ OpIdMod > 2
BY OrchAssumption

\* Appending to a sequence, by index.
LEMMA AppendFacts ==
    ASSUME NEW S, NEW q \in Seq(S), NEW x \in S
    PROVE  /\ Append(q, x) \in Seq(S)
           /\ Len(q) \in Nat /\ Len(Append(q, x)) = Len(q) + 1
           /\ \A i \in 1..Len(q) : Append(q, x)[i] = q[i]
           /\ Append(q, x)[Len(q) + 1] = x
           /\ Append(q, x) # << >>
OBVIOUS

\* Taking the head of a sequence, by index.
LEMMA TailFacts ==
    ASSUME NEW S, NEW q \in Seq(S), q # << >>
    PROVE  /\ Head(q) \in S /\ Head(q) = q[1]
           /\ Len(q) \in Nat /\ Len(q) > 0
           /\ Tail(q) \in Seq(S) /\ Len(Tail(q)) = Len(q) - 1
           /\ \A i \in 1..Len(q) - 1 : Tail(q)[i] = q[i + 1]
           /\ Len(q) = 1 <=> Tail(q) = << >>
<1>1. /\ Head(q) \in S /\ Head(q) = q[1]
      /\ Len(q) \in Nat /\ Len(q) > 0
      /\ Tail(q) \in Seq(S) /\ Len(Tail(q)) = Len(q) - 1
      /\ \A i \in 1..Len(q) - 1 : Tail(q)[i] = q[i + 1]
  OBVIOUS
<1>2. ASSUME Len(Tail(q)) = 0  PROVE Tail(q) = << >>
  <2>1. (Tail(q) # << >>) => (Len(Tail(q)) \in Nat \ {0})
    BY <1>1, EmptySeq
  <2> QED  BY <1>2, <2>1
<1>3. ASSUME Tail(q) = << >>  PROVE Len(Tail(q)) = 0
  BY <1>3, EmptySeq
<1>4. Len(q) = 1 <=> Len(Tail(q)) = 0
  BY <1>1
<1> QED  BY <1>1, <1>2, <1>3, <1>4

\* The fields of an event, of what the queue holds, and of the event in delivery.
LEMMA EventFacts ==
    /\ \A evt \in Events : evt.new \in GateStates
    /\ NoDelivery \in Deliveries /\ NoDelivery.left = 0
    /\ ~Accepts(NoDelivery.evt)
    /\ \A d \in Deliveries :
         /\ d.evt \in Events \cup {NoDelivery.evt}
         /\ d.num \in Nat /\ d.left \in 0..MaxSubs
<1>1. \A evt \in Events : evt.new \in GateStates
  BY OrchAssumption DEF AllEvents
<1>3. NoDelivery \in Deliveries /\ NoDelivery.left = 0
  BY OrchAssumption DEF NoDelivery, Deliveries
<1>4. ~Accepts(NoDelivery.evt)
  BY DEF NoDelivery, Accepts
<1>5. \A d \in Deliveries :
         /\ d.evt \in Events \cup {NoDelivery.evt}
         /\ d.num \in Nat /\ d.left \in 0..MaxSubs
  BY DEF Deliveries
<1> QED  BY <1>1, <1>3, <1>4, <1>5

\* An event announces a state or it does not.
LEMMA AddsFacts ==
    ASSUME NEW evt
    PROVE  /\ Accepts(evt) => Adds(evt) = 1
           /\ ~Accepts(evt) => Adds(evt) = 0
           /\ Adds(evt) \in 0..1
BY DEF Adds

Entries == [evt : Events, num : Nat]

\* The fields of what the queue holds.
LEMMA EntryFacts ==
    /\ \A e \in Entries : e.evt \in Events /\ e.num \in Nat
    /\ \A evt \in Events, num \in Nat :
         /\ [evt |-> evt, num |-> num] \in Entries
         /\ [evt |-> evt, num |-> num].evt = evt
         /\ [evt |-> evt, num |-> num].num = num
BY DEF Entries

\* A queue that is not empty has a first entry, and Taken is what it says.
LEMMA TakenFacts ==
    ASSUME TypeOK, Numbered
    PROVE  /\ Taken \in 0..Len(told)
           /\ queue # << >> => /\ Len(queue) > 0 /\ queue[1] \in Entries
                               /\ Head(queue) = queue[1]
                               /\ Taken = queue[1].num - Adds(queue[1].evt)
           /\ queue = << >> => Taken = Len(told)
<1>1. queue \in Seq(Entries) /\ Len(told) \in Nat
  BY DEF TypeOK, Entries
<1>2. CASE queue = << >>
  BY <1>1, <1>2 DEF Taken
<1>3. CASE queue # << >>
  <2>1. Len(queue) > 0 /\ Head(queue) = queue[1] /\ queue[1] \in Entries
    BY <1>1, <1>3, TailFacts
  <2>2. 1 \in 1..Len(queue)
    BY <1>1, <2>1
  <2>3. /\ Adds(queue[1].evt) <= queue[1].num /\ queue[1].num <= Len(told)
        /\ queue[1].num \in Nat /\ Adds(queue[1].evt) \in 0..1
    <3>1. Adds(queue[1].evt) <= queue[1].num /\ queue[1].num <= Len(told)
      BY <2>2 DEF Numbered
    <3>2. queue[1].num \in Nat
      BY <2>1, EntryFacts
    <3>3. Adds(queue[1].evt) \in 0..1
      BY DEF Adds
    <3> QED  BY <3>1, <3>2, <3>3
  <2>4. Taken = queue[1].num - Adds(queue[1].evt)
    BY <1>3 DEF Taken
  <2> QED  BY <1>1, <1>3, <2>1, <2>3, <2>4
<1> QED  BY <1>2, <1>3

\* The gate has applied no more than was announced.
LEMMA CountFacts ==
    ASSUME TypeOK
    PROVE  /\ Len(told) \in Nat /\ applied \in Nat /\ since \in Nat
           /\ applied <= Len(told) /\ since <= Len(told)
BY DEF TypeOK

\* Every step preserves the types.
LEMMA TypeStep ==
    ASSUME TypeOK, Numbered, Followed, [Next]_vars
    PROVE  TypeOK'
<1> USE DEF TypeOK
<1>1. ASSUME NEW c \in Clients, Request(c)  PROVE TypeOK'
  <2>1. calls' \in 0..MaxCalls
    BY <1>1, BoundFacts DEF Request
  <2>2. /\ pc' \in [Clients -> {"idle", "fetch", "again", "handler"}]
        /\ cmd' \in [Clients -> Commands \cup {NoCommand}]
    BY <1>1 DEF Request
  <2> QED  BY <1>1, <2>1, <2>2 DEF Request, gateVars, busVars, history
<1>2. ASSUME NEW c \in Clients, NextOpId(c) \/ NextOpIdAgain(c)  PROVE TypeOK'
  <2>1. nextOpId' \in 0..OpIdMod - 1 /\ opId' \in [Clients -> 0..OpIdMod - 1]
        /\ fetches' \in Nat
    <3>1. nextOpId' = (nextOpId + 1) % OpIdMod /\ opId' = [opId EXCEPT ![c] = nextOpId]
          /\ fetches' = fetches + 1
      BY <1>2 DEF NextOpId, NextOpIdAgain, FetchAdd
    <3>2. nextOpId' \in 0..OpIdMod - 1
      BY <3>1, Increment
    <3> QED  BY <3>1, <3>2
  <2>2. pc' \in [Clients -> {"idle", "fetch", "again", "handler"}]
    BY <1>2 DEF NextOpId, NextOpIdAgain, AfterFetch
  <2>3. began' \in [Clients -> Nat]
    BY <1>2 DEF NextOpId, NextOpIdAgain
  <2> QED
    BY <1>2, <2>1, <2>2, <2>3 DEF NextOpId, NextOpIdAgain, busVars, bounds
<1>3. ASSUME NEW c \in Clients, Handle(c)  PROVE TypeOK'
  BY <1>3, OrchAssumption DEF Handle, gateVars, busVars, bounds
<1>4. CASE OrchInit
  <2>1. subs' \in 0..MaxSubs
    BY <1>4, OrchAssumption DEF OrchInit
  <2>2. since' \in 0..Len(told') /\ applied' \in 0..Len(told')
    BY <1>4, CountFacts DEF OrchInit
  <2>3. inits' \in 0..MaxInits
    BY <1>4, BoundFacts DEF OrchInit
  <2> QED  BY <1>4, <2>1, <2>2, <2>3 DEF OrchInit, gateVars, clientVars
<1>5. CASE Publish
  <2>1. PICK evt \in Events :
          \/ /\ told' = IF evt.id = "STATE_CHANGED" /\ evt.sized
                       THEN Append(told, evt.new) ELSE told
             /\ queue' = Append(queue, [evt |-> evt, num |-> Len(told')])
             /\ HasRoom
          \/ UNCHANGED <<told, queue>>
    BY <1>5 DEF Publish, Announces
  <2>2. /\ told' \in Seq(GateStates)
        /\ Len(told') \in Nat /\ Len(told) <= Len(told')
    <3>1. evt.new \in GateStates
      BY EventFacts
    <3>2. told \in Seq(GateStates)
      OBVIOUS
    <3>3. CASE told' = Append(told, evt.new)
      BY <3>1, <3>2, <3>3, AppendFacts
    <3>4. CASE told' = told
      BY <3>2, <3>4, CountFacts
    <3> QED  BY <2>1, <3>3, <3>4
  <2>3. queue' \in Seq(Entries) /\ Len(queue') <= QueueDepth
    <3>1. CASE UNCHANGED <<told, queue>>
      BY <3>1 DEF Entries
    <3>2. CASE /\ queue' = Append(queue, [evt |-> evt, num |-> Len(told')])
               /\ HasRoom
      <4>1. [evt |-> evt, num |-> Len(told')] \in Entries
        BY <2>2, EntryFacts
      <4> QED
        BY <3>2, <4>1, AppendFacts, BoundFacts DEF HasRoom, Entries
    <3> QED  BY <2>1, <3>1, <3>2
  <2>4. published' \in 0..MaxEvents
    BY <1>5, OrchAssumption DEF Publish
  <2>5. since' \in 0..Len(told') /\ applied' \in 0..Len(told')
    BY <1>5, <2>2, CountFacts DEF Publish
  <2> QED
    BY <1>5, <2>2, <2>3, <2>4, <2>5 DEF Publish, gateVars, clientVars, Entries
<1>6. CASE Dispatch
  <2>1. queue' \in Seq(Entries) /\ Len(queue') <= QueueDepth
    BY <1>6, TailFacts, BoundFacts DEF Dispatch, Entries
  <2>2. Head(queue).evt \in Events /\ Head(queue).num \in Nat
    BY <1>6, TailFacts, EntryFacts DEF Dispatch, Entries
  <2>3. delivery' \in Deliveries
    BY <1>6, <2>2, EventFacts DEF Dispatch, Deliveries
  <2> QED
    BY <1>6, <2>1, <2>3 DEF Dispatch, gateVars, clientVars, history, bounds, Entries
<1>7. CASE OnStateChange
  <2>1. delivery' \in Deliveries
    <3>1. CASE delivery.left > 1
      <4>1. delivery' = [delivery EXCEPT !.left = delivery.left - 1]
        BY <1>7, <3>1 DEF OnStateChange
      <4>2. delivery.left - 1 \in 0..MaxSubs
        BY <3>1, EventFacts, BoundFacts
      <4> QED  BY <4>1, <4>2 DEF Deliveries
    <3>2. CASE ~(delivery.left > 1)
      BY <1>7, <3>2, EventFacts DEF OnStateChange
    <3> QED  BY <3>1, <3>2
  <2>2. gState' \in GateStates /\ applied' \in 0..Len(told)
    <3>1. CASE Accepts(delivery.evt)
      <4>1. delivery.evt \in Events /\ delivery.num = Taken
        BY <1>7, <3>1, EventFacts DEF OnStateChange, Followed
      <4>2. Taken \in 0..Len(told)
        BY TakenFacts
      <4> QED  BY <1>7, <3>1, <4>1, <4>2, EventFacts DEF OnStateChange, StateUpdate
    <3>2. CASE ~Accepts(delivery.evt)
      BY <1>7, <3>2 DEF OnStateChange
    <3> QED  BY <3>1, <3>2
  <2> QED  BY <1>7, <2>1, <2>2 DEF OnStateChange, clientVars, bounds
<1>8. CASE UNCHANGED vars
  BY <1>8 DEF vars, gateVars, busVars, clientVars, history, bounds
<1> QED
  BY <1>1, <1>2, <1>3, <1>4, <1>5, <1>6, <1>7, <1>8 DEF Next, Bus
-----------------------------------------------------------------------------
(* The op_ids.  A client that has not been overtaken was given an op_id at *)
(* most OpIdMod - 1 fetches ago, so the counter has not come back to it.   *)

\* What Fetched says of one client.
FetchedOf(c) ==
    /\ pc[c] \in {"again", "handler"} => began[c] < fetches
    /\ (pc[c] = "again" /\ ~Overtaken(c)) => nextOpId = fetches - began[c]
    /\ (pc[c] = "handler" /\ ~Overtaken(c)) =>
         \E ahead \in 1..fetches - began[c] :
            nextOpId \in {opId[c] + ahead, opId[c] + ahead - OpIdMod}

\* The counters of the op_ids, as numbers.
LEMMA OpIdFacts ==
    ASSUME TypeOK, NEW c \in Clients
    PROVE  /\ nextOpId \in 0..OpIdMod - 1 /\ opId[c] \in 0..OpIdMod - 1
           /\ fetches \in Nat /\ began[c] \in Nat
BY DEF TypeOK

\* A step that leaves the counter and a client's own op_id alone.
LEMMA FetchedSame ==
    ASSUME NEW c \in Clients, FetchedOf(c),
           UNCHANGED <<nextOpId, fetches>>, began'[c] = began[c], opId'[c] = opId[c],
           pc'[c] = pc[c]
    PROVE  FetchedOf(c)'
BY DEF FetchedOf, Overtaken

\* Nothing is said of a client between two requests.
LEMMA FetchedNot ==
    ASSUME NEW c \in Clients, pc'[c] \notin {"again", "handler"}
    PROVE  FetchedOf(c)'
BY DEF FetchedOf

\* Another client fetches: the counter is one further ahead, or the client is
\* overtaken.
LEMMA FetchedOther ==
    ASSUME TypeOK, NEW c \in Clients, FetchedOf(c),
           nextOpId' = (nextOpId + 1) % OpIdMod, fetches' = fetches + 1,
           began'[c] = began[c], opId'[c] = opId[c], pc'[c] = pc[c]
    PROVE  FetchedOf(c)'
<1>1. /\ nextOpId \in 0..OpIdMod - 1 /\ opId[c] \in 0..OpIdMod - 1
      /\ fetches \in Nat /\ began[c] \in Nat /\ OpIdMod \in Nat /\ OpIdMod > 2
  BY OpIdFacts, BoundFacts
<1>2. \/ nextOpId < OpIdMod - 1 /\ nextOpId' = nextOpId + 1
      \/ nextOpId = OpIdMod - 1 /\ nextOpId' = 0
  BY <1>1, Increment
<1>3. pc'[c] \in {"again", "handler"} => began'[c] < fetches'
  BY <1>1 DEF FetchedOf
<1>4. ASSUME pc'[c] = "again", ~Overtaken(c)'  PROVE nextOpId' = fetches' - began'[c]
  <2>1. ~Overtaken(c) /\ fetches + 1 - began[c] < OpIdMod
    BY <1>1, <1>4 DEF Overtaken
  <2>2. nextOpId = fetches - began[c]
    BY <1>4, <2>1 DEF FetchedOf
  <2> QED  BY <1>1, <1>2, <2>1, <2>2
<1>5. ASSUME pc'[c] = "handler", ~Overtaken(c)'
      PROVE  \E ahead \in 1..fetches' - began'[c] :
                nextOpId' \in {opId'[c] + ahead, opId'[c] + ahead - OpIdMod}
  <2>1. ~Overtaken(c) /\ fetches + 1 - began[c] < OpIdMod
    BY <1>1, <1>5 DEF Overtaken
  <2>2. PICK ahead \in 1..fetches - began[c] :
           nextOpId = opId[c] + ahead \/ nextOpId = opId[c] + ahead - OpIdMod
    BY <1>5, <2>1 DEF FetchedOf
  <2>3. ahead + 1 \in 1..fetches' - began'[c]
    BY <1>1, <2>2
  <2>4. \/ nextOpId' = opId'[c] + (ahead + 1)
        \/ nextOpId' = opId'[c] + (ahead + 1) - OpIdMod
    BY <1>1, <1>2, <2>1, <2>2
  <2> QED  BY <2>3, <2>4
<1> QED  BY <1>3, <1>4, <1>5 DEF FetchedOf

\* The op_id a client has just fetched is one behind the counter.
LEMMA FetchedOwn ==
    ASSUME TypeOK, NEW c \in Clients, FetchedOf(c), NextOpId(c) \/ NextOpIdAgain(c)
    PROVE  FetchedOf(c)'
<1>1. /\ nextOpId \in 0..OpIdMod - 1 /\ opId[c] \in 0..OpIdMod - 1
      /\ fetches \in Nat /\ began[c] \in Nat /\ OpIdMod \in Nat /\ OpIdMod > 2
  BY OpIdFacts, BoundFacts
<1>2. /\ nextOpId' = (nextOpId + 1) % OpIdMod /\ fetches' = fetches + 1
      /\ opId'[c] = nextOpId
  BY DEF NextOpId, NextOpIdAgain, FetchAdd, TypeOK
<1>3. \/ nextOpId < OpIdMod - 1 /\ nextOpId' = nextOpId + 1
      \/ nextOpId = OpIdMod - 1 /\ nextOpId' = 0
  BY <1>1, <1>2, Increment
<1>4. nextOpId' = opId'[c] + 1 \/ nextOpId' = opId'[c] + 1 - OpIdMod
  BY <1>1, <1>2, <1>3
<1>5. CASE NextOpId(c)
  <2>1. began'[c] = fetches /\ pc'[c] = AfterFetch(nextOpId)
    BY <1>5 DEF NextOpId, TypeOK
  <2>2. fetches' - began'[c] = 1 /\ began'[c] < fetches' /\ 1 \in 1..fetches' - began'[c]
    BY <1>1, <1>2, <2>1
  <2>3. pc'[c] = "again" => nextOpId' = 1
    BY <1>1, <1>3, <2>1 DEF AfterFetch
  <2> QED  BY <1>4, <2>2, <2>3 DEF FetchedOf
<1>6. CASE NextOpIdAgain(c)
  <2>1. pc'[c] = "handler" /\ pc[c] = "again" /\ began'[c] = began[c]
    BY <1>6 DEF NextOpIdAgain, TypeOK
  <2>2. began[c] < fetches
    BY <2>1 DEF FetchedOf
  <2>3. began'[c] < fetches' /\ 1 \in 1..fetches' - began'[c]
    BY <1>1, <1>2, <2>1, <2>2
  <2> QED  BY <1>4, <2>1, <2>3 DEF FetchedOf
<1> QED  BY <1>5, <1>6

\* Every step preserves Fetched.
LEMMA FetchedStep ==
    ASSUME TypeOK, Fetched, [Next]_vars
    PROVE  Fetched'
<1>1. \A c \in Clients : FetchedOf(c)
  BY DEF Fetched, FetchedOf
<1>2. SUFFICES ASSUME NEW c \in Clients  PROVE FetchedOf(c)'
  BY DEF Fetched, FetchedOf, Overtaken
<1>3. ASSUME NEW d \in Clients, Request(d)  PROVE FetchedOf(c)'
  <2>1. UNCHANGED <<nextOpId, fetches, began, opId>>
    BY <1>3 DEF Request, gateVars, history
  <2>2. pc'[c] = pc[c] \/ pc'[c] = "fetch"
    BY <1>3 DEF Request, TypeOK
  <2> QED  BY <1>1, <2>1, <2>2, FetchedSame, FetchedNot
<1>4. ASSUME NEW d \in Clients, NextOpId(d) \/ NextOpIdAgain(d)  PROVE FetchedOf(c)'
  <2>1. CASE d = c
    BY <1>1, <1>4, <2>1, FetchedOwn
  <2>2. CASE d # c
    <3>1. /\ nextOpId' = (nextOpId + 1) % OpIdMod /\ fetches' = fetches + 1
          /\ opId'[c] = opId[c] /\ began'[c] = began[c] /\ pc'[c] = pc[c]
      BY <1>4, <2>2 DEF NextOpId, NextOpIdAgain, FetchAdd, TypeOK
    <3> QED  BY <1>1, <3>1, FetchedOther
  <2> QED  BY <2>1, <2>2
<1>5. ASSUME NEW d \in Clients, Handle(d)  PROVE FetchedOf(c)'
  <2>1. UNCHANGED <<nextOpId, fetches>>
    BY <1>5 DEF Handle, gateVars
  <2>2. CASE d = c
    <3>1. pc'[c] = "idle"
      BY <1>5, <2>2 DEF Handle, TypeOK
    <3> QED  BY <3>1, FetchedNot
  <2>3. CASE d # c
    <3>1. opId'[c] = opId[c] /\ began'[c] = began[c] /\ pc'[c] = pc[c]
      BY <1>5, <2>3 DEF Handle, TypeOK
    <3> QED  BY <1>1, <2>1, <3>1, FetchedSame
  <2> QED  BY <2>2, <2>3
<1>6. CASE OrchInit \/ Publish \/ Bus \/ UNCHANGED vars
  <2>1. UNCHANGED <<nextOpId, fetches, began, opId, pc>>
    BY <1>6 DEF OrchInit, Publish, Bus, Dispatch, OnStateChange, vars, gateVars,
                clientVars, history
  <2> QED  BY <1>1, <2>1, FetchedSame
<1> QED  BY <1>3, <1>4, <1>5, <1>6 DEF Next

\* An op_id that is just fetched is that of no other handler, and the second fetch
\* does not return 0.
LEMMA OpIdsStep ==
    ASSUME TypeOK, Fetched, OpIdsDistinct, [Next]_vars
    PROVE  OpIdsDistinct'
<1>1. \A c \in Clients : FetchedOf(c)
  BY DEF Fetched, FetchedOf
<1>2. ASSUME NEW c \in Clients, NextOpId(c) \/ NextOpIdAgain(c)  PROVE OpIdsDistinct'
  <2>1. /\ opId'[c] = nextOpId /\ fetches' = fetches + 1 /\ fetches \in Nat
        /\ OpIdMod \in Nat
    BY <1>2, BoundFacts DEF NextOpId, NextOpIdAgain, FetchAdd, TypeOK
  <2>2. \A d \in Clients : d # c =>
           opId'[d] = opId[d] /\ began'[d] = began[d] /\ pc'[d] = pc[d]
    BY <1>2 DEF NextOpId, NextOpIdAgain, FetchAdd, TypeOK
  <2>3. ASSUME NEW d \in Clients, d # c, ~Overtaken(d)'  PROVE ~Overtaken(d)
    BY <2>1, <2>2, <2>3, OpIdFacts DEF Overtaken
  <2>4. ASSUME NEW d \in Clients, d # c, pc[d] = "handler", ~Overtaken(d)
        PROVE  opId[d] # nextOpId
    <3>1. PICK ahead \in 1..fetches - began[d] :
             nextOpId = opId[d] + ahead \/ nextOpId = opId[d] + ahead - OpIdMod
      BY <1>1, <2>4 DEF FetchedOf
    <3>2. fetches - began[d] < OpIdMod /\ opId[d] \in Nat /\ began[d] \in Nat
      BY <2>1, <2>4, OpIdFacts DEF Overtaken
    <3> QED  BY <2>1, <3>1, <3>2
  <2>5. ASSUME pc'[c] = "handler", ~Overtaken(c)'  PROVE opId'[c] # 0
    <3>1. CASE NextOpId(c)
      BY <2>1, <2>5, <3>1 DEF NextOpId, AfterFetch, TypeOK
    <3>2. CASE NextOpIdAgain(c)
      <4>1. pc[c] = "again" /\ began'[c] = began[c]
        BY <3>2 DEF NextOpIdAgain
      <4>2. ~Overtaken(c) /\ began[c] \in Nat
        BY <2>1, <2>5, <4>1, OpIdFacts DEF Overtaken
      <4>3. nextOpId = fetches - began[c] /\ began[c] < fetches
        BY <1>1, <4>1, <4>2 DEF FetchedOf
      <4> QED  BY <2>1, <4>2, <4>3
    <3> QED  BY <1>2, <3>1, <3>2
  <2>6. SUFFICES ASSUME NEW d \in Clients, NEW e \in Clients,
                        pc'[d] = "handler", ~Overtaken(d)'
                 PROVE  /\ opId'[d] # 0
                        /\ (d # e /\ pc'[e] = "handler" /\ ~Overtaken(e)')
                             => opId'[d] # opId'[e]
    BY DEF OpIdsDistinct
  <2>7. opId'[d] # 0
    BY <2>2, <2>3, <2>5, <2>6 DEF OpIdsDistinct
  <2>8. ASSUME d # e, pc'[e] = "handler", ~Overtaken(e)'  PROVE opId'[d] # opId'[e]
    <3>1. CASE d = c
      BY <2>1, <2>2, <2>3, <2>4, <2>8, <3>1
    <3>2. CASE e = c
      BY <2>1, <2>2, <2>3, <2>4, <2>6, <2>8, <3>2
    <3>3. CASE d # c /\ e # c
      BY <2>2, <2>3, <2>6, <2>8, <3>3 DEF OpIdsDistinct
    <3> QED  BY <3>1, <3>2, <3>3
  <2> QED  BY <2>7, <2>8
<1>3. ASSUME UNCHANGED fetches,
             \A c \in Clients : pc'[c] = "handler" =>
                pc[c] = "handler" /\ opId'[c] = opId[c] /\ began'[c] = began[c]
      PROVE  OpIdsDistinct'
  BY <1>3 DEF OpIdsDistinct, Overtaken
<1>4. ASSUME NEW c \in Clients, Request(c)  PROVE OpIdsDistinct'
  BY <1>3, <1>4 DEF Request, history, TypeOK
<1>5. ASSUME NEW c \in Clients, Handle(c)  PROVE OpIdsDistinct'
  BY <1>3, <1>5 DEF Handle, TypeOK
<1>6. CASE OrchInit \/ Publish \/ Bus \/ UNCHANGED vars
  BY <1>3, <1>6 DEF OrchInit, Publish, Bus, Dispatch, OnStateChange, vars, clientVars,
                    history
<1> QED  BY <1>2, <1>4, <1>5, <1>6 DEF Next
-----------------------------------------------------------------------------
(* The queue.  An entry is numbered with the states announced up to it, so *)
(* what the dispatcher has taken can be read off the head of the queue.    *)

\* What Numbered says of the i-th entry of the queue.
NumberedAt(i) ==
    /\ Adds(queue[i].evt) <= queue[i].num /\ queue[i].num <= Len(told)
    /\ Accepts(queue[i].evt) => told[queue[i].num] = queue[i].evt.new
    /\ i > 1 => queue[i].num = queue[i - 1].num + Adds(queue[i].evt)

\* What a publication does to the announced states and the queue.
LEMMA PublishFacts ==
    ASSUME TypeOK, Publish
    PROVE  \/ UNCHANGED <<told, queue>>
           \/ \E evt \in Events :
                /\ told' \in Seq(GateStates) /\ Len(told') = Len(told) + Adds(evt)
                /\ \A k \in 1..Len(told) : told'[k] = told[k]
                /\ Accepts(evt) => told'[Len(told) + 1] = evt.new
                /\ Len(queue) \in Nat /\ Len(queue') = Len(queue) + 1
                /\ \A i \in 1..Len(queue) : queue'[i] = queue[i]
                /\ queue'[Len(queue) + 1].evt = evt
                /\ queue'[Len(queue) + 1].num = Len(told')
                /\ queue' # << >>
<1>1. PICK evt \in Events :
        \/ /\ told' = IF Accepts(evt) THEN Append(told, evt.new) ELSE told
           /\ queue' = Append(queue, [evt |-> evt, num |-> Len(told')])
        \/ UNCHANGED <<told, queue>>
  BY DEF Publish, Accepts, Announces
<1>2. evt.new \in GateStates /\ Len(told) \in Nat
  BY EventFacts, CountFacts
<1>3. told \in Seq(GateStates) /\ queue \in Seq(Entries)
  BY DEF TypeOK, Entries
<1>4. ASSUME told' = IF Accepts(evt) THEN Append(told, evt.new) ELSE told
      PROVE  /\ told' \in Seq(GateStates) /\ Len(told') = Len(told) + Adds(evt)
             /\ \A k \in 1..Len(told) : told'[k] = told[k]
             /\ Accepts(evt) => told'[Len(told) + 1] = evt.new
  <2>1. CASE Accepts(evt)
    <3>1. told' = Append(told, evt.new) /\ Adds(evt) = 1
      BY <1>4, <2>1, AddsFacts
    <3> QED  BY <1>2, <1>3, <3>1, AppendFacts
  <2>2. CASE ~Accepts(evt)
    <3>1. told' = told /\ Adds(evt) = 0
      BY <1>4, <2>2, AddsFacts
    <3> QED  BY <1>2, <1>3, <2>2, <3>1
  <2> QED  BY <2>1, <2>2
<1>5. ASSUME Len(told') \in Nat,
             queue' = Append(queue, [evt |-> evt, num |-> Len(told')])
      PROVE  /\ Len(queue) \in Nat /\ Len(queue') = Len(queue) + 1
             /\ \A i \in 1..Len(queue) : queue'[i] = queue[i]
             /\ queue'[Len(queue) + 1].evt = evt
             /\ queue'[Len(queue) + 1].num = Len(told')
             /\ queue' # << >>
  <2>1. [evt |-> evt, num |-> Len(told')] \in Entries
    BY <1>5, EntryFacts
  <2>2. queue'[Len(queue) + 1] = [evt |-> evt, num |-> Len(told')]
    BY <1>3, <1>5, <2>1, AppendFacts
  <2>3. /\ Len(queue) \in Nat /\ Len(queue') = Len(queue) + 1
        /\ \A i \in 1..Len(queue) : queue'[i] = queue[i]
        /\ queue' # << >>
    BY <1>3, <1>5, <2>1, AppendFacts
  <2> QED  BY <2>2, <2>3
<1>6. Adds(evt) \in 0..1
  BY AddsFacts
<1> QED  BY <1>1, <1>2, <1>4, <1>5, <1>6

\* Every step keeps the entries numbered.
LEMMA NumberedStep ==
    ASSUME TypeOK, Numbered, [Next]_vars
    PROVE  Numbered'
<1>1. queue \in Seq(Entries) /\ told \in Seq(GateStates) /\ Len(told) \in Nat
      /\ Len(queue) \in Nat
  BY DEF TypeOK, Entries
<1>2. ASSUME NEW i \in 1..Len(queue)
      PROVE  /\ NumberedAt(i) /\ queue[i] \in Entries
             /\ Adds(queue[i].evt) \in 0..1 /\ queue[i].num \in Nat
  <2>1. NumberedAt(i)
    BY DEF Numbered, NumberedAt
  <2>2. queue[i] \in Entries
    BY <1>1, ElementOfSeq
  <2> QED  BY <2>1, <2>2, AddsFacts, EntryFacts
<1>3. CASE UNCHANGED <<told, queue>>
  BY <1>3 DEF Numbered
<1>4. CASE Publish
  <2>1. SUFFICES
          ASSUME NEW evt \in Events,
                 told' \in Seq(GateStates), Len(told') = Len(told) + Adds(evt),
                 \A k \in 1..Len(told) : told'[k] = told[k],
                 Accepts(evt) => told'[Len(told) + 1] = evt.new,
                 Len(queue') = Len(queue) + 1,
                 \A i \in 1..Len(queue) : queue'[i] = queue[i],
                 queue'[Len(queue) + 1].evt = evt,
                 queue'[Len(queue) + 1].num = Len(told')
          PROVE  Numbered'
    BY <1>3, <1>4, PublishFacts
  <2>2. Adds(evt) \in 0..1 /\ (Accepts(evt) => Adds(evt) = 1)
    BY AddsFacts
  <2>3. ASSUME NEW i \in 1..Len(queue)  PROVE NumberedAt(i)'
    <3>1. /\ Adds(queue[i].evt) <= queue[i].num /\ queue[i].num <= Len(told)
          /\ Accepts(queue[i].evt) => told[queue[i].num] = queue[i].evt.new
          /\ i > 1 => queue[i].num = queue[i - 1].num + Adds(queue[i].evt)
      BY <1>2 DEF NumberedAt
    <3>2. queue'[i] = queue[i] /\ (i > 1 => queue'[i - 1] = queue[i - 1])
      BY <1>1, <2>1
    <3>3. queue[i].num <= Len(told')
      BY <1>1, <1>2, <2>1, <2>2, <3>1
    <3>4. Accepts(queue[i].evt) => told'[queue[i].num] = queue[i].evt.new
      <4>1. Accepts(queue[i].evt) => queue[i].num \in 1..Len(told)
        BY <1>1, <1>2, <3>1, AddsFacts
      <4> QED  BY <2>1, <3>1, <4>1
    <3> QED  BY <3>1, <3>2, <3>3, <3>4 DEF NumberedAt, Adds, Accepts
  <2>4. ASSUME NEW i, i = Len(queue) + 1  PROVE NumberedAt(i)'
    <3>1. Adds(evt) <= Len(told')
      BY <1>1, <2>1, <2>2
    <3>2. Accepts(evt) => told'[Len(told')] = evt.new
      BY <2>1, <2>2
    <3>3. i > 1 => Len(told') = queue'[i - 1].num + Adds(evt)
      <4>1. CASE Len(queue) = 0
        BY <2>4, <4>1
      <4>2. CASE Len(queue) > 0
        <5>1. queue # << >> /\ Len(queue) \in 1..Len(queue) /\ i - 1 = Len(queue)
          BY <1>1, <2>4, <4>2, EmptySeq
        <5>2. queue'[i - 1].num = Len(told)
          BY <2>1, <5>1 DEF Numbered
        <5> QED  BY <2>1, <5>2
      <4> QED  BY <1>1, <4>1, <4>2
    <3> QED  BY <2>1, <2>4, <3>1, <3>2, <3>3 DEF NumberedAt, Adds, Accepts
  <2>5. \A i \in 1..Len(queue') : NumberedAt(i)'
    BY <1>1, <2>1, <2>3, <2>4
  <2>6. queue'[Len(queue')].num = Len(told')
    BY <2>1
  <2> QED  BY <2>5, <2>6 DEF Numbered, NumberedAt
<1>5. CASE Dispatch
  <2>1. told' = told /\ queue # << >> /\ queue' = Tail(queue)
    BY <1>5 DEF Dispatch, history
  <2>2. /\ Len(queue) > 0 /\ Len(queue') = Len(queue) - 1
        /\ \A i \in 1..Len(queue) - 1 : queue'[i] = queue[i + 1]
        /\ queue' # << >> => Len(queue) # 1
    BY <1>1, <2>1, TailFacts
  <2>3. ASSUME NEW i \in 1..Len(queue')  PROVE NumberedAt(i)'
    <3>1. i + 1 \in 1..Len(queue) /\ i + 1 > 1 /\ queue'[i] = queue[i + 1]
      BY <1>1, <2>2
    <3>2. i > 1 => queue'[i - 1] = queue[i] /\ (i + 1) - 1 = i
      <4>1. i > 1 => i - 1 \in 1..Len(queue) - 1 /\ (i - 1) + 1 = i
        BY <1>1, <2>2
      <4> QED  BY <2>2, <4>1
    <3>3. NumberedAt(i + 1)
      BY <1>2, <3>1
    <3>4. /\ Adds(queue'[i].evt) <= queue'[i].num /\ queue'[i].num <= Len(told)
          /\ Accepts(queue'[i].evt) => told[queue'[i].num] = queue'[i].evt.new
      BY <3>1, <3>3 DEF NumberedAt
    <3>5. i > 1 => queue'[i].num = queue'[i - 1].num + Adds(queue'[i].evt)
      BY <3>1, <3>2, <3>3 DEF NumberedAt
    <3> QED  BY <2>1, <3>4, <3>5 DEF NumberedAt, Adds, Accepts
  <2>4. ASSUME queue' # << >>  PROVE queue'[Len(queue')].num = Len(told')
    <3>1. Len(queue') \in 1..Len(queue) - 1 /\ Len(queue') + 1 = Len(queue)
      BY <1>1, <2>2, <2>4
    <3>2. queue'[Len(queue')] = queue[Len(queue)]
      BY <2>2, <3>1
    <3> QED  BY <2>1, <3>2 DEF Numbered
  <2> QED  BY <2>3, <2>4 DEF Numbered, NumberedAt
<1>6. ASSUME NEW c \in Clients,
             Request(c) \/ NextOpId(c) \/ NextOpIdAgain(c) \/ Handle(c)
      PROVE  UNCHANGED <<told, queue>>
  BY <1>6 DEF Request, NextOpId, NextOpIdAgain, Handle, busVars, history
<1>7. CASE OrchInit \/ OnStateChange \/ UNCHANGED vars
  BY <1>3, <1>7 DEF OrchInit, OnStateChange, vars, busVars, history
<1> QED  BY <1>3, <1>4, <1>5, <1>6, <1>7 DEF Next, Bus
-----------------------------------------------------------------------------
(* The gate.                                                               *)

\* A publication takes nothing from the queue.
LEMMA TakenPublish ==
    ASSUME TypeOK, Numbered, Publish
    PROVE  Taken' = Taken
<1>1. CASE UNCHANGED <<told, queue>>
  BY <1>1 DEF Taken
<1>2. ASSUME NEW evt \in Events, Len(told') = Len(told) + Adds(evt),
             Len(queue) \in Nat, \A i \in 1..Len(queue) : queue'[i] = queue[i],
             queue'[Len(queue) + 1].evt = evt,
             queue'[Len(queue) + 1].num = Len(told'), queue' # << >>
      PROVE  Taken' = Taken
  <2>1. Taken' = queue'[1].num - Adds(queue'[1].evt)
    BY <1>2 DEF Taken, Adds, Accepts
  <2>2. CASE queue = << >>
    <3>1. Len(queue) + 1 = 1
      BY <2>2, EmptySeq
    <3>2. queue'[1].evt = evt /\ queue'[1].num = Len(told')
      BY <1>2, <3>1
    <3>3. Adds(evt) \in 0..1 /\ Len(told) \in Nat
      BY AddsFacts, CountFacts
    <3> QED  BY <1>2, <2>1, <2>2, <3>2, <3>3 DEF Taken
  <2>3. CASE queue # << >>
    <3>1. 1 \in 1..Len(queue) /\ Taken = queue[1].num - Adds(queue[1].evt)
      BY <1>2, <2>3, TakenFacts
    <3> QED  BY <1>2, <2>1, <3>1
  <2> QED  BY <2>2, <2>3
<1> QED  BY <1>1, <1>2, PublishFacts

\* The dispatcher takes the head of the queue.
LEMMA TakenDispatch ==
    ASSUME TypeOK, Numbered, Dispatch
    PROVE  /\ Taken' = Head(queue).num
           /\ Taken' = Taken + Adds(Head(queue).evt)
           /\ Adds(Head(queue).evt) <= Taken'
           /\ Accepts(Head(queue).evt) => told[Taken'] = Head(queue).evt.new
<1>1. queue # << >> /\ queue' = Tail(queue) /\ told' = told
  BY DEF Dispatch, history
<1>2. queue \in Seq(Entries)
  BY DEF TypeOK, Entries
<1>3. /\ Len(queue) \in Nat /\ Len(queue) > 0 /\ Head(queue) = queue[1]
      /\ queue[1] \in Entries
      /\ \A i \in 1..Len(queue) - 1 : queue'[i] = queue[i + 1]
      /\ Len(queue) = 1 <=> queue' = << >>
  BY <1>1, <1>2, TailFacts
<1>4. /\ Adds(queue[1].evt) <= queue[1].num
      /\ Accepts(queue[1].evt) => told[queue[1].num] = queue[1].evt.new
      /\ Taken = queue[1].num - Adds(queue[1].evt)
  <2>1. 1 \in 1..Len(queue)
    BY <1>3
  <2> QED  BY <1>1, <2>1, TakenFacts DEF Numbered
<1>5. queue[1].num \in Nat /\ Adds(queue[1].evt) \in 0..1
  BY <1>3, AddsFacts, EntryFacts
<1>6. Taken' = queue[1].num
  <2>1. CASE Len(queue) = 1
    <3>1. Taken' = Len(told)
      BY <1>1, <1>3, <2>1 DEF Taken
    <3> QED  BY <1>1, <2>1, <3>1 DEF Numbered
  <2>2. CASE Len(queue) > 1
    <3>0. queue' # << >>
      BY <1>3, <2>2
    <3>1. 1 \in 1..Len(queue) - 1 /\ 2 \in 1..Len(queue) /\ 2 > 1 /\ 2 - 1 = 1
      BY <1>3, <2>2
    <3>2. queue'[1] = queue[2]
      BY <1>3, <3>1
    <3>3. queue[2].num = queue[1].num + Adds(queue[2].evt)
      BY <3>1 DEF Numbered
    <3>4. Taken' = queue[2].num - Adds(queue[2].evt)
      BY <3>0, <3>2 DEF Taken, Adds, Accepts
    <3>5. Adds(queue[2].evt) \in 0..1
      BY AddsFacts
    <3> QED  BY <1>5, <3>3, <3>4, <3>5
  <2>3. Len(queue) = 1 \/ Len(queue) > 1
    <3>1. \A n \in Nat : n > 0 => n = 1 \/ n > 1
      OBVIOUS
    <3> QED  BY <1>3, <3>1, Zenon
  <2> QED  BY <2>1, <2>2, <2>3
<1> QED  BY <1>3, <1>4, <1>5, <1>6

\* A step that leaves the gate, the deliveries and the announced states alone.
LEMMA FollowedSame ==
    ASSUME Followed, UNCHANGED <<gState, busVars, told, since, applied>>
    PROVE  Followed'
BY DEF Followed, Taken, Adds, Accepts, busVars

\* Every step keeps the gate where the deliveries have brought it.
LEMMA FollowedStep ==
    ASSUME TypeOK, Numbered, Followed, [Next]_vars
    PROVE  Followed'
<1>1. Taken \in 0..Len(told) /\ Len(told) \in Nat /\ applied \in Nat
      /\ applied <= Len(told) /\ since <= Len(told) /\ since \in Nat
  BY TakenFacts, CountFacts
<1>2. /\ subs \in 0..MaxSubs /\ MaxSubs \in Nat /\ MaxSubs > 0
      /\ delivery \in Deliveries /\ delivery.left \in 0..MaxSubs
      /\ delivery.num \in Nat
  BY BoundFacts, EventFacts DEF TypeOK
<1>3. ASSUME NEW c \in Clients,
             Request(c) \/ NextOpId(c) \/ NextOpIdAgain(c) \/ Handle(c)
      PROVE  Followed'
  BY <1>3, FollowedSame DEF Request, NextOpId, NextOpIdAgain, Handle, gateVars, history
<1>4. CASE OrchInit
  <2>1. UNCHANGED <<gState, queue, delivery, told, applied>>
    BY <1>4 DEF OrchInit, gateVars
  <2>2. Taken' = Taken
    BY <2>1 DEF Taken, Adds, Accepts
  <2>3. subs' \in Nat /\ subs' > 0
    BY <1>2, <1>4 DEF OrchInit
  <2>4. CASE subs = 0
    <3>1. delivery.left = 0 /\ applied = 0
      BY <2>4 DEF Followed
    <3>2. since' = Len(told)
      BY <1>4, <2>4 DEF OrchInit
    <3>3. \A n \in applied' + 1 .. Taken' : n <= since'
      BY <1>1, <2>1, <2>2, <3>2
    <3> QED  BY <1>1, <2>1, <2>2, <2>3, <3>1, <3>3 DEF Followed
  <2>5. CASE subs # 0
    <3>1. since' = since /\ subs > 0
      BY <1>2, <1>4, <2>5 DEF OrchInit
    <3> QED  BY <2>1, <2>2, <2>3, <3>1 DEF Followed, Adds, Accepts
  <2> QED  BY <2>4, <2>5
<1>5. CASE Publish
  <2>1. UNCHANGED <<gState, subs, delivery, since, applied>> /\ Taken' = Taken
    BY <1>5, TakenPublish DEF Publish, gateVars
  <2>2. \A k \in 1..Len(told) : told'[k] = told[k]
    BY <1>5, PublishFacts
  <2>3. applied # 0 => told'[applied] = told[applied]
    BY <1>1, <2>2
  <2>4. (delivery.left > 0 /\ Accepts(delivery.evt)) => told'[Taken] = told[Taken]
    <3>1. ASSUME delivery.left > 0, Accepts(delivery.evt)  PROVE Taken \in 1..Len(told)
      <4>1. Adds(delivery.evt) = 1 /\ Adds(delivery.evt) <= Taken
        BY <3>1, AddsFacts DEF Followed
      <4> QED  BY <1>1, <4>1
    <3> QED  BY <2>2, <3>1
  <2> QED  BY <2>1, <2>3, <2>4 DEF Followed, Adds, Accepts
<1>6. CASE Dispatch
  <2>1. UNCHANGED <<gState, subs, told, since, applied>> /\ delivery.left = 0
    BY <1>6 DEF Dispatch, gateVars, history
  <2> DEFINE evt == Head(queue).evt
  <2>2. /\ Taken' = Head(queue).num /\ Taken' = Taken + Adds(evt)
        /\ Adds(evt) <= Taken' /\ (Accepts(evt) => told[Taken'] = evt.new)
    BY <1>6, TakenDispatch
  <2>3. Adds(evt) \in 0..1 /\ (~Accepts(evt) => Adds(evt) = 0)
    BY AddsFacts
  <2>4. \/ /\ subs > 0
           /\ delivery' = [evt |-> evt, num |-> Head(queue).num, left |-> subs]
        \/ ~(evt.id = "STATE_CHANGED" /\ subs > 0) /\ delivery' = NoDelivery
    BY <1>6 DEF Dispatch
  <2> HIDE DEF evt
  <2>5. CASE /\ subs > 0
             /\ delivery' = [evt |-> evt, num |-> Head(queue).num, left |-> subs]
    <3>1. delivery'.left = subs /\ delivery'.num = Taken' /\ delivery'.evt = evt
      BY <2>2, <2>5
    <3>2. Taken' - Adds(evt) = Taken
      BY <1>1, <2>2, <2>3
    <3>3. \A n \in applied + 1 .. Taken : n <= since
      BY <2>1, <2>5 DEF Followed
    <3>4. applied' <= Taken'
      BY <1>1, <2>1, <2>2, <2>3 DEF Followed
    <3>5. subs' > 0 /\ delivery'.left > 0 /\ subs' # 0 /\ delivery'.left # 0
      BY <1>2, <2>1, <2>5, <3>1
    <3>6. applied' # 0 => gState' = told'[applied']
      BY <2>1 DEF Followed
    <3>7. /\ Adds(delivery'.evt) <= Taken'
          /\ Accepts(delivery'.evt) => told'[Taken'] = delivery'.evt.new
          /\ \A n \in applied' + 1 .. Taken' - Adds(delivery'.evt) : n <= since'
      BY <2>1, <2>2, <3>1, <3>2, <3>3
    <3> QED  BY <3>1, <3>4, <3>5, <3>6, <3>7 DEF Followed, Adds, Accepts
  <2>6. CASE ~(evt.id = "STATE_CHANGED" /\ subs > 0) /\ delivery' = NoDelivery
    <3>1. delivery'.left = 0
      BY <2>6, EventFacts
    <3>2. applied' <= Taken'
      BY <1>1, <2>1, <2>2, <2>3 DEF Followed
    <3>3. subs > 0 => Taken' = Taken
      <4>1. subs > 0 => ~Accepts(evt)
        BY <2>6 DEF Accepts
      <4> QED  BY <1>1, <2>2, <2>3, <4>1
    <3> QED  BY <2>1, <3>1, <3>2, <3>3 DEF Followed
  <2> QED  BY <2>4, <2>5, <2>6
<1>7. CASE OnStateChange
  <2>1. UNCHANGED <<subs, queue, told, since>> /\ delivery.left > 0
    BY <1>7 DEF OnStateChange
  <2>2. Taken' = Taken
    BY <2>1 DEF Taken, Adds, Accepts
  <2>3. /\ subs # 0 /\ delivery.num = Taken /\ Adds(delivery.evt) <= Taken
        /\ Accepts(delivery.evt) => told[Taken] = delivery.evt.new
        /\ applied # Taken =>
             \A n \in applied + 1 .. Taken - Adds(delivery.evt) : n <= since
        /\ applied <= Taken
    BY <1>2, <2>1 DEF Followed
  <2>4. \/ delivery'.left = 0
        \/ delivery'.left # 0 /\ delivery'.evt = delivery.evt
           /\ delivery'.num = delivery.num
    <3>1. CASE delivery.left > 1
      <4>1. delivery' = [delivery EXCEPT !.left = delivery.left - 1]
        BY <1>7, <3>1 DEF OnStateChange
      <4>2. delivery.left - 1 # 0
        BY <1>2, <3>1
      <4> QED  BY <1>2, <4>1, <4>2 DEF Deliveries
    <3>2. CASE ~(delivery.left > 1)
      BY <1>7, <3>2, EventFacts DEF OnStateChange
    <3> QED  BY <3>1, <3>2
  <2>5. /\ applied' # 0 => gState' = told[applied']
        /\ applied' <= Taken
        /\ \A n \in applied' + 1 .. Taken : n <= since
    <3>1. CASE Accepts(delivery.evt)
      <4>1. gState' = delivery.evt.new /\ applied' = Taken
        BY <1>7, <2>3, <3>1 DEF OnStateChange, StateUpdate
      <4>2. gState' = told[applied']
        BY <2>3, <3>1, <4>1
      <4> QED  BY <1>1, <4>1, <4>2
    <3>2. CASE ~Accepts(delivery.evt)
      <4>1. UNCHANGED <<gState, applied>> /\ Adds(delivery.evt) = 0
        BY <1>7, <3>2, AddsFacts DEF OnStateChange
      <4>2. \A n \in applied + 1 .. Taken : n <= since
        BY <1>1, <2>3, <4>1
      <4> QED  BY <2>3, <4>1, <4>2 DEF Followed
    <3> QED  BY <3>1, <3>2
  <2>6. CASE delivery'.left = 0
    BY <2>1, <2>2, <2>3, <2>5, <2>6 DEF Followed
  <2>7. CASE delivery'.left # 0 /\ delivery'.evt = delivery.evt
             /\ delivery'.num = delivery.num
    <3>1. \A n \in applied' + 1 .. Taken' - Adds(delivery'.evt) : n <= since'
      <4>1. Adds(delivery.evt) \in 0..1
        BY AddsFacts
      <4> QED  BY <1>1, <2>1, <2>2, <2>5, <2>7, <4>1
    <3>2. /\ delivery'.num = Taken' /\ Adds(delivery'.evt) <= Taken'
          /\ Accepts(delivery'.evt) => told'[Taken'] = delivery'.evt.new
      BY <2>1, <2>2, <2>3, <2>7
    <3> QED  BY <2>1, <2>2, <2>3, <2>5, <2>7, <3>1, <3>2 DEF Followed, Adds, Accepts
  <2> QED  BY <2>4, <2>6, <2>7
<1>8. CASE UNCHANGED vars
  BY <1>8, FollowedSame DEF vars, gateVars, history
<1> QED  BY <1>3, <1>4, <1>5, <1>6, <1>7, <1>8 DEF Next, Bus
\* What the queue holds, by index.
LEMMA QueueFacts ==
    ASSUME TypeOK, Numbered
    PROVE  /\ Len(queue) \in Nat /\ Len(told) \in Nat /\ Len(queue) <= QueueDepth
           /\ \A i \in 1..Len(queue) :
                /\ queue[i].num \in Nat /\ queue[i].num <= Len(told)
                /\ Accepts(queue[i].evt) => told[queue[i].num] = queue[i].evt.new
<1>1. queue \in Seq(Entries) /\ Len(told) \in Nat
  BY DEF TypeOK, Entries
<1>2. Len(queue) \in Nat /\ Len(queue) <= QueueDepth
  BY <1>1 DEF TypeOK
<1>3. ASSUME NEW i \in 1..Len(queue)  PROVE queue[i].num \in Nat
  BY <1>1, ElementOfSeq, EntryFacts
<1> QED  BY <1>1, <1>2, <1>3 DEF Numbered

\* A step that leaves the queue and the announced states alone.
LEMMA QueuedSame ==
    ASSUME Queued, UNCHANGED <<told, queue>>
    PROVE  Queued'
BY DEF Queued, Taken, Adds, Accepts

\* Every step keeps the states not yet taken in the queue.
LEMMA QueuedStep ==
    ASSUME TypeOK, Numbered, Queued, [Next]_vars
    PROVE  Queued'
<1>1. /\ Len(queue) \in Nat /\ Len(told) \in Nat /\ Taken \in 0..Len(told)
      /\ \A i \in 1..Len(queue) : queue[i].num \in Nat /\ queue[i].num <= Len(told)
  BY QueueFacts, TakenFacts
<1>2. CASE Publish
  <2>1. CASE UNCHANGED <<told, queue>>
    BY <2>1, QueuedSame
  <2>2. ASSUME NEW evt \in Events, Len(told') = Len(told) + Adds(evt),
               Len(queue') = Len(queue) + 1,
               \A i \in 1..Len(queue) : queue'[i] = queue[i],
               queue'[Len(queue) + 1].evt = evt,
               queue'[Len(queue) + 1].num = Len(told')
        PROVE  Queued'
    <3>1. Adds(evt) \in 0..1 /\ (Adds(evt) = 1 => Accepts(evt)) /\ Taken' = Taken
      BY <1>2, AddsFacts, TakenPublish
    <3>2. ASSUME NEW n \in Taken' + 1 .. Len(told')
          PROVE  \E i \in 1..Len(queue') : queue'[i].num = n /\ Accepts(queue'[i].evt)
      <4>1. CASE n <= Len(told)
        <5>1. n \in Taken + 1 .. Len(told)
          BY <1>1, <3>1, <4>1
        <5>2. PICK i \in 1..Len(queue) : queue[i].num = n /\ Accepts(queue[i].evt)
          BY <5>1 DEF Queued
        <5>3. i \in 1..Len(queue') /\ queue'[i] = queue[i]
          BY <1>1, <2>2
        <5> QED  BY <5>2, <5>3
      <4>2. CASE n > Len(told)
        <5>1. n = Len(told') /\ Accepts(evt)
          BY <1>1, <2>2, <3>1, <4>2
        <5>2. Len(queue) + 1 \in 1..Len(queue')
          BY <1>1, <2>2
        <5> QED  BY <2>2, <5>1, <5>2
      <4> QED  BY <1>1, <3>1, <4>1, <4>2
    <3>3. ASSUME NEW i \in 1..Len(queue')
          PROVE  Len(told') - queue'[i].num <= Len(queue') - i
      <4>1. CASE i \in 1..Len(queue)
        <5>1. Len(told) - queue[i].num <= Len(queue) - i /\ queue[i].num \in Nat
          BY <1>1, <4>1 DEF Queued
        <5> QED  BY <1>1, <2>2, <3>1, <4>1, <5>1
      <4>2. CASE i = Len(queue) + 1
        BY <1>1, <2>2, <3>1, <4>2
      <4> QED  BY <1>1, <2>2, <4>1, <4>2
    <3> QED  BY <3>2, <3>3 DEF Queued, Accepts
  <2> QED  BY <1>2, <2>1, <2>2, PublishFacts
<1>3. CASE Dispatch
  <2>1. queue # << >> /\ queue' = Tail(queue) /\ told' = told
    BY <1>3 DEF Dispatch, history
  <2>2. /\ Len(queue) > 0 /\ Len(queue') = Len(queue) - 1 /\ Head(queue) = queue[1]
        /\ \A i \in 1..Len(queue) - 1 : queue'[i] = queue[i + 1]
    BY <2>1, TailFacts DEF TypeOK
  <2>3. /\ Taken' = queue[1].num /\ Taken' = Taken + Adds(queue[1].evt)
        /\ Adds(queue[1].evt) \in 0..1
    BY <1>3, <2>2, TakenDispatch, AddsFacts
  <2>4. ASSUME NEW n \in Taken' + 1 .. Len(told')
        PROVE  \E i \in 1..Len(queue') : queue'[i].num = n /\ Accepts(queue'[i].evt)
    <3>1. n \in Taken + 1 .. Len(told) /\ n # queue[1].num
      BY <1>1, <2>1, <2>3
    <3>2. PICK i \in 1..Len(queue) : queue[i].num = n /\ Accepts(queue[i].evt)
      BY <3>1 DEF Queued
    <3>3. i # 1
      BY <3>1, <3>2
    <3>4. i - 1 \in 1..Len(queue') /\ queue'[i - 1] = queue[i]
      <4>1. i - 1 \in 1..Len(queue) - 1 /\ (i - 1) + 1 = i
        BY <1>1, <3>3
      <4> QED  BY <2>2, <4>1
    <3> QED  BY <3>2, <3>4
  <2>5. ASSUME NEW i \in 1..Len(queue')
        PROVE  Len(told') - queue'[i].num <= Len(queue') - i
    <3>1. i + 1 \in 1..Len(queue) /\ queue'[i] = queue[i + 1]
      BY <1>1, <2>2
    <3>2. Len(told) - queue[i + 1].num <= Len(queue) - (i + 1)
      BY <3>1 DEF Queued
    <3> QED  BY <1>1, <2>1, <2>2, <3>1, <3>2
  <2> QED  BY <2>4, <2>5 DEF Queued, Accepts
<1>4. ASSUME NEW c \in Clients,
             Request(c) \/ NextOpId(c) \/ NextOpIdAgain(c) \/ Handle(c)
      PROVE  Queued'
  BY <1>4, QueuedSame DEF Request, NextOpId, NextOpIdAgain, Handle, busVars, history
<1>5. CASE OrchInit \/ OnStateChange \/ UNCHANGED vars
  BY <1>5, QueuedSame DEF OrchInit, OnStateChange, vars, busVars, history
<1> QED  BY <1>2, <1>3, <1>4, <1>5 DEF Next, Bus

\* A state that has not reached the gate is still in the queue, or it is the last one
\* the dispatcher has taken, and in delivery.
LEMMA PendingPlace ==
    ASSUME TypeOK, Numbered, Queued, Followed, NEW n \in 1..Len(told), Pending(n)
    PROVE  \/ \E i \in 1..Len(queue) : Carries(queue[i], n)
           \/ n = Taken /\ delivery.left > 0 /\ Carries(delivery, n)
<1>1. /\ Taken \in 0..Len(told) /\ Len(told) \in Nat /\ applied \in Nat
      /\ delivery.left \in 0..MaxSubs /\ MaxSubs \in Nat
  BY TakenFacts, CountFacts, BoundFacts, EventFacts DEF TypeOK
<1>2. subs > 0 /\ n > since /\ n > applied /\ since \in Nat
  BY CountFacts DEF Pending
<1>3. CASE n > Taken
  <2>1. n \in Taken + 1 .. Len(told)
    BY <1>1, <1>3
  <2>2. PICK i \in 1..Len(queue) : queue[i].num = n /\ Accepts(queue[i].evt)
    BY <2>1 DEF Queued
  <2>3. told[n] = queue[i].evt.new
    BY <2>2, QueueFacts
  <2> QED  BY <2>2, <2>3 DEF Carries, Announces, Accepts
<1>4. CASE n <= Taken
  <2>1. delivery.left > 0
    <3>1. ASSUME delivery.left = 0  PROVE FALSE
      <4>1. \A m \in applied + 1 .. Taken : m <= since
        BY <1>2, <3>1 DEF Followed
      <4> QED  BY <1>1, <1>2, <1>4, <4>1
    <3> QED  BY <1>1, <3>1
  <2>2. /\ delivery.num = Taken
        /\ Accepts(delivery.evt) => told[Taken] = delivery.evt.new
        /\ \A m \in applied + 1 .. Taken - Adds(delivery.evt) : m <= since
    BY <1>1, <1>2, <1>4, <2>1 DEF Followed
  <2>3. Adds(delivery.evt) \in 0..1 /\ (Adds(delivery.evt) = 1 => Accepts(delivery.evt))
    BY AddsFacts
  <2>4. ~(n <= Taken - Adds(delivery.evt))
    BY <1>1, <1>2, <2>2, <2>3
  <2>5. n = Taken /\ Accepts(delivery.evt)
    BY <1>1, <1>4, <2>3, <2>4
  <2> QED  BY <2>1, <2>2, <2>5 DEF Carries, Announces, Accepts
<1> QED  BY <1>1, <1>3, <1>4

\* How many states were announced after one that has not reached the gate.
LEMMA PendingLag ==
    ASSUME TypeOK, Numbered, Queued, Followed, NEW n \in 1..Len(told), Pending(n)
    PROVE  Len(told) - n <= QueueDepth
<1>1. /\ Len(queue) \in Nat /\ Len(queue) <= QueueDepth /\ QueueDepth \in Nat
      /\ Taken \in 0..Len(told) /\ Len(told) \in Nat
  BY QueueFacts, TakenFacts, BoundFacts
<1>2. ASSUME NEW i \in 1..Len(queue), queue[i].num = n
      PROVE  Len(told) - n <= QueueDepth
  <2>1. Len(told) - n <= Len(queue) - i
    BY <1>2 DEF Queued
  <2> QED  BY <1>1, <2>1
<1>3. CASE n = Taken
  <2>1. CASE queue = << >>
    BY <1>1, <1>3, <2>1, TakenFacts
  <2>2. CASE queue # << >>
    <3>1. /\ Len(queue) > 0 /\ Taken = queue[1].num - Adds(queue[1].evt)
          /\ Adds(queue[1].evt) \in 0..1
      BY <2>2, TakenFacts, AddsFacts
    <3>2. 1 \in 1..Len(queue)
      BY <1>1, <3>1
    <3>3. Len(told) - queue[1].num <= Len(queue) - 1 /\ queue[1].num \in Nat
      BY <3>2, QueueFacts DEF Queued
    <3> QED  BY <1>1, <1>3, <3>1, <3>3
  <2> QED  BY <2>1, <2>2
<1> QED  BY <1>2, <1>3, PendingPlace DEF Carries
-----------------------------------------------------------------------------
(* The theorems.                                                           *)

\* The inductive invariant holds initially, every step keeps it, so it always holds.
LEMMA InitIInv == Init => IInv
<1> SUFFICES ASSUME Init  PROVE IInv
  OBVIOUS
<1>1. queue = << >> /\ told = << >> /\ Len(queue) = 0 /\ Len(told) = 0
  BY EmptySeq DEF Init
<1>2. TypeOK
  <2>1. queue \in Seq([evt : Events, num : Nat]) /\ told \in Seq(GateStates)
    BY <1>1, EmptySeq
  <2>2. /\ nextOpId \in 0..OpIdMod - 1 /\ subs \in 0..MaxSubs
        /\ Len(queue) <= QueueDepth
        /\ calls \in 0..MaxCalls /\ published \in 0..MaxEvents /\ inits \in 0..MaxInits
    BY <1>1, BoundFacts DEF Init
  <2>3. opId \in [Clients -> 0..OpIdMod - 1]
    BY BoundFacts DEF Init
  <2>4. since \in 0..Len(told) /\ applied \in 0..Len(told)
    BY <1>1 DEF Init
  <2> QED  BY <2>1, <2>2, <2>3, <2>4, EventFacts DEF Init, TypeOK, GateStates
<1>3. Numbered
  BY <1>1 DEF Numbered
<1>4. Queued /\ Followed
  <2>1. Taken = 0
    BY <1>1 DEF Taken
  <2>2. Queued
    BY <1>1, <2>1 DEF Queued
  <2> QED  BY <2>1, <2>2, EventFacts DEF Init, Followed
<1>5. Fetched /\ OpIdsDistinct
  BY DEF Init, Fetched, OpIdsDistinct
<1> QED  BY <1>2, <1>3, <1>4, <1>5 DEF IInv

\* Every step keeps the inductive invariant.
LEMMA NextIInv == IInv /\ [Next]_vars => IInv'
<1> SUFFICES ASSUME IInv, [Next]_vars  PROVE IInv'
  OBVIOUS
<1> QED
  BY TypeStep, NumberedStep, QueuedStep, FollowedStep, FetchedStep, OpIdsStep DEF IInv

\* The inductive invariant always holds.
LEMMA Invariance == Spec => []IInv
<1>1. Init => IInv
  BY InitIInv
<1>2. IInv /\ [Next]_vars => IInv'
  BY NextIInv
<1> QED  BY <1>1, <1>2, PTL DEF Spec

\* Every variable of the gate, the bus and the clients keeps its type; in particular
\* the gate only ever applies states that were announced.
THEOREM TypeCorrect == Spec => []TypeOK
<1>1. IInv => TypeOK
  BY DEF IInv
<1> QED  BY <1>1, Invariance, PTL

\* orch_next_op_id gives handlers that run at the same time op_ids of their own, and
\* never 0, through every wrap of the counter and for any number of clients.
THEOREM OpIdsAreDistinct == Spec => []OpIdsDistinct
<1>1. IInv => OpIdsDistinct
  BY DEF IInv
<1> QED  BY <1>1, Invariance, PTL

\* What a step of the gate applies is later than what it had applied, with nothing
\* skipped but what was announced before it subscribed.
LEMMA FollowsStep ==
    ASSUME IInv, IInv', [Next]_vars
    PROVE  /\ applied' # applied =>
                /\ applied' > applied
                /\ \A n \in applied + 1 .. applied' - 1 : n <= since
           /\ applied' # 0 => gState' = told'[applied']
<1>1. applied' # 0 => gState' = told'[applied']
  BY DEF IInv, Followed
<1>2. ASSUME applied' # applied  PROVE OnStateChange /\ Accepts(delivery.evt)
  <2>1. ASSUME NEW c \in Clients,
               Request(c) \/ NextOpId(c) \/ NextOpIdAgain(c) \/ Handle(c)
        PROVE  FALSE
    BY <1>2, <2>1 DEF Request, NextOpId, NextOpIdAgain, Handle, history
  <2>2. CASE OrchInit \/ Publish \/ Dispatch \/ UNCHANGED vars
    BY <1>2, <2>2 DEF OrchInit, Publish, Dispatch, vars, history
  <2>3. CASE OnStateChange
    BY <1>2, <2>3 DEF OnStateChange
  <2> QED  BY <2>1, <2>2, <2>3 DEF Next, Bus
<1>3. ASSUME applied' # applied
      PROVE  /\ applied' > applied
             /\ \A n \in applied + 1 .. applied' - 1 : n <= since
  <2>1. /\ delivery.left > 0 /\ applied' = delivery.num /\ Adds(delivery.evt) = 1
    BY <1>2, <1>3, AddsFacts DEF OnStateChange
  <2>2. /\ applied' = Taken /\ applied <= Taken
        /\ \A n \in applied + 1 .. Taken - 1 : n <= since
    BY <1>3, <2>1 DEF IInv, Followed
  <2>3. Taken \in 0..Len(told) /\ Len(told) \in Nat /\ applied \in Nat
    BY TakenFacts, CountFacts DEF IInv
  <2> QED  BY <1>3, <2>2, <2>3
<1> QED  BY <1>1, <1>3

\* on_state_change applies the announced states one by one and in their order, however
\* often orch_init subscribes it and whatever else the queue carries.
THEOREM GateFollows == Spec => FollowsBus
<1>1. IInv /\ IInv' /\ [Next]_vars =>
        [/\ applied' # applied =>
              /\ applied' > applied
              /\ \A n \in applied + 1 .. applied' - 1 : n <= since
         /\ applied' # 0 => gState' = told'[applied']]_vars
  BY FollowsStep
<1> QED  BY <1>1, Invariance, PTL DEF Spec, FollowsBus

\* A state the bus has accepted and the gate is subscribed to cannot be lost: until it
\* is applied it is in the queue or in delivery, and unchanged.
THEOREM NothingIsLost == Spec => []NothingLost
<1>1. IInv => NothingLost
  BY PendingPlace DEF IInv, NothingLost
<1> QED  BY <1>1, Invariance, PTL

\* The gate may decide on a state that is not the last announced, but it is never
\* behind by more than the queue holds and the event in delivery.
THEOREM StalenessIsBounded == Spec => []LagBounded
<1>1. IInv => LagBounded
  BY PendingLag DEF IInv, LagBounded
<1> QED  BY <1>1, Invariance, PTL
=============================================================================
