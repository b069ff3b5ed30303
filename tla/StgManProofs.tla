---------------------------- MODULE StgManProofs ----------------------------
(***************************************************************************)
(* Proofs about StgMan, for every number of tasks, files and payloads and  *)
(* every number of power losses: type correctness, the durability of what  *)
(* was acknowledged, and the implementation of StgStore.                   *)
(***************************************************************************)
EXTENDS StgMan, TLAPS
-----------------------------------------------------------------------------
(* Facts about the constants and the helpers.                              *)

\* What a request is.
LEMMA RequestFacts ==
    /\ \A r \in Requests \cup {NoRequest} : /\ r.file \in Files \cup {Unsafe}
                                           /\ r.val \in Data
                                           /\ r.buf \in Nat \cup {NoBuffer}
    /\ \A r \in Requests : r.op \in Ops
    /\ NoRequest.op = "none"
    /\ NoRequest \notin Requests
BY StgManAssumption DEF AllRequests, NoRequest, Data, Ops

\* The contents are of the right kinds.
LEMMA ContentFacts ==
    /\ Absent \in Contents /\ Short \in Contents
    /\ \A v \in Data : Whole(v) \in Contents /\ Torn(v) \in TmpContents
    /\ Contents \subseteq TmpContents
    /\ Absent.kind = "absent" /\ Short.kind = "short"
    /\ \A v : Whole(v).kind = "whole" /\ Whole(v).val = v
    /\ \A c : ValueOf(c) = IF c.kind = "whole" THEN c.val ELSE NoFile
BY DEF Absent, Short, Whole, Torn, Contents, TmpContents, Data, ValueOf

\* What each label says of the call that is there.
LEMMA LabelFacts ==
    /\ \A l \in Replacing : OpsAt[l] = {"write"}
    /\ \A l \in {"stat", "heal", "overwrite", "healing"} :
         OpsAt[l] = {"write", "check", "format"}
    /\ OpsAt["mount"] = {"init"} /\ OpsAt["unmount"] = {"deinit"}
    /\ OpsAt["format"] = {"format"} /\ OpsAt["read"] = {"read"}
    /\ Replacing = {"tmp", "fill", "remove", "rename", "clean"}
BY DEF OpsAt, Pcs, Replacing

\* The first label of a call is one of its own.
LEMMA FirstFacts ==
    \A op \in Ops : /\ FirstStep[op] \in {"mount", "unmount", "format", "stat", "read"}
                    /\ op \in OpsAt[FirstStep[op]]
BY LabelFacts DEF Ops, FirstStep

\* The end of a call keeps the types of the tasks' variables.
LEMMA AnswerType ==
    ASSUME TypeOK, NEW t \in Tasks, NEW code \in Codes,
           NEW data \in Data \cup {NoFile}, Answer(t, code, data)
    PROVE  /\ pc' \in [Tasks -> Pcs]
           /\ req' \in [Tasks -> Requests \cup {NoRequest}]
           /\ reply' \in [Tasks -> [code : Codes, data : Data \cup {NoFile}]]
BY DEF TypeOK, Answer, Pcs

\* So does a step from one label to another.
LEMMA GotoType ==
    ASSUME TypeOK, NEW t \in Tasks, NEW label \in Pcs, Goto(t, label)
    PROVE  /\ pc' \in [Tasks -> Pcs]
           /\ req' \in [Tasks -> Requests \cup {NoRequest}]
           /\ reply' \in [Tasks -> [code : Codes, data : Data \cup {NoFile}]]
           /\ lock' = lock
BY DEF TypeOK, Goto

\* Writing a file keeps the type of the disk.
LEMMA PutType ==
    ASSUME TypeOK, NEW f \in Files, NEW c \in Contents, Put(f, c)
    PROVE  /\ disk' \in [Files \cup {Tmp} -> TmpContents]
           /\ \A g \in Files : disk'[g] \in Contents
           /\ disk'[f] = c
           /\ \A g \in Files \cup {Tmp} : g # f => disk'[g] = disk[g]
BY ContentFacts DEF TypeOK, Put

\* So does writing the temporary file, which no other file notices.
LEMMA PutTmpType ==
    ASSUME TypeOK, NEW c \in TmpContents, Put(Tmp, c)
    PROVE  /\ disk' \in [Files \cup {Tmp} -> TmpContents]
           /\ \A g \in Files : disk'[g] \in Contents
           /\ disk'[Tmp] = c
           /\ \A g \in Files : disk'[g] = disk[g]
BY StgManAssumption DEF TypeOK, Put

\* So does a format.
LEMMA WipeType ==
    ASSUME Wipe
    PROVE  /\ disk' \in [Files \cup {Tmp} -> TmpContents]
           /\ \A g \in Files : disk'[g] \in Contents /\ disk'[g] = Absent
           /\ acked' \in [Files -> Data \cup {NoFile}]
           /\ \A g \in Files : acked'[g] = NoFile
BY ContentFacts DEF Wipe

\* The mutex has one holder: nobody else is inside.
LEMMA OneInside ==
    ASSUME InCall, NEW t \in Tasks, NEW u \in Tasks, Inside(t), Inside(u)
    PROVE  t = u
BY DEF InCall
-----------------------------------------------------------------------------
(* Type correctness.                                                       *)

\* Every step preserves the types.
LEMMA TypeStep ==
    ASSUME TypeOK, InCall, OnTheDisk, [Next]_vars
    PROVE  TypeOK'
<1> USE DEF bounds, memVars
<1>1. ASSUME NEW t \in Tasks, Call(t)  PROVE  TypeOK'
  <2>1. PICK r \in Requests :
          /\ lock' = IF r.op = "init" /\ lock = "null" THEN "free" ELSE lock
          /\ \/ \E code \in Codes : Answer(t, code, NoFile)
             \/ /\ pc' = [pc EXCEPT ![t] = "lock"]
                /\ req' = [req EXCEPT ![t] = r]
                /\ UNCHANGED reply
    BY <1>1 DEF Call, Codes
  <2>2. /\ pc' \in [Tasks -> Pcs]
        /\ req' \in [Tasks -> Requests \cup {NoRequest}]
        /\ reply' \in [Tasks -> [code : Codes, data : Data \cup {NoFile}]]
    BY <2>1, AnswerType DEF TypeOK, Pcs
  <2>3. calls' \in 0..MaxCalls
    BY <1>1, StgManAssumption DEF Call, TypeOK
  <2> QED  BY <1>1, <2>1, <2>2, <2>3 DEF Call, TypeOK
<1>2. ASSUME NEW t \in Tasks, Enter(t)  PROVE  TypeOK'
  <2>1. CASE \E code \in Codes : Return(t, code) /\ UNCHANGED acked
    BY <1>2, <2>1, AnswerType DEF Enter, Return, Unlock, TypeOK
  <2>2. CASE /\ lock' = t
             /\ pc' = [pc EXCEPT ![t] = FirstStep[req[t].op]]
             /\ acked' = IF req[t].op = "write"
                         THEN [acked EXCEPT ![req[t].file] = NoFile] ELSE acked
             /\ UNCHANGED <<req, reply>>
    <3>1. req[t] \in Requests
      BY <1>2 DEF Enter, InCall
    <3>2. FirstStep[req[t].op] \in Pcs
      BY <3>1, RequestFacts, FirstFacts DEF Pcs
    <3>3. pc' \in [Tasks -> Pcs] /\ acked' \in [Files -> Data \cup {NoFile}]
      BY <2>2, <3>2 DEF TypeOK
    <3> QED  BY <1>2, <2>2, <3>3 DEF Enter, TypeOK
  <2> QED  BY <1>2, <2>1, <2>2 DEF Enter, Codes
<1>3. ASSUME NEW t \in Tasks, Mount(t)  PROVE  TypeOK'
  BY <1>3, AnswerType DEF Mount, Return, Unlock, Codes, TypeOK
<1>4. ASSUME NEW t \in Tasks, Unmount(t)  PROVE  TypeOK'
  BY <1>4, AnswerType DEF Unmount, Return, Unlock, Codes, TypeOK
<1>5. ASSUME NEW t \in Tasks, Format(t)  PROVE  TypeOK'
  <2>1. /\ pc' \in [Tasks -> Pcs]
        /\ req' \in [Tasks -> Requests \cup {NoRequest}]
        /\ reply' \in [Tasks -> [code : Codes, data : Data \cup {NoFile}]]
        /\ lock' \in {lock, "free"}
    BY <1>5, AnswerType, GotoType DEF Format, Return, Unlock, Codes, Pcs
  <2>2. /\ disk' \in [Files \cup {Tmp} -> TmpContents]
        /\ \A f \in Files : disk'[f] \in Contents
        /\ acked' \in [Files -> Data \cup {NoFile}]
    BY <1>5, WipeType DEF Format, TypeOK
  <2> QED  BY <1>5, <2>1, <2>2 DEF Format, TypeOK
<1>6. ASSUME NEW t \in Tasks, Stat(t)  PROVE  TypeOK'
  <2>1. (\E l \in Pcs : Goto(t, l)) \/ (\E code \in Codes : Return(t, code))
    BY <1>6 DEF Stat, Validated, Codes, Pcs, Replacing
  <2>2. /\ pc' \in [Tasks -> Pcs]
        /\ req' \in [Tasks -> Requests \cup {NoRequest}]
        /\ reply' \in [Tasks -> [code : Codes, data : Data \cup {NoFile}]]
        /\ lock' \in {lock, "free"}
    BY <2>1, AnswerType, GotoType DEF Return, Unlock
  <2>3. acked' \in [Files -> Data \cup {NoFile}]
    BY <1>6 DEF Stat, TypeOK
  <2> QED  BY <1>6, <2>2, <2>3 DEF Stat, TypeOK
<1>7. ASSUME NEW t \in Tasks, Heal(t) \/ Healing(t)  PROVE  TypeOK'
  <2>1. (\E l \in Pcs : Goto(t, l)) \/ (\E code \in Codes : Return(t, code))
    BY <1>7 DEF Heal, Healing, Validated, Codes, Pcs, Replacing
  <2>2. /\ pc' \in [Tasks -> Pcs]
        /\ req' \in [Tasks -> Requests \cup {NoRequest}]
        /\ reply' \in [Tasks -> [code : Codes, data : Data \cup {NoFile}]]
        /\ lock' \in {lock, "free"}
    BY <2>1, AnswerType, GotoType DEF Return, Unlock
  <2>3. req[t].file \in Files
    BY <1>7 DEF Heal, Healing, InCall, Inside
  <2>4. /\ disk' \in [Files \cup {Tmp} -> TmpContents]
        /\ \A f \in Files : disk'[f] \in Contents
    BY <1>7, <2>3, PutType, ContentFacts DEF Heal, Healing, TypeOK, Data
  <2> QED  BY <1>7, <2>2, <2>4 DEF Heal, Healing, TypeOK
<1>8. ASSUME NEW t \in Tasks, OpenTmp(t) \/ Fill(t)  PROVE  TypeOK'
  <2>1. (\E l \in Pcs : Goto(t, l)) \/ (\E code \in Codes : Return(t, code))
    BY <1>8 DEF OpenTmp, Fill, Codes, Pcs, Replacing
  <2>2. /\ pc' \in [Tasks -> Pcs]
        /\ req' \in [Tasks -> Requests \cup {NoRequest}]
        /\ reply' \in [Tasks -> [code : Codes, data : Data \cup {NoFile}]]
        /\ lock' \in {lock, "free"}
    BY <2>1, AnswerType, GotoType DEF Return, Unlock
  <2>3. req[t].val \in Data
    BY RequestFacts DEF TypeOK
  <2>4. UNCHANGED disk \/ \E c \in TmpContents : Put(Tmp, c)
    BY <1>8, <2>3, ContentFacts DEF OpenTmp, Fill, Target
  <2>5. /\ disk' \in [Files \cup {Tmp} -> TmpContents]
        /\ \A f \in Files : disk'[f] \in Contents
    BY <2>4, PutTmpType DEF TypeOK
  <2> QED  BY <1>8, <2>2, <2>5 DEF OpenTmp, Fill, TypeOK
<1>9. ASSUME NEW t \in Tasks, Remove(t)  PROVE  TypeOK'
  <2>1. req[t].file \in Files
    BY <1>9 DEF Remove, InCall, Inside
  <2>2. disk[req[t].file] \in Contents /\ old' \in Data \cup {NoFile}
    BY <1>9, <2>1 DEF Remove, ValueOf, TypeOK, Contents
  <2>3. /\ disk' \in [Files \cup {Tmp} -> TmpContents]
        /\ \A f \in Files : disk'[f] \in Contents
    BY <1>9, <2>1, PutType, ContentFacts DEF Remove, TypeOK
  <2>4. /\ pc' \in [Tasks -> Pcs]
        /\ req' \in [Tasks -> Requests \cup {NoRequest}]
        /\ reply' \in [Tasks -> [code : Codes, data : Data \cup {NoFile}]]
        /\ lock' = lock
    BY <1>9, GotoType DEF Remove, Pcs, Replacing
  <2> QED  BY <1>9, <2>2, <2>3, <2>4 DEF Remove, TypeOK
<1>10. ASSUME NEW t \in Tasks, Rename(t)  PROVE  TypeOK'
  <2> DEFINE f == req[t].file
  <2>1. f \in Files /\ req[t].val \in Data /\ disk[Tmp] = Whole(req[t].val)
    BY <1>10, RequestFacts DEF Rename, InCall, Inside, OnTheDisk, TypeOK
  <2>2. Return(t, "ok") \/ Goto(t, "clean")
    BY <1>10 DEF Rename, RenameFailed
  <2>3. /\ pc' \in [Tasks -> Pcs]
        /\ req' \in [Tasks -> Requests \cup {NoRequest}]
        /\ reply' \in [Tasks -> [code : Codes, data : Data \cup {NoFile}]]
        /\ lock' \in {lock, "free"}
    BY <2>2, AnswerType, GotoType DEF Return, Unlock, Codes, Pcs, Replacing
  <2>4. UNCHANGED disk \/ disk' = [disk EXCEPT ![f] = disk[Tmp], ![Tmp] = Absent]
    BY <1>10 DEF Rename
  <2>5. /\ disk' \in [Files \cup {Tmp} -> TmpContents]
        /\ \A g \in Files : disk'[g] \in Contents
    <3>1. CASE UNCHANGED disk
      BY <3>1 DEF TypeOK
    <3>2. CASE disk' = [disk EXCEPT ![f] = disk[Tmp], ![Tmp] = Absent]
      <4>1. disk[Tmp] \in Contents /\ Absent \in Contents /\ Contents \subseteq TmpContents
        BY <2>1, ContentFacts
      <4>2. /\ disk \in [Files \cup {Tmp} -> TmpContents]
            /\ \A g \in Files : disk[g] \in Contents
        BY DEF TypeOK
      <4> QED  BY <2>1, <3>2, <4>1, <4>2, StgManAssumption
    <3> QED  BY <2>4, <3>1, <3>2
  <2>6. acked' \in [Files -> Data \cup {NoFile}]
    BY <1>10, <2>1 DEF Rename, TypeOK
  <2> QED  BY <1>10, <2>3, <2>5, <2>6 DEF Rename, TypeOK
<1>11. ASSUME NEW t \in Tasks, Clean(t)  PROVE  TypeOK'
  <2>1. /\ disk' \in [Files \cup {Tmp} -> TmpContents]
        /\ \A g \in Files : disk'[g] \in Contents
    BY <1>11, PutTmpType, ContentFacts DEF Clean, TypeOK
  <2> QED  BY <1>11, <2>1, AnswerType DEF Clean, Return, Unlock, Codes, TypeOK
<1>12. ASSUME NEW t \in Tasks, Read(t)  PROVE  TypeOK'
  <2>1. req[t].file \in Files
    BY <1>12 DEF Read, InCall, Inside
  <2>2. disk[req[t].file].val \in Data
    BY <2>1 DEF TypeOK, Contents
  <2>3. \/ \E code \in Codes : Answer(t, code, NoFile)
        \/ Answer(t, "ok", disk[req[t].file].val)
    BY <1>12 DEF Read, Codes
  <2>4. \E code \in Codes, data \in Data \cup {NoFile} : Answer(t, code, data)
    BY <2>2, <2>3 DEF Codes
  <2> QED  BY <1>12, <2>4, AnswerType DEF Read, Unlock, TypeOK
<1>13. ASSUME Crash  PROVE  TypeOK'
  <2>1. /\ disk' \in [Files \cup {Tmp} -> TmpContents]
        /\ \A g \in Files : disk'[g] \in Contents
        /\ acked' \in [Files -> Data \cup {NoFile}]
        /\ volume' \in {"ok", "broken"}
    <3>1. CASE UNCHANGED <<disk, volume, acked>>
      BY <3>1 DEF TypeOK
    <3>2. CASE \E t \in Tasks : /\ Put(Tmp, Torn(req[t].val))
                                /\ UNCHANGED <<volume, acked>>
      BY <3>2, PutTmpType, ContentFacts, RequestFacts DEF TypeOK
    <3>3. CASE Wipe /\ volume' = "broken"
      BY <3>3, WipeType
    <3> QED  BY <1>13, <3>1, <3>2, <3>3 DEF Crash, Target
  <2>2. crashes' \in 0..MaxCrashes /\ UNCHANGED calls
    BY <1>13, StgManAssumption DEF Crash, TypeOK
  <2>3. /\ pc' \in [Tasks -> Pcs]
        /\ req' \in [Tasks -> Requests \cup {NoRequest}]
        /\ reply' \in [Tasks -> [code : Codes, data : Data \cup {NoFile}]]
    BY <1>13 DEF Crash, Pcs, Codes
  <2> QED  BY <1>13, <2>1, <2>2, <2>3 DEF Crash, TypeOK
<1>14. CASE UNCHANGED vars
  BY <1>14 DEF vars, TypeOK
<1> QED
  BY <1>1, <1>2, <1>3, <1>4, <1>5, <1>6, <1>7, <1>8, <1>9, <1>10, <1>11, <1>12,
     <1>13, <1>14 DEF Next, Step

-----------------------------------------------------------------------------
(* The mutex.                                                              *)

\* A step of the task inside leaves it alone there, at a label of its call, or
\* lets the mutex go.
LEMMA InsideStep ==
    ASSUME TypeOK, InCall, NEW t \in Tasks, Inside(t),
           \/ \E l \in Pcs \ {"idle", "lock"} : Goto(t, l) /\ req[t].op \in OpsAt[l]
           \/ \E code \in Codes, data \in Data \cup {NoFile} :
                Answer(t, code, data) /\ lock' = "free"
    PROVE  /\ InCall'
           /\ \A u \in Tasks : Inside(u)' => u = t
           /\ \A u \in Tasks : u # t => pc'[u] = pc[u] /\ req'[u] = req[u]
           /\ pc'[t] = "idle" \/ req'[t] = req[t]
<1>1. \A u \in Tasks : u # t => pc[u] \in {"idle", "lock"}
  BY OneInside DEF Inside
<1>2. ASSUME NEW l \in Pcs \ {"idle", "lock"}, Goto(t, l), req[t].op \in OpsAt[l]
      PROVE  /\ pc'[t] = l /\ req'[t] = req[t] /\ lock' = t
             /\ \A u \in Tasks : u # t => pc'[u] = pc[u] /\ req'[u] = req[u]
  BY <1>2 DEF Goto, TypeOK, InCall
<1>3. ASSUME NEW code \in Codes, NEW data \in Data \cup {NoFile},
             Answer(t, code, data), lock' = "free"
      PROVE  /\ pc'[t] = "idle"
             /\ \A u \in Tasks : u # t => pc'[u] = pc[u] /\ req'[u] = req[u]
  BY <1>3 DEF Answer, TypeOK
<1>4. CASE \E l \in Pcs \ {"idle", "lock"} : Goto(t, l) /\ req[t].op \in OpsAt[l]
  <2>1. PICK l \in Pcs \ {"idle", "lock"} : Goto(t, l) /\ req[t].op \in OpsAt[l]
    BY <1>4
  <2>2. /\ pc'[t] = l /\ req'[t] = req[t] /\ lock' = t
        /\ \A u \in Tasks : u # t => pc'[u] = pc[u] /\ req'[u] = req[u]
    BY <1>2, <2>1
  <2>3. req[t] \in Requests /\ req[t].file \in Files
    BY DEF InCall, Inside
  <2> QED  BY <1>1, <2>1, <2>2, <2>3 DEF InCall, Inside
<1>5. CASE \E code \in Codes, data \in Data \cup {NoFile} :
             Answer(t, code, data) /\ lock' = "free"
  BY <1>1, <1>3, <1>5 DEF InCall, Inside
<1> QED  BY <1>4, <1>5

\* The steps of a task inside are such steps.
LEMMA LabelStep ==
    ASSUME TypeOK, InCall, OnTheDisk, NEW t \in Tasks, Step(t), ~Enter(t)
    PROVE  /\ Inside(t)
           /\ \/ \E l \in Pcs \ {"idle", "lock"} : Goto(t, l) /\ req[t].op \in OpsAt[l]
              \/ \E code \in Codes, data \in Data \cup {NoFile} :
                   Answer(t, code, data) /\ lock' = "free"
<1> DEFINE Goes == \E l \in Pcs \ {"idle", "lock"} : Goto(t, l) /\ req[t].op \in OpsAt[l]
           Leaves == \E code \in Codes, data \in Data \cup {NoFile} :
                       Answer(t, code, data) /\ lock' = "free"
<1>1. \A code \in Codes : Return(t, code) => Leaves
  BY DEF Return, Unlock
<1>2. Inside(t) => req[t].op \in OpsAt[pc[t]]
  BY DEF InCall
<1>3. CASE Mount(t) \/ Unmount(t) \/ Clean(t)
  BY <1>1, <1>3 DEF Mount, Unmount, Clean, Inside, Codes
<1>4. CASE Format(t)
  <2>1. req[t].op = "format"
    BY <1>2, <1>4, LabelFacts DEF Format, Inside
  <2> QED  BY <1>1, <1>4, <2>1, LabelFacts DEF Format, Inside, Codes, Pcs
<1>5. CASE Stat(t) \/ Heal(t) \/ Healing(t)
  <2>1. req[t].op \in {"write", "check", "format"} /\ Inside(t)
    BY <1>2, <1>5, LabelFacts DEF Stat, Heal, Healing, Inside
  <2>2. Validated(t) => Goes \/ Leaves
    <3>1. CASE req[t].op = "write"
      BY <3>1, LabelFacts DEF Validated, Pcs
    <3>2. CASE req[t].op # "write"
      BY <1>1, <3>2 DEF Validated, Codes
    <3> QED  BY <3>1, <3>2
  <2>3. Goto(t, "heal") \/ Goto(t, "overwrite") \/ Goto(t, "healing") => Goes
    BY <2>1, LabelFacts DEF Pcs
  <2>4. \/ Validated(t) \/ Goto(t, "heal") \/ Goto(t, "overwrite") \/ Goto(t, "healing")
        \/ \E code \in Codes : Return(t, code)
    BY <1>5 DEF Stat, Heal, Healing, Codes
  <2> QED  BY <1>1, <2>1, <2>2, <2>3, <2>4
<1>6. CASE OpenTmp(t) \/ Fill(t) \/ Remove(t) \/ Rename(t)
  <2>1. req[t].op = "write" /\ Inside(t)
    BY <1>2, <1>6, LabelFacts DEF OpenTmp, Fill, Remove, Rename, Inside
  <2>2. \A l \in Replacing : Goto(t, l) => Goes
    BY <2>1, LabelFacts DEF Pcs
  <2>3. (\E l \in Replacing : Goto(t, l)) \/ (\E code \in Codes : Return(t, code))
    BY <1>6, LabelFacts DEF OpenTmp, Fill, Remove, Rename, RenameFailed, Codes
  <2> QED  BY <1>1, <2>1, <2>2, <2>3
<1>7. CASE Read(t)
  <2>1. Inside(t)
    BY <1>7 DEF Read, Inside
  <2>2. disk[req[t].file].val \in Data
    BY <2>1 DEF InCall, TypeOK, Contents
  <2>3. \/ \E code \in Codes : Answer(t, code, NoFile)
        \/ Answer(t, "ok", disk[req[t].file].val)
    BY <1>7 DEF Read, Codes
  <2> QED  BY <1>7, <2>1, <2>2, <2>3 DEF Read, Unlock, Codes
<1> QED  BY <1>3, <1>4, <1>5, <1>6, <1>7 DEF Step

\* A task that gets the mutex is the only one inside; the others stay where they
\* are.
LEMMA EnterStep ==
    ASSUME TypeOK, InCall, NEW t \in Tasks, Enter(t)
    PROVE  /\ InCall'
           /\ \A u \in Tasks : ~Inside(u) /\ (Inside(u)' => u = t)
           /\ \A u \in Tasks : u # t => pc'[u] = pc[u] /\ req'[u] = req[u]
<1>1. \A u \in Tasks : ~Inside(u)
  BY StgManAssumption DEF Enter, CanLock, InCall
<1>2. req[t] \in Requests
  BY DEF Enter, InCall
<1>3. CASE \E code \in Codes : Return(t, code)
  BY <1>1, <1>3 DEF Return, Answer, TypeOK, InCall, Inside
<1>4. CASE /\ req[t].file # Unsafe
           /\ lock' = t
           /\ pc' = [pc EXCEPT ![t] = FirstStep[req[t].op]]
           /\ UNCHANGED <<req, reply>>
  <2>1. /\ pc'[t] = FirstStep[req[t].op]
        /\ \A u \in Tasks : u # t => pc'[u] = pc[u]
    BY <1>4 DEF TypeOK
  <2>2. req[t].op \in OpsAt[pc'[t]] /\ req[t].file \in Files
    BY <1>2, <1>4, <2>1, RequestFacts, FirstFacts
  <2> QED  BY <1>1, <1>2, <1>4, <2>1, <2>2 DEF InCall, Inside
<1> QED  BY <1>3, <1>4 DEF Enter, Codes

\* A call that begins disturbs nobody.
LEMMA CallStep ==
    ASSUME TypeOK, InCall, NEW t \in Tasks, Call(t)
    PROVE  /\ InCall'
           /\ \A u \in Tasks : Inside(u)' => u # t
           /\ \A u \in Tasks : u # t => pc'[u] = pc[u] /\ req'[u] = req[u]
<1>1. PICK r \in Requests :
        /\ lock' = IF r.op = "init" /\ lock = "null" THEN "free" ELSE lock
        /\ \/ \E code \in Codes : Answer(t, code, NoFile)
           \/ /\ pc' = [pc EXCEPT ![t] = "lock"]
              /\ req' = [req EXCEPT ![t] = r]
  BY DEF Call, Codes
<1>2. \A u \in Tasks : Inside(u) => lock' = lock
  BY <1>1, StgManAssumption DEF InCall
<1>3. /\ \/ pc'[t] = "idle"
         \/ pc'[t] = "lock" /\ req'[t] \in Requests
      /\ \A u \in Tasks : u # t => pc'[u] = pc[u] /\ req'[u] = req[u]
  BY <1>1 DEF Answer, TypeOK
<1> QED  BY <1>2, <1>3 DEF InCall, Inside

\* Every step keeps the mutex and the labels.
LEMMA InCallStep ==
    ASSUME TypeOK, InCall, OnTheDisk, [Next]_vars
    PROVE  InCall'
<1>1. CASE Crash
  BY <1>1 DEF Crash, InCall, Inside
<1>2. CASE UNCHANGED vars
  BY <1>2 DEF vars, InCall, Inside
<1> QED  BY <1>1, <1>2, CallStep, EnterStep, LabelStep, InsideStep DEF Next

\* Every step keeps the mutex with a task inside, and there for all who wait.
LEMMA NoLostMutexStep ==
    ASSUME TypeOK, InCall, OnTheDisk, NoLostMutex, [Next]_vars
    PROVE  NoLostMutex'
<1>1. ASSUME NEW t \in Tasks, Call(t)  PROVE  NoLostMutex'
  <2>1. \A u \in Tasks : u # t => pc'[u] = pc[u]
    BY <1>1, CallStep
  <2>2. pc[t] = "idle" /\ (lock' = "null" => pc'[t] = "idle")
    BY <1>1 DEF Call, Answer, TypeOK
  <2>3. /\ lock' = "null" => lock = "null"
        /\ lock' \in Tasks => lock' = lock
    BY <1>1, StgManAssumption DEF Call
  <2> QED  BY <2>1, <2>2, <2>3 DEF NoLostMutex, Inside
<1>2. ASSUME NEW t \in Tasks, Enter(t)  PROVE  NoLostMutex'
  <2>1. CASE \E code \in Codes : Return(t, code)
    BY <2>1, StgManAssumption DEF Return, Unlock, NoLostMutex
  <2>2. CASE lock' = t /\ pc' = [pc EXCEPT ![t] = FirstStep[req[t].op]]
    <3>1. req[t] \in Requests
      BY <1>2 DEF Enter, InCall
    <3>2. pc'[t] \in {"mount", "unmount", "format", "stat", "read"}
      BY <2>2, <3>1, RequestFacts, FirstFacts DEF TypeOK
    <3> QED  BY <2>2, <3>2, StgManAssumption DEF NoLostMutex, Inside
  <2> QED  BY <1>2, <2>1, <2>2 DEF Enter, Codes
<1>3. ASSUME NEW t \in Tasks, Step(t), ~Enter(t)  PROVE  NoLostMutex'
  <2>1. Inside(t) /\ lock = t
    BY <1>3, LabelStep DEF InCall
  <2>2. \/ lock' = "free"
        \/ \E l \in Pcs \ {"idle", "lock"} : Goto(t, l)
    BY <1>3, LabelStep
  <2>3. CASE lock' = "free"
    BY <2>3, StgManAssumption DEF NoLostMutex
  <2>4. CASE \E l \in Pcs \ {"idle", "lock"} : Goto(t, l)
    <3>1. lock' = t /\ pc'[t] \notin {"idle", "lock"}
      BY <2>1, <2>4 DEF Goto, TypeOK
    <3> QED  BY <3>1, StgManAssumption DEF NoLostMutex, Inside
  <2> QED  BY <2>2, <2>3, <2>4
<1>4. CASE Crash
  BY <1>4, StgManAssumption DEF Crash, NoLostMutex
<1>5. CASE UNCHANGED vars
  BY <1>5 DEF vars, NoLostMutex, Inside
<1> QED  BY <1>1, <1>2, <1>3, <1>4, <1>5 DEF Next
-----------------------------------------------------------------------------
(* What the task inside knows, and what was acknowledged.                  *)

\* Every step keeps what the task inside knows of the disk.
LEMMA OnTheDiskStep ==
    ASSUME TypeOK, InCall, OnTheDisk, Durable, [Next]_vars
    PROVE  OnTheDisk'
<1>1. ASSUME NEW t \in Tasks, Call(t)  PROVE  OnTheDisk'
  <2>1. UNCHANGED <<disk, acked, old>>
    BY <1>1 DEF Call
  <2>2. \A u \in Tasks : Inside(u)' => pc'[u] = pc[u] /\ req'[u] = req[u]
    BY <1>1, CallStep
  <2> QED  BY <2>1, <2>2 DEF OnTheDisk, Inside
<1>2. ASSUME NEW t \in Tasks, Enter(t)  PROVE  OnTheDisk'
  <2>1. \A u \in Tasks : Inside(u)' => u = t
    BY <1>2, EnterStep
  <2>2. CASE pc'[t] = "idle"
    BY <2>1, <2>2 DEF OnTheDisk, Inside
  <2>3. CASE /\ req[t].file # Unsafe
             /\ pc' = [pc EXCEPT ![t] = FirstStep[req[t].op]]
             /\ acked' = IF req[t].op = "write"
                         THEN [acked EXCEPT ![req[t].file] = NoFile] ELSE acked
             /\ UNCHANGED req
    <3>1. req[t] \in Requests
      BY <1>2 DEF Enter, InCall
    <3>2. pc'[t] \in {"mount", "unmount", "format", "stat", "read"}
      BY <2>3, <3>1, RequestFacts, FirstFacts DEF TypeOK
    <3>3. req[t].op = "write" => acked'[req'[t].file] = NoFile
      BY <2>3, <3>1, RequestFacts DEF TypeOK
    <3> QED  BY <2>1, <2>3, <3>2, <3>3 DEF OnTheDisk, Inside
  <2>4. (\E code : Answer(t, code, NoFile)) => pc'[t] = "idle"
    BY DEF Answer, TypeOK
  <2> QED  BY <1>2, <2>2, <2>3, <2>4 DEF Enter, Return
<1>3. ASSUME NEW t \in Tasks, Step(t), ~Enter(t)  PROVE  OnTheDisk'
  <2> DEFINE f == req[t].file
  <2>1. /\ \A u \in Tasks : Inside(u)' => u = t
        /\ pc'[t] = "idle" \/ req'[t] = req[t]
    BY <1>3, LabelStep, InsideStep
  <2>2. Inside(t) /\ f \in Files /\ req[t].val \in Data
    BY <1>3, LabelStep, RequestFacts DEF InCall, TypeOK
  <2>3. SUFFICES ASSUME pc'[t] # "idle"
                 PROVE  /\ req[t].op = "write" => acked'[f] = NoFile
                        /\ pc'[t] = "heal" => disk'[f].kind \in {"absent", "short"}
                        /\ pc'[t] = "overwrite" => acked'[f] = NoFile
                        /\ pc'[t] = "healing" => disk'[f] = Short
                        /\ pc'[t] \in {"remove", "rename"} =>
                             disk'[Tmp] = Whole(req[t].val)
                        /\ pc'[t] = "rename" => disk'[f] = Absent \/ ValueOf(disk'[f]) = old'
    BY <2>1 DEF OnTheDisk, Inside
  <2>4. \A code, data : ~Answer(t, code, data)
    BY <2>3 DEF Answer, TypeOK
  <2>5. \A l : Goto(t, l) => pc'[t] = l
    BY DEF Goto, TypeOK
  <2>6. req[t].op = "write" => acked[f] = NoFile
    BY <2>2 DEF OnTheDisk
  <2> USE DEF Return
  <2>7. CASE Mount(t) \/ Unmount(t) \/ Clean(t) \/ Read(t)
    BY <2>4, <2>7 DEF Mount, Unmount, Clean, Read
  <2>8. CASE Format(t)
    <3>1. pc'[t] = "stat" /\ Wipe
      BY <2>4, <2>5, <2>8 DEF Format
    <3> QED  BY <2>2, <3>1, WipeType
  <2>9. CASE Stat(t)
    <3>1. pc'[t] \in {"heal", "overwrite", "tmp"} /\ UNCHANGED disk
      BY <2>4, <2>5, <2>9 DEF Stat, Validated
    <3>2. pc'[t] = "heal" => disk[f].kind \in {"absent", "short"}
      BY <2>4, <2>5, <2>9 DEF Stat, Validated
    <3>3. /\ acked'[f] \in {acked[f], NoFile}
          /\ pc'[t] = "overwrite" => acked'[f] = NoFile
      BY <2>2, <2>4, <2>5, <2>9 DEF Stat, Validated, TypeOK
    <3> QED  BY <2>6, <3>1, <3>2, <3>3
  <2>10. CASE Heal(t) \/ Healing(t)
    <3>1. pc'[t] \in {"healing", "tmp"} /\ UNCHANGED acked
      BY <2>4, <2>5, <2>10 DEF Heal, Healing, Validated
    <3>2. pc'[t] = "healing" => Put(f, Short)
      BY <2>4, <2>5, <2>10 DEF Heal, Healing, Validated
    <3> QED  BY <2>2, <2>6, <3>1, <3>2, PutType, ContentFacts
  <2>11. CASE OpenTmp(t) \/ Fill(t)
    <3>1. pc'[t] \in {"fill", "remove", "clean"} /\ UNCHANGED acked
      BY <2>4, <2>5, <2>11 DEF OpenTmp, Fill
    <3>2. pc'[t] = "remove" => Put(Tmp, Whole(req[t].val))
      BY <2>4, <2>5, <2>11 DEF OpenTmp, Fill, Target
    <3> QED  BY <2>2, <2>6, <3>1, <3>2, PutTmpType, ContentFacts
  <2>12. CASE Remove(t)
    <3>1. pc'[t] = "rename" /\ UNCHANGED acked /\ old' = ValueOf(disk[f])
      BY <2>5, <2>12 DEF Remove
    <3>2. Put(f, Absent) \/ UNCHANGED disk
      BY <2>12 DEF Remove
    <3>3. disk[Tmp] = Whole(req[t].val)
      BY <2>12 DEF Remove, OnTheDisk
    <3> QED  BY <2>2, <2>6, <3>1, <3>2, <3>3, PutType, ContentFacts, StgManAssumption
  <2>13. CASE Rename(t)
    <3>1. pc'[t] = "clean" /\ UNCHANGED acked
      BY <2>4, <2>5, <2>13 DEF Rename, RenameFailed
    <3> QED  BY <2>6, <3>1
  <2> QED  BY <1>3, <2>7, <2>8, <2>9, <2>10, <2>11, <2>12, <2>13 DEF Step
<1>4. CASE Crash
  BY <1>4 DEF Crash, OnTheDisk, Inside
<1>5. CASE UNCHANGED vars
  BY <1>5 DEF vars, OnTheDisk, Inside
<1> QED  BY <1>1, <1>2, <1>3, <1>4, <1>5 DEF Next

\* Every step keeps what was acknowledged.
LEMMA DurableStep ==
    ASSUME TypeOK, InCall, OnTheDisk, Durable, [Next]_vars
    PROVE  Durable'
<1>1. ASSUME UNCHANGED <<disk, acked>>  PROVE  Durable'
  BY <1>1 DEF Durable
<1>2. ASSUME NEW c \in TmpContents, Put(Tmp, c), UNCHANGED acked  PROVE  Durable'
  BY <1>2, PutTmpType DEF Durable
<1>3. ASSUME NEW f \in Files, acked[f] = NoFile, NEW c \in Contents,
             Put(f, c), UNCHANGED acked
      PROVE  Durable'
  BY <1>3, PutType DEF Durable
<1>4. ASSUME Wipe  PROVE  Durable'
  BY <1>4, WipeType DEF Durable
<1>5. ASSUME NEW t \in Tasks, Call(t)  PROVE  Durable'
  BY <1>1, <1>5 DEF Call
<1>6. ASSUME NEW t \in Tasks, Enter(t)  PROVE  Durable'
  <2>1. UNCHANGED disk
    BY <1>6 DEF Enter
  <2>2. \A f \in Files : acked'[f] \in {acked[f], NoFile}
    BY <1>6 DEF Enter, TypeOK
  <2> QED  BY <2>1, <2>2 DEF Durable
<1>7. ASSUME NEW t \in Tasks, Step(t), ~Enter(t)  PROVE  Durable'
  <2> DEFINE f == req[t].file
  <2>1. Inside(t) /\ f \in Files /\ req[t].val \in Data
    BY <1>7, LabelStep, RequestFacts DEF InCall, TypeOK
  <2>2. req[t].op = "write" => acked[f] = NoFile
    BY <2>1 DEF OnTheDisk
  <2>3. CASE Mount(t) \/ Unmount(t) \/ Read(t)
    BY <1>1, <2>3 DEF Mount, Unmount, Read
  <2>4. CASE Format(t)
    BY <1>1, <1>4, <2>4 DEF Format
  <2>5. CASE Heal(t) \/ Healing(t)
    <3>1. acked[f] = NoFile
      BY <2>1, <2>5, ContentFacts DEF Heal, Healing, OnTheDisk, Durable
    <3> QED  BY <1>1, <1>3, <2>1, <2>5, <3>1, ContentFacts DEF Heal, Healing, Data
  <2>6. CASE OpenTmp(t) \/ Fill(t) \/ Clean(t)
    <3>1. UNCHANGED disk \/ \E c \in TmpContents : Put(Tmp, c)
      BY <2>1, <2>6, ContentFacts DEF OpenTmp, Fill, Clean, Target
    <3> QED  BY <1>1, <1>2, <2>6, <3>1 DEF OpenTmp, Fill, Clean
  <2>7. CASE Remove(t)
    <3>1. acked[f] = NoFile
      BY <2>1, <2>2, <2>7, LabelFacts DEF Remove, InCall
    <3> QED  BY <1>1, <1>3, <2>1, <2>7, <3>1, ContentFacts DEF Remove
  <2>8. CASE Rename(t)
    <3>1. disk[Tmp] = Whole(req[t].val)
      BY <2>8 DEF Rename, OnTheDisk
    <3>2. CASE disk' = [disk EXCEPT ![f] = disk[Tmp], ![Tmp] = Absent] /\ Return(t, "ok")
      <4>1. acked' = [acked EXCEPT ![f] = req[t].val]
        BY <2>8, <3>2 DEF Rename, Return, Answer, TypeOK
      <4>2. disk'[f] = Whole(req[t].val) /\ \A g \in Files : g # f => disk'[g] = disk[g]
        BY <2>1, <3>1, <3>2, StgManAssumption DEF TypeOK
      <4> QED  BY <2>1, <4>1, <4>2 DEF Durable, TypeOK
    <3>3. CASE Goto(t, "clean") /\ UNCHANGED disk
      BY <1>1, <2>8, <3>3 DEF Rename, Goto, TypeOK
    <3> QED  BY <2>8, <3>2, <3>3 DEF Rename, RenameFailed
  <2>9. CASE Stat(t)
    <3>1. UNCHANGED disk /\ \A g \in Files : acked'[g] \in {acked[g], NoFile}
      BY <2>9 DEF Stat, TypeOK
    <3> QED  BY <3>1 DEF Durable
  <2> QED  BY <1>7, <2>3, <2>4, <2>5, <2>6, <2>7, <2>8, <2>9 DEF Step
<1>8. CASE Crash
  <2>1. CASE UNCHANGED <<disk, acked>>
    BY <1>1, <2>1
  <2>2. CASE Wipe
    BY <1>4, <2>2
  <2>3. CASE \E t \in Tasks : Put(Tmp, Torn(req[t].val)) /\ UNCHANGED acked
    <3>1. PICK t \in Tasks : Put(Tmp, Torn(req[t].val)) /\ UNCHANGED acked
      BY <2>3
    <3>2. Torn(req[t].val) \in TmpContents
      BY ContentFacts, RequestFacts DEF TypeOK
    <3> QED  BY <1>2, <3>1, <3>2
  <2> QED  BY <1>8, <2>1, <2>2, <2>3 DEF Crash, Target
<1>9. CASE UNCHANGED vars
  BY <1>1, <1>9 DEF vars
<1> QED  BY <1>5, <1>6, <1>7, <1>8, <1>9 DEF Next
-----------------------------------------------------------------------------
(* The invariant and what follows from it.                                 *)

\* Every step keeps the volume mounted for the task inside: s_inited is changed only
\* by the task that holds the mutex, and read again by the next one.
LEMMA MountStep ==
    ASSUME TypeOK, InCall, MountInv, [Next]_vars
    PROVE  MountInv'
<1>1. ASSUME NEW t \in Tasks, Call(t)  PROVE MountInv'
  <2>1. \A u \in Tasks : Inside(u)' => pc'[u] = pc[u]
    BY <1>1, CallStep
  <2>2. UNCHANGED memVars
    BY <1>1 DEF Call
  <2> QED  BY <2>1, <2>2 DEF MountInv, memVars, Inside
<1>2. ASSUME NEW t \in Tasks, Enter(t)  PROVE MountInv'
  <2>1. UNCHANGED memVars
    BY <1>2 DEF Enter
  <2>2. \A u \in Tasks : Inside(u)' => u = t
    BY <1>2, EnterStep
  <2>3. CASE inited
    BY <2>1, <2>3 DEF MountInv, memVars
  <2>4. CASE ~inited
    <3>1. req[t] \in Requests /\ req[t].op \in Ops
      BY <1>2, RequestFacts DEF Enter, InCall
    <3>2. CASE req[t].op = "init"
      <4>1. \/ \E code \in Codes : Return(t, code)
            \/ pc' = [pc EXCEPT ![t] = FirstStep["init"]]
        BY <1>2, <3>2 DEF Enter, Codes
      <4>2. pc'[t] \in {"idle", "mount"}
        BY <4>1 DEF Return, Answer, TypeOK, FirstStep
      <4> QED  BY <2>1, <2>2, <2>4, <4>2 DEF MountInv, memVars, Inside
    <3>3. CASE req[t].op # "init"
      <4>1. \E code \in Codes : Return(t, code)
        BY <1>2, <2>4, <3>3 DEF Enter, Ready, Codes
      <4>2. pc'[t] = "idle"
        BY <4>1 DEF Return, Answer, TypeOK
      <4> QED  BY <2>1, <2>2, <2>4, <4>2 DEF MountInv, memVars, Inside
    <3> QED  BY <3>2, <3>3
  <2> QED  BY <2>3, <2>4
<1>3. ASSUME NEW t \in Tasks, Mount(t) \/ Unmount(t)  PROVE MountInv'
  <2>1. inited' => mounted' # "no"
    BY <1>3 DEF Mount, Unmount
  <2>2. pc'[t] = "idle" /\ \A u \in Tasks : u # t => pc'[u] = pc[u]
    BY <1>3 DEF Mount, Unmount, Return, Answer, TypeOK
  <2>3. Inside(t)
    BY <1>3 DEF Mount, Unmount, Inside
  <2>4. \A u \in Tasks : ~Inside(u)'
    BY <2>2, <2>3, OneInside DEF Inside
  <2> QED  BY <2>1, <2>4 DEF MountInv
<1>4. ASSUME NEW t \in Tasks, 
             \/ Format(t) \/ Stat(t) \/ Heal(t) \/ Healing(t) \/ OpenTmp(t)
             \/ Fill(t) \/ Remove(t) \/ Rename(t) \/ Clean(t) \/ Read(t)
      PROVE  MountInv'
  <2>1. Inside(t) /\ pc[t] # "mount" /\ UNCHANGED inited
    BY <1>4 DEF Format, Stat, Heal, Healing, OpenTmp, Fill, Remove, Rename,
       Clean, Read, Inside, memVars
  <2>2. mounted' \in {mounted, "lost"}
    BY <1>4 DEF Format, Stat, Heal, Healing, OpenTmp, Fill, Remove, Rename,
       Clean, Read, memVars
  <2> QED  BY <2>1, <2>2 DEF MountInv
<1>5. CASE Crash
  BY <1>5 DEF Crash, MountInv, Inside
<1>6. CASE UNCHANGED vars
  BY <1>6 DEF vars, memVars, MountInv, Inside
<1> QED  BY <1>1, <1>2, <1>3, <1>4, <1>5, <1>6 DEF Next, Step

\* The initial states satisfy the inductive invariant.
LEMMA InitIInv == Init => IInv
<1> SUFFICES ASSUME Init  PROVE  IInv
  OBVIOUS
<1>1. TypeOK
  <2>1. disk \in [Files \cup {Tmp} -> TmpContents] /\ \A f \in Files : disk[f] \in Contents
    <3>1. FirstDisk \subseteq Contents /\ Contents \subseteq TmpContents
      BY StgManAssumption, ContentFacts
    <3>2. disk \in [Files \cup {Tmp} -> FirstDisk]
      BY DEF Init
    <3> QED  BY <3>1, <3>2
  <2>2. reply \in [Tasks -> [code : Codes, data : Data \cup {NoFile}]]
    <3>1. [code |-> "none", data |-> NoFile] \in [code : Codes, data : Data \cup {NoFile}]
      BY DEF Codes
    <3> QED  BY <3>1 DEF Init
  <2>3. calls \in 0..MaxCalls /\ crashes \in 0..MaxCrashes
    BY StgManAssumption DEF Init
  <2>4. /\ pc \in [Tasks -> Pcs]
        /\ req \in [Tasks -> Requests \cup {NoRequest}]
        /\ acked \in [Files -> Data \cup {NoFile}]
    BY DEF Init, Pcs
  <2> QED  BY <2>1, <2>2, <2>3, <2>4 DEF Init, TypeOK
<1>2. InCall /\ OnTheDisk /\ Durable /\ MountInv
  BY DEF Init, InCall, OnTheDisk, Durable, MountInv, Inside
<1>3. NoLostMutex
  BY StgManAssumption DEF Init, NoLostMutex
<1> QED  BY <1>1, <1>2, <1>3 DEF IInv

\* The inductive invariant is preserved by every step.
LEMMA NextIInv == IInv /\ [Next]_vars => IInv'
BY TypeStep, InCallStep, NoLostMutexStep, OnTheDiskStep, DurableStep, MountStep
   DEF IInv

\* The inductive invariant holds of the storage manager.
THEOREM Invariance == Spec => []IInv
BY InitIInv, NextIInv, PTL DEF Spec

\* Every variable keeps its type, and no file but the temporary one is ever torn,
\* whenever the power fails.
THEOREM TypeCorrect == Spec => []TypeOK
<1>1. IInv => TypeOK
  BY DEF IInv
<1> QED  BY <1>1, Invariance, PTL

\* What was acknowledged can be read until the file is written again, the volume
\* formatted, or the file taken for a missing one by a stat() or an fread that fails,
\* across any number of power losses and of failures of other files' calls.
THEOREM AcknowledgedIsDurable == Spec => []Durable
<1>1. IInv => Durable
  BY DEF IInv
<1> QED  BY <1>1, Invariance, PTL

\* A call that waited for the mutex while another task took the volume down does not
\* go on without it, unless a format that failed has taken it away.
THEOREM MountedForCalls == Spec => []MountedWhileInside
<1>1. IInv => MountedWhileInside
  BY DEF IInv, MountInv, MountedWhileInside
<1> QED  BY <1>1, Invariance, PTL

\* Whoever waits for the mutex waits for a task that is inside a call: no way out of
\* any function keeps it.
THEOREM MutexIsGivenBack == Spec => []NoLostMutex
<1>1. IInv => NoLostMutex
  BY DEF IInv
<1> QED  BY <1>1, Invariance, PTL

\* The number of steps left falls from label to label.
LEMMA StepsFacts ==
    /\ StepsLeft["idle"] = 0
    /\ StepsLeft["mount"] = 1 /\ StepsLeft["unmount"] = 1 /\ StepsLeft["read"] = 1
    /\ StepsLeft["clean"] = 1 /\ StepsLeft["rename"] = 2 /\ StepsLeft["remove"] = 3
    /\ StepsLeft["fill"] = 4 /\ StepsLeft["tmp"] = 5 /\ StepsLeft["healing"] = 6
    /\ StepsLeft["heal"] = 7 /\ StepsLeft["overwrite"] = 7
    /\ StepsLeft["stat"] = 8 /\ StepsLeft["format"] = 9
    /\ StepsLeft["lock"] = 10
BY DEF StepsLeft, Pcs, Replacing

\* Every step of a task inside brings its call nearer to its return.
LEMMA AdvanceStep ==
    ASSUME TypeOK, InCall, NEW t \in Tasks, Step(t)
    PROVE  StepsLeft[pc'[t]] < StepsLeft[pc[t]]
<1>1. /\ \A code : Return(t, code) => pc'[t] = "idle"
      /\ \A code, data : Answer(t, code, data) => pc'[t] = "idle"
      /\ \A l : Goto(t, l) => pc'[t] = l
  BY DEF Return, Answer, Goto, TypeOK
<1>2. CASE Enter(t)
  <2>1. req[t] \in Requests /\ req[t].op \in Ops
    BY <1>2, RequestFacts DEF Enter, InCall
  <2>2. \/ pc'[t] = "idle"
        \/ pc'[t] = FirstStep[req[t].op]
    BY <1>1, <1>2 DEF Enter, TypeOK
  <2>3. pc[t] = "lock"
        /\ pc'[t] \in {"idle", "mount", "unmount", "format", "stat", "read"}
    BY <1>2, <2>1, <2>2, FirstFacts DEF Enter
  <2> QED  BY <2>3, StepsFacts
<1>3. CASE Mount(t) \/ Unmount(t) \/ Read(t) \/ Clean(t)
  <2>1. pc[t] \in {"mount", "unmount", "read", "clean"} /\ pc'[t] = "idle"
    BY <1>1, <1>3 DEF Mount, Unmount, Read, Clean
  <2> QED  BY <2>1, StepsFacts
<1>4. CASE Format(t)
  <2>1. pc[t] = "format" /\ pc'[t] \in {"idle", "stat"}
    BY <1>1, <1>4 DEF Format
  <2> QED  BY <2>1, StepsFacts
<1>5. CASE Stat(t) \/ Heal(t) \/ Healing(t)
  <2>1. Validated(t) => pc'[t] \in {"idle", "tmp"}
    BY <1>1 DEF Validated
  <2>2. \/ pc[t] = "stat" /\ pc'[t] \in {"idle", "tmp", "heal", "overwrite"}
        \/ pc[t] \in {"heal", "overwrite"} /\ pc'[t] \in {"idle", "healing"}
        \/ pc[t] = "healing" /\ pc'[t] \in {"idle", "tmp"}
    BY <1>1, <1>5, <2>1 DEF Stat, Heal, Healing
  <2> QED  BY <2>2, StepsFacts
<1>6. CASE OpenTmp(t) \/ Fill(t) \/ Remove(t) \/ Rename(t)
  <2>1. \/ pc[t] = "tmp" /\ pc'[t] \in {"idle", "fill"}
        \/ pc[t] = "fill" /\ pc'[t] \in {"remove", "clean"}
        \/ pc[t] = "remove" /\ pc'[t] = "rename"
        \/ pc[t] = "rename" /\ pc'[t] \in {"idle", "clean"}
    BY <1>1, <1>6 DEF OpenTmp, Fill, Remove, Rename, RenameFailed
  <2> QED  BY <2>1, StepsFacts
<1> QED  BY <1>2, <1>3, <1>4, <1>5, <1>6 DEF Step

\* A call returns within ten steps of its own, whatever the file system refuses.
THEOREM CallsGoOn == Spec => CallsAdvance
<1>1. IInv /\ [Next]_vars =>
        [\A t \in Tasks : Step(t) => StepsLeft[pc'[t]] < StepsLeft[pc[t]]]_vars
  BY AdvanceStep DEF IInv
<1> QED  BY <1>1, Invariance, PTL DEF Spec, CallsAdvance
-----------------------------------------------------------------------------
(* The storage manager implements StgStore.  Away from the label "rename"  *)
(* what is stored is what a reader would find; the mutex keeps that label  *)
(* to one task at a time.                                                  *)

NobodyRenames == \A t \in Tasks : pc[t] # "rename"

\* A task inside at another label knows that nobody is at "rename"; so does anyone
\* who finds the mutex free.
LEMMA RenamesAlone ==
    ASSUME InCall
    PROVE  /\ \A t \in Tasks : Inside(t) /\ pc[t] # "rename" => NobodyRenames
           /\ CanLock /\ TypeOK => NobodyRenames
<1>1. ASSUME NEW t \in Tasks, Inside(t), pc[t] # "rename"  PROVE NobodyRenames
  BY <1>1, OneInside DEF NobodyRenames, Inside
<1>2. ASSUME CanLock, TypeOK  PROVE NobodyRenames
  <2>1. \A t \in Tasks : t # "free"
    BY StgManAssumption
  <2>2. \A t \in Tasks : Inside(t) => lock = t
    BY DEF InCall
  <2>3. \A t \in Tasks : pc[t] = "rename" => Inside(t)
    BY DEF Inside
  <2> QED  BY <1>2, <2>1, <2>2, <2>3 DEF NobodyRenames, CanLock
<1> QED  BY <1>1, <1>2

\* What is stored while nobody is at "rename".
LEMMA StoredPlain ==
    /\ NobodyRenames => StoredOf = [f \in Files |-> ValueOf(disk[f])]
    /\ NobodyRenames' => StoredOf' = [f \in Files |-> ValueOf(disk[f])']
BY DEF NobodyRenames, StoredOf

\* Writing one file writes that register.
LEMMA StoredPut ==
    ASSUME TypeOK, NobodyRenames, NobodyRenames', NEW f \in Files, NEW c \in Contents,
           Put(f, c)
    PROVE  StoredOf' = [StoredOf EXCEPT ![f] = ValueOf(c)]
<1>1. \A g \in Files : ValueOf(disk[g])' = IF g = f THEN ValueOf(c) ELSE ValueOf(disk[g])
  BY PutType DEF ValueOf
<1> QED  BY <1>1, StoredPlain

\* A step that leaves every file as it was, or writes the temporary one, leaves
\* what is stored.
LEMMA StoredKept ==
    ASSUME TypeOK, NobodyRenames, NobodyRenames',
           \A g \in Files : disk'[g] = disk[g]
    PROVE  UNCHANGED StoredOf
<1>1. \A g \in Files : ValueOf(disk[g])' = ValueOf(disk[g])
  BY DEF ValueOf
<1> QED  BY <1>1, StoredPlain

\* A format empties every register.
LEMMA StoredWiped ==
    ASSUME NobodyRenames', Wipe
    PROVE  StoredOf' = [f \in Files |-> NoFile]
<1>1. \A g \in Files : ValueOf(disk[g])' = NoFile
  BY WipeType DEF ValueOf, Absent
<1> QED  BY <1>1, StoredPlain

\* The end of a call is one of StgStore, and leaves nobody new at "rename".
LEMMA AnswerMaps ==
    ASSUME TypeOK, NEW t \in Tasks, NEW code, NEW data, Answer(t, code, data)
    PROVE  /\ Store!Ends(t, code, data)
           /\ pc'[t] = "idle"
           /\ \A u \in Tasks : u # t => pc'[u] = pc[u] /\ req'[u] = req[u]
BY DEF TypeOK, Answer, Store!Ends, BusyWith

\* A step between two labels is none of StgStore's by itself.
LEMMA GotoMaps ==
    ASSUME TypeOK, NEW t \in Tasks, Inside(t), NEW label \in Pcs \ {"idle", "lock"},
           Goto(t, label)
    PROVE  /\ UNCHANGED <<BusyWith, reply>>
           /\ pc'[t] = label
           /\ \A u \in Tasks : u # t => pc'[u] = pc[u] /\ req'[u] = req[u]
BY DEF TypeOK, Goto, BusyWith, Inside

\* What StgStore sees of a task inside.
LEMMA BusyIs ==
    ASSUME InCall, NEW t \in Tasks, Inside(t)
    PROVE  /\ BusyWith[t] = req[t]
           /\ BusyWith[t] # NoRequest
           /\ req[t].file \in Files
           /\ req[t].op \in OpsAt[pc[t]]
BY RequestFacts DEF InCall, Inside, BusyWith

\* A call that ends where the disk is as it was, with an answer that acknowledges
\* nothing.
LEMMA EndsWithout ==
    ASSUME TypeOK, InCall, NEW t \in Tasks, Inside(t), pc[t] # "rename",
           NEW code \in {"ok", "size", "fail", "state", "version", "nomem"},
           req[t].op \in {"read", "write"} => code # "ok",
           Answer(t, code, NoFile), \A g \in Files : disk'[g] = disk[g]
    PROVE  Store!DoneWithout(t)
<1>1. NobodyRenames /\ NobodyRenames'
  BY RenamesAlone, AnswerMaps DEF NobodyRenames
<1>2. UNCHANGED StoredOf
  BY <1>1, StoredKept
<1> QED  BY <1>2, AnswerMaps, BusyIs DEF Store!DoneWithout

\* A step between two labels, neither of them "rename", with the files as they were.
LEMMA GoesOn ==
    ASSUME TypeOK, InCall, NEW t \in Tasks, Inside(t), pc[t] # "rename",
           NEW label \in Pcs \ {"idle", "lock", "rename"}, Goto(t, label),
           \A g \in Files : disk'[g] = disk[g]
    PROVE  UNCHANGED Store!storeVars
<1>1. NobodyRenames /\ NobodyRenames'
  BY RenamesAlone, GotoMaps DEF NobodyRenames
<1> QED  BY <1>1, StoredKept, GotoMaps DEF Store!storeVars

\* Each step of the storage manager is one of StgStore, or none.
LEMMA StoreStep ==
    ASSUME IInv, [Next]_vars
    PROVE  [Store!StoreNext]_(Store!storeVars)
<1> USE DEF IInv
<1> DEFINE Stutters == UNCHANGED Store!storeVars
<1>0. SUFFICES Stutters \/ Store!StoreNext
  OBVIOUS
<1>1. ASSUME NEW t \in Tasks, Call(t)  PROVE  Stutters \/ Store!Refused(t)
  <2>1. UNCHANGED <<disk, old>>
    BY <1>1 DEF Call
  <2>2. CASE \E code \in {"ok", "state"} : Answer(t, code, NoFile)
    <3>1. PICK code \in {"ok", "state"} : Answer(t, code, NoFile)
      BY <2>2
    <3>2. UNCHANGED StoredOf
      BY <1>1, <2>1, <3>1, AnswerMaps DEF Call, StoredOf, ValueOf
    <3>3. BusyWith[t] = NoRequest
      BY <1>1 DEF Call, BusyWith
    <3> QED  BY <3>1, <3>2, <3>3, AnswerMaps DEF Store!Refused
  <2>3. CASE \E r \in Requests : /\ pc' = [pc EXCEPT ![t] = "lock"]
                                 /\ req' = [req EXCEPT ![t] = r]
                                 /\ UNCHANGED reply
    <3>1. /\ pc[t] = "idle" /\ pc'[t] = "lock"
          /\ \A u \in Tasks : u # t => pc'[u] = pc[u] /\ req'[u] = req[u]
      BY <1>1, <2>3 DEF Call, TypeOK
    <3>2. UNCHANGED BusyWith
      BY <3>1 DEF BusyWith
    <3>3. UNCHANGED StoredOf
      BY <2>1, <3>1 DEF StoredOf, ValueOf
    <3> QED  BY <2>3, <3>2, <3>3 DEF Store!storeVars
  <2> QED  BY <1>1, <2>2, <2>3 DEF Call
<1>2. ASSUME NEW t \in Tasks, Enter(t)  PROVE  Store!Refused(t) \/ Store!Begins(t)
  <2>1. /\ pc[t] = "lock" /\ CanLock /\ UNCHANGED disk
        /\ BusyWith[t] = NoRequest /\ req[t] \in Requests
    BY <1>2 DEF Enter, BusyWith, InCall
  <2>2. NobodyRenames
    BY <2>1, RenamesAlone
  <2>3. CASE \E code \in {"ok", "state", "arg"} : Answer(t, code, NoFile)
    <3>1. PICK code \in {"ok", "state", "arg"} : Answer(t, code, NoFile)
      BY <2>3
    <3>2. UNCHANGED StoredOf
      BY <2>1, <2>2, <3>1, AnswerMaps, StoredKept DEF NobodyRenames
    <3> QED  BY <2>1, <3>1, <3>2, AnswerMaps DEF Store!Refused
  <2>4. CASE pc' = [pc EXCEPT ![t] = FirstStep[req[t].op]] /\ UNCHANGED <<req, reply>>
    <3>1. FirstStep[req[t].op] \in {"mount", "unmount", "format", "stat", "read"}
      BY <2>1, RequestFacts, FirstFacts
    <3>2. /\ pc'[t] \in {"mount", "unmount", "format", "stat", "read"}
          /\ \A u \in Tasks : u # t => pc'[u] = pc[u]
      BY <2>4, <3>1 DEF TypeOK
    <3>3. BusyWith' = [BusyWith EXCEPT ![t] = req[t]]
      BY <2>4, <3>2 DEF BusyWith
    <3>4. UNCHANGED StoredOf
      BY <2>1, <2>2, <3>2, StoredKept DEF NobodyRenames
    <3> QED  BY <2>1, <2>4, <3>3, <3>4 DEF Store!Begins
  <2> QED  BY <1>2, <2>3, <2>4 DEF Enter, Return
<1>3. ASSUME NEW t \in Tasks, Mount(t)  PROVE  Store!DoneWithout(t)
  BY <1>3, EndsWithout, BusyIs, LabelFacts DEF Mount, Return, Inside
<1>4. ASSUME NEW t \in Tasks, Unmount(t)  PROVE  Store!DoneWithout(t)
  BY <1>4, EndsWithout, BusyIs, LabelFacts DEF Unmount, Return, Inside
<1>5. ASSUME NEW t \in Tasks, Format(t)  PROVE  Store!Formatted(t) \/ Store!DoneWithout(t)
  <2>1. pc[t] = "format" /\ Inside(t) /\ req[t].op = "format"
    BY <1>5, BusyIs, LabelFacts DEF Format, Inside
  <2>2. CASE Wipe /\ Goto(t, "stat")
    <3>1. /\ NobodyRenames'
          /\ UNCHANGED <<BusyWith, reply>>
      BY <2>1, <2>2, RenamesAlone, GotoMaps DEF NobodyRenames, Pcs
    <3> QED  BY <2>1, <2>2, <3>1, StoredWiped, BusyIs DEF Store!Formatted
  <2>3. CASE Wipe /\ Return(t, "fail")
    <3>1. NobodyRenames' /\ Store!Ends(t, "fail", NoFile)
      BY <2>1, <2>3, RenamesAlone, AnswerMaps DEF NobodyRenames, Return
    <3> QED  BY <2>1, <2>3, <3>1, StoredWiped, BusyIs DEF Store!Formatted
  <2>4. CASE Return(t, "fail") /\ UNCHANGED disk
    BY <2>1, <2>4, EndsWithout DEF Return
  <2> QED  BY <1>5, <2>2, <2>3, <2>4 DEF Format
<1>6. ASSUME NEW t \in Tasks, Stat(t)  PROVE  Stutters \/ Store!DoneWithout(t)
  <2>1. pc[t] = "stat" /\ Inside(t) /\ UNCHANGED disk
    BY <1>6 DEF Stat, Inside
  <2>2. req[t].op \in {"write", "check", "format"}
    BY <2>1, BusyIs, LabelFacts
  <2>3. CASE \E label \in {"heal", "overwrite", "tmp"} : Goto(t, label)
    BY <2>1, <2>3, GoesOn DEF Pcs, Replacing
  <2>4. CASE \E code \in {"fail", "state", "version"} : Return(t, code)
    BY <2>1, <2>4, EndsWithout DEF Return
  <2>5. CASE Return(t, "ok") /\ req[t].op # "write"
    BY <2>1, <2>2, <2>5, EndsWithout DEF Return
  <2> QED  BY <1>6, <2>3, <2>4, <2>5 DEF Stat, Validated
<1>7. ASSUME NEW t \in Tasks, Heal(t)  PROVE  Store!Lost(t) \/ Store!DoneWithout(t)
  <2>1. /\ pc[t] \in {"heal", "overwrite"} /\ Inside(t) /\ BusyWith[t] = req[t]
        /\ req[t].op \in {"write", "check", "format"} /\ req[t].file \in Files
    BY <1>7, BusyIs, LabelFacts DEF Heal, Inside
  <2>2. CASE Put(req[t].file, Short) /\ Goto(t, "healing")
    <3>1. NobodyRenames /\ NobodyRenames' /\ UNCHANGED <<BusyWith, reply>>
      BY <2>1, <2>2, RenamesAlone, GotoMaps DEF NobodyRenames, Pcs
    <3>2. StoredOf' = [StoredOf EXCEPT ![req[t].file] = NoFile]
      BY <2>1, <2>2, <3>1, StoredPut, ContentFacts DEF ValueOf
    <3> QED  BY <2>1, <3>1, <3>2 DEF Store!Lost
  <2>3. CASE Return(t, "fail") /\ UNCHANGED disk
    BY <2>1, <2>3, EndsWithout DEF Return
  <2> QED  BY <1>7, <2>2, <2>3 DEF Heal
<1>8. ASSUME NEW t \in Tasks, Healing(t)  PROVE  Store!Created(t) \/ Store!DoneWithout(t)
  <2>1. /\ pc[t] = "healing" /\ Inside(t) /\ BusyWith[t] = req[t]
        /\ req[t].op \in {"write", "check", "format"} /\ req[t].file \in Files
    BY <1>8, BusyIs, LabelFacts DEF Healing, Inside
  <2>2. NobodyRenames
    BY <2>1, RenamesAlone
  <2>3. CASE Put(req[t].file, Whole(NoData)) /\ (Validated(t) \/ Return(t, "fail"))
    <3>1. StoredOf[req[t].file] = NoFile
      BY <2>1, <2>2, StoredPlain, ContentFacts DEF OnTheDisk
    <3>2. /\ NobodyRenames'
          /\ \/ req[t].op = "write" /\ UNCHANGED <<BusyWith, reply>>
             \/ req[t].op # "write" /\ Store!Ends(t, "ok", NoFile)
             \/ Store!Ends(t, "fail", NoFile)
      <4>0. CASE Return(t, "fail")
        BY <2>1, <2>2, <4>0, AnswerMaps DEF NobodyRenames, Return
      <4>1. CASE Validated(t) /\ req[t].op = "write"
        <5>1. Goto(t, "tmp") /\ "tmp" \in Pcs \ {"idle", "lock"}
          BY <4>1 DEF Validated, Pcs, Replacing
        <5> QED  BY <2>1, <2>2, <4>1, <5>1, GotoMaps DEF NobodyRenames
      <4>2. CASE Validated(t) /\ req[t].op # "write"
        BY <2>1, <2>2, <4>2, AnswerMaps DEF NobodyRenames, Validated, Return
      <4> QED  BY <2>3, <4>0, <4>1, <4>2
    <3>3. StoredOf' = [StoredOf EXCEPT ![req[t].file] = NoData]
      <4>1. Whole(NoData) \in Contents /\ ValueOf(Whole(NoData)) = NoData
        BY ContentFacts DEF Data
      <4> QED  BY <2>1, <2>2, <2>3, <3>2, <4>1, StoredPut
    <3> QED  BY <2>1, <3>1, <3>2, <3>3 DEF Store!Created
  <2>4. CASE Return(t, "fail") /\ UNCHANGED disk
    BY <2>1, <2>4, EndsWithout DEF Return
  <2> QED  BY <1>8, <2>3, <2>4 DEF Healing
<1>9. ASSUME NEW t \in Tasks, OpenTmp(t)  PROVE  Stutters \/ Store!DoneWithout(t)
  <2>1. pc[t] = "tmp" /\ Inside(t)
    BY <1>9 DEF OpenTmp, Inside
  <2>2. CASE Put(Tmp, Short) /\ Goto(t, "fill")
    <3>1. \A g \in Files : disk'[g] = disk[g]
      BY <2>2, PutTmpType, ContentFacts
    <3> QED  BY <2>1, <2>2, <3>1, GoesOn DEF Pcs, Replacing
  <2>3. CASE Return(t, "fail") /\ UNCHANGED disk
    BY <2>1, <2>3, EndsWithout DEF Return
  <2> QED  BY <1>9, <2>2, <2>3 DEF OpenTmp, Target
<1>10. ASSUME NEW t \in Tasks, Fill(t)  PROVE  Stutters
  <2>1. pc[t] = "fill" /\ Inside(t)
    BY <1>10 DEF Fill, Inside
  <2>2. \A c \in TmpContents : Put(Tmp, c) => \A g \in Files : disk'[g] = disk[g]
    BY PutTmpType
  <2>3. req[t].val \in Data
    BY RequestFacts DEF TypeOK
  <2>4. \A g \in Files : disk'[g] = disk[g]
    BY <1>10, <2>2, <2>3, ContentFacts DEF Fill, Target
  <2>5. \E label \in {"remove", "clean"} : Goto(t, label)
    BY <1>10 DEF Fill
  <2> QED  BY <2>1, <2>4, <2>5, GoesOn DEF Pcs, Replacing
<1>11. ASSUME NEW t \in Tasks, Remove(t)  PROVE  Stutters
  <2> DEFINE f == req[t].file
  <2>1. /\ pc[t] = "remove" /\ Inside(t) /\ f \in Files
        /\ Goto(t, "rename") /\ req' = req /\ old' = ValueOf(disk[f])
    BY <1>11, BusyIs DEF Remove, Inside, Goto
  <2>2. NobodyRenames
    BY <2>1, RenamesAlone
  <2>3. /\ UNCHANGED <<BusyWith, reply>> /\ pc'[t] = "rename"
        /\ \A u \in Tasks : u # t => pc'[u] = pc[u]
    BY <2>1, GotoMaps DEF Pcs, Replacing
  <2>4. \A g \in Files : g # f => disk'[g] = disk[g]
    BY <1>11, <2>1, PutType, ContentFacts DEF Remove
  <2>5. \A g \in Files :
          StoredOf'[g] = IF g = f THEN ValueOf(disk[f]) ELSE ValueOf(disk[g])
    BY <2>1, <2>2, <2>3, <2>4 DEF NobodyRenames, StoredOf, ValueOf
  <2>6. UNCHANGED StoredOf
    <3>1. StoredOf = [g \in Files |-> ValueOf(disk[g])]
      BY <2>2, StoredPlain
    <3>2. StoredOf' = [g \in Files |-> StoredOf'[g]]
      BY DEF StoredOf
    <3> QED  BY <2>5, <3>1, <3>2
  <2> QED  BY <2>3, <2>6 DEF Store!storeVars
<1>12. ASSUME NEW t \in Tasks, Rename(t)
       PROVE  Stutters \/ Store!WriteDone(t) \/ Store!Lost(t)
  <2> DEFINE f == req[t].file
  <2>1. /\ pc[t] = "rename" /\ Inside(t) /\ f \in Files
        /\ req[t].op = "write" /\ BusyWith[t] = req[t]
    BY <1>12, BusyIs, LabelFacts DEF Rename, Inside
  <2>2. \A u \in Tasks : u # t => pc[u] # "rename"
    BY <2>1, OneInside DEF Inside
  <2>3. StoredOf = [g \in Files |-> IF g = f THEN old ELSE ValueOf(disk[g])]
    BY <2>1, <2>2 DEF StoredOf
  <2>4. CASE /\ disk[f] = Absent
             /\ disk' = [disk EXCEPT ![f] = disk[Tmp], ![Tmp] = Absent]
             /\ Return(t, "ok")
    <3>1. NobodyRenames' /\ Store!Ends(t, "ok", NoFile)
      BY <2>2, <2>4, AnswerMaps DEF NobodyRenames, Return
    <3>2. /\ disk'[f] = Whole(req[t].val)
          /\ \A g \in Files : g # f => disk'[g] = disk[g]
      BY <2>1, <2>4, StgManAssumption DEF OnTheDisk, TypeOK
    <3>3. \A g \in Files : ValueOf(disk[g])' = IF g = f THEN req[t].val ELSE ValueOf(disk[g])
      BY <3>2, ContentFacts DEF ValueOf
    <3>4. StoredOf' = [StoredOf EXCEPT ![f] = req[t].val]
      BY <2>1, <2>3, <3>1, <3>3, StoredPlain
    <3> QED  BY <2>1, <3>1, <3>4 DEF Store!WriteDone
  <2>5. CASE RenameFailed(t) /\ UNCHANGED disk
    <3>1. NobodyRenames' /\ UNCHANGED <<BusyWith, reply>>
      BY <2>1, <2>2, <2>5, GotoMaps DEF NobodyRenames, RenameFailed, Pcs, Replacing
    <3>2. StoredOf' = [g \in Files |-> ValueOf(disk[g])]
      BY <2>5, <3>1, StoredPlain DEF ValueOf
    <3>3. CASE disk[f] = Absent
      <4>1. ValueOf(disk[f]) = NoFile
        BY <3>3, ContentFacts
      <4>2. StoredOf' = [StoredOf EXCEPT ![f] = NoFile]
        BY <2>1, <2>3, <3>2, <4>1
      <4> QED  BY <2>1, <3>1, <4>2 DEF Store!Lost
    <3>4. CASE ValueOf(disk[f]) = old
      <4>1. UNCHANGED StoredOf
        BY <2>3, <3>2, <3>4
      <4> QED  BY <3>1, <4>1 DEF Store!storeVars
    <3> QED  BY <2>1, <3>3, <3>4 DEF OnTheDisk
  <2> QED  BY <1>12, <2>4, <2>5 DEF Rename
<1>13. ASSUME NEW t \in Tasks, Clean(t)  PROVE  Store!DoneWithout(t)
  <2>1. pc[t] = "clean" /\ Inside(t)
    BY <1>13 DEF Clean, Inside
  <2>2. \A g \in Files : disk'[g] = disk[g]
    BY <1>13, PutTmpType, ContentFacts DEF Clean
  <2> QED  BY <1>13, <2>1, <2>2, EndsWithout DEF Clean, Return
<1>14. ASSUME NEW t \in Tasks, Read(t)  PROVE  Store!ReadDone(t) \/ Store!DoneWithout(t)
  <2> DEFINE f == req[t].file
             c == disk[f]
  <2>1. /\ pc[t] = "read" /\ Inside(t) /\ f \in Files /\ UNCHANGED disk
        /\ req[t].op = "read" /\ BusyWith[t] = req[t]
    BY <1>14, BusyIs, LabelFacts DEF Read, Inside
  <2>2. CASE \E code \in {"fail", "state", "version", "size", "nomem"} :
               Answer(t, code, NoFile)
    BY <2>1, <2>2, EndsWithout
  <2>3. CASE req[t].buf # NoBuffer /\ c.kind = "whole" /\ Answer(t, "ok", c.val)
    <3>1. NobodyRenames /\ NobodyRenames' /\ Store!Ends(t, "ok", c.val)
      BY <2>1, <2>3, RenamesAlone, AnswerMaps DEF NobodyRenames
    <3>2. StoredOf[f] = c.val /\ UNCHANGED StoredOf
      BY <2>1, <2>3, <3>1, StoredPlain, StoredKept DEF ValueOf
    <3>3. c.val # NoFile
      BY <2>1, StgManAssumption DEF TypeOK, Contents
    <3> QED  BY <2>1, <2>3, <3>1, <3>2, <3>3 DEF Store!ReadDone
  <2> QED  BY <1>14, <2>2, <2>3 DEF Read
<1>15. ASSUME Crash  PROVE  Store!PowerLost
  <2>1. /\ pc' = [t \in Tasks |-> "idle"]
        /\ reply' = [t \in Tasks |-> [code |-> "none", data |-> NoFile]]
    BY <1>15 DEF Crash
  <2>2. NobodyRenames' /\ BusyWith' = [t \in Tasks |-> NoRequest]
    BY <2>1 DEF NobodyRenames, BusyWith
  <2>3. \/ \A g \in Files : disk'[g] = disk[g]
        \/ \E t \in Tasks : pc[t] = "format" /\ Wipe
    <3>1. ASSUME NEW t \in Tasks, Put(Tmp, Torn(req[t].val))
          PROVE  \A g \in Files : disk'[g] = disk[g]
      <4>1. Torn(req[t].val) \in TmpContents
        BY RequestFacts, ContentFacts DEF TypeOK
      <4> QED  BY <3>1, <4>1, PutTmpType
    <3> QED  BY <1>15, <3>1 DEF Crash, Target
  <2>4. CASE \E t \in Tasks : pc[t] = "format" /\ Wipe
    <3>1. PICK t \in Tasks : pc[t] = "format" /\ Wipe
      BY <2>4
    <3>2. BusyWith[t].op = "format"
      BY <3>1, BusyIs, LabelFacts DEF Inside
    <3> QED  BY <2>1, <2>2, <3>1, <3>2, StoredWiped DEF Store!PowerLost
  <2>5. CASE NobodyRenames /\ \A g \in Files : disk'[g] = disk[g]
    BY <2>1, <2>2, <2>5, StoredKept DEF Store!PowerLost
  <2>6. CASE ~NobodyRenames /\ \A g \in Files : disk'[g] = disk[g]
    <3>1. PICK t \in Tasks : pc[t] = "rename"
      BY <2>6 DEF NobodyRenames
    <3> DEFINE f == req[t].file
    <3>2. /\ Inside(t) /\ f \in Files /\ BusyWith[t].op = "write" /\ BusyWith[t].file = f
      BY <3>1, BusyIs, LabelFacts DEF Inside
    <3>3. \A u \in Tasks : u # t => pc[u] # "rename"
      BY <3>1, <3>2, OneInside DEF Inside
    <3>4. StoredOf = [g \in Files |-> IF g = f THEN old ELSE ValueOf(disk[g])]
      BY <3>1, <3>2, <3>3 DEF StoredOf
    <3>5. StoredOf' = [g \in Files |-> ValueOf(disk[g])]
      BY <2>2, <2>6, StoredPlain DEF ValueOf
    <3>6. CASE disk[f] = Absent
      <4>1. ValueOf(disk[f]) = NoFile
        BY <3>6, ContentFacts
      <4>2. StoredOf' = [StoredOf EXCEPT ![f] = NoFile]
        BY <3>2, <3>4, <3>5, <4>1
      <4> QED  BY <2>1, <2>2, <3>2, <4>2 DEF Store!PowerLost
    <3>7. CASE ValueOf(disk[f]) = old
      <4>1. UNCHANGED StoredOf
        BY <3>4, <3>5, <3>7
      <4> QED  BY <2>1, <2>2, <4>1 DEF Store!PowerLost
    <3> QED  BY <3>1, <3>6, <3>7 DEF OnTheDisk
  <2> QED  BY <2>3, <2>4, <2>5, <2>6
<1>16. CASE UNCHANGED vars
  BY <1>16 DEF vars, memVars, bounds, StoredOf, BusyWith, ValueOf, Store!storeVars
<1> QED
  BY <1>1, <1>2, <1>3, <1>4, <1>5, <1>6, <1>7, <1>8, <1>9, <1>10, <1>11, <1>12, <1>13,
     <1>14, <1>15, <1>16 DEF Next, Step, Store!StoreNext

\* A stored payload goes by a format, by the rewrite of a file taken for a missing one,
\* or when the new payload is whole in the temporary file.
LEMMA LossStep ==
    ASSUME IInv, [Next]_vars, NEW f \in Files, StoredOf[f] # NoFile, StoredOf'[f] = NoFile
    PROVE  \E t \in Tasks :
              \/ pc[t] = "format"
              \/ pc[t] = "overwrite" /\ req[t].file = f
              \/ /\ Inside(t) /\ req[t].op = "write" /\ req[t].file = f
                 /\ disk'[Tmp] = Whole(req[t].val)
<1> USE DEF IInv
<1>1. NobodyRenames' => NoFile = ValueOf(disk'[f])
  BY StoredPlain DEF ValueOf
<1>2. CASE \E t \in Tasks : pc[t] = "rename"
  <2>1. PICK t \in Tasks : pc[t] = "rename"
    BY <1>2
  <2>2. /\ Inside(t) /\ lock = t /\ req[t].file \in Files /\ req[t].op = "write"
        /\ disk[Tmp] = Whole(req[t].val)
    BY <2>1, LabelFacts DEF Inside, InCall, OnTheDisk
  <2>3. \A u \in Tasks : u # t => pc[u] \in {"idle", "lock"}
    BY <2>2, OneInside DEF Inside
  <2>4. StoredOf[f] = IF req[t].file = f THEN old ELSE ValueOf(disk[f])
    BY <2>1, <2>3 DEF StoredOf
  <2>5. ASSUME UNCHANGED disk, NobodyRenames'
        PROVE  req[t].file = f /\ disk'[Tmp] = Whole(req[t].val)
    BY <1>1, <2>2, <2>4, <2>5
  <2>6. ASSUME NEW u \in Tasks, Call(u)  PROVE  FALSE
    <3>1. UNCHANGED <<disk, old>> /\ u # t
      BY <2>1, <2>6 DEF Call
    <3>2. /\ \A w \in Tasks : Inside(w)' => w # u
          /\ \A w \in Tasks : w # u => pc'[w] = pc[w] /\ req'[w] = req[w]
      BY <2>6, CallStep
    <3>3. StoredOf'[f] = IF req[t].file = f THEN old ELSE ValueOf(disk[f])
      BY <2>1, <2>3, <3>1, <3>2 DEF StoredOf, ValueOf, Inside
    <3> QED  BY <2>4, <3>3
  <2>7. ASSUME NEW u \in Tasks, Step(u)  PROVE  u = t /\ Rename(t)
    <3>1. ~Enter(u)
      BY <2>2, StgManAssumption DEF Enter, CanLock
    <3>2. u = t
      BY <2>2, <2>7, <3>1, LabelStep, OneInside
    <3> QED  BY <2>1, <2>7, <3>1, <3>2 DEF Step, Mount, Unmount, Format, Stat, Heal,
               Healing, OpenTmp, Fill, Remove, Clean, Read
  <2>8. ASSUME Rename(t)
        PROVE  req[t].file = f /\ disk'[Tmp] = Whole(req[t].val)
    <3>1. pc'[t] # "rename" /\ \A u \in Tasks : u # t => pc'[u] = pc[u]
      BY <2>8 DEF Rename, RenameFailed, Return, Answer, Goto, TypeOK
    <3>2. NobodyRenames'
      BY <2>3, <3>1 DEF NobodyRenames
    <3>3. CASE disk' = [disk EXCEPT ![req[t].file] = disk[Tmp], ![Tmp] = Absent]
      <4>1. \A g \in Files : disk'[g] = IF g = req[t].file THEN disk[Tmp] ELSE disk[g]
        BY <2>2, <3>3, StgManAssumption DEF TypeOK
      <4>2. req[t].file = f
        BY <1>1, <2>4, <3>2, <4>1
      <4>3. disk'[f] = Whole(req[t].val) /\ req[t].val \in Data
        BY <2>2, <4>1, <4>2, RequestFacts DEF TypeOK
      <4>4. ValueOf(disk'[f]) \in Data
        BY <4>3, ContentFacts
      <4> QED  BY <1>1, <3>2, <4>4, StgManAssumption
    <3> QED  BY <2>5, <2>8, <3>2, <3>3 DEF Rename
  <2>9. ASSUME Crash
        PROVE  req[t].file = f /\ disk'[Tmp] = Whole(req[t].val)
    <3>1. \A u \in Tasks : pc[u] \notin {"fill", "format"}
      BY <2>1, <2>3
    <3>2. UNCHANGED disk /\ NobodyRenames'
      BY <2>9, <3>1 DEF Crash, NobodyRenames
    <3> QED  BY <2>5, <3>2
  <2>10. CASE UNCHANGED vars
    BY <2>10 DEF vars, StoredOf, ValueOf
  <2> QED  BY <2>2, <2>6, <2>7, <2>8, <2>9, <2>10 DEF Next
<1>3. CASE NobodyRenames
  <2>1. StoredOf[f] = ValueOf(disk[f])
    BY <1>3, StoredPlain
  <2>2. ~(NobodyRenames' /\ disk'[f] = disk[f])
    BY <1>1, <2>1
  <2>3. ASSUME NEW t \in Tasks, Call(t)  PROVE  FALSE
    <3>1. UNCHANGED disk
      BY <2>3 DEF Call
    <3>2. NobodyRenames'
      BY <1>3, <2>3, CallStep DEF NobodyRenames, Inside
    <3> QED  BY <2>2, <3>1, <3>2
  <2>4. ASSUME NEW t \in Tasks, Enter(t)  PROVE  FALSE
    <3>1. UNCHANGED disk
      BY <2>4 DEF Enter
    <3>2. pc[t] = "lock" /\ pc'[t] # "rename"
      <4>1. req[t] \in Requests /\ req[t].op \in Ops
        BY <2>4, RequestFacts DEF Enter, InCall
      <4> QED  BY <2>4, <4>1, FirstFacts DEF Enter, Return, Answer, TypeOK
    <3>3. NobodyRenames'
      BY <1>3, <2>4, <3>2, EnterStep DEF NobodyRenames
    <3> QED  BY <2>2, <3>1, <3>3
  <2>5. ASSUME NEW t \in Tasks, Step(t), ~Enter(t)
        PROVE  pc[t] = "format" \/ (pc[t] = "overwrite" /\ req[t].file = f)
    <3>1. /\ Inside(t) /\ req[t].file \in Files
          /\ \A u \in Tasks : u # t => pc'[u] = pc[u] /\ req'[u] = req[u]
          /\ pc'[t] = "idle" \/ req'[t] = req[t]
      BY <2>5, LabelStep, InsideStep DEF InCall
    <3>2. pc'[t] # "rename" => NobodyRenames'
      BY <1>3, <3>1 DEF NobodyRenames
    <3>3. /\ \A code : Return(t, code) => pc'[t] = "idle"
          /\ \A code, data : Answer(t, code, data) => pc'[t] = "idle"
          /\ \A l : Goto(t, l) => pc'[t] = l
      BY DEF Return, Answer, Goto, TypeOK
    <3>4. ASSUME Mount(t) \/ Unmount(t) \/ Stat(t) \/ Read(t)  PROVE  FALSE
      <4>1. UNCHANGED disk /\ pc'[t] # "rename"
        BY <3>3, <3>4 DEF Mount, Unmount, Stat, Validated, Read
      <4> QED  BY <2>2, <3>2, <4>1
    <3>5. ASSUME Heal(t) \/ Healing(t)  PROVE  pc[t] = "overwrite" /\ req[t].file = f
      <4>1. /\ pc'[t] # "rename" /\ pc[t] \in {"heal", "overwrite", "healing"}
            /\ pc[t] # "overwrite" => disk[req[t].file].kind \in {"absent", "short"}
        BY <3>3, <3>5, ContentFacts DEF Heal, Healing, Validated, OnTheDisk
      <4>2. f # req[t].file => disk'[f] = disk[f]
        BY <3>5 DEF Heal, Healing, Put, TypeOK
      <4>3. f = req[t].file
        BY <2>2, <3>2, <4>1, <4>2
      <4> QED  BY <2>1, <4>1, <4>3, ContentFacts
    <3>6. ASSUME OpenTmp(t) \/ Fill(t) \/ Clean(t)  PROVE  FALSE
      <4>1. pc'[t] # "rename"
        BY <3>3, <3>6 DEF OpenTmp, Fill, Clean
      <4>2. disk'[f] = disk[f]
        BY <3>6, StgManAssumption DEF OpenTmp, Fill, Clean, Target, Put, TypeOK
      <4> QED  BY <2>2, <3>2, <4>1, <4>2
    <3>7. ASSUME Remove(t)  PROVE  FALSE
      <4>1. pc'[t] = "rename" /\ req'[t] = req[t] /\ old' = ValueOf(disk[req[t].file])
        BY <3>1, <3>3, <3>7 DEF Remove
      <4>2. f # req[t].file => disk'[f] = disk[f]
        BY <3>7 DEF Remove, Put, TypeOK
      <4>3. \A u \in Tasks : u # t => pc'[u] # "rename"
        BY <1>3, <3>1 DEF NobodyRenames
      <4>4. StoredOf'[f] = IF req[t].file = f THEN old' ELSE ValueOf(disk'[f])
        BY <4>1, <4>3 DEF StoredOf, ValueOf
      <4> QED  BY <2>1, <4>1, <4>2, <4>4
    <3> QED  BY <1>3, <2>5, <3>4, <3>5, <3>6, <3>7 DEF Step, Format, Rename, NobodyRenames
  <2>6. ASSUME Crash  PROVE  \E t \in Tasks : pc[t] = "format"
    <3>1. NobodyRenames'
      BY <2>6 DEF Crash, NobodyRenames
    <3>2. \A t \in Tasks : ~Put(Tmp, Torn(req[t].val))
      BY <2>2, <3>1, StgManAssumption DEF Put, TypeOK
    <3> QED  BY <2>2, <2>6, <3>1, <3>2 DEF Crash, Target
  <2>7. CASE UNCHANGED vars
    BY <2>7 DEF vars, StoredOf, ValueOf
  <2> QED  BY <2>3, <2>4, <2>5, <2>6, <2>7 DEF Next
<1> QED  BY <1>2, <1>3 DEF NobodyRenames

\* A stored payload is never given up before the new one is whole on the volume,
\* unless by a format, or by the rewrite of a file that a failed stat() or fread made
\* look missing or short.
THEOREM OldOrNewIsThere == Spec => NewBeforeOld
<1>1. IInv /\ [Next]_vars =>
        [\A f \in Files : (StoredOf[f] # NoFile /\ StoredOf'[f] = NoFile) =>
           \E t \in Tasks :
              \/ pc[t] = "format"
              \/ pc[t] = "overwrite" /\ req[t].file = f
              \/ /\ Inside(t) /\ req[t].op = "write" /\ req[t].file = f
                 /\ disk'[Tmp] = Whole(req[t].val)]_vars
  BY LossStep
<1> QED  BY <1>1, Invariance, PTL DEF Spec, NewBeforeOld

\* Every file is an atomic register: a read returns one stored value, a write takes
\* effect at one moment or fails, and only a format, or a write or a check of that very
\* file that fails or loses power, loses a value.
THEOREM Implements == Spec => ImplementsStore
<1>1. Init => Store!StoreInit
  BY DEF Init, Store!StoreInit, BusyWith
<1>2. IInv /\ [Next]_vars => [Store!StoreNext]_(Store!storeVars)
  BY StoreStep
<1> QED  BY <1>1, <1>2, Invariance, PTL DEF Spec, ImplementsStore, Store!StoreSpec
=============================================================================
