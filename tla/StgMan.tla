------------------------------- MODULE StgMan -------------------------------
(***************************************************************************)
(* The storage manager, components/stg_man/stg_man.c, over the FAT volume. *)
(*                                                                         *)
(* Tasks call it synchronously and one mutex serialises them.  Each call   *)
(* into the file system is a step of its own, because power may be lost    *)
(* between any two of them: the disk stays, everything else is gone.       *)
(*                                                                         *)
(* A file is abstracted to what its header and its length tell a reader,   *)
(* and a payload to a model value.  stg_man_init is called by one task, as *)
(* stg_man.h:70 asks.  A rename is atomic on the volume.                   *)
(***************************************************************************)
EXTENDS Integers

CONSTANTS
    Tasks,        \* tasks that call the API
    Owner,        \* the one that calls stg_man_init, _deinit and _format
    Files,        \* safe relative paths
    Default,      \* cfg.default_relpath, which a NULL path stands for
    Unsafe,       \* a path stg_is_safe_relpath refuses
    Tmp,          \* UTSTG.TMP, which no caller names
    Values,       \* payloads
    NoData,       \* the empty payload
    NoFile,       \* no value: what a reader gets of a file it cannot read
    Size,         \* the length of each payload
    NoBuffer,     \* out_buf == NULL: only the length is asked
    Requests,     \* the calls a task may make
    FirstDisk,    \* what a file may hold before the program first runs
    FormatIfFails, \* cfg.format_if_mount_failed
    IOErrors,     \* the file system may refuse an operation
    MaxCalls,     \* bound: calls in a behaviour
    MaxCrashes    \* bound: power losses in a behaviour

Data == Values \cup {NoData}

\* What a file holds: nothing, less than a header, a header of another magic or
\* version, a header without all of its payload, or a header and its payload.
Absent    == [kind |-> "absent", val |-> NoData]
Short     == [kind |-> "short",  val |-> NoData]
Torn(v)   == [kind |-> "torn",   val |-> v]
Whole(v)  == [kind |-> "whole",  val |-> v]
Contents  == [kind : {"absent", "short", "magic", "version", "whole"}, val : Data]
TmpContents == Contents \cup [kind : {"torn"}, val : Data]

Ops == {"init", "deinit", "format", "check", "write", "read"}
AllRequests == [op : Ops, file : Files \cup {Unsafe}, val : Data,
                buf : Nat \cup {NoBuffer}]
NoRequest == [op |-> "none", file |-> Default, val |-> NoData, buf |-> NoBuffer]

ASSUME StgManAssumption ==
    /\ Owner \in Tasks /\ "null" \notin Tasks /\ "free" \notin Tasks
    /\ Default \in Files /\ Tmp \notin Files /\ Unsafe \notin Files
    /\ NoFile \notin Data /\ NoBuffer \notin Nat
    /\ Size \in [Data -> Nat] /\ Size[NoData] = 0
    /\ Requests \subseteq AllRequests
    /\ \A r \in Requests : r.op \in {"init", "deinit", "format"} => r.file = Default
    /\ FirstDisk \subseteq Contents
    /\ FormatIfFails \in BOOLEAN /\ IOErrors \in BOOLEAN
    /\ MaxCalls \in Nat /\ MaxCrashes \in Nat

VARIABLES
    disk,      \* the volume: what each file holds
    volume,    \* "ok", or "broken" by a format cut short
    mounted,   \* the volume is in the VFS: "no", "yes", or "lost" by a failed format
    inited,    \* s_inited
    lock,      \* s_lock: "null", "free" or the task that holds it
    pc,        \* where each task is
    req,       \* each task's current call
    reply,     \* the code and the data each task's last call returned
    old,       \* history: what the file being replaced held before its removal
    acked,     \* history: the value last acknowledged, by file, if still due
    calls,     \* calls made so far
    crashes    \* power losses so far

memVars  == <<mounted, inited>>
bounds   == <<calls, crashes>>
vars == <<disk, volume, memVars, lock, pc, req, reply, old, acked, bounds>>

\* What a reader gets of a file that holds c.
ValueOf(c) == IF c.kind = "whole" THEN c.val ELSE NoFile

\* Program counters of a write between stg_lock() and its return.
Replacing == {"tmp", "fill", "remove", "rename", "clean"}
-----------------------------------------------------------------------------
(* The mutex and the end of a call.                                        *)

\* Mutant: stg_lock() does not wait.
CanLockAlways == TRUE

\* xSemaphoreTake gives the mutex to the caller.
CanLock == lock = "free"

\* Mutant: a path to the label out that does not unlock.
UnlockForgotten == UNCHANGED lock

\* The label out of every function.
Unlock == lock' = "free"

Answer(t, code, data) ==
    /\ pc' = [pc EXCEPT ![t] = "idle"]
    /\ req' = [req EXCEPT ![t] = NoRequest]
    /\ reply' = [reply EXCEPT ![t] = [code |-> code, data |-> data]]

\* goto out.
Return(t, code) == Answer(t, code, NoFile) /\ Unlock

Goto(t, label) ==
    /\ pc' = [pc EXCEPT ![t] = label]
    /\ UNCHANGED <<req, reply, lock>>

Put(f, c) == disk' = [disk EXCEPT ![f] = c]
-----------------------------------------------------------------------------
(* Calls.                                                                  *)

\* A call up to stg_lock().  stg_man_init creates the mutex, once, and reads
\* s_inited without it; the others refuse to go on without a mutex.
Call(t) ==
    /\ pc[t] = "idle"
    /\ calls < MaxCalls
    /\ calls' = calls + 1
    /\ \E r \in Requests :
         /\ r.op \in {"init", "deinit", "format"} => t = Owner
         /\ lock' = IF r.op = "init" /\ lock = "null" THEN "free" ELSE lock
         /\ IF r.op = "init" /\ inited
            THEN Answer(t, "ok", NoFile)
            ELSE IF lock' = "null"
            THEN Answer(t, IF r.op = "deinit" THEN "ok" ELSE "state", NoFile)
            ELSE /\ pc' = [pc EXCEPT ![t] = "lock"]
                 /\ req' = [req EXCEPT ![t] = r]
                 /\ UNCHANGED reply
    /\ UNCHANGED <<disk, volume, memVars, old, acked, crashes>>

FirstStep == [init |-> "mount", deinit |-> "unmount", format |-> "format",
              check |-> "stat", write |-> "stat", read |-> "read"]

\* Mutant: s_inited is not read again once the mutex is there.
ReadyUnchecked == TRUE

\* s_inited, read under the mutex.
Ready == inited

\* stg_lock() and the checks of s_inited and of the path.  A write of a file puts
\* an end to what was acknowledged for it.
Enter(t) ==
    /\ pc[t] = "lock"
    /\ CanLock
    /\ LET r == req[t]
       IN  CASE r.op # "init" /\ ~Ready ->
                  /\ Return(t, IF r.op = "deinit" THEN "ok" ELSE "state")
                  /\ UNCHANGED acked
             [] (r.op = "init" \/ Ready) /\ r.file = Unsafe ->
                  Return(t, "arg") /\ UNCHANGED acked
             [] (r.op = "init" \/ Ready) /\ r.file # Unsafe ->
                  /\ lock' = t
                  /\ pc' = [pc EXCEPT ![t] = FirstStep[r.op]]
                  /\ acked' = IF r.op = "write" THEN [acked EXCEPT ![r.file] = NoFile]
                                                ELSE acked
                  /\ UNCHANGED <<req, reply>>
    /\ UNCHANGED <<disk, volume, memVars, old, bounds>>

\* esp_vfs_fat_spiflash_mount_rw_wl.
Mount(t) ==
    /\ pc[t] = "mount"
    /\ \/ /\ mounted = "no"
          /\ volume = "ok" \/ FormatIfFails
          /\ mounted' = "yes" /\ inited' = TRUE
          /\ volume' = "ok"
          /\ Return(t, "ok")
       \/ /\ IOErrors \/ mounted # "no" \/ (volume # "ok" /\ ~FormatIfFails)
          /\ inited' = FALSE
          /\ Return(t, "fail")
          /\ UNCHANGED <<mounted, volume>>
    /\ UNCHANGED <<disk, old, acked, bounds>>

\* esp_vfs_fat_spiflash_unmount_rw_wl: s_inited is cleared even if it fails.
Unmount(t) ==
    /\ pc[t] = "unmount"
    /\ inited' = FALSE
    /\ \/ mounted = "yes" /\ mounted' = "no" /\ Return(t, "ok")
       \/ mounted = "yes" /\ IOErrors /\ Return(t, "fail") /\ UNCHANGED mounted
       \/ mounted = "lost" /\ mounted' = "no" /\ Return(t, "fail")
    /\ UNCHANGED <<disk, volume, old, acked, bounds>>

\* Every file is gone.
Wipe ==
    /\ disk' = [f \in Files \cup {Tmp} |-> Absent]
    /\ acked' = [f \in Files |-> NoFile]

\* esp_vfs_fat_spiflash_format_rw_wl.  One that fails may have begun, and may leave the
\* volume out of the VFS, which s_inited does not follow.
Format(t) ==
    /\ pc[t] = "format"
    /\ \/ Wipe /\ volume' = "ok" /\ Goto(t, "stat") /\ UNCHANGED mounted
       \/ /\ IOErrors
          /\ (Wipe /\ volume' = "broken") \/ UNCHANGED <<disk, volume, acked>>
          /\ mounted' \in {mounted, "lost"}
          /\ Return(t, "fail")
    /\ UNCHANGED <<inited, old, bounds>>
-----------------------------------------------------------------------------
(* stg_header_ensure_or_validate.                                          *)

\* What follows a header that is valid, or has just been written.
Validated(t) == IF req[t].op = "write" THEN Goto(t, "tmp") ELSE Return(t, "ok")

\* fopen reaches the volume.
Online == mounted = "yes" /\ volume = "ok"

\* A missing file is created by every caller; a short header is rewritten by all
\* but stg_man_check.  A failed stat() makes a missing file of any file, and a failed
\* fread a short one: what is acknowledged for it ends there.
Stat(t) ==
    /\ pc[t] = "stat"
    /\ LET f == req[t].file
           kind == disk[f].kind
       IN  \/ /\ IOErrors /\ kind # "absent"
              /\ Goto(t, "overwrite")
              /\ acked' = [acked EXCEPT ![f] = NoFile]
           \/ /\ \/ /\ \/ kind = "absent"
                       \/ kind = "short" /\ mounted = "yes" /\ req[t].op # "check"
                    /\ Goto(t, "heal")
                 \/ /\ mounted = "yes"
                    /\ \/ kind = "short" /\ req[t].op = "check" /\ Return(t, "fail")
                       \/ kind = "magic" /\ Return(t, "state")
                       \/ kind = "version" /\ Return(t, "version")
                       \/ kind \in {"whole", "torn"} /\ Validated(t)
                       \/ kind # "absent" /\ IOErrors /\ Return(t, "fail")
              /\ UNCHANGED acked
    /\ UNCHANGED <<disk, volume, memVars, old, bounds>>

\* fopen(path, "wb") truncates the file, be it missing, short or only taken for it.
Heal(t) ==
    /\ pc[t] \in {"heal", "overwrite"}
    /\ \/ Online /\ Put(req[t].file, Short) /\ Goto(t, "healing")
       \/ (IOErrors \/ ~Online) /\ Return(t, "fail") /\ UNCHANGED disk
    /\ UNCHANGED <<volume, memVars, old, acked, bounds>>

\* The default header is written and the file closed; either may fail.
Healing(t) ==
    /\ pc[t] = "healing"
    /\ \/ Put(req[t].file, Whole(NoData)) /\ Validated(t)
       \/ /\ IOErrors
          /\ Put(req[t].file, Whole(NoData)) \/ UNCHANGED disk
          /\ Return(t, "fail")
    /\ UNCHANGED <<volume, memVars, old, acked, bounds>>
-----------------------------------------------------------------------------
(* stg_man_write, past the header.                                         *)

\* Mutant: the payload is written over the file itself.
TargetInPlace(t) == req[t].file

\* The file the payload is written to.
Target(t) == Tmp

\* fopen(tmp, "wb").
OpenTmp(t) ==
    /\ pc[t] = "tmp"
    /\ \/ Online /\ Put(Target(t), Short) /\ Goto(t, "fill")
       \/ (IOErrors \/ ~Online) /\ Return(t, "fail") /\ UNCHANGED disk
    /\ UNCHANGED <<volume, memVars, old, acked, bounds>>

\* fwrite of header and payload, fclose.
Fill(t) ==
    /\ pc[t] = "fill"
    /\ \/ Put(Target(t), Whole(req[t].val)) /\ Goto(t, "remove")
       \/ /\ IOErrors
          /\ \E c \in {Short, Torn(req[t].val), Whole(req[t].val)} : Put(Target(t), c)
          /\ Goto(t, "clean")
    /\ UNCHANGED <<volume, memVars, old, acked, bounds>>

\* (void)remove(path).
Remove(t) ==
    /\ pc[t] = "remove"
    /\ old' = ValueOf(disk[req[t].file])
    /\ Put(req[t].file, Absent) \/ (IOErrors /\ UNCHANGED disk)
    /\ Goto(t, "rename")
    /\ UNCHANGED <<volume, memVars, acked, bounds>>

\* Mutant: the result of rename is not looked at.
RenameFailedIgnored(t) == Return(t, "ok")

\* Mutant: the write is tried again.
RenameFailedRetried(t) == Goto(t, "tmp")

RenameFailed(t) == Goto(t, "clean")

\* rename(tmp, path), which FAT refuses while path exists.
Rename(t) ==
    /\ pc[t] = "rename"
    /\ LET f == req[t].file
       IN  /\ \/ /\ disk[f] = Absent
                 /\ disk' = [disk EXCEPT ![f] = disk[Tmp], ![Tmp] = Absent]
                 /\ Return(t, "ok")
              \/ /\ IOErrors \/ disk[f] # Absent
                 /\ RenameFailed(t)
                 /\ UNCHANGED disk
          /\ acked' = IF pc'[t] = "idle" /\ reply'[t].code = "ok"
                      THEN [acked EXCEPT ![f] = req[t].val] ELSE acked
    /\ UNCHANGED <<volume, memVars, old, bounds>>

\* (void)remove(tmp) after a failure.
Clean(t) ==
    /\ pc[t] = "clean"
    /\ Put(Tmp, Absent) \/ (IOErrors /\ UNCHANGED disk)
    /\ Return(t, "fail")
    /\ UNCHANGED <<volume, memVars, old, acked, bounds>>
-----------------------------------------------------------------------------
\* stg_man_read past its checks: nothing changes on the disk.  The length alone,
\* the payload, or ESP_ERR_NO_MEM for a buffer too small.
Read(t) ==
    /\ pc[t] = "read"
    /\ Unlock
    /\ LET r == req[t]
           c == disk[r.file]
           valid == c.kind \in {"whole", "torn"}
           fits == valid /\ r.buf # NoBuffer /\ r.buf >= Size[c.val]
       IN  \/ /\ mounted = "yes"
              /\ \/ c.kind \in {"absent", "short"} /\ Answer(t, "fail", NoFile)
                 \/ c.kind = "magic" /\ Answer(t, "state", NoFile)
                 \/ c.kind = "version" /\ Answer(t, "version", NoFile)
                 \/ valid /\ r.buf = NoBuffer /\ Answer(t, "size", NoFile)
                 \/ valid /\ r.buf # NoBuffer /\ ~fits /\ Answer(t, "nomem", NoFile)
                 \/ fits /\ c.kind = "whole" /\ Answer(t, "ok", c.val)
                 \/ fits /\ c.kind = "torn" /\ Answer(t, "fail", NoFile)
           \/ (IOErrors \/ mounted # "yes") /\ Answer(t, "fail", NoFile)
    /\ UNCHANGED <<disk, volume, memVars, old, acked, bounds>>
-----------------------------------------------------------------------------
(* Power loss.                                                             *)

\* A write under way may leave any part of the temporary file, and a format any
\* part of the volume.
Crash ==
    /\ crashes < MaxCrashes
    /\ crashes' = crashes + 1
    /\ LET cut == {t \in Tasks : pc[t] \in {"fill", "format"}}
       IN  \/ UNCHANGED <<disk, volume, acked>>
           \/ \E t \in cut : /\ pc[t] = "fill"
                             /\ Put(Target(t), Torn(req[t].val))
                             /\ UNCHANGED <<volume, acked>>
           \/ \E t \in cut : pc[t] = "format" /\ Wipe /\ volume' = "broken"
    /\ mounted' = "no" /\ inited' = FALSE
    /\ lock' = "null"
    /\ pc' = [t \in Tasks |-> "idle"]
    /\ req' = [t \in Tasks |-> NoRequest]
    /\ reply' = [t \in Tasks |-> [code |-> "none", data |-> NoFile]]
    /\ old' = NoFile
    /\ UNCHANGED calls
-----------------------------------------------------------------------------
Init ==
    /\ disk \in [Files \cup {Tmp} -> FirstDisk]
    /\ disk[Tmp] = Absent
    /\ volume = "ok"
    /\ mounted = "no" /\ inited = FALSE
    /\ lock = "null"
    /\ pc = [t \in Tasks |-> "idle"]
    /\ req = [t \in Tasks |-> NoRequest]
    /\ reply = [t \in Tasks |-> [code |-> "none", data |-> NoFile]]
    /\ old = NoFile
    /\ acked = [f \in Files |-> NoFile]
    /\ calls = 0 /\ crashes = 0

Step(t) ==
    \/ Enter(t) \/ Mount(t) \/ Unmount(t) \/ Format(t)
    \/ Stat(t) \/ Heal(t) \/ Healing(t)
    \/ OpenTmp(t) \/ Fill(t) \/ Remove(t) \/ Rename(t) \/ Clean(t)
    \/ Read(t)

Next == (\E t \in Tasks : Call(t) \/ Step(t)) \/ Crash

Spec == Init /\ [][Next]_vars

(* A task inside the storage manager is scheduled and the file system answers. *)
FairSpec == Spec /\ \A t \in Tasks : WF_vars(Step(t))
-----------------------------------------------------------------------------
Codes == {"none", "ok", "size", "fail", "state", "arg", "version", "nomem"}
Pcs == {"idle", "lock", "mount", "unmount", "format", "stat", "heal", "overwrite",
        "healing", "read"} \cup Replacing

\* The types; with them: no file but the temporary one is ever torn.
TypeOK ==
    /\ disk \in [Files \cup {Tmp} -> TmpContents]
    /\ \A f \in Files : disk[f] \in Contents
    /\ volume \in {"ok", "broken"}
    /\ mounted \in {"no", "yes", "lost"} /\ inited \in BOOLEAN
    /\ lock \in {"null", "free"} \cup Tasks
    /\ pc \in [Tasks -> Pcs]
    /\ req \in [Tasks -> Requests \cup {NoRequest}]
    /\ reply \in [Tasks -> [code : Codes, data : Data \cup {NoFile}]]
    /\ old \in Data \cup {NoFile}
    /\ acked \in [Files -> Data \cup {NoFile}]
    /\ calls \in 0..MaxCalls /\ crashes \in 0..MaxCrashes

\* Past stg_lock() and its checks.
Inside(t) == pc[t] \notin {"idle", "lock"}

\* A write that was acknowledged can be read, until the file is written again, the
\* volume formatted, or the file itself taken for a missing or a short one by a stat()
\* or an fread that fails: power losses, all other failures, and calls on other files
\* in between, which share the temporary file, do not touch it.
Durable == \A f \in Files : acked[f] # NoFile => disk[f] = Whole(acked[f])

\* No call works on a volume that was never mounted or has been unmounted, whatever
\* deinitialisation went on while it waited for the mutex; only a format that fails
\* takes it away behind s_inited.
MountedWhileInside ==
    \A t \in Tasks : (Inside(t) /\ pc[t] # "mount") => mounted # "no"

\* Nobody waits for a mutex that is not there, or that a task holds which is past
\* the label out of its call.
NoLostMutex ==
    /\ \A t \in Tasks : pc[t] # "idle" => lock # "null"
    /\ lock \in Tasks => Inside(lock)

\* The steps a call has left, at most, at each label.
StepsLeft == [label \in Pcs |->
    CASE label = "idle"   -> 0
      [] label \in {"mount", "unmount", "read", "clean"} -> 1
      [] label = "rename" -> 2 [] label = "remove" -> 3
      [] label = "fill"   -> 4 [] label = "tmp"    -> 5
      [] label = "healing" -> 6 [] label \in {"heal", "overwrite"} -> 7
      [] label = "stat"   -> 8 [] label = "format" -> 9
      [] label = "lock"   -> 10]

\* Whatever the file system refuses, a call goes on towards its return: no failure
\* makes it try again, and it is back after ten steps.
CallsAdvance ==
    [][\A t \in Tasks : Step(t) => StepsLeft[pc'[t]] < StepsLeft[pc[t]]]_vars
-----------------------------------------------------------------------------
(* The inductive invariant behind the safety properties and the refinement. *)

\* The calls that are at each label past stg_lock().
OpsAt == [label \in Pcs \ {"idle", "lock"} |->
            CASE label \in Replacing -> {"write"}
              [] label \in {"stat", "heal", "overwrite", "healing"} ->
                   {"write", "check", "format"}
              [] label = "mount" -> {"init"}
              [] label = "unmount" -> {"deinit"}
              [] label = "format" -> {"format"}
              [] label = "read" -> {"read"}]

\* Who is inside holds the mutex and is where its call may be.
InCall ==
    \A t \in Tasks :
        /\ pc[t] # "idle" => req[t] \in Requests
        /\ Inside(t) => /\ lock = t
                        /\ req[t].file \in Files
                        /\ req[t].op \in OpsAt[pc[t]]

\* What a task inside knows of the disk.
OnTheDisk ==
    \A t \in Tasks :
        LET f == req[t].file
        IN  /\ Inside(t) /\ req[t].op = "write" => acked[f] = NoFile
            /\ pc[t] = "heal" => disk[f].kind \in {"absent", "short"}
            /\ pc[t] = "overwrite" => acked[f] = NoFile
            /\ pc[t] = "healing" => disk[f] = Short
            /\ pc[t] \in {"remove", "rename"} => disk[Tmp] = Whole(req[t].val)
            /\ pc[t] = "rename" => disk[f] = Absent \/ ValueOf(disk[f]) = old

\* The volume is mounted for whoever read s_inited under the mutex.
MountInv ==
    /\ inited => mounted # "no"
    /\ \A t \in Tasks : (Inside(t) /\ pc[t] # "mount") => inited

IInv == TypeOK /\ InCall /\ NoLostMutex /\ OnTheDisk /\ Durable /\ MountInv
-----------------------------------------------------------------------------
(* The storage manager implements StgStore.                                *)

\* A file between remove and rename still counts as what it held: the mutex hides
\* the gap from every caller.
StoredOf == [f \in Files |->
    IF \E t \in Tasks : pc[t] = "rename" /\ req[t].file = f
    THEN old ELSE ValueOf(disk[f])]

\* The call each task has under way, past stg_lock() and its checks.
BusyWith == [t \in Tasks |-> IF pc[t] \in {"idle", "lock"} THEN NoRequest ELSE req[t]]

Store ==
    INSTANCE StgStore WITH stored <- StoredOf, busy <- BusyWith

\* Writes are atomic to every reader; a value is lost only by a format, or by a call
\* under way on that very file: a write that fails or loses power, or a check of a file
\* it fails to see.
ImplementsStore == Store!StoreSpec

\* A payload is given up only by a write of its file and at a moment when the new
\* payload is whole in the temporary file: be it a failure or a power loss, at that
\* moment one of the two is on the volume.  The exceptions are a format, and the rewrite
\* of a file that a failed stat() or fread made look missing or short.
NewBeforeOld ==
    [][\A f \in Files : (StoredOf[f] # NoFile /\ StoredOf'[f] = NoFile) =>
         \E t \in Tasks :
            \/ pc[t] = "format"
            \/ pc[t] = "overwrite" /\ req[t].file = f
            \/ /\ Inside(t) /\ req[t].op = "write" /\ req[t].file = f
               /\ disk'[Tmp] = Whole(req[t].val)]_vars
-----------------------------------------------------------------------------
\* Every call returns: no path through the functions keeps the mutex.
CallsReturn == \A t \in Tasks : (pc[t] # "idle") ~> (pc[t] = "idle")
-----------------------------------------------------------------------------
\* README.md:42 "Safe against power loss during writes": a file that could be read
\* before the power was lost can be read after it.
PowerLossSafe ==
    [][Crash => \A f \in Files : StoredOf[f] # NoFile => StoredOf'[f] # NoFile]_vars
=============================================================================
