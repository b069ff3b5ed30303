------------------------------ MODULE StgStore ------------------------------
(***************************************************************************)
(* What the storage manager promises: each file is an atomic register of   *)
(* payloads.  A read returns the value stored at one moment of the call, a *)
(* write that is acknowledged has taken effect, and a value is lost only   *)
(* by a write or a check of the same file that fails or is cut short, or   *)
(* by a format.                                                            *)
(***************************************************************************)
EXTENDS Integers

CONSTANTS Tasks, Files, Requests, NoRequest, NoData, NoFile, NoBuffer

VARIABLES stored,    \* what a read of each file returns, NoFile if it fails
          busy,      \* the call each task has under way, or NoRequest
          reply      \* the code and the data each task's last call returned

storeVars == <<stored, busy, reply>>

Ends(t, code, data) ==
    /\ busy' = [busy EXCEPT ![t] = NoRequest]
    /\ reply' = [reply EXCEPT ![t] = [code |-> code, data |-> data]]

Begins(t) ==
    /\ busy[t] = NoRequest
    /\ \E r \in Requests : busy' = [busy EXCEPT ![t] = r]
    /\ UNCHANGED <<stored, reply>>

\* A call answered before it began: there is nothing to do, or nothing can be done.
Refused(t) ==
    /\ busy[t] = NoRequest
    /\ \E code \in {"ok", "state", "arg"} : Ends(t, code, NoFile)
    /\ UNCHANGED stored

ReadDone(t) ==
    /\ busy[t].op = "read"
    /\ busy[t].buf # NoBuffer
    /\ stored[busy[t].file] # NoFile
    /\ Ends(t, "ok", stored[busy[t].file])
    /\ UNCHANGED stored

WriteDone(t) ==
    /\ busy[t].op = "write"
    /\ stored' = [stored EXCEPT ![busy[t].file] = busy[t].val]
    /\ Ends(t, "ok", NoFile)

\* A call on the file takes the old value with it: a write bound to fail, or any call
\* that fails to see the file.
Lost(t) ==
    /\ busy[t].op \in {"write", "check", "format"}
    /\ stored' = [stored EXCEPT ![busy[t].file] = NoFile]
    /\ UNCHANGED <<busy, reply>>

\* A file that holds nothing is given the empty payload; a write goes on.
Created(t) ==
    /\ busy[t].op \in {"write", "check", "format"}
    /\ stored[busy[t].file] = NoFile
    /\ stored' = [stored EXCEPT ![busy[t].file] = NoData]
    /\ \/ busy[t].op = "write" /\ UNCHANGED <<busy, reply>>
       \/ busy[t].op # "write" /\ Ends(t, "ok", NoFile)
       \/ Ends(t, "fail", NoFile)

Formatted(t) ==
    /\ busy[t].op = "format"
    /\ stored' = [f \in Files |-> NoFile]
    /\ UNCHANGED <<busy, reply>> \/ Ends(t, "fail", NoFile)

\* Any other end of a call changes nothing, and acknowledges neither a read nor a
\* write.
DoneWithout(t) ==
    /\ busy[t] # NoRequest
    /\ \E code \in {"ok", "size", "fail", "state", "version", "nomem"} :
         /\ busy[t].op \in {"read", "write"} => code # "ok"
         /\ Ends(t, code, NoFile)
    /\ UNCHANGED stored

\* The power fails: what a write or a format has under way may be lost.
PowerLost ==
    /\ busy' = [t \in Tasks |-> NoRequest]
    /\ reply' = [t \in Tasks |-> [code |-> "none", data |-> NoFile]]
    /\ \/ UNCHANGED stored
       \/ \E t \in Tasks :
            \/ /\ busy[t].op = "write"
               /\ stored' = [stored EXCEPT ![busy[t].file] = NoFile]
            \/ /\ busy[t].op = "format"
               /\ stored' = [f \in Files |-> NoFile]

StoreInit == busy = [t \in Tasks |-> NoRequest]

StoreNext ==
    \/ \E t \in Tasks :
         \/ Begins(t) \/ Refused(t) \/ ReadDone(t) \/ WriteDone(t) \/ Lost(t)
         \/ Created(t) \/ Formatted(t) \/ DoneWithout(t)
    \/ PowerLost

StoreSpec == StoreInit /\ [][StoreNext]_storeVars
=============================================================================
