------------------------------ MODULE ErrorLog ------------------------------
(***************************************************************************)
(* utils/error_log.py: one JSON file, click_cmd_err.log, to which every    *)
(* pytest process of a run (the controller and the xdist workers) and the  *)
(* click command around them write.  Writers take a FileLock; the readers  *)
(* behind has_logs and get_count_by_group do not.  write_text opens the    *)
(* file for writing, which empties it, before it writes the new text: in   *)
(* between the file is torn and cannot be parsed.                          *)
(***************************************************************************)
EXTENDS LogModel

CONSTANTS
    Procs,      \* the processes that import utils.error_log
    NoProc,     \* nobody: the lock is free
    Earlier,    \* the logs an earlier run may have left in the file
    Calls,      \* the requests arbitrary clients make of the log
    MaxEntries  \* bound: a log with a list this long gets no further additions

ASSUME NoProcIsNoProcess == NoProc \notin Procs
ASSUME EarlierAreLogs == Earlier \subseteq Logs
ASSUME MaxEntriesIsNat == MaxEntries \in Nat

VARIABLES
    file,       \* the file: its state, and the log it holds when it is whole
    lock,       \* the process that holds the FileLock
    stage,      \* how far the operation of a process has come
    req,        \* the operation a process performs
    snap        \* the ErrorLogModel in the memory of a process

logVars == <<file, lock, stage, req, snap>>

-----------------------------------------------------------------------------
Create == [kind |-> "create"]   \* ErrorLog.__init__, at the import of the module
Wipe   == [kind |-> "clear"]    \* ErrorLog.clear
Read   == [kind |-> "read"]     \* has_logs, get_count_by_group, read
Requests == Additions \cup {Create, Wipe, Read}

ASSUME CallsAreRequests == Calls \subseteq Requests

Stages == {"idle", "waiting", "locked", "loaded", "truncated", "written",
           "returned", "raised"}

Absent   == [state |-> "absent", log |-> EmptyLog]
Torn     == [state |-> "torn", log |-> EmptyLog]
Whole(l) == [state |-> "whole", log |-> l]
Files    == {Absent, Torn} \cup [state : {"whole"}, log : Logs]

\* Between operations: the last one returned, or raised an exception.
Idle(p) == stage[p] \in {"idle", "returned", "raised"}

LogInit ==
    /\ file \in {Absent} \cup {Whole(l) : l \in Earlier}
    /\ lock = NoProc
    /\ stage = [p \in Procs |-> "idle"]
    /\ req = [p \in Procs |-> Read]
    /\ snap = [p \in Procs |-> EmptyLog]

-----------------------------------------------------------------------------
(***************************************************************************)
(* The steps of an operation.                                              *)
(***************************************************************************)
\* A process calls a method of error_log.
Invoke(p, r) ==
    /\ Idle(p)
    /\ stage' = [stage EXCEPT ![p] = "waiting"]
    /\ req' = [req EXCEPT ![p] = r]
    /\ snap' = [snap EXCEPT ![p] = EmptyLog]
    /\ UNCHANGED <<file, lock>>

\* read() takes no lock: json.load raises on a torn file.
ReadUnlocked(p) ==
    /\ stage[p] = "waiting"
    /\ req[p] = Read
    /\ IF file.state = "whole"
       THEN /\ stage' = [stage EXCEPT ![p] = "returned"]
            /\ snap' = [snap EXCEPT ![p] = file.log]
       ELSE /\ stage' = [stage EXCEPT ![p] = "raised"]
            /\ UNCHANGED snap
    /\ UNCHANGED <<file, lock, req>>

\* Mutant: a writer that does not wait for the lock.
AcquireAnyway(p) ==
    /\ stage[p] = "waiting"
    /\ req[p] # Read
    /\ lock' = p
    /\ stage' = [stage EXCEPT ![p] = "locked"]
    /\ UNCHANGED <<file, req, snap>>

\* with self.lock:
Acquire(p) ==
    /\ stage[p] = "waiting"
    /\ req[p] # Read
    /\ lock = NoProc
    /\ lock' = p
    /\ stage' = [stage EXCEPT ![p] = "locked"]
    /\ UNCHANGED <<file, req, snap>>

\* Mutant: the with block of the lock ends before the body of _update does.
LoadUnlocks(p) ==
    /\ stage[p] = "locked"
    /\ req[p] \in Additions
    /\ file.state = "whole"
    /\ snap' = [snap EXCEPT ![p] = Apply(req[p], file.log)]
    /\ stage' = [stage EXCEPT ![p] = "loaded"]
    /\ lock' = NoProc
    /\ UNCHANGED <<file, req>>

\* _update: log = self.read(), then the body of the with block changes it.
Load(p) ==
    /\ stage[p] = "locked"
    /\ req[p] \in Additions
    /\ file.state = "whole"
    /\ snap' = [snap EXCEPT ![p] = Apply(req[p], file.log)]
    /\ stage' = [stage EXCEPT ![p] = "loaded"]
    /\ UNCHANGED <<file, lock, req>>

\* Mutant: acquire and release without try and finally.
LoadFailsLocked(p) ==
    /\ stage[p] = "locked"
    /\ req[p] \in Additions
    /\ file.state # "whole"
    /\ stage' = [stage EXCEPT ![p] = "raised"]
    /\ UNCHANGED <<file, lock, req, snap>>

\* _update: self.read() raises, and the with statement releases the lock.
LoadFails(p) ==
    /\ stage[p] = "locked"
    /\ req[p] \in Additions
    /\ file.state # "whole"
    /\ lock' = NoProc
    /\ stage' = [stage EXCEPT ![p] = "raised"]
    /\ UNCHANGED <<file, req, snap>>

\* __create, from clear, or from __init__ when there is no file: an empty model.
New(p) ==
    /\ stage[p] = "locked"
    /\ \/ req[p] = Wipe
       \/ req[p] = Create /\ file.state = "absent"
    /\ snap' = [snap EXCEPT ![p] = EmptyLog]
    /\ stage' = [stage EXCEPT ![p] = "loaded"]
    /\ UNCHANGED <<file, lock, req>>

\* __init__ leaves a file that exists alone.
Exists(p) ==
    /\ stage[p] = "locked"
    /\ req[p] = Create
    /\ file.state # "absent"
    /\ stage' = [stage EXCEPT ![p] = "written"]
    /\ UNCHANGED <<file, lock, req, snap>>

\* write_text opens the file for writing, which empties it ...
Truncate(p) ==
    /\ stage[p] = "loaded"
    /\ file' = Torn
    /\ stage' = [stage EXCEPT ![p] = "truncated"]
    /\ UNCHANGED <<lock, req, snap>>

\* ... and writes the text.
Write(p) ==
    /\ stage[p] = "truncated"
    /\ file' = Whole(snap[p])
    /\ stage' = [stage EXCEPT ![p] = "written"]
    /\ UNCHANGED <<lock, req, snap>>

\* The end of the with statement.
Release(p) ==
    /\ stage[p] = "written"
    /\ lock' = NoProc
    /\ stage' = [stage EXCEPT ![p] = "returned"]
    /\ snap' = [snap EXCEPT ![p] = EmptyLog]
    /\ UNCHANGED <<file, req>>

LogStep(p) ==
    \/ ReadUnlocked(p) \/ Acquire(p)
    \/ Load(p) \/ LoadFails(p) \/ New(p) \/ Exists(p)
    \/ Truncate(p) \/ Write(p) \/ Release(p)

(***************************************************************************)
(* The death of a process: the operating system drops its flock; what it   *)
(* was doing to the file stays half done.                                  *)
(***************************************************************************)
Kill(p) ==
    /\ stage[p] # "idle"
    /\ stage' = [stage EXCEPT ![p] = "idle"]
    /\ lock' = IF lock = p THEN NoProc ELSE lock
    /\ req' = [req EXCEPT ![p] = Read]
    /\ snap' = [snap EXCEPT ![p] = EmptyLog]
    /\ UNCHANGED file

-----------------------------------------------------------------------------
(***************************************************************************)
(* The log that the file stands for: what the process that has emptied the *)
(* file is about to write; nothing if that process died.                   *)
(***************************************************************************)
AbstractLog ==
    IF \E p \in Procs : stage[p] = "truncated"
    THEN snap[CHOOSE p \in Procs : stage[p] = "truncated"]
    ELSE file.log

(***************************************************************************)
(* The log under arbitrary clients: every process imports the module and   *)
(* then calls any method at any time.                                      *)
(***************************************************************************)
Import(p) ==
    /\ stage[p] = "idle"
    /\ Invoke(p, Create)

Small(l) ==
    /\ Len(l.comments) < MaxEntries
    /\ \A g \in Groups : Len(ListOf(l.failures, g)) < MaxEntries
    /\ \A g \in Groups : Len(ListOf(l.errors, g)) < MaxEntries

Call(p) ==
    /\ stage[p] # "idle"
    /\ Small(AbstractLog)
    /\ \E r \in Calls : Invoke(p, r)

Next == \E p \in Procs : Import(p) \/ Call(p) \/ LogStep(p) \/ Kill(p)

Spec == LogInit /\ [][Next]_logVars

-----------------------------------------------------------------------------
LogTypeOK ==
    /\ file \in Files
    /\ lock \in Procs \cup {NoProc}
    /\ stage \in [Procs -> Stages]
    /\ req \in [Procs -> Calls \cup {Create, Read}]
    /\ snap \in [Procs -> Logs]

(***************************************************************************)
(* Every operation on the shared file is atomic: whatever the processes    *)
(* do at the same time, the log changes as if one of them at a time had    *)
(* added its whole entry, or emptied the log (ErrorLog._update and clear   *)
(* under self.lock).                                                       *)
(***************************************************************************)
Atomic == INSTANCE AtomicLog WITH log <- AbstractLog, Adds <- Calls \cap Additions
ImplementsAtomicLog == Atomic!Spec

\* Every list of a table is still there, possibly with more behind it.
Extends(later, table) ==
    \A g \in Groups :
        /\ table[g] # NoKey => later[g] # NoKey
        /\ Len(ListOf(later, g)) >= Len(ListOf(table, g))
        /\ SubSeq(ListOf(later, g), 1, Len(ListOf(table, g))) = ListOf(table, g)

\* Between the lock and the unlock.
InCriticalSection(p) == stage[p] \in {"locked", "loaded", "truncated", "written"}

\* At most one process is between the lock and the unlock of the FileLock.
WriterHoldsLock == \A p \in Procs : InCriticalSection(p) <=> lock = p
=============================================================================
