--------------------------- MODULE ErrorLogProofs ---------------------------
(***************************************************************************)
(* Proofs about ErrorLog.tla, for any number of processes, any requests    *)
(* and any earlier log: its type invariant, the exclusion of writers, and  *)
(* that it implements AtomicLog.tla.                                       *)
(***************************************************************************)
EXTENDS ErrorLog, TLAPS

(***************************************************************************)
(* The data of the log.                                                    *)
(***************************************************************************)
\* The log of a file just created.
LEMMA EmptyLogType == EmptyLog \in Logs
BY DEF EmptyLog, Logs, EmptyTable, Tables

\* A list of a table, present or not, is a sequence of names.
LEMMA ListOfType ==
    ASSUME NEW t \in Tables, NEW g \in Groups
    PROVE  ListOf(t, g) \in Seq(Names)
BY DEF Tables, ListOf

LEMMA ExtendType ==
    ASSUME NEW t \in Tables, NEW g \in Groups, NEW names \in Seq(Names)
    PROVE  Extend(t, g, names) \in Tables
<1>1. ListOf(t, g) \o names \in Seq(Names)
  BY ListOfType
<1>2. QED
  BY <1>1 DEF Extend, Tables

\* Adding an entry or a comment to a log gives a log.
LEMMA ApplyType ==
    ASSUME NEW r \in Additions, NEW l \in Logs
    PROVE  Apply(r, l) \in Logs
<1>1. CASE r.kind = "failures"
  <2>1. r.group \in Groups /\ r.names \in Seq(Names)
    BY <1>1 DEF Additions, Entries, Remarks
  <2>2. Extend(l.failures, r.group, r.names) \in Tables
    BY <2>1, ExtendType DEF Logs
  <2>3. QED
    BY <1>1, <2>2 DEF Apply, Logs
<1>2. CASE r.kind = "errors"
  <2>1. r.group \in Groups /\ r.names \in Seq(Names)
    BY <1>2 DEF Additions, Entries, Remarks
  <2>2. Extend(l.errors, r.group, r.names) \in Tables
    BY <2>1, ExtendType DEF Logs
  <2>3. QED
    BY <1>2, <2>2 DEF Apply, Logs
<1>3. CASE r.kind = "comment"
  <2>1. r.text \in Texts
    BY <1>3 DEF Additions, Entries, Remarks
  <2>2. Append(l.comments, r.text) \in Seq(Texts)
    BY <2>1 DEF Logs
  <2>3. QED
    BY <1>3, <2>2 DEF Apply, Logs
<1>4. QED
  BY <1>1, <1>2, <1>3 DEF Additions, Entries, Remarks

-----------------------------------------------------------------------------
(***************************************************************************)
(* What a process that is about to write has in its memory: the log of the *)
(* file with its own entry added, or an empty log.  The file cannot change *)
(* behind its back, because it holds the lock.                             *)
(***************************************************************************)
SnapshotIsCurrent ==
    \A p \in Procs :
        stage[p] = "loaded" =>
            IF req[p] \in Additions
            THEN snap[p] = Apply(req[p], file.log)
            ELSE snap[p] = EmptyLog

TornByWriter == \A p \in Procs : stage[p] = "truncated" => file = Torn

IInv ==
    /\ LogTypeOK
    /\ WriterHoldsLock
    /\ SnapshotIsCurrent
    /\ TornByWriter

-----------------------------------------------------------------------------
\* Every file, whole or not, stands for a log.
LEMMA FileLogType ==
    ASSUME NEW f \in Files
    PROVE  f.log \in Logs
BY EmptyLogType DEF Files, Absent, Torn

\* The three requests that are no additions.
LEMMA OtherRequests ==
    /\ Create \notin Additions /\ Wipe \notin Additions /\ Read \notin Additions
    /\ Create # Read /\ Wipe # Read /\ Wipe # Create
<1>1. \A r \in Additions : r.kind \in {"failures", "errors", "comment"}
  BY DEF Additions, Entries, Remarks
<1>2. Create.kind = "create" /\ Wipe.kind = "clear" /\ Read.kind = "read"
  BY DEF Create, Wipe, Read
<1>3. QED
  BY <1>1, <1>2

-----------------------------------------------------------------------------
(***************************************************************************)
(* The invariant, one step of a process at a time.                         *)
(***************************************************************************)
LEMMA InitInv == LogInit => IInv
<1> SUFFICES ASSUME LogInit PROVE IInv
  OBVIOUS
<1>1. file \in Files
  BY EarlierAreLogs DEF LogInit, Files, Whole
<1>2. LogTypeOK
  BY <1>1, EmptyLogType DEF LogInit, LogTypeOK, Stages
<1>3. WriterHoldsLock
  BY NoProcIsNoProcess DEF LogInit, WriterHoldsLock, InCriticalSection
<1>4. SnapshotIsCurrent /\ TornByWriter
  BY DEF LogInit, SnapshotIsCurrent, TornByWriter
<1>5. QED
  BY <1>2, <1>3, <1>4 DEF IInv

LEMMA InvokeInv ==
    ASSUME IInv, NEW p \in Procs, NEW r \in Calls \cup {Create, Read}, Invoke(p, r)
    PROVE  IInv'
<1> USE DEF IInv, Invoke, Idle
<1>1. LogTypeOK'
  BY EmptyLogType DEF LogTypeOK, Stages
<1>2. WriterHoldsLock'
  BY DEF LogTypeOK, WriterHoldsLock, InCriticalSection
<1>3. SnapshotIsCurrent'
  BY DEF LogTypeOK, SnapshotIsCurrent
<1>4. TornByWriter'
  BY DEF LogTypeOK, TornByWriter
<1>5. QED
  BY <1>1, <1>2, <1>3, <1>4

LEMMA ReadUnlockedInv ==
    ASSUME IInv, NEW p \in Procs, ReadUnlocked(p)
    PROVE  IInv'
<1> USE DEF IInv, ReadUnlocked
<1>1. LogTypeOK'
  BY FileLogType DEF LogTypeOK, Stages
<1>2. WriterHoldsLock'
  BY DEF LogTypeOK, WriterHoldsLock, InCriticalSection
<1>3. SnapshotIsCurrent'
  BY DEF LogTypeOK, SnapshotIsCurrent
<1>4. TornByWriter'
  BY DEF LogTypeOK, TornByWriter
<1>5. QED
  BY <1>1, <1>2, <1>3, <1>4

LEMMA AcquireInv ==
    ASSUME IInv, NEW p \in Procs, Acquire(p)
    PROVE  IInv'
<1> USE DEF IInv, Acquire
<1>1. LogTypeOK'
  BY DEF LogTypeOK, Stages
<1>2. WriterHoldsLock'
  BY NoProcIsNoProcess DEF LogTypeOK, WriterHoldsLock, InCriticalSection
<1>3. SnapshotIsCurrent'
  BY DEF LogTypeOK, SnapshotIsCurrent
<1>4. TornByWriter'
  BY DEF LogTypeOK, TornByWriter
<1>5. QED
  BY <1>1, <1>2, <1>3, <1>4

LEMMA LoadInv ==
    ASSUME IInv, NEW p \in Procs, Load(p)
    PROVE  IInv'
<1> USE DEF IInv, Load
<1>1. Apply(req[p], file.log) \in Logs
  BY FileLogType, ApplyType DEF LogTypeOK
<1>2. LogTypeOK'
  BY <1>1 DEF LogTypeOK, Stages
<1>3. WriterHoldsLock'
  BY DEF LogTypeOK, WriterHoldsLock, InCriticalSection
<1>4. SnapshotIsCurrent'
  BY DEF LogTypeOK, SnapshotIsCurrent
<1>5. TornByWriter'
  BY DEF LogTypeOK, TornByWriter
<1>6. QED
  BY <1>2, <1>3, <1>4, <1>5

LEMMA LoadFailsInv ==
    ASSUME IInv, NEW p \in Procs, LoadFails(p)
    PROVE  IInv'
<1> USE DEF IInv, LoadFails
<1>1. LogTypeOK'
  BY DEF LogTypeOK, Stages
<1>2. WriterHoldsLock'
  BY NoProcIsNoProcess DEF LogTypeOK, WriterHoldsLock, InCriticalSection
<1>3. SnapshotIsCurrent'
  BY DEF LogTypeOK, SnapshotIsCurrent
<1>4. TornByWriter'
  BY DEF LogTypeOK, TornByWriter
<1>5. QED
  BY <1>1, <1>2, <1>3, <1>4

LEMMA NewInv ==
    ASSUME IInv, NEW p \in Procs, New(p)
    PROVE  IInv'
<1> USE DEF IInv, New
<1>1. LogTypeOK'
  BY EmptyLogType DEF LogTypeOK, Stages
<1>2. WriterHoldsLock'
  BY DEF LogTypeOK, WriterHoldsLock, InCriticalSection
<1>3. SnapshotIsCurrent'
  BY OtherRequests DEF LogTypeOK, SnapshotIsCurrent
<1>4. TornByWriter'
  BY DEF LogTypeOK, TornByWriter
<1>5. QED
  BY <1>1, <1>2, <1>3, <1>4

LEMMA ExistsInv ==
    ASSUME IInv, NEW p \in Procs, Exists(p)
    PROVE  IInv'
<1> USE DEF IInv, Exists
<1>1. LogTypeOK'
  BY DEF LogTypeOK, Stages
<1>2. WriterHoldsLock'
  BY DEF LogTypeOK, WriterHoldsLock, InCriticalSection
<1>3. SnapshotIsCurrent'
  BY DEF LogTypeOK, SnapshotIsCurrent
<1>4. TornByWriter'
  BY DEF LogTypeOK, TornByWriter
<1>5. QED
  BY <1>1, <1>2, <1>3, <1>4

\* The lock keeps every other process from having loaded a log.
LEMMA TruncateInv ==
    ASSUME IInv, NEW p \in Procs, Truncate(p)
    PROVE  IInv'
<1> USE DEF IInv, Truncate
<1>1. LogTypeOK'
  BY DEF LogTypeOK, Stages, Files
<1>2. WriterHoldsLock'
  BY DEF LogTypeOK, WriterHoldsLock, InCriticalSection
<1>3. \A q \in Procs \ {p} : stage[q] # "loaded"
  BY DEF WriterHoldsLock, InCriticalSection
<1>4. SnapshotIsCurrent'
  BY <1>3 DEF LogTypeOK, SnapshotIsCurrent
<1>5. TornByWriter'
  BY DEF LogTypeOK, TornByWriter
<1>6. QED
  BY <1>1, <1>2, <1>4, <1>5

LEMMA WriteInv ==
    ASSUME IInv, NEW p \in Procs, Write(p)
    PROVE  IInv'
<1> USE DEF IInv, Write
<1>1. LogTypeOK'
  BY DEF LogTypeOK, Stages, Files, Whole
<1>2. WriterHoldsLock'
  BY DEF LogTypeOK, WriterHoldsLock, InCriticalSection
<1>3. \A q \in Procs \ {p} : stage[q] \notin {"loaded", "truncated"}
  BY DEF WriterHoldsLock, InCriticalSection
<1>4. SnapshotIsCurrent'
  BY <1>3 DEF LogTypeOK, SnapshotIsCurrent
<1>5. TornByWriter'
  BY <1>3 DEF LogTypeOK, TornByWriter
<1>6. QED
  BY <1>1, <1>2, <1>4, <1>5

LEMMA ReleaseInv ==
    ASSUME IInv, NEW p \in Procs, Release(p)
    PROVE  IInv'
<1> USE DEF IInv, Release
<1>1. LogTypeOK'
  BY EmptyLogType DEF LogTypeOK, Stages
<1>2. WriterHoldsLock'
  BY NoProcIsNoProcess DEF LogTypeOK, WriterHoldsLock, InCriticalSection
<1>3. SnapshotIsCurrent'
  BY DEF LogTypeOK, SnapshotIsCurrent
<1>4. TornByWriter'
  BY DEF LogTypeOK, TornByWriter
<1>5. QED
  BY <1>1, <1>2, <1>3, <1>4

LEMMA KillInv ==
    ASSUME IInv, NEW p \in Procs, Kill(p)
    PROVE  IInv'
<1> USE DEF IInv, Kill
<1>1. LogTypeOK'
  BY EmptyLogType DEF LogTypeOK, Stages
<1>2. WriterHoldsLock'
  BY NoProcIsNoProcess DEF LogTypeOK, WriterHoldsLock, InCriticalSection
<1>3. SnapshotIsCurrent'
  BY DEF LogTypeOK, SnapshotIsCurrent
<1>4. TornByWriter'
  BY DEF LogTypeOK, TornByWriter
<1>5. QED
  BY <1>1, <1>2, <1>3, <1>4

LEMMA LogStepInv ==
    ASSUME IInv, NEW p \in Procs, LogStep(p)
    PROVE  IInv'
BY ReadUnlockedInv, AcquireInv, LoadInv, LoadFailsInv, NewInv, ExistsInv,
   TruncateInv, WriteInv, ReleaseInv
   DEF LogStep

LEMMA StepInv == IInv /\ [Next]_logVars => IInv'
<1> SUFFICES ASSUME IInv, [Next]_logVars PROVE IInv'
  OBVIOUS
<1>1. CASE Next
  <2>1. PICK p \in Procs : Import(p) \/ Call(p) \/ LogStep(p) \/ Kill(p)
    BY <1>1 DEF Next
  <2>2. CASE Import(p)
    BY <2>2, InvokeInv DEF Import
  <2>3. CASE Call(p)
    BY <2>3, InvokeInv DEF Call
  <2>4. QED
    BY <2>1, <2>2, <2>3, LogStepInv, KillInv
<1>2. CASE UNCHANGED logVars
  BY <1>2 DEF logVars, IInv, LogTypeOK, WriterHoldsLock, InCriticalSection,
              SnapshotIsCurrent, TornByWriter
<1>3. QED
  BY <1>1, <1>2

LEMMA Invariance == Spec => []IInv
<1>1. QED
  BY InitInv, StepInv, PTL DEF Spec

(***************************************************************************)
(* The types of error_log.py's file, lock and in-memory models.            *)
(***************************************************************************)
THEOREM TypeCorrect == Spec => []LogTypeOK
<1>1. IInv => LogTypeOK
  BY DEF IInv
<1>2. QED
  BY <1>1, Invariance, PTL

(***************************************************************************)
(* At most one process is inside a `with self.lock` block of error_log.py, *)
(* and processes that die there do not break this.                         *)
(***************************************************************************)
THEOREM MutualExclusion == Spec => []WriterHoldsLock
<1>1. IInv => WriterHoldsLock
  BY DEF IInv
<1>2. QED
  BY <1>1, Invariance, PTL

-----------------------------------------------------------------------------
(***************************************************************************)
(* ErrorLog implements AtomicLog: emptying the file is the step at which   *)
(* the whole operation happens.                                            *)
(***************************************************************************)
\* The abstract log while a process is between emptying and writing the file.
LEMMA LogOfWriter ==
    ASSUME IInv, NEW p \in Procs, stage[p] = "truncated"
    PROVE  AbstractLog = snap[p]
<1>1. \A q \in Procs : stage[q] = "truncated" => q = p
  BY DEF IInv, WriterHoldsLock, InCriticalSection
<1>2. (CHOOSE q \in Procs : stage[q] = "truncated") = p
  BY <1>1
<1>3. QED
  BY <1>2 DEF AbstractLog

\* The abstract log at all other times.
LEMMA LogOfFile ==
    ASSUME \A q \in Procs : stage[q] # "truncated"
    PROVE  AbstractLog = file.log
BY DEF AbstractLog

\* A step that leaves the file, the models in memory and the writer alone.
LEMMA QuietStep ==
    ASSUME IInv, IInv', NEW p \in Procs,
           file' = file,
           stage[p] # "truncated", stage'[p] # "truncated",
           \A q \in Procs \ {p} : stage'[q] = stage[q] /\ snap'[q] = snap[q]
    PROVE  AbstractLog' = AbstractLog
<1>1. CASE \E q \in Procs : stage[q] = "truncated"
  <2>1. PICK q \in Procs : stage[q] = "truncated"
    BY <1>1
  <2>2. AbstractLog = snap[q]
    BY <2>1, LogOfWriter
  <2>3. stage'[q] = "truncated" /\ snap'[q] = snap[q]
    BY <2>1
  <2>4. \A r \in Procs : stage'[r] = "truncated" => r = q
    BY <2>3 DEF IInv, WriterHoldsLock, InCriticalSection
  <2>5. (CHOOSE r \in Procs : stage'[r] = "truncated") = q
    BY <2>3, <2>4
  <2>6. AbstractLog' = snap'[q]
    BY <2>3, <2>5 DEF AbstractLog
  <2>7. QED
    BY <2>2, <2>3, <2>6
<1>2. CASE \A q \in Procs : stage[q] # "truncated"
  <2>1. \A q \in Procs : stage'[q] # "truncated"
    BY <1>2
  <2>2. AbstractLog' = file'.log
    BY <2>1 DEF AbstractLog
  <2>3. QED
    BY <1>2, <2>2, LogOfFile
<1>3. QED
  BY <1>1, <1>2

LEMMA InitRefines == LogInit => Atomic!Init
<1> SUFFICES ASSUME LogInit PROVE AbstractLog \in Logs
  BY DEF Atomic!Init, Atomic!Logs, Atomic!Tables, Logs, Tables
<1>1. AbstractLog = file.log
  BY LogOfFile DEF LogInit
<1>2. file \in Files
  BY InitInv DEF IInv, LogTypeOK
<1>3. QED
  BY <1>1, <1>2, FileLogType

\* Emptying the file is the point at which the whole request takes effect.
LEMMA TruncateEffect ==
    ASSUME IInv, IInv', NEW p \in Procs, Truncate(p)
    PROVE  AbstractLog' = IF req[p] \in Additions
                          THEN Apply(req[p], AbstractLog)
                          ELSE EmptyLog
<1>1. \A q \in Procs : stage[q] # "truncated"
  BY DEF IInv, WriterHoldsLock, InCriticalSection, Truncate
<1>2. AbstractLog = file.log
  BY <1>1, LogOfFile
<1>3. stage'[p] = "truncated" /\ snap'[p] = snap[p]
  BY DEF Truncate, IInv, LogTypeOK
<1>4. AbstractLog' = snap[p]
  <2>1. \A r \in Procs : stage'[r] = "truncated" => r = p
    BY <1>3 DEF IInv, WriterHoldsLock, InCriticalSection
  <2>2. (CHOOSE r \in Procs : stage'[r] = "truncated") = p
    BY <1>3, <2>1
  <2>3. QED
    BY <1>3, <2>2 DEF AbstractLog
<1>5. QED
  BY <1>2, <1>4 DEF IInv, SnapshotIsCurrent, Truncate

LEMMA TruncateRefines ==
    ASSUME IInv, IInv', NEW p \in Procs, Truncate(p)
    PROVE  Atomic!Next
<1>1. CASE req[p] \in Additions
  <2>1. AbstractLog' = Apply(req[p], AbstractLog)
    BY <1>1, TruncateEffect
  <2>2. req[p] \in Calls \cap Additions
    BY <1>1, OtherRequests DEF IInv, LogTypeOK
  <2>3. QED
    BY <2>1, <2>2 DEF Atomic!Next, Atomic!Add, Atomic!Apply, Apply,
                      Atomic!Extend, Extend, Atomic!ListOf, ListOf
<1>2. CASE req[p] \notin Additions
  BY <1>2, TruncateEffect DEF Atomic!Next, Atomic!Clear,
                    Atomic!EmptyLog, EmptyLog, Atomic!EmptyTable, EmptyTable
<1>3. QED
  BY <1>1, <1>2

\* Writing what the log already is changes nothing.
LEMMA WriteRefines ==
    ASSUME IInv, IInv', NEW p \in Procs, Write(p)
    PROVE  AbstractLog' = AbstractLog
<1>1. AbstractLog = snap[p]
  BY LogOfWriter DEF Write
<1>2. \A q \in Procs : stage'[q] # "truncated"
  BY DEF IInv, WriterHoldsLock, InCriticalSection, LogTypeOK, Write
<1>3. AbstractLog' = file'.log
  BY <1>2 DEF AbstractLog
<1>4. QED
  BY <1>1, <1>3 DEF Write, Whole

\* A process that dies over the empty file loses the log, any other does not.
LEMMA KillEffect ==
    ASSUME IInv, IInv', NEW p \in Procs, Kill(p)
    PROVE  AbstractLog' = IF stage[p] = "truncated" THEN EmptyLog ELSE AbstractLog
<1>1. CASE stage[p] = "truncated"
  <2>1. \A q \in Procs : stage'[q] # "truncated"
    BY <1>1 DEF IInv, WriterHoldsLock, InCriticalSection, LogTypeOK, Kill
  <2>2. AbstractLog' = file'.log
    BY <2>1 DEF AbstractLog
  <2>3. file' = Torn
    BY <1>1 DEF Kill, IInv, TornByWriter
  <2>4. QED
    BY <1>1, <2>2, <2>3 DEF Torn
<1>2. CASE stage[p] # "truncated"
  BY <1>2, QuietStep DEF Kill, IInv, LogTypeOK
<1>3. QED
  BY <1>1, <1>2

LEMMA KillRefines ==
    ASSUME IInv, IInv', NEW p \in Procs, Kill(p)
    PROVE  Atomic!Next \/ AbstractLog' = AbstractLog
BY KillEffect DEF Atomic!Next, Atomic!Clear,
                  Atomic!EmptyLog, EmptyLog, Atomic!EmptyTable, EmptyTable

\* The other steps of an operation only prepare or conclude it.
LEMMA OtherStepsRefine ==
    ASSUME IInv, IInv', NEW p \in Procs,
           \/ \E r \in Requests : Invoke(p, r)
           \/ ReadUnlocked(p) \/ Acquire(p) \/ Load(p) \/ LoadFails(p)
           \/ New(p) \/ Exists(p) \/ Release(p)
    PROVE  AbstractLog' = AbstractLog
<1>1. stage[p] # "truncated" /\ stage'[p] # "truncated"
  BY DEF IInv, LogTypeOK, Invoke, Idle, ReadUnlocked, Acquire, Load, LoadFails,
         New, Exists, Release
<1>2. \A q \in Procs \ {p} : stage'[q] = stage[q] /\ snap'[q] = snap[q]
  BY DEF IInv, LogTypeOK, Invoke, ReadUnlocked, Acquire, Load, LoadFails,
         New, Exists, Release
<1>3. file' = file
  BY DEF Invoke, ReadUnlocked, Acquire, Load, LoadFails, New, Exists, Release
<1>4. QED
  BY <1>1, <1>2, <1>3, QuietStep

LEMMA StepRefines ==
    IInv /\ IInv' /\ [Next]_logVars => [Atomic!Next]_AbstractLog
<1> SUFFICES ASSUME IInv, IInv', [Next]_logVars
             PROVE  Atomic!Next \/ AbstractLog' = AbstractLog
  OBVIOUS
<1>1. CASE Next
  <2>1. PICK p \in Procs : Import(p) \/ Call(p) \/ LogStep(p) \/ Kill(p)
    BY <1>1 DEF Next
  <2>2. CASE Import(p) \/ Call(p)
    <3>1. \E r \in Requests : Invoke(p, r)
      BY <2>2, CallsAreRequests DEF Import, Call, Requests
    <3>2. QED
      BY <3>1, OtherStepsRefine
  <2>3. CASE LogStep(p)
    BY <2>3, TruncateRefines, WriteRefines, OtherStepsRefine DEF LogStep
  <2>4. CASE Kill(p)
    BY <2>4, KillRefines
  <2>5. QED
    BY <2>1, <2>2, <2>3, <2>4
<1>2. CASE UNCHANGED logVars
  BY <1>2 DEF logVars, AbstractLog
<1>3. QED
  BY <1>1, <1>2

(***************************************************************************)
(* error_log.py implements the atomic log: additions of parallel processes *)
(* are never lost or mixed, whatever the number of processes and whenever  *)
(* one of them dies.                                                       *)
(***************************************************************************)
THEOREM ErrorLogIsAtomic == Spec => ImplementsAtomicLog
<1>1. QED
  BY InitRefines, StepRefines, StepInv, Invariance, PTL
     DEF Spec, ImplementsAtomicLog, Atomic!Spec
=============================================================================
