-------------------------- MODULE CostReportsProofs --------------------------
(***************************************************************************)
(* Proofs about CostReports, for any workers, reports and bounds.          *)
(***************************************************************************)
EXTENDS CostReports, TLAPS

\* The record of a worker keeps its type when one field gets another value.
LEMMA FieldTypes ==
    ASSUME NEW r \in WorkerRecords
    PROVE  /\ \A v \in {"idle", "raised", "failed"} \cup Calling \cup Starting :
                [r EXCEPT !.stage = v] \in WorkerRecords
           /\ \A v \in Names \cup {None} : [r EXCEPT !.name = v] \in WorkerRecords
           /\ \A v \in BOOLEAN : [r EXCEPT !.exists = v] \in WorkerRecords
           /\ \A v \in Nat \cup {None} : [r EXCEPT !.inode = v] \in WorkerRecords
           /\ \A v \in Nat \cup {None} : [r EXCEPT !.out = v] \in WorkerRecords
           /\ \A v \in Seq(Actions) : [r EXCEPT !.actions = v] \in WorkerRecords
           /\ \A v \in SUBSET ({"report", "lock"} \X Names) :
                [r EXCEPT !.listing = v] \in WorkerRecords
BY DEF WorkerRecords

LEMMA NewWorkerType == NewWorker \in WorkerRecords
BY DEF NewWorker, WorkerRecords

LEMMA BecomeType ==
    ASSUME TypeOK, NEW w \in Workers, NEW r \in WorkerRecords, Become(w, r)
    PROVE  worker' \in [Workers -> WorkerRecords]
BY DEF Become, TypeOK

LEMMA StagesType ==
    ASSUME NEW stage \in {"idle", "raised", "failed", "session", "unlink", "enter", "open",
                          "lock", "check", "create", "created", "read", "change", "changed",
                          "close"}
    PROVE  stage \in {"idle", "raised", "failed"} \cup Calling \cup Starting
BY DEF Calling, Starting, Inside

\* A worker that makes a call has a report and the number of the call.
CallsNamed ==
    \A w \in Workers :
      worker[w].stage \in Calling => worker[w].name \in Names /\ calls[w] \in 1..MaxCalls

\* What remains to be said of a step that is not the beginning of a call.
LEMMA WorkerType ==
    ASSUME TypeOK, CallsNamed, NEW w \in Workers, NEW r \in WorkerRecords, Become(w, r),
           UNCHANGED calls,
           r.stage \in Calling => worker[w].stage \in Calling /\ r.name = worker[w].name
    PROVE  worker' \in [Workers -> WorkerRecords] /\ CallsNamed'
BY BecomeType DEF Become, TypeOK, CallsNamed

\* The next stage, and another field.
LEMMA NextStage ==
    ASSUME NEW r \in WorkerRecords, NEW stage \in Calling
    PROVE  /\ [r EXCEPT !.stage = stage] \in WorkerRecords
           /\ [r EXCEPT !.stage = stage].name = r.name
           /\ \A v \in BOOLEAN : /\ [r EXCEPT !.stage = stage, !.exists = v] \in WorkerRecords
                               /\ [r EXCEPT !.stage = stage, !.exists = v].name = r.name
           /\ \A v \in Nat : /\ [r EXCEPT !.stage = stage, !.inode = v] \in WorkerRecords
                           /\ [r EXCEPT !.stage = stage, !.inode = v].name = r.name
           /\ \A v \in Nat : /\ [r EXCEPT !.stage = stage, !.out = v] \in WorkerRecords
                           /\ [r EXCEPT !.stage = stage, !.out = v].name = r.name
           /\ \A v \in Seq(Actions) :
                /\ [r EXCEPT !.stage = stage, !.actions = v] \in WorkerRecords
                /\ [r EXCEPT !.stage = stage, !.actions = v].name = r.name
<1>1. [r EXCEPT !.stage = stage] \in WorkerRecords
  BY FieldTypes
<1>2. [r EXCEPT !.stage = stage].name = r.name
  BY DEF WorkerRecords
<1>3. /\ \A v \in BOOLEAN : [r EXCEPT !.stage = stage, !.exists = v] \in WorkerRecords
      /\ \A v \in Nat : [r EXCEPT !.stage = stage, !.inode = v] \in WorkerRecords
      /\ \A v \in Nat : [r EXCEPT !.stage = stage, !.out = v] \in WorkerRecords
      /\ \A v \in Seq(Actions) : [r EXCEPT !.stage = stage, !.actions = v] \in WorkerRecords
  BY <1>1, FieldTypes
<1>4. /\ \A v : [r EXCEPT !.stage = stage, !.exists = v].name = r.name
      /\ \A v : [r EXCEPT !.stage = stage, !.inode = v].name = r.name
      /\ \A v : [r EXCEPT !.stage = stage, !.out = v].name = r.name
      /\ \A v : [r EXCEPT !.stage = stage, !.actions = v].name = r.name
  BY DEF WorkerRecords
<1> QED
  BY <1>1, <1>2, <1>3, <1>4

LEMMA RaisesType ==
    ASSUME TypeOK, CallsNamed, NEW w \in Workers, UNCHANGED calls,
           Raises(w) \/ FailsToStart(w) \/ Become(w, NewWorker)
             \/ Become(w, [NewWorker EXCEPT !.stage = "session"])
    PROVE  worker' \in [Workers -> WorkerRecords] /\ CallsNamed'
<1>1. \A stage \in {"raised", "failed", "session"} :
        [NewWorker EXCEPT !.stage = stage] \in WorkerRecords
  BY NewWorkerType, FieldTypes, StagesType
<1>2. \A stage \in {"raised", "failed", "session"} :
        [NewWorker EXCEPT !.stage = stage].stage \notin Calling
  BY DEF NewWorker, Calling, Inside
<1>3. NewWorker.stage \notin Calling
  BY DEF NewWorker, Calling, Inside
<1>4. CASE Become(w, NewWorker)
  BY <1>3, <1>4, NewWorkerType, WorkerType
<1>5. CASE \E stage \in {"raised", "failed", "session"} :
             Become(w, [NewWorker EXCEPT !.stage = stage])
  <2>1. PICK stage \in {"raised", "failed", "session"} :
          Become(w, [NewWorker EXCEPT !.stage = stage])
    BY <1>5
  <2> QED
    BY <1>1, <1>2, <2>1, WorkerType
<1> QED
  BY <1>4, <1>5 DEF Raises, FailsToStart

LEMMA EmptyType ==
    ASSUME TypeOK, CallsNamed, NEW w \in Workers, NEW next \in Calling,
           worker[w].stage \in Calling, Empty(w, next)
    PROVE  TypeOK' /\ CallsNamed'
<1> DEFINE n == worker[w].name
<1>1. worker[w] \in WorkerRecords /\ n \in Names /\ removed[n].report \in Nat
  BY DEF TypeOK, CallsNamed
<1>2. UNCHANGED <<dir, lockFile, removed, calls, crashes, done, stale, atRisk>>
  BY DEF Empty, history
<1>3. CASE dir
  <2>1. report' \in [Names -> {None, Torn} \cup Seq(Actions)]
    BY <1>3 DEF Empty, TypeOK
  <2>2. Become(w, [worker[w] EXCEPT !.stage = next, !.out = removed[n].report])
    BY <1>3 DEF Empty
  <2>3. worker' \in [Workers -> WorkerRecords] /\ CallsNamed'
    <3> DEFINE r == [worker[w] EXCEPT !.stage = next, !.out = removed[n].report]
    <3>1. r \in WorkerRecords /\ r.name = worker[w].name
      BY <1>1, NextStage
    <3> HIDE DEF r
    <3> QED
      BY <1>2, <2>2, <3>1, WorkerType DEF r
  <2> QED
    BY <1>2, <2>1, <2>3 DEF TypeOK
<1>4. CASE ~dir
  BY <1>2, <1>4, RaisesType DEF Empty, TypeOK
<1> QED
  BY <1>3, <1>4

LEMMA FillType ==
    ASSUME TypeOK, CallsNamed, NEW w \in Workers, NEW next \in Calling,
           NEW actions \in Seq(Actions),
           worker[w].stage \in Calling, Fill(w, actions, next)
    PROVE  TypeOK' /\ CallsNamed'
<1>1. worker[w] \in WorkerRecords
  BY DEF TypeOK
<1>2. UNCHANGED <<dir, lockFile, removed, calls, crashes, done, stale, atRisk>>
  BY DEF Fill, history
<1>3. Become(w, [worker[w] EXCEPT !.stage = next])
  BY DEF Fill, Go
<1>4. worker' \in [Workers -> WorkerRecords] /\ CallsNamed'
  BY <1>1, <1>2, <1>3, NextStage, WorkerType
<1>5. report' \in [Names -> {None, Torn} \cup Seq(Actions)]
  BY DEF Fill, TypeOK
<1> QED
  BY <1>2, <1>4, <1>5 DEF TypeOK

LEMMA CallType ==
    ASSUME TypeOK, CallsNamed, NEW w \in Workers, CallStep(w)
    PROVE  TypeOK' /\ CallsNamed'
<1>w. worker[w] \in WorkerRecords
  BY DEF TypeOK
<1>s. /\ "enter" \in Calling /\ "open" \in Calling /\ "lock" \in Calling
      /\ "check" \in Calling /\ "create" \in Calling /\ "created" \in Calling
      /\ "read" \in Calling /\ "change" \in Calling /\ "changed" \in Calling
      /\ "close" \in Calling
  BY DEF Calling, Inside
<1>1. CASE Call(w)
  <2>1. PICK n \in Names : Become(w, [NewWorker EXCEPT !.stage = "enter", !.name = n])
    BY <1>1 DEF Call
  <2>2. [NewWorker EXCEPT !.stage = "enter", !.name = n] \in WorkerRecords
    BY NewWorkerType, FieldTypes, StagesType
  <2>3. [NewWorker EXCEPT !.stage = "enter", !.name = n].name = n
    BY DEF NewWorker
  <2>4. calls[w] + 1 \in 1..MaxCalls
    BY <1>1, BoundsAreNat DEF Call, TypeOK
  <2>5. calls' = [calls EXCEPT ![w] = calls[w] + 1]
    BY <1>1 DEF Call
  <2>6. calls' \in [Workers -> 0..MaxCalls]
    BY <2>4, <2>5, BoundsAreNat DEF TypeOK
  <2>7. worker' \in [Workers -> WorkerRecords]
    BY <2>1, <2>2, BecomeType
  <2>8. CallsNamed'
    BY <2>1, <2>3, <2>4, <2>5 DEF CallsNamed, Become, TypeOK
  <2>9. done' = done /\ stale' \subseteq Actions /\ atRisk' \subseteq Actions
    BY <1>1, <2>4 DEF Call, Begins, Actions, TypeOK
  <2> QED
    BY <1>1, <2>6, <2>7, <2>8, <2>9 DEF Call, fs, TypeOK
<1>2. CASE Enter(w)
  <2> DEFINE exists == lockFile[worker[w].name] # None
  <2>1. Become(w, [worker[w] EXCEPT !.stage = "open", !.exists = exists])
    BY <1>2 DEF Enter
  <2>2. exists \in BOOLEAN /\ worker[w].stage \in Calling /\ UNCHANGED calls
    BY <1>2, <1>s DEF Enter, At
  <2> HIDE DEF exists
  <2>3. worker' \in [Workers -> WorkerRecords] /\ CallsNamed'
    BY <1>w, <1>s, <2>1, <2>2, NextStage, WorkerType
  <2> QED
    BY <1>2, <2>3 DEF Enter, history, TypeOK
<1>3. CASE Open(w)
  <2> DEFINE n == worker[w].name
  <2>1. n \in Names /\ worker[w].stage \in Calling /\ UNCHANGED calls
    BY <1>3, <1>s DEF Open, At, CallsNamed
  <2>2. removed[n].lock \in Nat /\ lockFile[n] \in Nat \cup {None}
    BY <2>1 DEF TypeOK
  <2>3. lockFile' \in [Names -> Nat \cup {None}]
    BY <1>3, <2>2 DEF Open, TypeOK
  <2>4. \/ Raises(w)
        \/ \E inode \in Nat : Become(w, [worker[w] EXCEPT !.stage = "lock", !.inode = inode])
    BY <1>3, <2>2 DEF Open
  <2>5. worker' \in [Workers -> WorkerRecords] /\ CallsNamed'
    <3>1. CASE Raises(w)
      BY <2>1, <3>1, RaisesType
    <3>2. CASE \E inode \in Nat : Become(w, [worker[w] EXCEPT !.stage = "lock", !.inode = inode])
      <4>1. PICK inode \in Nat : Become(w, [worker[w] EXCEPT !.stage = "lock", !.inode = inode])
        BY <3>2
      <4> DEFINE r == [worker[w] EXCEPT !.stage = "lock", !.inode = inode]
      <4>2. r \in WorkerRecords /\ r.name = worker[w].name
        <5>1. \A v \in Nat :
                /\ [worker[w] EXCEPT !.stage = "lock", !.inode = v] \in WorkerRecords
                /\ [worker[w] EXCEPT !.stage = "lock", !.inode = v].name = worker[w].name
          BY <1>w, <1>s, NextStage
        <5> QED
          BY <5>1
      <4> HIDE DEF r
      <4> QED
        BY <2>1, <4>1, <4>2, WorkerType DEF r
    <3> QED
      BY <2>4, <3>1, <3>2
  <2> QED
    BY <1>3, <2>3, <2>5 DEF Open, history, TypeOK
<1>4. CASE Flock(w) \/ Check(w)
  <2>1. PICK stage \in Calling : Become(w, [worker[w] EXCEPT !.stage = stage])
    BY <1>4, <1>s DEF Flock, Check, Go
  <2>2. worker[w].stage \in Calling /\ UNCHANGED calls
    BY <1>4, <1>s DEF Flock, Check, At
  <2>3. worker' \in [Workers -> WorkerRecords] /\ CallsNamed'
    BY <1>w, <2>1, <2>2, NextStage, WorkerType
  <2> QED
    BY <1>4, <2>3 DEF Flock, Check, fs, history, TypeOK
<1>5. CASE Create(w) \/ Change(w)
  BY <1>5, <1>s, EmptyType DEF Create, Change, At
<1>6. CASE FillNew(w) \/ FillChanged(w)
  <2>1. worker[w].actions \in Seq(Actions) /\ <<>> \in Seq(Actions)
    BY <1>w DEF WorkerRecords
  <2> QED
    BY <1>6, <1>s, <2>1, FillType DEF FillNew, FillChanged, At
<1>7. CASE ReadReport(w)
  <2> DEFINE n == worker[w].name
             longer == Append(report[n], Action(w))
  <2>1. n \in Names /\ calls[w] \in 1..MaxCalls /\ worker[w].stage \in Calling
        /\ UNCHANGED calls
    BY <1>7, <1>s DEF ReadReport, At, CallsNamed
  <2>2. report[n] \notin {None, Torn} => longer \in Seq(Actions)
    <3>1. Action(w) \in Actions
      BY <2>1 DEF Action, Actions
    <3>2. report[n] \notin {None, Torn} => report[n] \in Seq(Actions)
      BY <2>1 DEF TypeOK
    <3> QED
      BY <3>1, <3>2
  <2>3. \/ Raises(w)
        \/ /\ report[n] \notin {None, Torn}
           /\ Become(w, [worker[w] EXCEPT !.stage = "change", !.actions = longer])
    BY <1>7 DEF ReadReport
  <2> HIDE DEF longer
  <2>4. worker' \in [Workers -> WorkerRecords] /\ CallsNamed'
    <3>1. CASE Raises(w)
      BY <2>1, <3>1, RaisesType
    <3>2. CASE ~Raises(w)
      <4> DEFINE r == [worker[w] EXCEPT !.stage = "change", !.actions = longer]
      <4>1. r \in WorkerRecords /\ r.name = worker[w].name
        <5>1. \A v \in Seq(Actions) :
                /\ [worker[w] EXCEPT !.stage = "change", !.actions = v] \in WorkerRecords
                /\ [worker[w] EXCEPT !.stage = "change", !.actions = v].name = worker[w].name
          BY <1>w, <1>s, NextStage
        <5>2. longer \in Seq(Actions)
          BY <2>2, <2>3, <3>2
        <5> QED
          BY <5>1, <5>2
      <4>2. Become(w, r)
        BY <2>3, <3>2
      <4> HIDE DEF r
      <4> QED
        BY <2>1, <4>1, <4>2, WorkerType
    <3> QED
      BY <3>1, <3>2
  <2> QED
    BY <1>7, <2>4 DEF ReadReport, fs, history, TypeOK
<1>8. CASE Close(w)
  <2>1. worker' \in [Workers -> WorkerRecords] /\ CallsNamed'
    BY <1>8, RaisesType DEF Close
  <2>2. <<worker[w].name, Action(w)>> \in Names \X Actions
    BY <1>8, <1>s DEF Close, At, CallsNamed, Action, Actions
  <2> QED
    BY <1>8, <2>1, <2>2 DEF Close, fs, TypeOK
<1>9. CASE NextTest(w)
  BY <1>9, RaisesType DEF NextTest, fs, history, TypeOK
<1> QED
  BY <1>1, <1>2, <1>3, <1>4, <1>5, <1>6, <1>7, <1>8, <1>9 DEF CallStep

LEMMA StartType ==
    ASSUME TypeOK, CallsNamed, NEW w \in Workers, StartStep(w) \/ Crash(w)
    PROVE  TypeOK' /\ CallsNamed'
<1>w. worker[w] \in WorkerRecords
  BY DEF TypeOK
<1>u. \A v \in SUBSET ({"report", "lock"} \X Names) :
        /\ [worker[w] EXCEPT !.stage = "unlink", !.listing = v] \in WorkerRecords
        /\ [worker[w] EXCEPT !.stage = "unlink", !.listing = v].stage \notin Calling
  <2>1. \A v \in SUBSET ({"report", "lock"} \X Names) :
          [worker[w] EXCEPT !.stage = "unlink", !.listing = v] \in WorkerRecords
    BY <1>w, FieldTypes, StagesType
  <2>2. \A v : [worker[w] EXCEPT !.stage = "unlink", !.listing = v].stage = "unlink"
    BY <1>w DEF WorkerRecords
  <2> QED
    BY <2>1, <2>2 DEF Calling, Inside
<1>h. UnderWay \subseteq Actions /\ {d[2] : d \in done} \subseteq Actions
  BY DEF UnderWay, Action, Actions, CallsNamed, TypeOK
<1>1. CASE SessionStart(w)
  <2>1. Listing \in SUBSET ({"report", "lock"} \X Names)
    BY DEF Listing
  <2>2. CASE dir
    <3> DEFINE r == [worker[w] EXCEPT !.stage = "unlink", !.listing = Listing]
    <3>1. r \in WorkerRecords /\ r.stage \notin Calling
      BY <1>u, <2>1
    <3>2. Become(w, r) /\ UNCHANGED calls
      BY <1>1, <2>2 DEF SessionStart
    <3> HIDE DEF r
    <3>3. worker' \in [Workers -> WorkerRecords] /\ CallsNamed'
      BY <3>1, <3>2, WorkerType
    <3> QED
      BY <1>1, <2>2, <3>3, <1>h DEF SessionStart, RemovalBegins, fs, TypeOK
  <2>3. CASE ~dir
    BY <1>1, <2>3, RaisesType DEF SessionStart, fs, history, TypeOK
  <2> QED
    BY <2>2, <2>3
<1>2. CASE Unlink(w)
  <2>1. PICK entry \in worker[w].listing :
          \/ /\ removed' = [removed EXCEPT ![entry[2]][entry[1]] = @ + 1]
             /\ IF entry[1] = "report"
                THEN report' = [report EXCEPT ![entry[2]] = None] /\ UNCHANGED lockFile
                ELSE lockFile' = [lockFile EXCEPT ![entry[2]] = None] /\ UNCHANGED report
             /\ Become(w, [worker[w] EXCEPT !.listing = @ \ {entry}])
          \/ FailsToStart(w) /\ UNCHANGED <<report, lockFile, removed>>
    BY <1>2 DEF Unlink
  <2>2. entry[1] \in {"report", "lock"} /\ entry[2] \in Names
    BY <1>w DEF WorkerRecords
  <2>3. UNCHANGED <<dir, calls, crashes, done, stale, atRisk>> /\ worker[w].stage = "unlink"
    BY <1>2 DEF Unlink, At, history
  <2>4. CASE FailsToStart(w) /\ UNCHANGED <<report, lockFile, removed>>
    BY <2>3, <2>4, RaisesType DEF TypeOK
  <2>5. CASE Become(w, [worker[w] EXCEPT !.listing = @ \ {entry}])
             /\ removed' = [removed EXCEPT ![entry[2]][entry[1]] = @ + 1]
             /\ IF entry[1] = "report"
                THEN report' = [report EXCEPT ![entry[2]] = None] /\ UNCHANGED lockFile
                ELSE lockFile' = [lockFile EXCEPT ![entry[2]] = None] /\ UNCHANGED report
    <3> DEFINE r == [worker[w] EXCEPT !.listing = @ \ {entry}]
    <3>1. r \in WorkerRecords
      <4>1. worker[w].listing \ {entry} \in SUBSET ({"report", "lock"} \X Names)
        BY <1>w DEF WorkerRecords
      <4> QED
        BY <1>w, <4>1, FieldTypes
    <3>2. r.stage \notin Calling
      BY <1>w, <2>3 DEF WorkerRecords, Calling, Inside
    <3> HIDE DEF r
    <3>3. worker' \in [Workers -> WorkerRecords] /\ CallsNamed'
      BY <2>3, <2>5, <3>1, <3>2, WorkerType DEF r
    <3>4. removed' \in [Names -> [report : Nat, lock : Nat]]
      <4>1. removed[entry[2]] \in [report : Nat, lock : Nat]
        BY <2>2 DEF TypeOK
      <4>2. [removed[entry[2]] EXCEPT ![entry[1]] = @ + 1] \in [report : Nat, lock : Nat]
        <5>1. CASE entry[1] = "report"
          BY <4>1, <5>1
        <5>2. CASE entry[1] = "lock"
          BY <4>1, <5>2
        <5> QED
          BY <2>2, <5>1, <5>2
      <4> QED
        BY <2>2, <2>5, <4>2 DEF TypeOK
    <3>5. report' \in [Names -> {None, Torn} \cup Seq(Actions)] /\ lockFile' \in [Names -> Nat \cup {None}]
      BY <2>2, <2>5 DEF TypeOK
    <3> QED
      BY <2>3, <3>3, <3>4, <3>5 DEF TypeOK
  <2> QED
    BY <2>1, <2>4, <2>5
<1>3. CASE RemoveDirectory(w)
  BY <1>3, RaisesType DEF RemoveDirectory, history, TypeOK
<1>4. CASE Crash(w)
  <2>1. crashes' \in 0..MaxCrashes
    BY <1>4, BoundsAreNat DEF Crash, TypeOK
  <2> QED
    BY <1>4, <2>1, RaisesType DEF Crash, fs, history, TypeOK
<1> QED
  BY <1>1, <1>2, <1>3, <1>4 DEF StartStep

LEMMA InitType == Init => TypeOK /\ CallsNamed
<1> SUFFICES ASSUME Init PROVE TypeOK /\ CallsNamed
  OBVIOUS
<1>1. TypeOK
  <2>1. removed \in [Names -> [report : Nat, lock : Nat]]
    BY DEF Init
  <2>2. worker \in [Workers -> WorkerRecords]
    BY NewWorkerType DEF Init
  <2>3. calls \in [Workers -> 0..MaxCalls] /\ crashes \in 0..MaxCrashes
    BY BoundsAreNat DEF Init
  <2>4. report \in [Names -> {None, Torn} \cup Seq(Actions)]
    BY DEF Init
  <2>5. lockFile \in [Names -> Nat \cup {None}]
    BY DEF Init
  <2> QED
    BY <2>1, <2>2, <2>3, <2>4, <2>5 DEF Init, TypeOK
<1>2. CallsNamed
  BY DEF Init, CallsNamed, NewWorker, Calling, Inside
<1> QED
  BY <1>1, <1>2

LEMMA NextType == TypeOK /\ CallsNamed /\ [Next]_vars => TypeOK' /\ CallsNamed'
<1>1. ASSUME TypeOK, CallsNamed, UNCHANGED vars PROVE TypeOK' /\ CallsNamed'
  BY <1>1 DEF TypeOK, CallsNamed, vars
<1> QED
  BY <1>1, CallType, StartType DEF Next

(***************************************************************************)
(* The files and the local variables of every worker have their types, and *)
(* every action that is written belongs to a call that was made.           *)
(***************************************************************************)
THEOREM TypeCorrect == Spec => []TypeOK
<1>1. Spec => [](TypeOK /\ CallsNamed)
  BY InitType, NextType, PTL DEF Spec
<1> QED
  BY <1>1, PTL

-----------------------------------------------------------------------------
(***************************************************************************)
(* Of the workers whose call no removal has overlapped, whoever has opened *)
(* a lock file has the one that is there, so that the flock excludes the   *)
(* others; and while a worker removes the directory, every call is one     *)
(* that a removal has overlapped.                                          *)
(***************************************************************************)
Opened(w) == worker[w].stage \in {"lock"} \cup Inside

Fresh(w) == Action(w) \notin stale

OpenIsCurrent ==
    \A w \in Workers :
      Opened(w) /\ Fresh(w) => /\ lockFile[worker[w].name] # None
                              /\ worker[w].inode = lockFile[worker[w].name]

RemovalsMakeStale ==
    \A v, w \in Workers : At(v, "unlink") /\ worker[w].stage \in Calling => ~Fresh(w)

OneInsideEach ==
    \A v, w \in Workers :
      /\ worker[v].stage \in Inside /\ worker[w].stage \in Inside
      /\ worker[v].name = worker[w].name
      /\ Fresh(v) /\ Fresh(w)
      => v = w

IInv == OpenIsCurrent /\ RemovalsMakeStale /\ OneInsideEach

\* A step of a worker that has the lock, or does not go for it.
LEMMA GoesOn ==
    ASSUME TypeOK, IInv, NEW w \in Workers, NEW r, Become(w, r), UNCHANGED <<lockFile, calls>>,
           stale \subseteq stale',
           r.stage \in Inside => worker[w].stage \in Inside,
           r.stage \in Calling => worker[w].stage \in Calling,
           r.stage = "unlink" => At(w, "unlink"),
           r.stage \in {"lock"} \cup Inside =>
             Opened(w) /\ r.name = worker[w].name /\ r.inode = worker[w].inode
    PROVE  IInv'
<1>1. worker'[w] = r /\ \A v \in Workers \ {w} : worker'[v] = worker[v]
  BY DEF Become, TypeOK
<1>f. \A v \in Workers : Fresh(v)' => Fresh(v)
  BY DEF Fresh, Action
<1>2. OpenIsCurrent'
  BY <1>1, <1>f DEF IInv, OpenIsCurrent, Opened
<1>3. RemovalsMakeStale'
  BY <1>1, <1>f DEF IInv, RemovalsMakeStale, At
<1>4. OneInsideEach'
  BY <1>1, <1>f DEF IInv, OneInsideEach
<1> QED
  BY <1>2, <1>3, <1>4 DEF IInv

LEMMA CallExclusion ==
    ASSUME TypeOK, CallsNamed, IInv, NEW w \in Workers, CallStep(w)
    PROVE  IInv'
<1>w. worker[w] \in WorkerRecords
  BY DEF TypeOK
<1>i. OpenIsCurrent /\ RemovalsMakeStale /\ OneInsideEach
  BY DEF IInv
<1>s. ~Call(w) => UNCHANGED <<stale, calls>>
  BY DEF CallStep, Enter, Open, Flock, Check, Create, FillNew, ReadReport, Change,
         FillChanged, Close, NextTest, Empty, Fill, history
<1>c. worker[w].stage \in Calling => UNCHANGED <<stale, calls>>
  BY <1>s DEF Call, At, Calling, Inside
<1>f. UNCHANGED <<stale, calls>> => \A v \in Workers : Fresh(v)' = Fresh(v)
  BY DEF Fresh, Action
<1>1. CASE Call(w)
  <2>1. PICK n \in Names : Become(w, [NewWorker EXCEPT !.stage = "enter", !.name = n])
    BY <1>1 DEF Call
  <2>2. worker'[w].stage = "enter" /\ \A v \in Workers \ {w} : worker'[v] = worker[v]
    BY <2>1 DEF Become, TypeOK, NewWorker
  <2>3. UNCHANGED lockFile /\ calls' = [calls EXCEPT ![w] = calls[w] + 1]
        /\ stale' = stale \cup (IF Removing THEN {<<w, calls[w] + 1>>} ELSE {})
    BY <1>1 DEF Call, Begins, fs
  <2>4. Action(w)' = <<w, calls[w] + 1>> /\ \A v \in Workers \ {w} : Action(v)' = Action(v)
    BY <2>3 DEF Action, TypeOK
  <2>5. \A v \in Workers \ {w} : Fresh(v)' => Fresh(v)
    BY <2>3, <2>4 DEF Fresh
  <2>6. Removing => ~Fresh(w)'
    BY <2>3, <2>4 DEF Fresh
  <2>7. OpenIsCurrent' /\ OneInsideEach'
    BY <1>i, <2>2, <2>3, <2>5 DEF OpenIsCurrent, OneInsideEach, Opened, Inside
  <2>8. RemovalsMakeStale'
    BY <1>i, <2>2, <2>5, <2>6 DEF RemovalsMakeStale, Removing, At
  <2> QED
    BY <2>7, <2>8 DEF IInv
<1>2. CASE Enter(w)
  <2> DEFINE exists == lockFile[worker[w].name] # None
             r == [worker[w] EXCEPT !.stage = "open", !.exists = exists]
  <2>1. Become(w, r) /\ UNCHANGED <<lockFile, stale, calls>> /\ worker[w].stage = "enter"
    BY <1>2 DEF Enter, At, history
  <2>2. r.stage = "open"
    BY <1>w DEF WorkerRecords
  <2> HIDE DEF r
  <2> QED
    BY <2>1, <2>2, GoesOn DEF Calling, Inside
<1>3. CASE Open(w)
  <2> DEFINE n == worker[w].name
  <2>o. UNCHANGED <<stale, calls>> /\ \A v \in Workers : Fresh(v)' = Fresh(v)
    BY <1>3, <1>c, <1>f DEF Open, At, Calling
  <2>1. CASE Raises(w) /\ UNCHANGED lockFile
    BY <2>o, <2>1, GoesOn DEF Raises, NewWorker, Calling, Inside
  <2>2. CASE \E inode \in Nat :
               /\ Become(w, [worker[w] EXCEPT !.stage = "lock", !.inode = inode])
               /\ lockFile' = [lockFile EXCEPT ![n] = inode]
               /\ lockFile[n] \in {None, inode}
    <3>1. PICK inode \in Nat :
            /\ Become(w, [worker[w] EXCEPT !.stage = "lock", !.inode = inode])
            /\ lockFile' = [lockFile EXCEPT ![n] = inode]
            /\ lockFile[n] \in {None, inode}
      BY <2>2
    <3>2. /\ worker'[w].stage = "lock" /\ worker'[w].inode = inode /\ worker'[w].name = n
          /\ \A v \in Workers \ {w} : worker'[v] = worker[v]
      BY <1>w, <3>1 DEF Become, TypeOK, WorkerRecords
    <3>3. worker[w].stage = "open" /\ n \in Names
      BY <1>3 DEF Open, At, CallsNamed, Calling
    <3>4. OpenIsCurrent'
      <4> SUFFICES ASSUME NEW v \in Workers, Opened(v)', Fresh(v)
                   PROVE  /\ lockFile'[worker'[v].name] # None
                          /\ worker'[v].inode = lockFile'[worker'[v].name]
        BY <2>o DEF OpenIsCurrent
      <4>1. CASE v = w
        BY <3>1, <3>2, <3>3, <4>1, NoneIsNoId DEF TypeOK
      <4>2. CASE v # w
        <5>1. /\ worker'[v] = worker[v]
              /\ lockFile[worker[v].name] # None
              /\ worker[v].inode = lockFile[worker[v].name]
          BY <1>i, <3>2, <4>2 DEF OpenIsCurrent, Opened
        <5>2. lockFile'[worker[v].name] = lockFile[worker[v].name]
          BY <3>1, <5>1 DEF TypeOK
        <5> QED
          BY <5>1, <5>2
      <4> QED
        BY <4>1, <4>2
    <3>5. RemovalsMakeStale'
      BY <1>i, <2>o, <3>2, <3>3 DEF RemovalsMakeStale, At, Calling
    <3>6. OneInsideEach'
      BY <1>i, <2>o, <3>2 DEF OneInsideEach, Inside
    <3> QED
      BY <3>4, <3>5, <3>6 DEF IInv
  <2>3. n \in Names /\ lockFile[n] \in Nat \cup {None} /\ removed[n].lock \in Nat
    BY <1>3 DEF Open, At, CallsNamed, Calling, TypeOK
  <2>4. CASE lockFile[n] # None
    <3>1. lockFile' = [lockFile EXCEPT ![n] = lockFile[n]]
      BY <1>3, <2>4 DEF Open, TypeOK
    <3>2. Become(w, [worker[w] EXCEPT !.stage = "lock", !.inode = lockFile[n]])
      BY <1>3, <2>4 DEF Open
    <3> QED
      BY <2>2, <2>3, <2>4, <3>1, <3>2
  <2>5. CASE lockFile[n] = None
    BY <1>3, <2>1, <2>2, <2>3, <2>5 DEF Open
  <2> QED
    BY <2>4, <2>5
<1>4. CASE Flock(w)
  <2> DEFINE n == worker[w].name
  <2>1. worker[w].stage = "lock" /\ UNCHANGED lockFile
    BY <1>4 DEF Flock, At, fs
  <2>2. PICK stage \in {"enter", "check"} :
          /\ Become(w, [worker[w] EXCEPT !.stage = stage])
          /\ stage = "check" => ~\E v \in Workers \ {w} : Holds(v, n, worker[w].inode)
    BY <1>4 DEF Flock, Go
  <2>3. /\ worker'[w].stage = stage /\ worker'[w].inode = worker[w].inode
        /\ worker'[w].name = n
        /\ \A v \in Workers \ {w} : worker'[v] = worker[v]
    BY <1>w, <2>2 DEF Become, TypeOK, WorkerRecords
  <2>o. \A v \in Workers : Fresh(v)' = Fresh(v)
    BY <1>c, <1>f, <2>1 DEF Calling
  <2>4. stage = "check" /\ Fresh(w) =>
          \A v \in Workers \ {w} :
            worker[v].stage \in Inside /\ Fresh(v) => worker[v].name # n
    BY <1>i, <2>1, <2>2 DEF OpenIsCurrent, Opened, Holds
  <2>5. OpenIsCurrent'
    BY <1>i, <2>o, <2>1, <2>2, <2>3 DEF OpenIsCurrent, Opened, Inside
  <2>6. RemovalsMakeStale'
    BY <1>i, <2>o, <2>1, <2>2, <2>3 DEF RemovalsMakeStale, At, Calling, Inside
  <2>7. OneInsideEach'
    BY <1>i, <2>o, <2>2, <2>3, <2>4 DEF OneInsideEach, Inside
  <2> QED
    BY <2>5, <2>6, <2>7 DEF IInv
<1>5. CASE Check(w) \/ Create(w) \/ FillNew(w) \/ ReadReport(w) \/ Change(w) \/ FillChanged(w)
  <2>1. UNCHANGED <<lockFile, stale, calls>> /\ worker[w].stage \in Inside
    BY <1>5 DEF history, Check, Create, FillNew, ReadReport, Change, FillChanged, Empty, Fill, fs, At, Inside
  <2>2. \/ Become(w, [NewWorker EXCEPT !.stage = "raised"])
        \/ \E stage \in Inside : Become(w, [worker[w] EXCEPT !.stage = stage])
        \/ \E stage \in Inside : \E v : Become(w, [worker[w] EXCEPT !.stage = stage, !.out = v])
        \/ \E stage \in Inside : \E v : Become(w, [worker[w] EXCEPT !.stage = stage, !.actions = v])
    <3>1. CASE Check(w) \/ FillNew(w) \/ FillChanged(w)
      BY <3>1 DEF Check, FillNew, FillChanged, Fill, Go, Inside
    <3>2. CASE Create(w) \/ Change(w)
      BY <3>2 DEF Create, Change, Empty, Raises, Inside
    <3>3. CASE ReadReport(w)
      BY <3>3 DEF ReadReport, Raises, Inside
    <3> QED
      BY <1>5, <3>1, <3>2, <3>3
  <2>3. CASE Become(w, [NewWorker EXCEPT !.stage = "raised"])
    BY <2>1, <2>3, GoesOn DEF NewWorker, Calling, Inside
  <2> DEFINE Same(r) == r.stage \in Inside /\ r.name = worker[w].name /\ r.inode = worker[w].inode
  <2>4. \A stage \in Inside :
          /\ Same([worker[w] EXCEPT !.stage = stage])
          /\ \A v : Same([worker[w] EXCEPT !.stage = stage, !.out = v])
          /\ \A v : Same([worker[w] EXCEPT !.stage = stage, !.actions = v])
    BY <1>w DEF WorkerRecords
  <2>5. ASSUME NEW r, Become(w, r), Same(r)
        PROVE  IInv'
    BY <2>1, <2>5, GoesOn DEF Calling, Inside, Opened
  <2> HIDE DEF Same
  <2> QED
    BY <2>2, <2>3, <2>4, <2>5
<1>6. CASE Close(w) \/ NextTest(w)
  BY <1>6, GoesOn DEF Close, NextTest, fs, history, NewWorker, Calling, Inside
<1> QED
  BY <1>1, <1>2, <1>3, <1>4, <1>5, <1>6 DEF CallStep

LEMMA StartExclusion ==
    ASSUME TypeOK, IInv, NEW w \in Workers, StartStep(w) \/ Crash(w)
    PROVE  IInv'
<1>w. worker[w] \in WorkerRecords
  BY DEF TypeOK
<1>i. OpenIsCurrent /\ RemovalsMakeStale /\ OneInsideEach
  BY DEF IInv
<1>a. ASSUME NEW r, Become(w, r), r.stage \notin Calling, UNCHANGED calls, stale \subseteq stale',
             \A v \in Workers \ {w} : worker[v].stage \in Calling => ~Fresh(v)'
      PROVE  IInv'
  <2>1. worker'[w] = r /\ \A v \in Workers \ {w} : worker'[v] = worker[v]
    BY <1>a DEF Become, TypeOK
  <2>2. \A v \in Workers : worker'[v].stage \in Calling => ~Fresh(v)'
    BY <1>a, <2>1
  <2> QED
    BY <2>2 DEF IInv, OpenIsCurrent, RemovalsMakeStale, OneInsideEach, Opened, Calling
<1>1. CASE SessionStart(w)
  <2>1. CASE dir
    <3> DEFINE r == [worker[w] EXCEPT !.stage = "unlink", !.listing = Listing]
    <3>1. r.stage = "unlink"
      BY <1>w DEF WorkerRecords
    <3>2. Become(w, r) /\ stale' = stale \cup UnderWay /\ UNCHANGED calls
      BY <1>1, <2>1 DEF SessionStart, RemovalBegins
    <3>3. \A v \in Workers : worker[v].stage \in Calling => ~Fresh(v)'
      BY <3>2 DEF UnderWay, Fresh, Action
    <3> HIDE DEF r
    <3> QED
      BY <1>a, <3>1, <3>2, <3>3 DEF Calling, Inside
  <2>2. CASE ~dir
    BY <1>1, <2>2, GoesOn DEF SessionStart, fs, history, NewWorker, Calling, Inside
  <2> QED
    BY <2>1, <2>2
<1>2. CASE Unlink(w)
  <2>1. worker[w].stage = "unlink" /\ UNCHANGED <<stale, calls>>
    BY <1>2 DEF Unlink, At, history
  <2>2. \A v \in Workers \ {w} : worker[v].stage \in Calling => ~Fresh(v)'
    BY <1>i, <2>1 DEF RemovalsMakeStale, At, Fresh, Action
  <2>3. \/ FailsToStart(w)
        \/ \E listing : Become(w, [worker[w] EXCEPT !.listing = listing])
    BY <1>2 DEF Unlink
  <2>4. CASE FailsToStart(w)
    BY <1>a, <2>1, <2>2, <2>4 DEF FailsToStart, NewWorker, Calling, Inside
  <2>5. ASSUME NEW listing, Become(w, [worker[w] EXCEPT !.listing = listing])
        PROVE  IInv'
    <3> DEFINE r == [worker[w] EXCEPT !.listing = listing]
    <3>1. r.stage = "unlink" /\ Become(w, r)
      BY <1>w, <2>1, <2>5 DEF WorkerRecords
    <3> HIDE DEF r
    <3> QED
      BY <1>a, <2>1, <2>2, <3>1 DEF Calling, Inside
  <2> QED
    BY <2>3, <2>4, <2>5
<1>3. CASE RemoveDirectory(w) \/ Crash(w)
  <2>1. UNCHANGED <<lockFile, stale, calls>>
    BY <1>3 DEF RemoveDirectory, Crash, fs, history
  <2>2. PICK r \in {NewWorker, [NewWorker EXCEPT !.stage = "failed"],
                    [NewWorker EXCEPT !.stage = "session"]} : Become(w, r)
    BY <1>3 DEF RemoveDirectory, Crash, FailsToStart
  <2>3. r.stage \in {"idle", "failed", "session"}
    BY DEF NewWorker
  <2> QED
    BY <2>1, <2>2, <2>3, GoesOn DEF Calling, Inside
<1> QED
  BY <1>1, <1>2, <1>3 DEF StartStep

LEMMA NextExclusion ==
    TypeOK /\ CallsNamed /\ IInv /\ [Next]_vars => IInv'
<1>1. ASSUME IInv, UNCHANGED vars PROVE IInv'
  BY <1>1 DEF IInv, OpenIsCurrent, RemovalsMakeStale, OneInsideEach, Opened, Fresh, Action,
              At, vars
<1> QED
  BY <1>1, CallExclusion, StartExclusion DEF Next

(***************************************************************************)
(* For any number of workers, reports, calls and deaths: of the workers    *)
(* whose call no removal has overlapped, at most one is in the with        *)
(* statement of a report.                                                  *)
(***************************************************************************)
THEOREM Exclusion == Spec => []OneInside
<1>1. Init => IInv
  BY DEF Init, IInv, OpenIsCurrent, RemovalsMakeStale, OneInsideEach, Opened, At, NewWorker,
         Inside
<1>2. IInv => OneInside
  BY DEF IInv, OneInsideEach, OneInside, Stale, Fresh, Calling
<1>3. Spec => [](TypeOK /\ CallsNamed /\ IInv)
  BY <1>1, InitType, NextType, NextExclusion, PTL DEF Spec
<1> QED
  BY <1>2, <1>3, PTL

-----------------------------------------------------------------------------
(***************************************************************************)
(* What the history says: an action that a removal has overlapped is at    *)
(* risk, and no removal has overlapped a call that is still to be made.    *)
(***************************************************************************)
HistoryIsOld ==
    /\ stale \subseteq atRisk
    /\ \A a \in stale : a[2] <= calls[a[1]]

LEMMA InitHistory == Init => HistoryIsOld
BY DEF Init, HistoryIsOld

LEMMA NextHistory ==
    TypeOK /\ CallsNamed /\ HistoryIsOld /\ [Next]_vars => HistoryIsOld'
<1>1. ASSUME HistoryIsOld, UNCHANGED <<calls, stale, atRisk>> PROVE HistoryIsOld'
  BY <1>1 DEF HistoryIsOld
<1>2. ASSUME TypeOK, CallsNamed, HistoryIsOld, NEW w \in Workers, Call(w) PROVE HistoryIsOld'
  <2>1. calls' = [calls EXCEPT ![w] = calls[w] + 1] /\ calls[w] \in Nat
    BY <1>2, BoundsAreNat DEF Call, TypeOK
  <2>2. ASSUME NEW a \in stale' PROVE a[2] <= calls'[a[1]]
    <3>1. CASE a \in stale
      <4>1. a[2] <= calls[a[1]] /\ a[1] \in Workers /\ calls[a[1]] \in Nat /\ a[2] \in Nat
        BY <1>2, <3>1, BoundsAreNat DEF HistoryIsOld, TypeOK, Actions
      <4>2. calls'[a[1]] \in {calls[a[1]], calls[a[1]] + 1}
        BY <1>2, <2>1, <4>1 DEF TypeOK
      <4> QED
        BY <4>1, <4>2
    <3>2. CASE a \notin stale
      <4>1. a = <<w, calls[w] + 1>>
        BY <1>2, <2>2, <3>2 DEF Call, Begins
      <4> QED
        BY <1>2, <2>1, <4>1 DEF TypeOK
    <3> QED
      BY <3>1, <3>2
  <2>3. stale' \subseteq atRisk'
    BY <1>2 DEF Call, Begins, HistoryIsOld
  <2> QED
    BY <2>2, <2>3 DEF HistoryIsOld
<1>3. ASSUME TypeOK, CallsNamed, HistoryIsOld, RemovalBegins, UNCHANGED calls PROVE HistoryIsOld'
  <2>1. stale' = stale \cup UnderWay /\ stale' \subseteq atRisk'
    BY <1>3 DEF RemovalBegins, HistoryIsOld
  <2>2. ASSUME NEW a \in UnderWay PROVE a[2] <= calls[a[1]]
    <3>1. PICK v \in Workers : a = <<v, calls[v]>> /\ calls[v] \in 1..MaxCalls
      BY <1>3 DEF UnderWay, Action, CallsNamed
    <3> QED
      BY <3>1, BoundsAreNat
  <2> QED
    BY <1>3, <2>1, <2>2 DEF HistoryIsOld
<1>4. ASSUME NEW w \in Workers, CallStep(w) \/ StartStep(w) \/ Crash(w)
      PROVE  \/ Call(w)
             \/ RemovalBegins /\ UNCHANGED calls
             \/ UNCHANGED <<calls, stale, atRisk>>
  <2>1. CASE CallStep(w)
    BY <2>1 DEF CallStep, Enter, Open, Flock, Check, Create, FillNew, ReadReport, Change,
                FillChanged, Close, NextTest, Empty, Fill, history
  <2>2. CASE StartStep(w) \/ Crash(w)
    BY <2>2 DEF StartStep, SessionStart, Unlink, RemoveDirectory, Crash, history
  <2> QED
    BY <1>4, <2>1, <2>2
<1> QED
  BY <1>1, <1>2, <1>3, <1>4 DEF Next, vars

-----------------------------------------------------------------------------
(***************************************************************************)
(* What is in the files.  Only actions that are not at risk count: there   *)
(* are some, recorded or under way, only while no worker removes the       *)
(* directory and no call is left that a removal has overlapped.  From the  *)
(* death of a worker to the removal reports may be torn.                   *)
(***************************************************************************)
Safe(d) == d \in done /\ d[2] \notin atRisk

Trusted(w) == worker[w].stage \in Calling /\ Action(w) \notin atRisk

Quiet == \A w \in Workers : ~At(w, "unlink") /\ ~Stale(w)

NothingCounts == (\A d \in done : ~Safe(d)) /\ \A w \in Workers : ~Trusted(w)

DirectoryIsThere ==
    (\E d \in done : Safe(d)) \/ (\E w \in Workers : Trusted(w) /\ ~At(w, "enter")) => dir

\* A worker in the with statement finds the report as it has left it.
Mine(r, action) ==
    /\ r.stage = "create" => report[r.name] = None
    /\ r.stage \in {"created", "changed"} => report[r.name] = Torn /\ r.out = removed[r.name].report
    /\ r.stage = "change" => /\ report[r.name] \in Seq(Actions)
                             /\ r.actions = Append(report[r.name], action)
    /\ r.stage = "changed" => action \in ToSet(r.actions)
    /\ r.stage = "close" => /\ report[r.name] \in Seq(Actions)
                            /\ action \in ToSet(report[r.name])

\* What a worker does to its report matters for an action that counts.
Minded(w) == Trusted(w) \/ \E d \in done : Safe(d) /\ d[1] = worker[w].name

ReportsAreMine == \A w \in Workers : Minded(w) => Mine(worker[w], Action(w))

Kept(d) ==
    /\ report[d[1]] # None
    /\ IF report[d[1]] = Torn
       THEN \E w \in Workers : At(w, "changed") /\ worker[w].name = d[1]
       ELSE d[2] \in ToSet(report[d[1]])

\* What was appended before is in what is about to be written.
Carries(r, d) ==
    r.name = d[1] => r.stage # "created" /\ (r.stage = "changed" => d[2] \in ToSet(r.actions))

NobodyStarts == \A w \in Workers : ~At(w, "session")

DoneIsKept ==
    NobodyStarts =>
      \A d \in done : Safe(d) => Kept(d) /\ \A w \in Workers : Carries(worker[w], d)

FileInv == (Quiet \/ NothingCounts) /\ DirectoryIsThere /\ ReportsAreMine /\ DoneIsKept

LEMMA NothingToKeep == (NothingCounts => FileInv) /\ (NothingCounts' => FileInv')
BY DEF NothingCounts, FileInv, DirectoryIsThere, ReportsAreMine, Minded, DoneIsKept

LEMMA Files ==
    /\ None # Torn
    /\ \A file \in Seq(Actions) : file # None /\ file # Torn
BY NoFileIsNoReport DEF Actions

LEMMA Stages ==
    /\ "created" \in Inside /\ "changed" \in Inside /\ "create" \in Inside /\ "change" \in Inside
    /\ "close" \in Inside /\ "check" \in Inside /\ "read" \in Inside /\ Inside \subseteq Calling
    /\ Starting \cap Calling = {} /\ "unlink" \in Starting /\ "session" \in Starting
    /\ "unlink" \notin Inside /\ "enter" \in Calling /\ "enter" \notin Inside
BY DEF Inside, Calling, Starting

\* While it is quiet, the workers have the locks of the files that are there.
LEMMA QuietExcludes ==
    ASSUME Quiet, IInv, NEW w \in Workers, worker[w].stage \in Inside
    PROVE  \A v \in Workers \ {w} :
             worker[v].stage \in Inside => worker[v].name # worker[w].name
<1>1. \A v \in Workers : worker[v].stage \in Inside => Fresh(v)
  BY Stages DEF Quiet, Stale, Fresh
<1> QED
  BY <1>1 DEF IInv, OneInsideEach

\* A step of a worker outside of the with statement leaves the reports alone.
LEMMA OutsideKeeps ==
    ASSUME TypeOK, FileInv, NEW w \in Workers, NEW r, Become(w, r),
           UNCHANGED <<report, removed, done>>, atRisk \subseteq atRisk',
           \A v \in Workers \ {w} : Action(v)' = Action(v),
           worker[w].stage \notin Starting \cup Inside,
           r.stage \notin Starting \cup (Inside \ {"check"}),
           Quiet', DirectoryIsThere'
    PROVE  FileInv'
<1>1. worker'[w] = r /\ \A v \in Workers \ {w} : worker'[v] = worker[v]
  BY DEF Become, TypeOK
<1>2. ReportsAreMine'
  <2> SUFFICES ASSUME NEW v \in Workers, Minded(v)', NEW x, x = worker'[v], NEW a, a = Action(v)'
               PROVE  Mine(x, a)'
    BY DEF ReportsAreMine
  <2>1. CASE v = w
    BY <1>1, <2>1, Stages DEF Mine
  <2>2. CASE v # w
    <3>1. worker'[v] = worker[v] /\ Action(v)' = Action(v)
      BY <1>1, <2>2
    <3>2. Minded(v)
      BY <3>1 DEF Minded, Trusted, Safe
    <3>3. Mine(worker[v], Action(v))
      BY <3>2 DEF FileInv, ReportsAreMine
    <3> QED
      BY <3>1, <3>3 DEF Mine
  <2> QED
    BY <2>1, <2>2
<1>3. DoneIsKept'
  <2> SUFFICES ASSUME NobodyStarts', NEW d \in done', Safe(d)'
               PROVE  Kept(d)' /\ \A v \in Workers : Carries(worker'[v], d)
    BY DEF DoneIsKept, Carries
  <2>1. NobodyStarts /\ Safe(d)
    BY <1>1, Stages DEF NobodyStarts, At, Safe
  <2>2. Kept(d) /\ \A v \in Workers : Carries(worker[v], d)
    BY <2>1 DEF FileInv, DoneIsKept, Safe
  <2>3. Kept(d)'
    BY <1>1, <2>2, Stages DEF Kept, At
  <2>4. Carries(r, d)
    BY Stages DEF Carries
  <2> QED
    BY <1>1, <2>2, <2>3, <2>4
<1> QED
  BY <1>2, <1>3 DEF FileInv

\* A step in the with statement of a report changes that one only.
LEMMA InsideKeeps ==
    ASSUME TypeOK, CallsNamed, IInv, FileInv, Quiet,
           NEW w \in Workers, NEW r, Become(w, r),
           UNCHANGED <<dir, lockFile, removed, crashes, calls, stale, atRisk>>,
           NEW n, n = worker[w].name, NEW file, report' = [report EXCEPT ![n] = file],
           worker[w].stage \in Inside,
           r.stage \notin Starting, r.stage \in Calling => r.stage \in Inside /\ r.name = n,
           done \subseteq done', done' \subseteq done \cup {<<n, Action(w)>>},
           Minded(w) => Mine(r, Action(w))',
           \A d \in done' :
             Minded(w) /\ NobodyStarts /\ Safe(d)' /\ d[1] = n => Kept(d)' /\ Carries(r, d)
    PROVE  FileInv'
<1>1. worker'[w] = r /\ \A v \in Workers \ {w} : worker'[v] = worker[v]
  BY DEF Become, TypeOK
<1>2. n \in Names /\ worker[w].stage \in Calling /\ worker[w].stage # "enter"
  BY Stages DEF CallsNamed
<1>3. \A v \in Workers \ {w} : worker[v].stage \in Inside => worker[v].name # n
  BY QuietExcludes
<1>4. \A m \in Names \ {n} : report'[m] = report[m]
  BY DEF TypeOK
<1>a. \A v \in Workers : Action(v)' = Action(v)
  BY DEF Action
<1>s. ASSUME NEW d \in done', Safe(d)' PROVE Safe(d) \/ (d = <<n, Action(w)>> /\ Trusted(w))
  BY <1>2, <1>s DEF Safe, Trusted
<1>m. ASSUME NEW d \in done', Safe(d)', d[1] = n PROVE Minded(w)
  <2>1. CASE Safe(d)
    BY <1>m, <2>1 DEF Minded, Safe
  <2>2. CASE Trusted(w)
    BY <2>2 DEF Minded
  <2> QED
    BY <1>m, <1>s, <2>1, <2>2
<1>t. ASSUME NEW v \in Workers, Trusted(v)' PROVE Trusted(v)
  BY <1>1, <1>2, <1>a, <1>t DEF Trusted
<1>5. DirectoryIsThere'
  <2> SUFFICES ASSUME \/ \E d \in done' : Safe(d)'
                      \/ \E v \in Workers : Trusted(v)' /\ ~At(v, "enter")'
               PROVE  dir
    BY DEF DirectoryIsThere
  <2>1. CASE Trusted(w)
    BY <1>2, <2>1 DEF FileInv, DirectoryIsThere, At
  <2>2. CASE \E d \in done' : Safe(d)'
    <3>1. PICK d \in done' : Safe(d)'
      BY <2>2
    <3> QED
      BY <1>s, <2>1, <3>1 DEF FileInv, DirectoryIsThere, Safe
  <2>3. CASE \E v \in Workers : Trusted(v)' /\ ~At(v, "enter")'
    <3>1. PICK v \in Workers : Trusted(v)' /\ ~At(v, "enter")'
      BY <2>3
    <3>2. v = w \/ ~At(v, "enter")
      BY <1>1, <3>1 DEF At
    <3> QED
      BY <1>t, <2>1, <3>1, <3>2 DEF FileInv, DirectoryIsThere
  <2> QED
    BY <2>2, <2>3
<1>6. Quiet'
  <2> SUFFICES ASSUME NEW v \in Workers PROVE ~At(v, "unlink")' /\ ~Stale(v)'
    BY DEF Quiet
  <2>1. v # w => worker'[v] = worker[v]
    BY <1>1
  <2> QED
    BY <1>1, <1>2, <1>a, <2>1, Stages DEF Quiet, Stale, At
<1>7. ReportsAreMine'
  <2> SUFFICES ASSUME NEW v \in Workers, Minded(v)', NEW x, x = worker'[v], NEW a, a = Action(v)'
               PROVE  Mine(x, a)'
    BY DEF ReportsAreMine
  <2>i. CASE x.stage \notin Inside
    BY <2>i, Stages DEF Mine
  <2>1. CASE x.stage \in Inside
    <3>1. x.name = worker[v].name
      BY <1>1, <2>1, Stages
    <3>2. Trusted(v)' \/ \E d \in done' : Safe(d)' /\ d[1] = x.name
      BY DEF Minded
    <3>3. CASE v = w
      <4>1. Minded(w)
        <5>1. CASE Trusted(v)'
          BY <1>t, <3>3, <5>1 DEF Minded
        <5>2. CASE \E d \in done' : Safe(d)' /\ d[1] = x.name
          BY <1>m, <3>1, <3>3, <5>2
        <5> QED
          BY <3>2, <5>1, <5>2
      <4>2. x = r /\ a = Action(w) /\ Mine(r, Action(w))'
        BY <1>1, <1>a, <3>3, <4>1
      <4> QED
        BY <1>a, <4>2
    <3>4. CASE v # w
      <4>1. x = worker[v] /\ a = Action(v) /\ worker[v].name \in Names \ {n}
        BY <1>1, <1>3, <1>a, <2>1, <3>4, Stages DEF CallsNamed
      <4>2. Minded(v)
        <5>1. CASE Trusted(v)'
          BY <1>t, <5>1 DEF Minded
        <5>2. CASE \E d \in done' : Safe(d)' /\ d[1] = x.name
          <6>1. PICK d \in done' : Safe(d)' /\ d[1] = x.name
            BY <5>2
          <6>2. Safe(d)
            BY <1>s, <4>1, <6>1
          <6> QED
            BY <4>1, <6>1, <6>2 DEF Minded, Safe
        <5> QED
          BY <3>2, <5>1, <5>2
      <4>3. Mine(x, a) /\ report'[x.name] = report[x.name]
        BY <1>4, <4>1, <4>2 DEF FileInv, ReportsAreMine
      <4> QED
        BY <4>3 DEF Mine
    <3> QED
      BY <3>3, <3>4
  <2> QED
    BY <2>i, <2>1
<1>8. DoneIsKept'
  <2> SUFFICES ASSUME NobodyStarts', NEW d \in done', Safe(d)'
               PROVE  Kept(d)' /\ \A v \in Workers : Carries(worker'[v], d)
    BY DEF DoneIsKept, Carries
  <2>1. NobodyStarts
    BY <1>1, <1>2, Stages DEF NobodyStarts, At, Calling, Inside
  <2>2. CASE d[1] = n
    <3>1. Kept(d)' /\ Carries(r, d)
      BY <1>m, <2>1, <2>2
    <3>2. \A v \in Workers \ {w} : Carries(worker[v], d)
      BY <1>3, <2>2, Stages DEF Carries
    <3> QED
      BY <1>1, <3>1, <3>2
  <2>3. CASE d[1] # n
    <3>1. Safe(d) /\ d[1] \in Names \ {n}
      BY <1>s, <2>3 DEF Safe, TypeOK
    <3>2. Kept(d) /\ \A v \in Workers : Carries(worker[v], d)
      BY <2>1, <3>1 DEF FileInv, DoneIsKept, Safe
    <3>3. Carries(r, d)
      BY <2>3, Stages DEF Carries
    <3>4. report'[d[1]] = report[d[1]]
      BY <1>4, <3>1
    <3>5. ASSUME NEW v \in Workers, At(v, "changed"), worker[v].name = d[1]
          PROVE  \E u \in Workers : At(u, "changed")' /\ worker'[u].name = d[1]
      BY <1>1, <2>3, <3>5 DEF At
    <3>6. Kept(d)'
      BY <3>2, <3>4, <3>5 DEF Kept
    <3> QED
      BY <1>1, <3>2, <3>3, <3>6
  <2> QED
    BY <2>2, <2>3
<1> QED
  BY <1>5, <1>6, <1>7, <1>8 DEF FileInv

LEMMA Appended ==
    ASSUME NEW S, NEW s \in Seq(S), NEW e \in S
    PROVE  Append(s, e) \in Seq(S) /\ ToSet(Append(s, e)) = ToSet(s) \cup {e}
<1> DEFINE t == Append(s, e)
<1>1. /\ t \in Seq(S) /\ Len(t) = Len(s) + 1 /\ Len(s) \in Nat
      /\ t[Len(t)] = e /\ \A i \in 1..Len(s) : t[i] = s[i]
      /\ DOMAIN t = 1..Len(t) /\ DOMAIN s = 1..Len(s)
  OBVIOUS
<1> HIDE DEF t
<1>2. 1..Len(t) = 1..Len(s) \cup {Len(t)}
  BY <1>1
<1>3. ToSet(t) = ToSet(s) \cup {e}
  BY <1>1, <1>2 DEF ToSet
<1> QED
  BY <1>1, <1>3 DEF t

\* A step that does not write a report, of a worker that does not empty one.
LEMMA LooksOnly ==
    ASSUME TypeOK, FileInv, NEW w \in Workers, NEW r, Become(w, r), UNCHANGED report,
           ~At(w, "changed"), NobodyStarts, NEW d \in done, Safe(d)
    PROVE  Kept(d)'
<1>1. \A v \in Workers \ {w} : worker'[v] = worker[v]
  BY DEF Become, TypeOK
<1>2. Kept(d)
  BY DEF FileInv, DoneIsKept
<1> QED
  BY <1>1, <1>2 DEF Kept, At

\* A step of a call while a removal is under way, or has left its traces.
LEMMA CallCountsNothing ==
    ASSUME TypeOK, ~Quiet, FileInv, NEW w \in Workers, CallStep(w)
    PROVE  FileInv'
<1>1. NothingCounts
  BY DEF FileInv
<1>2. \A v \in Workers \ {w} : worker'[v] = worker[v]
  BY DEF CallStep, Call, Enter, Open, Flock, Check, Create, FillNew, ReadReport, Change,
         FillChanged, Close, NextTest, Empty, Fill, Raises, Go, Become, TypeOK
<1>3. CASE Call(w)
  <2>1. calls' = [calls EXCEPT ![w] = calls[w] + 1] /\ done' = done
        /\ atRisk' = atRisk \cup {<<w, calls[w] + 1>>}
    BY <1>3 DEF Call, Begins, Quiet, Removing
  <2>2. Action(w)' \in atRisk' /\ \A v \in Workers \ {w} : Action(v)' = Action(v)
    BY <2>1 DEF Action, TypeOK
  <2>3. \A v \in Workers : ~Trusted(v)'
    BY <1>1, <1>2, <2>1, <2>2 DEF NothingCounts, Trusted
  <2>4. \A d \in done' : ~Safe(d)'
    BY <1>1, <2>1 DEF NothingCounts, Safe
  <2> QED
    BY <2>3, <2>4, NothingToKeep DEF NothingCounts
<1>4. CASE ~Call(w)
  <2>1. UNCHANGED <<calls, atRisk>> /\ (worker[w].stage \in Calling \/ Become(w, NewWorker))
    BY <1>4 DEF CallStep, Enter, Open, Flock, Check, Create, FillNew, ReadReport, Change,
                FillChanged, Close, NextTest, Empty, Fill, history, At, Calling, Inside
  <2>2. UNCHANGED done \/ Close(w)
    BY <1>4 DEF CallStep, Enter, Open, Flock, Check, Create, FillNew, ReadReport, Change,
                FillChanged, NextTest, Empty, Fill, history
  <2>3. worker'[w].stage \in Calling => worker[w].stage \in Calling
    BY <2>1 DEF Become, TypeOK, NewWorker, Calling, Inside
  <2>4. \A v \in Workers : ~Trusted(v)'
    BY <1>1, <1>2, <2>1, <2>3 DEF NothingCounts, Trusted, Action
  <2>5. Close(w) => Action(w) \in atRisk /\ done' = done \cup {<<worker[w].name, Action(w)>>}
    BY <1>1, Stages DEF NothingCounts, Trusted, Close, At
  <2>6. \A d \in done' : ~Safe(d)'
    BY <1>1, <2>1, <2>2, <2>5 DEF NothingCounts, Safe
  <2> QED
    BY <2>4, <2>6, NothingToKeep DEF NothingCounts
<1> QED
  BY <1>3, <1>4

LEMMA CallFiles ==
    ASSUME TypeOK, CallsNamed, HistoryIsOld, IInv, FileInv, Quiet,
           NEW w \in Workers, CallStep(w)
    PROVE  FileInv'
<1> DEFINE n == worker[w].name
<1>w. worker[w] \in WorkerRecords
  BY DEF TypeOK
<1>f. Minded(w) => Mine(worker[w], Action(w))
  BY DEF FileInv, ReportsAreMine
<1>n. worker[w].stage \in Calling => n \in Names /\ Action(w) \in Actions
  BY DEF CallsNamed, Action, Actions
<1>d. worker[w].stage \in Inside /\ Minded(w) => dir
  BY Stages DEF FileInv, DirectoryIsThere, Minded, At
<1>r. report \in [Names -> {None, Torn} \cup Seq(Actions)]
  BY DEF TypeOK
<1>k. NobodyStarts => \A d \in done : Safe(d) => Kept(d) /\ Carries(worker[w], d)
  BY DEF FileInv, DoneIsKept
<1>o. ASSUME NEW r, Become(w, r), UNCHANGED <<report, removed, calls, history>>,
             worker[w].stage \notin Starting \cup Inside,
             r.stage \notin Starting \cup (Inside \ {"check"}),
             r.stage \in Calling => worker[w].stage \in Calling,
             dir' = dir \/ dir',
             dir' \/ r.stage \notin Calling \/ worker[w].stage # "enter"
      PROVE  FileInv'
  <2>1. worker'[w] = r /\ \A v \in Workers \ {w} : worker'[v] = worker[v]
    BY <1>o DEF Become, TypeOK
  <2>2. \A v \in Workers : Action(v)' = Action(v)
    BY <1>o DEF Action
  <2>3. UNCHANGED <<done, stale, atRisk>>
    BY <1>o DEF history
  <2>4. Quiet'
    BY <1>o, <2>1, <2>2, <2>3, Stages DEF Quiet, Stale, At
  <2>5. \A v \in Workers : Trusted(v)' => Trusted(v)
    BY <1>o, <2>1, <2>2, <2>3 DEF Trusted
  <2>6. DirectoryIsThere'
    BY <1>o, <2>1, <2>3, <2>5 DEF FileInv, DirectoryIsThere, Safe, Trusted, At
  <2> QED
    BY <1>o, <2>2, <2>3, <2>4, <2>6, OutsideKeeps
<1>1. CASE Call(w)
  <2>1. PICK x \in Names : Become(w, [NewWorker EXCEPT !.stage = "enter", !.name = x])
    BY <1>1 DEF Call
  <2> DEFINE r == [NewWorker EXCEPT !.stage = "enter", !.name = x]
  <2>2. r.stage = "enter" /\ Become(w, r)
    BY <2>1 DEF NewWorker
  <2> HIDE DEF r
  <2>3. worker[w].stage = "idle" /\ calls' = [calls EXCEPT ![w] = calls[w] + 1]
        /\ UNCHANGED <<dir, report, removed, done>> /\ stale' = stale /\ atRisk \subseteq atRisk'
    BY <1>1 DEF Call, At, Begins, fs, Quiet, Removing
  <2>4. worker'[w] = r /\ \A v \in Workers \ {w} : worker'[v] = worker[v]
    BY <2>2 DEF Become, TypeOK
  <2>5. Action(w)' = <<w, calls[w] + 1>> /\ \A v \in Workers \ {w} : Action(v)' = Action(v)
    BY <2>3 DEF Action, TypeOK
  <2>6. Action(w)' \notin stale
    BY <2>5, BoundsAreNat DEF HistoryIsOld, TypeOK
  <2>7. Quiet'
    BY <2>2, <2>3, <2>4, <2>5, <2>6 DEF Quiet, Stale, At
  <2>8. DirectoryIsThere'
    <3>1. \A v \in Workers : Trusted(v)' /\ ~At(v, "enter")' => Trusted(v) /\ ~At(v, "enter")
      BY <2>2, <2>3, <2>4, <2>5 DEF Trusted, At
    <3> QED
      BY <2>3, <3>1 DEF FileInv, DirectoryIsThere, Safe
  <2> QED
    BY <2>2, <2>3, <2>5, <2>7, <2>8, OutsideKeeps DEF Starting, Inside
<1>2. CASE Enter(w)
  <2> DEFINE exists == lockFile[n] # None
             r == [worker[w] EXCEPT !.stage = "open", !.exists = exists]
  <2>1. Become(w, r) /\ dir' /\ UNCHANGED <<report, removed, calls, history>>
        /\ worker[w].stage = "enter"
    BY <1>2 DEF Enter, At
  <2>2. r.stage = "open"
    BY <1>w DEF WorkerRecords
  <2> HIDE DEF r
  <2> QED
    BY <1>o, <2>1, <2>2 DEF Starting, Inside, Calling
<1>3. CASE Open(w)
  <2>1. worker[w].stage = "open" /\ UNCHANGED <<dir, report, removed, calls, history>>
    BY <1>3 DEF Open, At
  <2>2. CASE Raises(w)
    BY <1>o, <2>1, <2>2 DEF Raises, NewWorker, Starting, Inside, Calling
  <2>3. ASSUME NEW inode, Become(w, [worker[w] EXCEPT !.stage = "lock", !.inode = inode])
        PROVE  FileInv'
    <3> DEFINE r == [worker[w] EXCEPT !.stage = "lock", !.inode = inode]
    <3>1. r.stage = "lock" /\ Become(w, r)
      BY <1>w, <2>3 DEF WorkerRecords
    <3> HIDE DEF r
    <3> QED
      BY <1>o, <2>1, <3>1 DEF Starting, Inside, Calling
  <2> QED
    BY <1>3, <2>2, <2>3 DEF Open
<1>4. CASE Flock(w)
  <2>1. PICK stage \in {"enter", "check"} : Become(w, [worker[w] EXCEPT !.stage = stage])
    BY <1>4 DEF Flock, Go
  <2> DEFINE r == [worker[w] EXCEPT !.stage = stage]
  <2>2. r.stage = stage /\ Become(w, r)
    BY <1>w, <2>1 DEF WorkerRecords
  <2> HIDE DEF r
  <2>3. worker[w].stage = "lock" /\ UNCHANGED <<dir, report, removed, calls, history>>
    BY <1>4 DEF Flock, fs, At
  <2> QED
    BY <1>o, <2>2, <2>3 DEF Starting, Inside, Calling
<1>5. CASE NextTest(w)
  BY <1>5, <1>o DEF NextTest, At, fs, NewWorker, Starting, Inside, Calling
<1>6. ASSUME NEW r, Become(w, r), worker[w].stage \in Inside \ {"changed"},
             UNCHANGED <<dir, report, lockFile, removed, calls, crashes, stale, atRisk>>,
             r.stage \notin Starting, r.stage \in Calling => r.stage \in Inside /\ r.name = n,
             r.stage \notin {"created", "changed"}, Minded(w) => Mine(r, Action(w)),
             done \subseteq done', done' \subseteq done \cup {<<n, Action(w)>>},
             <<n, Action(w)>> \in done' \ done => At(w, "close")
      PROVE  FileInv'
  <2>1. report' = [report EXCEPT ![n] = report[n]]
    BY <1>6, <1>r
  <2>2. Minded(w) => Mine(r, Action(w))'
    BY <1>6 DEF Mine, Action
  <2>3. ASSUME NEW d \in done', Minded(w), NobodyStarts, Safe(d)', d[1] = n
        PROVE  Kept(d)' /\ Carries(r, d)
    <3> SUFFICES Kept(d)'
      BY <1>6 DEF Carries
    <3>1. CASE d \in done
      <4>1. Safe(d)
        BY <1>6, <2>3, <3>1 DEF Safe
      <4> QED
        BY <1>6, <2>3, <3>1, <4>1, LooksOnly DEF At
    <3>2. CASE d \notin done
      <4>1. d = <<n, Action(w)>> /\ worker[w].stage = "close"
        BY <1>6, <3>2 DEF At
      <4>2. report[n] \in Seq(Actions) /\ Action(w) \in ToSet(report[n])
        BY <1>f, <2>3, <4>1 DEF Mine
      <4>3. d[1] = n /\ d[2] = Action(w)
        BY <4>1
      <4> HIDE DEF n
      <4> QED
        BY <1>6, <4>2, <4>3, Files DEF Kept
    <3> QED
      BY <3>1, <3>2
  <2>4. \A d \in done' :
          Minded(w) /\ NobodyStarts /\ Safe(d)' /\ d[1] = n => Kept(d)' /\ Carries(r, d)
    BY <2>3
  <2> PICK x, file : x = n /\ file = report[n]
    OBVIOUS
  <2>5. /\ Become(w, r) /\ worker[w].stage \in Inside /\ r.stage \notin Starting
        /\ UNCHANGED <<dir, lockFile, removed, crashes, calls, stale, atRisk>>
        /\ x = worker[w].name /\ report' = [report EXCEPT ![x] = file]
        /\ r.stage \in Calling => r.stage \in Inside /\ r.name = x
        /\ done \subseteq done' /\ done' \subseteq done \cup {<<x, Action(w)>>}
        /\ Minded(w) => Mine(r, Action(w))'
        /\ \A d \in done' :
             Minded(w) /\ NobodyStarts /\ Safe(d)' /\ d[1] = x => Kept(d)' /\ Carries(r, d)
    BY <1>6, <2>1, <2>2, <2>4
  <2> QED
    BY <2>5, InsideKeeps
<1>7. CASE Check(w)
  <2>1. PICK stage \in {"create", "read"} : /\ Become(w, [worker[w] EXCEPT !.stage = stage])
                                            /\ stage = "create" => report[n] = None
    BY <1>7 DEF Check, Go
  <2> DEFINE r == [worker[w] EXCEPT !.stage = stage]
  <2>2. r.stage = stage /\ r.name = n /\ Become(w, r)
    BY <1>w, <2>1 DEF WorkerRecords
  <2>3. worker[w].stage = "check"
        /\ UNCHANGED <<dir, report, lockFile, removed, calls, done, crashes, stale, atRisk>>
    BY <1>7 DEF Check, fs, history, At
  <2> HIDE DEF r
  <2>4. Mine(r, Action(w))
    BY <2>1, <2>2 DEF Mine
  <2> QED
    BY <1>6, <2>2, <2>3, <2>4, Stages DEF Starting
<1>8. CASE ReadReport(w)
  <2>1. worker[w].stage = "read"
        /\ UNCHANGED <<dir, report, lockFile, removed, calls, done, crashes, stale, atRisk>>
    BY <1>8 DEF ReadReport, fs, history, At
  <2>2. CASE Raises(w)
    <3>1. [NewWorker EXCEPT !.stage = "raised"].stage = "raised"
      BY DEF NewWorker
    <3>2. Mine([NewWorker EXCEPT !.stage = "raised"], Action(w))
      BY <3>1 DEF Mine
    <3> QED
      BY <1>6, <2>1, <2>2, <3>1, <3>2, Stages DEF Raises, Starting, Inside, Calling
  <2>3. CASE ~Raises(w)
    <3> DEFINE longer == Append(report[n], Action(w))
               r == [worker[w] EXCEPT !.stage = "change", !.actions = longer]
    <3>1. Become(w, r) /\ report[n] \notin {None, Torn}
      BY <1>8, <2>3 DEF ReadReport
    <3>2. r.stage = "change" /\ r.name = n /\ r.actions = longer
      BY <1>w DEF WorkerRecords
    <3>3. report[n] \in Seq(Actions)
      BY <1>n, <1>r, <2>1, <3>1, Stages
    <3>4. Mine(r, Action(w))
      BY <3>2, <3>3 DEF Mine
    <3> HIDE DEF r
    <3> QED
      BY <1>6, <2>1, <3>1, <3>2, <3>4, Stages DEF Starting
  <2> QED
    BY <2>2, <2>3
<1>9. CASE Close(w)
  <2>1. worker[w].stage = "close"
        /\ UNCHANGED <<dir, report, lockFile, removed, calls, crashes, stale, atRisk>>
        /\ Become(w, NewWorker) /\ done' = done \cup {<<n, Action(w)>>}
    BY <1>9 DEF Close, fs, At
  <2>2. NewWorker.stage = "idle"
    BY DEF NewWorker
  <2>3. Mine(NewWorker, Action(w))
    BY <2>2 DEF Mine
  <2> QED
    BY <1>6, <2>1, <2>2, <2>3, Stages DEF Starting, Inside, Calling, At
<1>g. ASSUME NEW r, Become(w, r), NEW file, report' = [report EXCEPT ![n] = file],
             worker[w].stage \in Inside,
             UNCHANGED <<dir, lockFile, removed, calls, crashes, done, stale, atRisk>>,
             r.stage = "raised" \/ (r.stage \in Inside /\ r.name = n), ~Minded(w)
      PROVE  FileInv'
  <2>1. r.stage \notin Starting /\ (r.stage \in Calling => r.stage \in Inside /\ r.name = n)
    BY <1>g DEF Starting, Calling, Inside
  <2> QED
    BY <1>g, <2>1, InsideKeeps
<1>10. CASE Create(w) \/ Change(w)
  <2>1. PICK next \in {"created", "changed"} : /\ Empty(w, next)
                                               /\ next = "created" => worker[w].stage = "create"
                                               /\ next = "changed" => worker[w].stage = "change"
    BY <1>10 DEF Create, Change, At
  <2>2. worker[w].stage \in Inside
    BY <2>1, Stages
  <2>u. UNCHANGED <<dir, lockFile, removed, calls, crashes, done, stale, atRisk>>
    BY <2>1 DEF Empty, history
  <2> DEFINE r == [worker[w] EXCEPT !.stage = next, !.out = removed[n].report]
  <2>4. r.stage = next /\ r.name = n /\ r.out = removed[n].report /\ r.actions = worker[w].actions
    BY <1>w DEF WorkerRecords
  <2>a. CASE ~Minded(w)
    <3>1. CASE dir
      <4>1. Become(w, r) /\ report' = [report EXCEPT ![n] = Torn]
        BY <2>1, <3>1 DEF Empty
      <4> HIDE DEF r
      <4> QED
        BY <1>g, <2>2, <2>4, <2>a, <2>u, <4>1, Stages
    <3>2. CASE ~dir
      <4>1. Raises(w) /\ report' = [report EXCEPT ![n] = report[n]]
        BY <1>r, <2>1, <3>2 DEF Empty
      <4>2. [NewWorker EXCEPT !.stage = "raised"].stage = "raised"
        BY DEF NewWorker
      <4> QED
        BY <1>g, <2>2, <2>a, <2>u, <4>1, <4>2 DEF Raises
    <3> QED
      BY <3>1, <3>2
  <2>b. CASE Minded(w)
    <3>1. Become(w, r) /\ report' = [report EXCEPT ![n] = Torn]
      BY <1>d, <2>1, <2>2, <2>b DEF Empty
    <3>2. next = "changed" => /\ report[n] \in Seq(Actions)
                              /\ ToSet(worker[w].actions) = ToSet(report[n]) \cup {Action(w)}
      <4> SUFFICES ASSUME next = "changed"
                   PROVE  /\ report[n] \in Seq(Actions)
                          /\ ToSet(worker[w].actions) = ToSet(report[n]) \cup {Action(w)}
        OBVIOUS
      <4>1. report[n] \in Seq(Actions) /\ worker[w].actions = Append(report[n], Action(w))
        BY <1>f, <2>1, <2>b DEF Mine
      <4> QED
        BY <1>n, <2>2, <4>1, Appended, Stages
    <3>3. worker'[w] = r
      BY <3>1 DEF Become, TypeOK
    <3> HIDE DEF r
    <3>4. report'[n] = Torn /\ n \in Names
      BY <1>n, <1>r, <2>2, <3>1, Stages
    <3>5. ASSUME NEW d \in done', NobodyStarts, Safe(d)', d[1] = n PROVE Kept(d)' /\ Carries(r, d)
      <4>1. Kept(d)
        BY <1>k, <2>u, <3>5 DEF Safe
      <4>2. CASE next = "created"
        BY <1>f, <2>1, <2>b, <3>5, <4>1, <4>2 DEF Mine, Kept
      <4>3. CASE next = "changed"
        <5>1. d[2] \in ToSet(report[n])
          BY <3>2, <3>5, <4>1, <4>3, Files DEF Kept
        <5>2. Carries(r, d)
          BY <2>4, <3>2, <4>3, <5>1 DEF Carries
        <5>3. At(w, "changed")' /\ worker'[w].name = d[1]
          BY <2>4, <3>3, <3>5, <4>3 DEF At
        <5> QED
          BY <3>4, <3>5, <5>2, <5>3, Files DEF Kept
      <4> QED
        BY <4>2, <4>3
    <3> PICK c : c = r
      OBVIOUS
    <3>6. Mine(c, Action(w))'
      <4>1. Action(w)' = Action(w)
        BY <2>u DEF Action
      <4>2. c.stage = next /\ c.name = n /\ c.out = removed'[n].report
            /\ c.actions = worker[w].actions
        BY <2>4, <2>u
      <4>3. PICK x : x = n
        OBVIOUS
      <4>4. report'[x] = Torn /\ c.name = x /\ c.out = removed'[x].report
        BY <3>4, <4>2, <4>3
      <4>5. c.stage = "changed" => Action(w)' \in ToSet(c.actions)
        BY <3>2, <4>1, <4>2
      <4>6. c.stage \in {"created", "changed"}
        BY <4>2
      <4> QED
        BY <4>4, <4>5, <4>6 DEF Mine
    <3>7. c.stage \in Inside /\ c.stage \notin Starting /\ c.name = n /\ Become(w, c)
      BY <2>4, <3>1, Stages
    <3>8. \A d \in done' : NobodyStarts /\ Safe(d)' /\ d[1] = n => Kept(d)' /\ Carries(c, d)
      BY <3>5
    <3> PICK x : x = n
      OBVIOUS
    <3> HIDE DEF n
    <3> QED
      BY <2>2, <2>u, <3>1, <3>6, <3>7, <3>8, InsideKeeps DEF n
  <2> QED
    BY <2>a, <2>b
<1>11. CASE FillNew(w) \/ FillChanged(w)
  <2>1. PICK next, actions :
          /\ next \in {"read", "close"} /\ Fill(w, actions, next)
          /\ next = "read" => worker[w].stage = "created" /\ actions = <<>>
          /\ next = "close" => worker[w].stage = "changed" /\ actions = worker[w].actions
    BY <1>11 DEF FillNew, FillChanged, At
  <2>2. worker[w].stage \in Inside /\ worker[w].stage \in {"created", "changed"}
    BY <2>1, Stages
  <2> DEFINE r == [worker[w] EXCEPT !.stage = next]
  <2>4. Become(w, r)
        /\ UNCHANGED <<dir, lockFile, removed, calls, crashes, done, stale, atRisk>>
    BY <2>1 DEF Fill, Go, history
  <2>5. r.stage = next /\ r.name = n
    BY <1>w DEF WorkerRecords
  <2> HIDE DEF r
  <2> PICK c : c = r
    OBVIOUS
  <2>6. c.stage = next /\ c.stage \in Inside /\ c.stage \notin Starting /\ c.name = n
        /\ Become(w, c)
    BY <2>1, <2>4, <2>5, Stages DEF Starting
  <2>a. CASE ~Minded(w)
    <3>1. \E file : report' = [report EXCEPT ![n] = file]
      <4>1. CASE worker[w].out = removed[n].report
        BY <2>1, <4>1 DEF Fill
      <4>2. CASE worker[w].out # removed[n].report
        <5>1. report' = [report EXCEPT ![n] = report[n]]
          BY <1>r, <2>1, <4>2 DEF Fill
        <5> QED
          BY <5>1
      <4> QED
        BY <4>1, <4>2
    <3>2. PICK file : report' = [report EXCEPT ![n] = file]
      BY <3>1
    <3> QED
      BY <1>g, <2>2, <2>4, <2>6, <2>a, <3>2
  <2>b. CASE Minded(w)
    <3>1. report[n] = Torn /\ worker[w].out = removed[n].report
      BY <1>f, <2>2, <2>b DEF Mine
    <3>2. report' = [report EXCEPT ![n] = actions]
      BY <2>1, <3>1 DEF Fill
    <3>3. actions \in Seq(Actions) /\ actions # None /\ actions # Torn
      <4>1. worker[w].actions \in Seq(Actions) /\ <<>> \in Seq(Actions)
        BY <1>w DEF WorkerRecords
      <4> QED
        BY <2>1, <4>1, Files
    <3>4. next = "close" => Action(w) \in ToSet(actions)
      BY <1>f, <2>1, <2>b DEF Mine
    <3>5. report'[n] = actions
      BY <1>n, <1>r, <2>2, <3>2, Stages
    <3>6. Mine(c, Action(w))'
      <4>1. Action(w)' = Action(w)
        BY <2>4 DEF Action
      <4>2. PICK x : x = n
        OBVIOUS
      <4>3. report'[x] = actions /\ c.name = x /\ c.stage = next
        BY <2>6, <3>5, <4>2
      <4> QED
        BY <2>1, <3>3, <3>4, <4>1, <4>3 DEF Mine
    <3>7. ASSUME NEW d \in done', NobodyStarts, Safe(d)', d[1] = n PROVE Kept(d)' /\ Carries(c, d)
      <4>1. Carries(worker[w], d)
        BY <1>k, <2>4, <3>7 DEF Safe
      <4>2. next = "close" /\ d[2] \in ToSet(actions)
        BY <2>1, <3>7, <4>1 DEF Carries
      <4>3. Carries(c, d)
        BY <2>6, <4>2 DEF Carries
      <4> QED
        BY <3>3, <3>5, <3>7, <4>2, <4>3 DEF Kept
    <3> PICK x : x = n
      OBVIOUS
    <3>8. \A d \in done' : NobodyStarts /\ Safe(d)' /\ d[1] = x => Kept(d)' /\ Carries(c, d)
      BY <3>7
    <3> QED
      BY <2>2, <2>4, <2>6, <3>2, <3>6, <3>8, InsideKeeps
  <2> QED
    BY <2>a, <2>b
<1> QED
  BY <1>1, <1>2, <1>3, <1>4, <1>5, <1>7, <1>8, <1>9, <1>10, <1>11 DEF CallStep

LEMMA StartFiles ==
    ASSUME TypeOK, FileInv, NEW w \in Workers, StartStep(w) \/ Crash(w)
    PROVE  FileInv'
<1>w. worker[w] \in WorkerRecords
  BY DEF TypeOK
<1>n. ASSUME NothingCounts, NEW r, Become(w, r), r.stage \notin Calling,
             UNCHANGED <<calls, done, atRisk>>
      PROVE  FileInv'
  <2>1. worker'[w] = r /\ \A v \in Workers \ {w} : worker'[v] = worker[v]
    BY <1>n DEF Become, TypeOK
  <2>2. \A v \in Workers : ~Trusted(v)'
    BY <1>n, <2>1 DEF NothingCounts, Trusted, Action
  <2>3. \A d \in done' : ~Safe(d)'
    BY <1>n DEF NothingCounts, Safe
  <2> QED
    BY <2>2, <2>3, NothingToKeep DEF NothingCounts
<1>k. ASSUME NEW r, Become(w, r), r.stage \in {"idle", "session"},
             UNCHANGED <<dir, report, removed, calls, done, stale, atRisk>>,
             r.stage = "session" \/ ~dir
      PROVE  FileInv'
  <2>1. worker'[w] = r /\ \A v \in Workers \ {w} : worker'[v] = worker[v]
    BY <1>k DEF Become, TypeOK
  <2>2. r.stage \notin Calling /\ r.stage # "unlink"
    BY <1>k DEF Calling, Inside
  <2>3. \A v \in Workers : Action(v)' = Action(v)
    BY <1>k DEF Action
  <2>4. CASE NothingCounts
    BY <1>k, <1>n, <2>2, <2>4
  <2>5. CASE Quiet
    <3>1. Quiet'
      BY <1>k, <2>1, <2>2, <2>3, <2>5 DEF Quiet, Stale, At
    <3>2. \A v \in Workers : Trusted(v)' => v # w /\ Trusted(v)
      BY <1>k, <2>1, <2>2, <2>3 DEF Trusted
    <3>3. DirectoryIsThere'
      BY <1>k, <2>1, <3>2 DEF FileInv, DirectoryIsThere, Safe, At
    <3>4. ReportsAreMine'
      <4> SUFFICES ASSUME NEW v \in Workers, Minded(v)', NEW x, x = worker'[v],
                          NEW a, a = Action(v)'
                   PROVE  Mine(x, a)'
        BY DEF ReportsAreMine
      <4>1. CASE v = w
        BY <2>1, <2>2, <4>1, Stages DEF Mine
      <4>2. CASE v # w
        <5>1. x = worker[v] /\ a = Action(v)
          BY <2>1, <2>3, <4>2
        <5>2. Minded(v)
          BY <1>k, <3>2, <5>1 DEF Minded, Safe
        <5>3. Mine(x, a)
          BY <5>1, <5>2 DEF FileInv, ReportsAreMine
        <5> QED
          BY <1>k, <5>3 DEF Mine
      <4> QED
        BY <4>1, <4>2
    <3>5. DoneIsKept'
      <4>1. CASE r.stage = "session"
        BY <2>1, <4>1 DEF DoneIsKept, NobodyStarts, At
      <4>2. CASE ~dir
        <5>1. \A d \in done' : ~Safe(d)'
          BY <1>k, <4>2 DEF FileInv, DirectoryIsThere, Safe
        <5> QED
          BY <5>1 DEF DoneIsKept
      <4> QED
        BY <1>k, <4>1, <4>2
    <3> QED
      BY <3>1, <3>3, <3>4, <3>5 DEF FileInv
  <2> QED
    BY <2>4, <2>5 DEF FileInv
<1>1. CASE SessionStart(w)
  <2>1. CASE dir
    <3> DEFINE r == [worker[w] EXCEPT !.stage = "unlink", !.listing = Listing]
    <3>1. r.stage = "unlink"
      BY <1>w DEF WorkerRecords
    <3>2. Become(w, r) /\ RemovalBegins /\ UNCHANGED calls
      BY <1>1, <2>1 DEF SessionStart
    <3> HIDE DEF r
    <3>3. worker'[w] = r /\ \A v \in Workers \ {w} : worker'[v] = worker[v]
      BY <3>2 DEF Become, TypeOK
    <3>4. \A v \in Workers : ~Trusted(v)'
      BY <3>1, <3>2, <3>3 DEF Trusted, RemovalBegins, UnderWay, Action, Calling, Inside
    <3>5. \A d \in done' : ~Safe(d)'
      BY <3>2 DEF RemovalBegins, Safe
    <3> QED
      BY <3>4, <3>5, NothingToKeep DEF NothingCounts
  <2>2. CASE ~dir
    <3>1. NewWorker.stage = "idle"
      BY DEF NewWorker
    <3> QED
      BY <1>1, <1>k, <2>2, <3>1 DEF SessionStart, fs, history
  <2> QED
    BY <2>1, <2>2
<1>2. CASE Unlink(w) \/ RemoveDirectory(w)
  <2>1. worker[w].stage = "unlink" /\ UNCHANGED <<calls, done, atRisk>>
    BY <1>2 DEF Unlink, RemoveDirectory, At, history
  <2>2. NothingCounts
    BY <2>1 DEF FileInv, Quiet, At
  <2>3. \E r : Become(w, r) /\ r.stage \in {"idle", "failed", "unlink"}
    <3>1. NewWorker.stage = "idle" /\ [NewWorker EXCEPT !.stage = "failed"].stage = "failed"
          /\ \A listing : [worker[w] EXCEPT !.listing = listing].stage = "unlink"
      BY <1>w, <2>1 DEF NewWorker, WorkerRecords
    <3>2. \/ Become(w, NewWorker)
          \/ Become(w, [NewWorker EXCEPT !.stage = "failed"])
          \/ \E listing : Become(w, [worker[w] EXCEPT !.listing = listing])
      BY <1>2 DEF Unlink, RemoveDirectory, FailsToStart
    <3> QED
      BY <3>1, <3>2
  <2> QED
    BY <1>n, <2>1, <2>2, <2>3 DEF Calling, Inside
<1>3. CASE Crash(w)
  <2>1. [NewWorker EXCEPT !.stage = "session"].stage = "session"
    BY DEF NewWorker
  <2> QED
    BY <1>3, <1>k, <2>1 DEF Crash, fs, history
<1> QED
  BY <1>1, <1>2, <1>3 DEF StartStep

LEMMA NextFiles ==
    TypeOK /\ CallsNamed /\ HistoryIsOld /\ IInv /\ FileInv /\ [Next]_vars => FileInv'
<1>1. ASSUME FileInv, UNCHANGED vars PROVE FileInv'
  <2>1. (Quiet \/ NothingCounts)' /\ DirectoryIsThere'
    BY <1>1 DEF FileInv, Quiet, NothingCounts, DirectoryIsThere, Stale, Safe, Trusted, Action,
                At, vars
  <2>2. ReportsAreMine'
    BY <1>1 DEF FileInv, ReportsAreMine, Minded, Safe, Trusted, Mine, Action, vars
  <2>3. DoneIsKept'
    BY <1>1 DEF FileInv, DoneIsKept, NobodyStarts, Safe, Kept, Carries, At, vars
  <2> QED
    BY <2>1, <2>2, <2>3 DEF FileInv
<1> QED
  BY <1>1, CallCountsNothing, CallFiles, StartFiles DEF Next

(***************************************************************************)
(* For any number of workers, reports, calls and deaths: an action whose   *)
(* call has returned is in its report as soon as no worker starts again    *)
(* (_update under self.lock), unless a removal began after it, overlapped  *)
(* its call, or had overlapped another call beside which this one began.   *)
(***************************************************************************)
THEOREM Recorded == Spec => []NothingIsLost
<1>1. Init => IInv /\ FileInv
  <2> SUFFICES ASSUME Init PROVE IInv /\ FileInv
    OBVIOUS
  <2>1. done = {} /\ \A w \in Workers : worker[w].stage = "idle"
    BY DEF Init, NewWorker
  <2>2. IInv
    BY <2>1 DEF IInv, OpenIsCurrent, RemovalsMakeStale, OneInsideEach, Opened, At, Inside
  <2>3. NothingCounts
    BY <2>1 DEF NothingCounts, Trusted, Calling, Inside
  <2> QED
    BY <2>2, <2>3, NothingToKeep
<1>2. FileInv => NothingIsLost
  BY DEF FileInv, DoneIsKept, NobodyStarts, Safe, Kept, Carries, NothingIsLost, At
<1>3. Spec => [](TypeOK /\ CallsNamed /\ HistoryIsOld /\ IInv /\ FileInv)
  BY <1>1, InitType, NextType, InitHistory, NextHistory, NextExclusion, NextFiles, PTL DEF Spec
<1> QED
  BY <1>2, <1>3, PTL
=============================================================================
