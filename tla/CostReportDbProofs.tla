------------------------- MODULE CostReportDbProofs -------------------------
(***************************************************************************)
(* Proofs about CostReportDb, for any jobs, runs and tags.                 *)
(***************************************************************************)
EXTENDS CostReportDb, FiniteSetTheorems, WellFoundedInduction, TLAPS

\* The record of a job keeps its type when one field gets another value.
LEMMA FieldTypes ==
    ASSUME NEW r \in JobRecords
    PROVE  /\ \A v \in Stages : [r EXCEPT !.stage = v] \in JobRecords
           /\ \A v \in BOOLEAN : [r EXCEPT !.signalled = v] \in JobRecords
           /\ \A v \in SUBSET Nat : [r EXCEPT !.found = v] \in JobRecords
           /\ \A v \in Nat : [r EXCEPT !.id = v] \in JobRecords
           /\ \A v \in SUBSET Rows : [r EXCEPT !.report = v] \in JobRecords
           /\ \A v \in SUBSET Rows : [r EXCEPT !.todo = v] \in JobRecords
           /\ \A v \in SUBSET Rows : [r EXCEPT !.pending = v] \in JobRecords
           /\ \A v \in SUBSET Tags : [r EXCEPT !.tags = v] \in JobRecords
           /\ \A v \in SUBSET ReportRecords : [r EXCEPT !.previous = v] \in JobRecords
           /\ \A v \in SUBSET ReportRecords : [r EXCEPT !.last = v] \in JobRecords
           /\ \A v \in SUBSET {row[1] : row \in Rows} : [r EXCEPT !.dapps = v] \in JobRecords
           /\ \A v \in SUBSET ({row[1] : row \in Rows} \X {row[2] : row \in Rows}) : [r EXCEPT !.names = v] \in JobRecords
           /\ \A v \in SUBSET (ReportRecords \X Rows) : [r EXCEPT !.plotted = v] \in JobRecords
           /\ \A v \in Jobs : [r EXCEPT !.sha = v] \in JobRecords
<1>1. \A v \in Stages : [r EXCEPT !.stage = v] \in JobRecords
  BY DEF JobRecords
<1>2. \A v \in BOOLEAN : [r EXCEPT !.signalled = v] \in JobRecords
  BY DEF JobRecords
<1>3. \A v \in SUBSET Nat : [r EXCEPT !.found = v] \in JobRecords
  BY DEF JobRecords
<1>4. \A v \in Nat : [r EXCEPT !.id = v] \in JobRecords
  BY DEF JobRecords
<1>5. \A v \in SUBSET Rows : [r EXCEPT !.report = v] \in JobRecords
  BY DEF JobRecords
<1>6. \A v \in SUBSET Rows : [r EXCEPT !.todo = v] \in JobRecords
  BY DEF JobRecords
<1>7. \A v \in SUBSET Rows : [r EXCEPT !.pending = v] \in JobRecords
  BY DEF JobRecords
<1>8. \A v \in SUBSET Tags : [r EXCEPT !.tags = v] \in JobRecords
  BY DEF JobRecords
<1>9. \A v \in SUBSET ReportRecords : [r EXCEPT !.previous = v] \in JobRecords
  BY DEF JobRecords
<1>10. \A v \in SUBSET ReportRecords : [r EXCEPT !.last = v] \in JobRecords
  BY DEF JobRecords
<1>11. \A v \in SUBSET {row[1] : row \in Rows} : [r EXCEPT !.dapps = v] \in JobRecords
  BY DEF JobRecords
<1>12. \A v \in SUBSET ({row[1] : row \in Rows} \X {row[2] : row \in Rows}) : [r EXCEPT !.names = v] \in JobRecords
  BY DEF JobRecords
<1>13. \A v \in SUBSET (ReportRecords \X Rows) : [r EXCEPT !.plotted = v] \in JobRecords
  BY DEF JobRecords
<1>14. \A v \in Jobs : [r EXCEPT !.sha = v] \in JobRecords
  BY DEF JobRecords
<1> QED
  BY <1>1, <1>2, <1>3, <1>4, <1>5, <1>6, <1>7, <1>8, <1>9, <1>10, <1>11, <1>12, <1>13, <1>14

LEMMA BecomesType ==
    ASSUME TypeOK, NEW j \in Jobs, NEW r \in JobRecords, Becomes(j, r)
    PROVE  job' \in [Jobs -> JobRecords]
BY DEF Becomes, TypeOK

LEMMA GoType ==
    ASSUME TypeOK, NEW j \in Jobs, NEW stage \in Stages, Go(j, stage)
    PROVE  job' \in [Jobs -> JobRecords]
BY FieldTypes, BecomesType DEF Go, TypeOK

LEMMA NewestIsSubset ==
    ASSUME NEW rs, NEW offset, NEW limit
    PROVE  Newest(rs, offset, limit) \subseteq rs
BY DEF Newest

LEMMA ReportsOfIsSubset ==
    ASSUME NEW repo, NEW tags
    PROVE  ReportsOf(repo, tags) \subseteq reports
BY DEF ReportsOf

\* The repository and the tags of a job's run, and of a report.
LEMMA RunType ==
    ASSUME TypeOK, NEW j \in Jobs
    PROVE  /\ run[j] \in Runs
           /\ run[j].repo \in Repos
           /\ {run[j].evm, run[j].proxy, run[j].branch, Latest} \subseteq Tags
BY RunsHaveRepos DEF TypeOK, Tags

LEMMA PreviousTagsType ==
    ASSUME TypeOK, NEW repo, NEW tag, NEW limit
    PROVE  get_previous_tags(repo, tag, limit) \subseteq Tags
<1>1. get_previous_tags(repo, tag, limit) \subseteq {OwnTag(r) : r \in ReportsOf(repo, GithubTags)}
  BY DEF get_previous_tags
<1>2. \A r \in reports : OwnTag(r) \in Tags
  BY DEF TypeOK, ReportRecords, OwnTag
<1> QED
  BY <1>1, <1>2, ReportsOfIsSubset

-----------------------------------------------------------------------------
(***************************************************************************)
(* Tables and local variables have their types.                            *)
(***************************************************************************)
LEMMA SaveType ==
    ASSUME TypeOK, NEW j \in Jobs, Save(j)
    PROVE  TypeOK'
<1>r. reports \subseteq ReportRecords /\ job[j] \in JobRecords
  BY DEF TypeOK
<1>1. CASE Start(j)
  <2> DEFINE stage == IF Superseded(j) = {} THEN "insert" ELSE "deleteData"
  <2>1. Superseded(j) \in SUBSET Nat /\ stage \in Stages
    BY <1>r, ReportsOfIsSubset DEF Superseded, ReportRecords, Stages
  <2>2. PICK report \in Reports :
          Becomes(j, [job[j] EXCEPT !.stage = stage, !.found = Superseded(j),
                                    !.report = report, !.todo = report])
    BY <1>1 DEF Start
  <2>3. report \in SUBSET Rows
    BY DEF Rows
  <2> HIDE DEF stage
  <2>4. [job[j] EXCEPT !.stage = stage, !.found = Superseded(j)] \in JobRecords
    BY <1>r, <2>1, FieldTypes
  <2>5. [job[j] EXCEPT !.stage = stage, !.found = Superseded(j),
                       !.report = report, !.todo = report] \in JobRecords
    BY <2>3, <2>4, FieldTypes
  <2>6. job' \in [Jobs -> JobRecords]
    BY <2>2, <2>5, BecomesType
  <2>7. alone' \in [Jobs -> BOOLEAN]
    BY <1>1 DEF Start, TypeOK
  <2> QED
    BY <1>1, <2>6, <2>7 DEF Start, TypeOK
<1>2. CASE DeleteData(j)
  BY <1>2, GoType DEF DeleteData, TypeOK, Stages
<1>3. CASE DeleteReports(j)
  BY <1>3, GoType DEF DeleteReports, TypeOK, Stages, Fail
<1>4. CASE InsertReport(j)
  <2>1. [id |-> nextId, repo |-> run[j].repo, evm |-> run[j].evm,
         proxy |-> run[j].proxy, sha |-> j] \in ReportRecords
    BY RunType DEF ReportRecords, TypeOK
  <2>2. [job[j] EXCEPT !.stage = "refresh", !.id = nextId] \in JobRecords
    BY <1>r, FieldTypes DEF Stages, TypeOK
  <2>3. job' \in [Jobs -> JobRecords]
    BY <1>4, <2>2, BecomesType DEF InsertReport
  <2> QED
    BY <1>4, <2>1, <2>3 DEF InsertReport, TypeOK
<1>5. CASE Refresh(j)
  BY <1>5, GoType DEF Refresh, TypeOK, Stages, Fail
<1>6. CASE AddRow(j)
  <2>1. PICK row \in job[j].todo :
          Becomes(j, [job[j] EXCEPT !.todo = job[j].todo \ {row},
                                    !.pending = job[j].pending \cup {row}])
    BY <1>6 DEF AddRow
  <2>2. job[j].todo \ {row} \in SUBSET Rows /\ job[j].pending \cup {row} \in SUBSET Rows
    BY <1>r DEF JobRecords
  <2>3. [job[j] EXCEPT !.todo = job[j].todo \ {row},
                       !.pending = job[j].pending \cup {row}] \in JobRecords
    BY <1>r, <2>2, FieldTypes
  <2> QED
    BY <1>6, <2>1, <2>3, BecomesType DEF AddRow, TypeOK
<1>7. CASE CommitRows(j)
  <2>1. job' \in [Jobs -> JobRecords]
    BY <1>7, GoType DEF CommitRows, TypeOK, Stages, Fail
  <2>2. CASE UNCHANGED data
    BY <1>7, <2>1, <2>2 DEF CommitRows, TypeOK
  <2>3. CASE /\ job[j].pending = {} \/ \E r \in reports : r.id = job[j].id
             /\ data' = data \cup {<<job[j].id, row>> : row \in job[j].pending}
    <3>1. job[j].pending # {} => job[j].id \in Nat
      BY <2>3, <1>r DEF ReportRecords
    <3>2. job[j].pending \subseteq Rows
      BY <1>r DEF JobRecords
    <3>3. data' \subseteq Nat \X Rows
      BY <2>3, <3>1, <3>2 DEF TypeOK
    <3> QED
      BY <1>7, <2>1, <3>3 DEF CommitRows, TypeOK
  <2> QED
    BY <1>7, <2>2, <2>3 DEF CommitRows
<1> QED
  BY <1>1, <1>2, <1>3, <1>4, <1>5, <1>6, <1>7 DEF Save

LEMMA SignalType ==
    ASSUME TypeOK, NEW j \in Jobs, Signal(j)
    PROVE  TypeOK'
<1>r. job[j] \in JobRecords
  BY DEF TypeOK
<1>1. \A stage \in Stages : [job[j] EXCEPT !.stage = stage, !.signalled = TRUE] \in JobRecords
  BY <1>r, FieldTypes
<1>2. [job[j] EXCEPT !.pending = {}, !.signalled = TRUE] \in JobRecords
  BY <1>r, FieldTypes
<1>3. job' \in [Jobs -> JobRecords]
  BY <1>1, <1>2, BecomesType DEF Signal, Stages
<1>4. signals' \in 0..MaxSignals
  BY MaxSignalsIsNat DEF Signal, TypeOK
<1> QED
  BY <1>3, <1>4 DEF Signal, TypeOK

\* Among reports there is one with the least id.
LEMMA OldestExists ==
    ASSUME NEW sample \in SUBSET ReportRecords, sample # {}
    PROVE  (CHOOSE r \in sample : \A q \in sample : r.id <= q.id) \in sample
<1> DEFINE ids == {r.id : r \in sample}
           less == OpToRel(<, Nat)
<1>1. ids \subseteq Nat /\ ids # {}
  BY DEF ReportRecords
<1>2. IsWellFoundedOn(less, Nat)
  BY NatLessThanWellFounded, Zenon
<1>3. \A x, y \in Nat : x < y => <<x, y>> \in less
  BY DEF OpToRel
<1>4. PICK n \in ids : \A i \in ids : ~(<<i, n>> \in less)
  <2> HIDE DEF ids, less
  <2>1. \A R, S, T : IsWellFoundedOn(R, S) /\ T \subseteq S /\ T # {} =>
                    \E x \in T : \A y \in T : ~(<<y, x>> \in R)
    BY WFMin, Zenon
  <2> QED
    BY <1>1, <1>2, <2>1, Zenon
<1>5. \A i \in ids : n <= i
  <2> TAKE i \in ids
  <2> HIDE DEF ids, less
  <2>1. i \in Nat /\ n \in Nat
    BY <1>1
  <2>2. ~(<<i, n>> \in less)
    BY <1>4
  <2>3. ~(i < n)
    BY <1>3, <2>1, <2>2, Zenon
  <2> QED
    BY <2>1, <2>3
<1>6. PICK r \in sample : r.id = n
  OBVIOUS
<1>7. \A q \in sample : r.id <= q.id
  BY <1>5, <1>6
<1> QED
  BY <1>7

LEMMA CompareType ==
    ASSUME TypeOK, NEW j \in Jobs, CompareReports(j)
    PROVE  TypeOK'
<1>r. /\ reports \subseteq ReportRecords
      /\ job[j] \in JobRecords
      /\ LastRows(j) \subseteq Rows
  BY DEF TypeOK, LastRows
<1>1. SUFFICES job' \in [Jobs -> JobRecords]
  BY DEF CompareReports, Compare, QueryPrevious, QueryLast, QueryDapps, QueryActions,
         QueryData, TypeOK
<1>2. CASE Compare(j)
  <2> DEFINE tags == IF OwnTag(run[j]) \in GithubTags
                     THEN get_previous_tags(run[j].repo, OwnTag(run[j]), Depth)
                     ELSE {IF run[j].branch # None THEN run[j].branch ELSE Latest}
  <2>1. tags \in SUBSET Tags
    BY PreviousTagsType, RunType
  <2>2. Becomes(j, [job[j] EXCEPT !.stage = "previous", !.tags = tags])
    BY <1>2 DEF Compare
  <2> HIDE DEF tags
  <2>3. [job[j] EXCEPT !.stage = "previous", !.tags = tags] \in JobRecords
    BY <1>r, <2>1, FieldTypes DEF Stages
  <2> QED
    BY <2>2, <2>3, BecomesType
<1>3. CASE QueryPrevious(j)
  <2> DEFINE offset   == IF OwnTag(run[j]) \in job[j].tags THEN 1 ELSE 0
             previous == Newest(ReportsOf(run[j].repo, job[j].tags), offset, Depth - 1)
  <2>1. previous \in SUBSET ReportRecords
    BY <1>r, NewestIsSubset, ReportsOfIsSubset
  <2>2. Becomes(j, [job[j] EXCEPT !.stage = "last", !.previous = previous])
    BY <1>3 DEF QueryPrevious
  <2> HIDE DEF previous
  <2>3. [job[j] EXCEPT !.stage = "last", !.previous = previous] \in JobRecords
    BY <1>r, <2>1, FieldTypes DEF Stages
  <2> QED
    BY <2>2, <2>3, BecomesType
<1>4. CASE QueryLast(j)
  <2> DEFINE last == Newest(ReportsOf(run[j].repo, {OwnTag(run[j])}), 0, 1)
  <2>1. last \in SUBSET ReportRecords
    BY <1>r, NewestIsSubset, ReportsOfIsSubset
  <2>2. \/ Go(j, "failed")
        \/ Becomes(j, [job[j] EXCEPT !.stage = "dapps", !.last = last])
    BY <1>4 DEF QueryLast, Fail
  <2> HIDE DEF last
  <2>3. [job[j] EXCEPT !.stage = "dapps", !.last = last] \in JobRecords
    BY <1>r, <2>1, FieldTypes DEF Stages
  <2> QED
    BY <2>2, <2>3, BecomesType, GoType DEF Stages
<1>5. CASE QueryDapps(j)
  <2>1. {row[1] : row \in LastRows(j)} \in SUBSET {row[1] : row \in Rows}
    BY <1>r
  <2>2. [job[j] EXCEPT !.stage = "actions", !.dapps = {row[1] : row \in LastRows(j)}]
          \in JobRecords
    BY <1>r, <2>1, FieldTypes DEF Stages
  <2> QED
    BY <1>5, <2>2, BecomesType DEF QueryDapps
<1>6. CASE QueryActions(j)
  <2> DEFINE names == job[j].dapps \X {row[2] : row \in LastRows(j)}
  <2>1. names \in SUBSET ({row[1] : row \in Rows} \X {row[2] : row \in Rows})
    <3>1. job[j].dapps \subseteq {row[1] : row \in Rows}
      BY <1>r DEF JobRecords
    <3> QED
      BY <1>r, <3>1
  <2>2. Becomes(j, [job[j] EXCEPT !.stage = "data", !.names = names])
    BY <1>6 DEF QueryActions
  <2> HIDE DEF names
  <2>3. [job[j] EXCEPT !.stage = "data", !.names = names] \in JobRecords
    BY <1>r, <2>1, FieldTypes DEF Stages
  <2> QED
    BY <2>2, <2>3, BecomesType
<1>7. CASE QueryData(j)
  <2> DEFINE sample == {p[1] : p \in {q \in Selected(j) : /\ q[1].evm = run[j].evm
                                                         /\ q[1].proxy = run[j].proxy}}
             first  == CHOOSE r \in sample : \A q \in sample : r.id <= q.id
  <2>1. Selected(j) \in SUBSET (ReportRecords \X Rows)
    <3>1. job[j].previous \cup job[j].last \subseteq ReportRecords
      BY <1>r DEF JobRecords
    <3>2. \A p \in Selected(j) : p[1] \in ReportRecords /\ p[2] \in Rows /\ p = <<p[1], p[2]>>
      BY <3>1 DEF Selected, TypeOK
    <3> QED
      BY <3>2
  <2>2. sample \in SUBSET ReportRecords
    BY <2>1
  <2>3. \/ Go(j, "failed")
        \/ /\ sample # {}
           /\ Becomes(j, [job[j] EXCEPT !.stage = "compared", !.plotted = Selected(j),
                                        !.sha = first.sha])
    BY <1>7 DEF QueryData, Fail
  <2> HIDE DEF sample
  <2>4. sample # {} => first.sha \in Jobs
    BY <2>2, OldestExists DEF ReportRecords
  <2> HIDE DEF first
  <2>5. [job[j] EXCEPT !.stage = "compared", !.plotted = Selected(j)] \in JobRecords
    BY <1>r, <2>1, FieldTypes DEF Stages
  <2>6. sample # {} => [job[j] EXCEPT !.stage = "compared", !.plotted = Selected(j),
                                      !.sha = first.sha] \in JobRecords
    BY <2>4, <2>5, FieldTypes
  <2> QED
    BY <2>3, <2>6, BecomesType, GoType DEF Stages
<1> QED
  BY <1>2, <1>3, <1>4, <1>5, <1>6, <1>7 DEF CompareReports

LEMMA InitType == Init => TypeOK
<1> SUFFICES ASSUME Init PROVE TypeOK
  OBVIOUS
<1>1. NewJob \in JobRecords
  BY DEF NewJob, JobRecords, Stages
<1> QED
  BY <1>1, MaxSignalsIsNat DEF Init, TypeOK

LEMMA NextType == TypeOK /\ [Next]_vars => TypeOK'
<1>1. ASSUME TypeOK, UNCHANGED vars PROVE TypeOK'
  BY <1>1 DEF TypeOK, vars
<1> QED
  BY <1>1, SaveType, SignalType, CompareType DEF Next

(***************************************************************************)
(* Tables and local variables have their types, whatever the jobs run for. *)
(***************************************************************************)
THEOREM TypeCorrect == Spec => []TypeOK
BY InitType, NextType, PTL DEF Spec

-----------------------------------------------------------------------------
(***************************************************************************)
(* Reports go with a reason, and nobody reads half a report.  A job that   *)
(* looks for reports to replace finds those of its own, the ids it found   *)
(* are given out already and not again, its own id is its own, and what it *)
(* has measured is what it still has to add and what it has added.         *)
(***************************************************************************)
Early == {"start", "deleteData", "deleteReports", "insert"}
Saving == {"refresh", "rows"}

KnownIds ==
    /\ \A r \in reports : r.id < nextId
    /\ \A d \in data : d[1] < nextId
    /\ \A j \in Jobs : \A i \in job[j].found : i < nextId

UniqueIds == \A r, q \in reports : r.id = q.id => r = q

FoundIsOwn ==
    \A j \in Jobs, r \in reports : r.id \in job[j].found =>
        ~IsMerge(run[j]) /\ r.repo = run[j].repo /\ OwnTag(r) = OwnTag(run[j])

OwnIds ==
    /\ \A j \in Jobs : job[j].id \in Nat => job[j].id < nextId /\ job[j].stage \notin Early
    /\ \A j \in Jobs : job[j].stage \in Saving => job[j].id \in Nat
    /\ \A j, k \in Jobs : job[j].id \in Nat /\ job[j].id = job[k].id => j = k
    /\ \A r \in reports : job[r.sha].id = r.id

NothingSavedYet ==
    \A j \in Jobs : job[j].stage \in Saving => \A d \in data : d[1] # job[j].id

Measured ==
    \A j \in Jobs :
      /\ job[j].stage = "start" => job[j].pending = {}
      /\ ~job[j].signalled /\ job[j].stage \in (Early \ {"start"}) \cup Saving =>
           job[j].todo \cup job[j].pending = job[j].report

IInv == /\ TypeOK /\ KnownIds /\ UniqueIds /\ FoundIsOwn
        /\ OwnIds /\ NothingSavedYet /\ Measured /\ WholeReports

(***************************************************************************)
(* Most steps are of this kind: rows are deleted at most, all those of a   *)
(* report or none, and the job keeps what it has found and measured.       *)
(***************************************************************************)
Harmless(j) ==
    /\ reports' \subseteq reports
    /\ data' \subseteq data
    /\ UNCHANGED <<nextId, run>>
    /\ \A r \in reports' : DataOf(r)' \in {{}, DataOf(r)}
    /\ \A k \in Jobs \ {j} : job'[k] = job[k]
    /\ job'[j].id = job[j].id
    /\ job'[j].found = job[j].found
    /\ job'[j].report = job[j].report
    /\ job'[j].stage # "start"
    /\ job'[j].stage \in Early => job[j].stage \in Early \ {"start"}
    /\ job'[j].stage \in Saving => job[j].stage \in Saving
    /\ job[j].signalled => job'[j].signalled
    /\ ~job'[j].signalled =>
         job'[j].todo \cup job'[j].pending = job[j].todo \cup job[j].pending

LEMMA HarmlessKeepsIInv ==
    ASSUME IInv, TypeOK', NEW j \in Jobs, Harmless(j)
    PROVE  IInv'
<1>1. KnownIds'
  <2>1. \A k \in Jobs : job'[k].found = job[k].found
    BY DEF Harmless
  <2> QED
    BY <2>1 DEF Harmless, IInv, KnownIds
<1>2. UniqueIds'
  BY DEF Harmless, IInv, UniqueIds
<1>3. FoundIsOwn'
  <2>1. \A k \in Jobs : job'[k].found = job[k].found
    BY DEF Harmless
  <2> QED
    BY <2>1 DEF Harmless, IInv, FoundIsOwn
<1>4. OwnIds'
  <2>1. \A k \in Jobs : /\ job'[k].id = job[k].id
                        /\ job'[k].stage \in Early => job[k].stage \in Early
                        /\ job'[k].stage \in Saving => job[k].stage \in Saving
    BY DEF Harmless
  <2>2. \A r \in reports : r.sha \in Jobs
    BY DEF IInv, TypeOK, ReportRecords
  <2> QED
    BY <2>1, <2>2 DEF Harmless, IInv, OwnIds
<1>5. NothingSavedYet'
  <2>1. \A k \in Jobs : /\ job'[k].id = job[k].id
                        /\ job'[k].stage \in Saving => job[k].stage \in Saving
    BY DEF Harmless
  <2> QED
    BY <2>1 DEF Harmless, IInv, NothingSavedYet
<1>6. Measured'
  <2> SUFFICES ASSUME NEW k \in Jobs
               PROVE  /\ job'[k].stage = "start" => job'[k].pending = {}
                      /\ ~job'[k].signalled /\ job'[k].stage \in (Early \ {"start"}) \cup Saving
                           => job'[k].todo \cup job'[k].pending = job'[k].report
    BY DEF Measured
  <2>1. CASE k # j
    BY <2>1 DEF Harmless, IInv, Measured
  <2>2. CASE k = j
    BY <2>2 DEF Harmless, IInv, Measured
  <2> QED
    BY <2>1, <2>2
<1>7. WholeReports'
  <2> SUFFICES ASSUME NEW r \in reports', ~job'[r.sha].signalled
               PROVE  DataOf(r)' \in {{}, job'[r.sha].report}
    BY DEF WholeReports
  <2>1. r \in reports /\ r.sha \in Jobs
    BY DEF Harmless, IInv, TypeOK, ReportRecords
  <2>2. job'[r.sha].report = job[r.sha].report /\ ~job[r.sha].signalled
    BY <2>1 DEF Harmless
  <2>3. DataOf(r) \in {{}, job[r.sha].report}
    BY <2>1, <2>2 DEF IInv, WholeReports
  <2> QED
    BY <2>2, <2>3 DEF Harmless
<1> QED
  BY <1>1, <1>2, <1>3, <1>4, <1>5, <1>6, <1>7 DEF IInv

\* What a new record of a job says of the jobs.
LEMMA BecomesFields ==
    ASSUME TypeOK, NEW j \in Jobs, NEW r, Becomes(j, r)
    PROVE  job'[j] = r /\ \A k \in Jobs \ {j} : job'[k] = job[k]
BY DEF Becomes, TypeOK

\* The tables stay, and so does the data of each report.
LEMMA SameData ==
    ASSUME UNCHANGED data, NEW r
    PROVE  DataOf(r)' \in {{}, DataOf(r)}
BY DEF DataOf

\* What the comparison leaves to a job of the saving.
Later == {"previous", "last", "dapps", "actions", "data", "compared", "failed"}

KeepsSaved(j, r) ==
    /\ r.id = job[j].id /\ r.found = job[j].found /\ r.report = job[j].report
    /\ r.todo = job[j].todo /\ r.pending = job[j].pending
    /\ r.signalled = job[j].signalled
    /\ r.stage \in Later

LEMMA KeepsSavedWith ==
    ASSUME TypeOK, NEW j \in Jobs, NEW stage \in Later
    PROVE  /\ KeepsSaved(j, [job[j] EXCEPT !.stage = stage])
           /\ \A v : KeepsSaved(j, [job[j] EXCEPT !.stage = stage, !.tags = v])
           /\ \A v : KeepsSaved(j, [job[j] EXCEPT !.stage = stage, !.previous = v])
           /\ \A v : KeepsSaved(j, [job[j] EXCEPT !.stage = stage, !.last = v])
           /\ \A v : KeepsSaved(j, [job[j] EXCEPT !.stage = stage, !.dapps = v])
           /\ \A v : KeepsSaved(j, [job[j] EXCEPT !.stage = stage, !.names = v])
           /\ \A v, w : KeepsSaved(j, [job[j] EXCEPT !.stage = stage, !.plotted = v, !.sha = w])
<1> job[j] \in JobRecords
  BY DEF TypeOK
<1>1. KeepsSaved(j, [job[j] EXCEPT !.stage = stage])
  BY DEF KeepsSaved, JobRecords
<1>2. \A v : KeepsSaved(j, [job[j] EXCEPT !.stage = stage, !.tags = v])
  BY DEF KeepsSaved, JobRecords
<1>3. \A v : KeepsSaved(j, [job[j] EXCEPT !.stage = stage, !.previous = v])
  BY DEF KeepsSaved, JobRecords
<1>4. \A v : KeepsSaved(j, [job[j] EXCEPT !.stage = stage, !.last = v])
  BY DEF KeepsSaved, JobRecords
<1>5. \A v : KeepsSaved(j, [job[j] EXCEPT !.stage = stage, !.dapps = v])
  BY DEF KeepsSaved, JobRecords
<1>6. \A v : KeepsSaved(j, [job[j] EXCEPT !.stage = stage, !.names = v])
  BY DEF KeepsSaved, JobRecords
<1>7. \A v, w : KeepsSaved(j, [job[j] EXCEPT !.stage = stage, !.plotted = v, !.sha = w])
  BY DEF KeepsSaved, JobRecords
<1> QED
  BY <1>1, <1>2, <1>3, <1>4, <1>5, <1>6, <1>7

LEMMA CompareIsHarmless ==
    ASSUME TypeOK, NEW j \in Jobs, CompareReports(j)
    PROVE  Harmless(j)
<1>1. /\ UNCHANGED <<reports, data, nextId, run>>
      /\ \A r \in reports' : DataOf(r)' \in {{}, DataOf(r)}
  BY SameData DEF CompareReports, Compare, QueryPrevious, QueryLast, QueryDapps, QueryActions,
                  QueryData
<1>2. job[j].stage \in {"saved", "previous", "last", "dapps", "actions", "data"}
  BY DEF CompareReports, Compare, QueryPrevious, QueryLast, QueryDapps, QueryActions, QueryData, At
<1>stages. /\ "previous" \in Later /\ "last" \in Later /\ "dapps" \in Later
           /\ "actions" \in Later /\ "data" \in Later /\ "compared" \in Later
           /\ "failed" \in Later
  BY DEF Later
<1>3. \E r : Becomes(j, r) /\ KeepsSaved(j, r)
  <2>1. CASE Compare(j)
    <3>1. \E v : Becomes(j, [job[j] EXCEPT !.stage = "previous", !.tags = v])
      BY <2>1, Zenon DEF Compare
    <3> QED
      BY <3>1, <1>stages, KeepsSavedWith, Zenon
  <2>2. CASE QueryPrevious(j)
    <3>1. \E v : Becomes(j, [job[j] EXCEPT !.stage = "last", !.previous = v])
      BY <2>2, Zenon DEF QueryPrevious
    <3> QED
      BY <3>1, <1>stages, KeepsSavedWith, Zenon
  <2>3. CASE QueryLast(j)
    <3>1. \/ Becomes(j, [job[j] EXCEPT !.stage = "failed"])
          \/ \E v : Becomes(j, [job[j] EXCEPT !.stage = "dapps", !.last = v])
      BY <2>3, Zenon DEF QueryLast, Fail, Go
    <3> QED
      BY <3>1, <1>stages, KeepsSavedWith, Zenon
  <2>4. CASE QueryDapps(j)
    <3>1. \E v : Becomes(j, [job[j] EXCEPT !.stage = "actions", !.dapps = v])
      BY <2>4, Zenon DEF QueryDapps
    <3> QED
      BY <3>1, <1>stages, KeepsSavedWith, Zenon
  <2>5. CASE QueryActions(j)
    <3>1. \E v : Becomes(j, [job[j] EXCEPT !.stage = "data", !.names = v])
      BY <2>5, Zenon DEF QueryActions
    <3> QED
      BY <3>1, <1>stages, KeepsSavedWith, Zenon
  <2>6. CASE QueryData(j)
    <3>1. \/ Becomes(j, [job[j] EXCEPT !.stage = "failed"])
          \/ \E v, w : Becomes(j, [job[j] EXCEPT !.stage = "compared", !.plotted = v, !.sha = w])
      BY <2>6, Zenon DEF QueryData, Fail, Go
    <3> QED
      BY <3>1, <1>stages, KeepsSavedWith, Zenon
  <2> QED
    BY <2>1, <2>2, <2>3, <2>4, <2>5, <2>6 DEF CompareReports
<1>4. PICK r : Becomes(j, r) /\ KeepsSaved(j, r)
  BY <1>3
<1>5. job'[j] = r /\ \A k \in Jobs \ {j} : job'[k] = job[k]
  BY <1>4, BecomesFields
<1> QED
  BY <1>1, <1>2, <1>4, <1>5 DEF Harmless, Early, Saving, KeepsSaved, Later

LEMMA SignalIsHarmless ==
    ASSUME TypeOK, NEW j \in Jobs, Signal(j)
    PROVE  Harmless(j)
<1>1. /\ UNCHANGED <<reports, data, nextId, run>>
      /\ \A r \in reports' : DataOf(r)' \in {{}, DataOf(r)}
  BY SameData DEF Signal
<1>2. job[j] \in JobRecords
  BY DEF TypeOK
<1> DEFINE Kept == /\ \A k \in Jobs \ {j} : job'[k] = job[k]
                   /\ job'[j].id = job[j].id /\ job'[j].found = job[j].found
                   /\ job'[j].report = job[j].report /\ job'[j].signalled = TRUE
<1>3. CASE At(j, "deleteData") /\ Becomes(j, [job[j] EXCEPT !.stage = "deleteReports",
                                                          !.signalled = TRUE])
  <2>1. job'[j] = [job[j] EXCEPT !.stage = "deleteReports", !.signalled = TRUE]
    BY <1>3, BecomesFields
  <2>2. Kept /\ job'[j].stage = "deleteReports"
    BY <1>2, <1>3, <2>1, BecomesFields DEF JobRecords
  <2> QED
    BY <1>1, <1>3, <2>2 DEF Harmless, Early, Saving, At
<1>4. CASE At(j, "deleteReports") /\ Becomes(j, [job[j] EXCEPT !.stage = "insert",
                                                             !.signalled = TRUE])
  <2>1. job'[j] = [job[j] EXCEPT !.stage = "insert", !.signalled = TRUE]
    BY <1>4, BecomesFields
  <2>2. Kept /\ job'[j].stage = "insert"
    BY <1>2, <1>4, <2>1, BecomesFields DEF JobRecords
  <2> QED
    BY <1>1, <1>4, <2>2 DEF Harmless, Early, Saving, At
<1>5. CASE Becomes(j, [job[j] EXCEPT !.stage = "failed", !.signalled = TRUE])
  <2>1. job'[j] = [job[j] EXCEPT !.stage = "failed", !.signalled = TRUE]
    BY <1>5, BecomesFields
  <2>2. Kept /\ job'[j].stage = "failed"
    BY <1>2, <1>5, <2>1, BecomesFields DEF JobRecords
  <2> QED
    BY <1>1, <2>2 DEF Harmless, Early, Saving
<1>6. CASE At(j, "rows") /\ Becomes(j, [job[j] EXCEPT !.pending = {}, !.signalled = TRUE])
  <2>1. job'[j] = [job[j] EXCEPT !.pending = {}, !.signalled = TRUE]
    BY <1>6, BecomesFields
  <2>2. Kept /\ job'[j].stage = "rows"
    BY <1>2, <1>6, <2>1, BecomesFields DEF JobRecords, At
  <2> QED
    BY <1>1, <1>6, <2>2 DEF Harmless, Early, Saving, At
<1> QED
  BY <1>3, <1>4, <1>5, <1>6 DEF Signal

LEMMA DeleteIsHarmless ==
    ASSUME TypeOK, NEW j \in Jobs, DeleteData(j) \/ DeleteReports(j)
    PROVE  Harmless(j)
<1>1. reports' \subseteq reports /\ data' \subseteq data /\ UNCHANGED <<nextId, run>>
  BY DEF DeleteData, DeleteReports
<1>2. \A r : DataOf(r)' \in {{}, DataOf(r)}
  <2> TAKE r
  <2>1. CASE DeleteData(j) /\ r.id \in job[j].found
    <3>1. \A d \in data' : d[1] # r.id
      BY <2>1 DEF DeleteData
    <3> QED
      BY <3>1 DEF DataOf
  <2>2. CASE DeleteData(j) /\ r.id \notin job[j].found
    <3>1. {d \in data' : d[1] = r.id} = {d \in data : d[1] = r.id}
      BY <2>2 DEF DeleteData
    <3> QED
      BY <3>1 DEF DataOf
  <2>3. CASE DeleteReports(j)
    BY <2>3, SameData DEF DeleteReports
  <2> QED
    BY <2>1, <2>2, <2>3
<1>3. job[j] \in JobRecords
  BY DEF TypeOK
<1>4. \E stage \in {"deleteReports", "insert", "failed"} :
        Becomes(j, [job[j] EXCEPT !.stage = stage])
  BY DEF DeleteData, DeleteReports, Go, Fail
<1>5. job[j].stage \in {"deleteData", "deleteReports"}
  BY DEF DeleteData, DeleteReports, At
<1>6. PICK stage \in {"deleteReports", "insert", "failed"} :
        Becomes(j, [job[j] EXCEPT !.stage = stage])
  BY <1>4
<1>7. job'[j] = [job[j] EXCEPT !.stage = stage] /\ \A k \in Jobs \ {j} : job'[k] = job[k]
  BY <1>6, BecomesFields
<1>8. /\ job'[j].id = job[j].id /\ job'[j].found = job[j].found
      /\ job'[j].report = job[j].report /\ job'[j].todo = job[j].todo
      /\ job'[j].pending = job[j].pending /\ job'[j].signalled = job[j].signalled
      /\ job'[j].stage = stage
  BY <1>3, <1>7 DEF JobRecords
<1> QED
  BY <1>1, <1>2, <1>5, <1>7, <1>8 DEF Harmless, Early, Saving

\* Refresh, AddRow and a CommitRows that the foreign key stops.
LEMMA AddIsHarmless ==
    ASSUME TypeOK, NEW j \in Jobs,
           Refresh(j) \/ AddRow(j) \/ (CommitRows(j) /\ UNCHANGED data)
    PROVE  Harmless(j)
<1>1. /\ UNCHANGED <<reports, data, nextId, run>>
      /\ \A r \in reports' : DataOf(r)' \in {{}, DataOf(r)}
  BY SameData DEF Refresh, AddRow, CommitRows
<1>2. job[j] \in JobRecords
  BY DEF TypeOK
<1>3. job[j].stage \in Saving
  BY DEF Refresh, AddRow, CommitRows, At, Saving
<1>4. \E r : /\ Becomes(j, r)
             /\ r.id = job[j].id /\ r.found = job[j].found
             /\ r.report = job[j].report /\ r.signalled = job[j].signalled
             /\ r.todo \cup r.pending = job[j].todo \cup job[j].pending
             /\ r.stage \in {"rows", "failed", "saved"}
  <2>1. CASE Refresh(j) \/ CommitRows(j)
    BY <2>1, <1>2 DEF Refresh, CommitRows, Go, Fail, JobRecords
  <2>2. CASE AddRow(j)
    <3>1. PICK row \in job[j].todo :
            Becomes(j, [job[j] EXCEPT !.todo = @ \ {row}, !.pending = @ \cup {row}])
      BY <2>2 DEF AddRow
    <3>2. job[j].stage = "rows"
      BY <2>2 DEF AddRow, At
    <3> DEFINE r == [job[j] EXCEPT !.todo = @ \ {row}, !.pending = @ \cup {row}]
    <3>3. /\ r.id = job[j].id /\ r.found = job[j].found
          /\ r.report = job[j].report /\ r.signalled = job[j].signalled
          /\ r.todo = job[j].todo \ {row} /\ r.pending = job[j].pending \cup {row}
          /\ r.stage = "rows"
      BY <1>2, <3>2 DEF JobRecords
    <3>4. r.todo \cup r.pending = job[j].todo \cup job[j].pending
      BY <3>3
    <3> HIDE DEF r
    <3> QED
      BY <3>1, <3>3, <3>4 DEF r
  <2> QED
    BY <2>1, <2>2
<1> QED
  BY <1>1, <1>3, <1>4, BecomesFields DEF Harmless, Early, Saving

LEMMA StartKeepsIInv ==
    ASSUME IInv, TypeOK', NEW j \in Jobs, Start(j)
    PROVE  IInv'
<1>1. PICK report \in Reports :
        Becomes(j, [job[j] EXCEPT
                      !.stage = IF Superseded(j) = {} THEN "insert" ELSE "deleteData",
                      !.found = Superseded(j),
                      !.report = report,
                      !.todo = report])
  BY DEF Start
<1> DEFINE next == IF Superseded(j) = {} THEN "insert" ELSE "deleteData"
           found == Superseded(j)
<1>2. TypeOK /\ job[j] \in JobRecords /\ job[j].stage = "start"
  BY DEF IInv, TypeOK, Start, At
<1>3. /\ job'[j] = [job[j] EXCEPT !.stage = next, !.found = found,
                                 !.report = report, !.todo = report]
      /\ \A k \in Jobs \ {j} : job'[k] = job[k]
  BY <1>1, <1>2, BecomesFields
<1>4. next \in Early \ {"start"}
  BY DEF Early
<1> HIDE DEF next, found
<1>5. /\ job'[j].stage = next /\ job'[j].found = found
      /\ job'[j].report = report /\ job'[j].todo = report
      /\ job'[j].pending = job[j].pending /\ job'[j].id = job[j].id
      /\ job'[j].signalled = job[j].signalled
  BY <1>2, <1>3 DEF JobRecords
<1>6. UNCHANGED <<reports, data, nextId, run>>
  BY DEF Start
<1>7. \A i \in found : \E r \in ReportsOf(run[j].repo, {OwnTag(run[j])}) :
        i = r.id /\ ~IsMerge(run[j])
  BY DEF found, Superseded
<1>8. KnownIds'
  <2>1. \A i \in found : i < nextId
    BY <1>7 DEF ReportsOf, IInv, KnownIds
  <2> QED
    BY <1>3, <1>5, <1>6, <2>1 DEF IInv, KnownIds
<1>9. UniqueIds'
  BY <1>6 DEF IInv, UniqueIds
<1>10. FoundIsOwn'
  <2>1. ASSUME NEW r \in reports, r.id \in found
        PROVE  ~IsMerge(run[j]) /\ r.repo = run[j].repo /\ OwnTag(r) = OwnTag(run[j])
    <3>1. PICK q \in ReportsOf(run[j].repo, {OwnTag(run[j])}) : r.id = q.id /\ ~IsMerge(run[j])
      BY <1>7, <2>1
    <3>2. q \in reports /\ OwnTag(q) = OwnTag(run[j]) /\ q.repo = run[j].repo
      BY <3>1 DEF ReportsOf
    <3>3. r = q
      BY <3>1, <3>2 DEF IInv, UniqueIds
    <3> QED
      BY <3>1, <3>2, <3>3
  <2> QED
    BY <1>3, <1>5, <1>6, <2>1 DEF IInv, FoundIsOwn
<1>11. OwnIds'
  <2>1. job[j].id \notin Nat
    BY <1>2 DEF IInv, OwnIds, Early
  <2>2. \A k \in Jobs : job'[k].id = job[k].id
    BY <1>3, <1>5
  <2>3. job'[j].stage \notin Saving
    BY <1>4, <1>5 DEF Early, Saving
  <2>4. \A r \in reports : r.sha \in Jobs
    BY <1>2 DEF TypeOK, ReportRecords
  <2>5. \A k \in Jobs \ {j} : /\ job'[k].id \in Nat => job'[k].id < nextId
                              /\ job'[k].id \in Nat => job'[k].stage \notin Early
                              /\ job'[k].stage \in Saving => job'[k].id \in Nat
    BY <1>3 DEF IInv, OwnIds
  <2>6. \A k, l \in Jobs : job'[k].id \in Nat /\ job'[k].id = job'[l].id => k = l
    BY <2>2 DEF IInv, OwnIds
  <2>7. \A r \in reports : job'[r.sha].id = r.id
    BY <2>2, <2>4 DEF IInv, OwnIds
  <2> QED
    BY <1>6, <2>1, <2>2, <2>3, <2>5, <2>6, <2>7 DEF OwnIds
<1>12. NothingSavedYet'
  <2>1. job'[j].stage \notin Saving
    BY <1>4, <1>5 DEF Early, Saving
  <2> QED
    BY <1>3, <1>6, <2>1 DEF IInv, NothingSavedYet
<1>13. Measured'
  <2>1. job[j].pending = {}
    BY <1>2 DEF IInv, Measured
  <2>2. job'[j].todo \cup job'[j].pending = job'[j].report /\ job'[j].stage # "start"
    BY <1>4, <1>5, <2>1
  <2>3. ASSUME NEW k \in Jobs \ {j}
        PROVE  /\ job'[k].stage = "start" => job'[k].pending = {}
               /\ ~job'[k].signalled /\ job'[k].stage \in (Early \ {"start"}) \cup Saving
                    => job'[k].todo \cup job'[k].pending = job'[k].report
    BY <1>3 DEF IInv, Measured
  <2> QED
    BY <2>2, <2>3 DEF Measured
<1>14. WholeReports'
  <2>1. \A r \in reports : r.sha \in Jobs \ {j} /\ r.id \in Nat
    BY <1>2 DEF IInv, OwnIds, TypeOK, ReportRecords, Early
  <2>2. \A r \in reports : DataOf(r)' = DataOf(r)
    BY <1>6 DEF DataOf
  <2> QED
    BY <1>3, <1>6, <2>1, <2>2 DEF IInv, WholeReports
<1> QED
  BY <1>8, <1>9, <1>10, <1>11, <1>12, <1>13, <1>14 DEF IInv

LEMMA InsertReportKeepsIInv ==
    ASSUME IInv, TypeOK', NEW j \in Jobs, InsertReport(j)
    PROVE  IInv'
<1> DEFINE new == [id |-> nextId, repo |-> run[j].repo, evm |-> run[j].evm,
                   proxy |-> run[j].proxy, sha |-> j]
<1>1. TypeOK /\ job[j] \in JobRecords /\ job[j].stage = "insert" /\ nextId \in Nat
  BY DEF IInv, TypeOK, InsertReport, At
<1>2. job'[j] = [job[j] EXCEPT !.stage = "refresh", !.id = nextId]
      /\ \A k \in Jobs \ {j} : job'[k] = job[k]
  BY <1>1, BecomesFields DEF InsertReport
<1>3. /\ job'[j].stage = "refresh" /\ job'[j].id = nextId
      /\ job'[j].found = job[j].found /\ job'[j].report = job[j].report
      /\ job'[j].todo = job[j].todo /\ job'[j].pending = job[j].pending
      /\ job'[j].signalled = job[j].signalled
  BY <1>1, <1>2 DEF JobRecords
<1>4. /\ reports' = reports \cup {new} /\ nextId' = nextId + 1
      /\ data' = data /\ run' = run
  BY DEF InsertReport
<1>5. new.id = nextId /\ new.sha = j
  OBVIOUS
<1> HIDE DEF new
<1>6. /\ \A r \in reports : r.id \in Nat /\ r.id < nextId /\ r.sha \in Jobs /\ r.sha # j
      /\ \A d \in data : d[1] \in Nat /\ d[1] < nextId
      /\ \A k \in Jobs : \A i \in job[k].found : i \in Nat /\ i < nextId
      /\ \A k \in Jobs : job[k].id \in Nat => job[k].id < nextId
  <2>1. \A k \in Jobs : job[k].found \subseteq Nat
    BY <1>1 DEF TypeOK, JobRecords
  <2>2. \A r \in reports : r.id \in Nat /\ r.sha \in Jobs
    BY <1>1 DEF TypeOK, ReportRecords
  <2>3. job[j].id \notin Nat
    BY <1>1 DEF IInv, OwnIds, Early
  <2>4. \A d \in data : d[1] \in Nat
    BY <1>1 DEF TypeOK
  <2> QED
    BY <2>1, <2>2, <2>3, <2>4 DEF IInv, KnownIds, OwnIds
<1>7. \A k \in Jobs : job'[k].found = job[k].found
  BY <1>2, <1>3
<1>8. KnownIds'
  BY <1>1, <1>4, <1>5, <1>6, <1>7 DEF KnownIds
<1>9. UniqueIds'
  BY <1>1, <1>4, <1>5, <1>6 DEF IInv, UniqueIds
<1>10. FoundIsOwn'
  <2>1. \A k \in Jobs : nextId \notin job[k].found
    BY <1>1, <1>6
  <2> QED
    BY <1>4, <1>5, <1>7, <2>1 DEF IInv, FoundIsOwn
<1>11. OwnIds'
  <2>1. \A k \in Jobs : job'[k].id \in Nat => job'[k].id < nextId + 1 /\ job'[k].stage \notin Early
    <3> TAKE k \in Jobs
    <3>1. CASE k = j
      BY <1>1, <1>3, <3>1 DEF Early
    <3>2. CASE k # j
      <4>1. job'[k] = job[k]
        BY <1>2, <3>2
      <4>2. job[k].id \in Nat => job[k].id < nextId /\ job[k].stage \notin Early
        BY DEF IInv, OwnIds
      <4> QED
        BY <1>1, <4>1, <4>2
    <3> QED
      BY <3>1, <3>2
  <2>2. \A k \in Jobs : job'[k].stage \in Saving => job'[k].id \in Nat
    BY <1>1, <1>2, <1>3 DEF IInv, OwnIds
  <2>3. \A k, l \in Jobs : job'[k].id \in Nat /\ job'[k].id = job'[l].id => k = l
    <3>1. \A k \in Jobs \ {j} : job'[k].id = job[k].id /\ job[k].id # nextId
      BY <1>1, <1>2, <1>6
    <3>2. \A k, l \in Jobs : job[k].id \in Nat /\ job[k].id = job[l].id => k = l
      BY DEF IInv, OwnIds
    <3> QED
      BY <1>1, <1>3, <3>1, <3>2
  <2>4. \A r \in reports' : job'[r.sha].id = r.id
    BY <1>2, <1>3, <1>4, <1>5, <1>6 DEF IInv, OwnIds
  <2> QED
    BY <1>4, <2>1, <2>2, <2>3, <2>4 DEF OwnIds
<1>12. NothingSavedYet'
  <2>1. \A d \in data : d[1] # nextId
    BY <1>1, <1>6
  <2>2. \A k \in Jobs \ {j} : job'[k].stage \in Saving => \A d \in data : d[1] # job'[k].id
    BY <1>2 DEF IInv, NothingSavedYet
  <2> QED
    BY <1>3, <1>4, <2>1, <2>2 DEF NothingSavedYet
<1>13. Measured'
  <2>1. ~job[j].signalled => job[j].todo \cup job[j].pending = job[j].report
    BY <1>1 DEF IInv, Measured, Early
  <2>2. ASSUME NEW k \in Jobs \ {j}
        PROVE  /\ job'[k].stage = "start" => job'[k].pending = {}
               /\ ~job'[k].signalled /\ job'[k].stage \in (Early \ {"start"}) \cup Saving
                    => job'[k].todo \cup job'[k].pending = job'[k].report
    BY <1>2 DEF IInv, Measured
  <2> QED
    BY <1>3, <2>1, <2>2 DEF Measured
<1>14. WholeReports'
  <2>1. \A r : DataOf(r)' = DataOf(r)
    BY <1>4 DEF DataOf
  <2>2. DataOf(new) = {}
    BY <1>1, <1>5, <1>6 DEF DataOf
  <2>3. \A r \in reports : ~job'[r.sha].signalled => DataOf(r) \in {{}, job'[r.sha].report}
    BY <1>2, <1>6 DEF IInv, WholeReports
  <2> QED
    BY <1>4, <2>1, <2>2, <2>3 DEF WholeReports
<1> QED
  BY <1>8, <1>9, <1>10, <1>11, <1>12, <1>13, <1>14 DEF IInv

LEMMA CommitRowsKeepsIInv ==
    ASSUME IInv, TypeOK', NEW j \in Jobs, CommitRows(j),
           Go(j, "saved"),
           data' = data \cup {<<job[j].id, row>> : row \in job[j].pending}
    PROVE  IInv'
<1>1. TypeOK /\ job[j] \in JobRecords /\ job[j].stage = "rows" /\ job[j].id \in Nat
  <2>1. TypeOK /\ job[j] \in JobRecords /\ job[j].stage = "rows"
    BY DEF IInv, TypeOK, CommitRows, At
  <2> QED
    BY <2>1 DEF IInv, OwnIds, Saving
<1>2. job'[j] = [job[j] EXCEPT !.stage = "saved"] /\ \A k \in Jobs \ {j} : job'[k] = job[k]
  BY <1>1, BecomesFields DEF Go
<1>3. /\ job'[j].stage = "saved" /\ job'[j].id = job[j].id
      /\ job'[j].found = job[j].found /\ job'[j].report = job[j].report
      /\ job'[j].signalled = job[j].signalled
  BY <1>1, <1>2 DEF JobRecords
<1>4. \A k \in Jobs : /\ job'[k].id = job[k].id /\ job'[k].found = job[k].found
                      /\ job'[k].report = job[k].report
                      /\ job'[k].signalled = job[k].signalled
                      /\ job'[k].stage \in Saving => job[k].stage \in Saving /\ k # j
                      /\ job'[k].stage \in Early => job[k].stage \in Early /\ k # j
  BY <1>2, <1>3 DEF Early, Saving
<1>5. UNCHANGED <<reports, nextId, run>> /\ job[j].todo = {}
  BY DEF CommitRows
<1>6. \A d \in data' : d \in data \/ (d[1] = job[j].id /\ d[2] \in job[j].pending)
  OBVIOUS
<1>7. KnownIds'
  <2>1. job[j].id < nextId
    BY <1>1 DEF IInv, OwnIds
  <2> QED
    BY <1>4, <1>5, <1>6, <2>1 DEF IInv, KnownIds
<1>8. UniqueIds' /\ FoundIsOwn'
  BY <1>4, <1>5 DEF IInv, UniqueIds, FoundIsOwn
<1>9. OwnIds'
  <2>1. \A r \in reports : r.sha \in Jobs
    BY <1>1 DEF TypeOK, ReportRecords
  <2> QED
    BY <1>4, <1>5, <2>1 DEF IInv, OwnIds
<1>10. NothingSavedYet'
  <2> SUFFICES ASSUME NEW k \in Jobs, job'[k].stage \in Saving, NEW d \in data'
               PROVE  d[1] # job[k].id
    BY <1>4 DEF NothingSavedYet
  <2>1. k # j /\ job[k].stage \in Saving
    BY <1>4
  <2>2. job[j].id # job[k].id
    BY <1>1, <2>1 DEF IInv, OwnIds
  <2> QED
    BY <1>6, <2>1, <2>2 DEF IInv, NothingSavedYet
<1>11. Measured'
  <2> SUFFICES ASSUME NEW k \in Jobs
               PROVE  /\ job'[k].stage = "start" => job'[k].pending = {}
                      /\ ~job'[k].signalled /\ job'[k].stage \in (Early \ {"start"}) \cup Saving
                           => job'[k].todo \cup job'[k].pending = job'[k].report
    BY DEF Measured
  <2>1. CASE k = j
    BY <1>3, <2>1 DEF Early, Saving
  <2>2. CASE k # j
    BY <1>2, <2>2 DEF IInv, Measured
  <2> QED
    BY <2>1, <2>2
<1>12. WholeReports'
  <2> SUFFICES ASSUME NEW r \in reports, ~job[r.sha].signalled
               PROVE  DataOf(r)' \in {{}, job[r.sha].report}
    <3>1. \A r \in reports : r.sha \in Jobs
      BY <1>1 DEF TypeOK, ReportRecords
    <3> QED
      BY <1>4, <1>5, <3>1 DEF WholeReports
  <2>1. r.sha \in Jobs /\ job[r.sha].id = r.id /\ DataOf(r) \in {{}, job[r.sha].report}
    BY <1>1 DEF IInv, TypeOK, ReportRecords, OwnIds, WholeReports
  <2>2. CASE r.sha = j
    <3>1. \A d \in data : d[1] # r.id
      BY <1>1, <2>1, <2>2 DEF IInv, NothingSavedYet, Saving
    <3>2. job[j].pending = job[j].report
      BY <1>1, <1>5, <2>2 DEF IInv, Measured, Saving
    <3>3. {e \in data' : e[1] = r.id} = {<<r.id, row>> : row \in job[j].report}
      BY <2>1, <2>2, <3>1, <3>2
    <3>4. DataOf(r)' = {d[2] : d \in {<<r.id, row>> : row \in job[j].report}}
      BY <3>3 DEF DataOf
    <3> DEFINE own == {<<r.id, row>> : row \in job[j].report}
    <3>5. {d[2] : d \in own} = job[j].report
      <4>1. \A row \in job[j].report : <<r.id, row>> \in own
        OBVIOUS
      <4>2. \A d \in own : d[2] \in job[j].report
        OBVIOUS
      <4>3. \A row \in job[j].report : \E d \in own : d[2] = row
        BY <4>1
      <4> HIDE DEF own
      <4> QED
        BY <4>2, <4>3
    <3> QED
      BY <2>2, <3>4, <3>5
  <2>3. CASE r.sha # j
    <3>1. job[j].id # r.id
      BY <1>1, <2>1, <2>3 DEF IInv, OwnIds
    <3>2. {e \in data' : e[1] = r.id} = {e \in data : e[1] = r.id}
      BY <3>1
    <3> QED
      BY <2>1, <3>2 DEF DataOf
  <2> QED
    BY <2>2, <2>3
<1> QED
  BY <1>7, <1>8, <1>9, <1>10, <1>11, <1>12 DEF IInv

LEMMA InitIInv == Init => IInv
<1> SUFFICES ASSUME Init PROVE IInv
  OBVIOUS
<1>1. TypeOK
  BY InitType
<1>2. /\ reports = {} /\ data = {}
      /\ \A j \in Jobs : /\ job[j].stage = "start" /\ job[j].id = None
                         /\ job[j].found = {} /\ job[j].pending = {}
  BY DEF Init, NewJob
<1>3. KnownIds /\ UniqueIds /\ FoundIsOwn
  BY <1>2 DEF KnownIds, UniqueIds, FoundIsOwn
<1>4. OwnIds /\ NothingSavedYet /\ Measured
  BY <1>2, NoneIsNoId DEF OwnIds, NothingSavedYet, Measured, Early, Saving
<1>5. WholeReports
  BY <1>2 DEF WholeReports
<1> QED
  BY <1>1, <1>3, <1>4, <1>5 DEF IInv

LEMMA NextIInv == IInv /\ [Next]_vars => IInv'
<1> SUFFICES ASSUME IInv, [Next]_vars PROVE IInv'
  OBVIOUS
<1>1. TypeOK /\ TypeOK'
  BY NextType DEF IInv
<1>2. CASE UNCHANGED vars
  <2>1. \A r : DataOf(r)' = DataOf(r)
    BY <1>2 DEF vars, DataOf
  <2>2. WholeReports'
    BY <1>2, <2>1 DEF vars, IInv, WholeReports
  <2> QED
    BY <1>1, <1>2, <2>2 DEF vars, IInv, KnownIds, UniqueIds, FoundIsOwn, OwnIds,
                            NothingSavedYet, Measured
<1>3. ASSUME NEW j \in Jobs, Save(j) \/ Signal(j) \/ CompareReports(j) PROVE IInv'
  <2>1. CASE Start(j)
    BY <1>1, <2>1, StartKeepsIInv
  <2>2. CASE InsertReport(j)
    BY <1>1, <2>2, InsertReportKeepsIInv
  <2>3. CASE CommitRows(j)
    <3>1. CASE UNCHANGED data
      BY <1>1, <2>3, <3>1, AddIsHarmless, HarmlessKeepsIInv
    <3>2. CASE Go(j, "saved") /\ data' = data \cup {<<job[j].id, row>> : row \in job[j].pending}
      BY <1>1, <2>3, <3>2, CommitRowsKeepsIInv
    <3> QED
      BY <2>3, <3>1, <3>2 DEF CommitRows
  <2>4. CASE DeleteData(j) \/ DeleteReports(j)
    BY <1>1, <2>4, DeleteIsHarmless, HarmlessKeepsIInv
  <2>5. CASE Refresh(j) \/ AddRow(j)
    BY <1>1, <2>5, AddIsHarmless, HarmlessKeepsIInv
  <2>6. CASE Signal(j)
    BY <1>1, <2>6, SignalIsHarmless, HarmlessKeepsIInv
  <2>7. CASE CompareReports(j)
    BY <1>1, <2>7, CompareIsHarmless, HarmlessKeepsIInv
  <2> QED
    BY <1>3, <2>1, <2>2, <2>3, <2>4, <2>5, <2>6, <2>7 DEF Save
<1> QED
  BY <1>2, <1>3 DEF Next

(***************************************************************************)
(* Whatever is committed and in which order, a report has all the data     *)
(* that its job measured or none (save_cost_report_data).                  *)
(***************************************************************************)
THEOREM ReportsAreWhole == Spec => []WholeReports
<1>1. IInv => WholeReports
  BY DEF IInv
<1> QED
  BY InitIInv, NextIInv, <1>1, PTL DEF Spec

LEMMA OwnIsReplaced ==
    ASSUME IInv, [Next]_vars, NEW r \in reports, Lost(r)
    PROVE  \E j \in Jobs : /\ ~IsMerge(run[j])
                           /\ job[j].stage \in {"deleteData", "deleteReports"}
                           /\ run[j].repo = r.repo /\ OwnTag(run[j]) = OwnTag(r)
<1>1. CASE UNCHANGED vars
  BY <1>1 DEF vars, Lost
<1>2. ASSUME NEW j \in Jobs, Save(j) \/ Signal(j) \/ CompareReports(j)
      PROVE  /\ job[j].stage \in {"deleteData", "deleteReports"}
             /\ r.id \in job[j].found
  <2>1. CASE DeleteData(j)
    BY <2>1 DEF DeleteData, At, Lost
  <2>2. CASE DeleteReports(j)
    BY <2>2 DEF DeleteReports, At, Lost
  <2>3. CASE Start(j) \/ InsertReport(j) \/ Refresh(j) \/ AddRow(j) \/ CommitRows(j)
    BY <2>3 DEF Start, InsertReport, Refresh, AddRow, CommitRows, Lost
  <2>4. CASE Signal(j)
    BY <2>4 DEF Signal, Lost
  <2>5. CASE CompareReports(j)
    BY <2>5 DEF CompareReports, Compare, QueryPrevious, QueryLast, QueryDapps, QueryActions,
                QueryData, Lost
  <2> QED
    BY <1>2, <2>1, <2>2, <2>3, <2>4, <2>5 DEF Save
<1>3. CASE Next
  <2>1. PICK j \in Jobs : Save(j) \/ Signal(j) \/ CompareReports(j)
    BY <1>3 DEF Next
  <2>2. /\ job[j].stage \in {"deleteData", "deleteReports"}
        /\ r.id \in job[j].found
    BY <1>2, <2>1
  <2>3. ~IsMerge(run[j]) /\ r.repo = run[j].repo /\ OwnTag(r) = OwnTag(run[j])
    BY <2>2 DEF IInv, FoundIsOwn
  <2> QED
    BY <2>2, <2>3
<1> QED
  BY <1>1, <1>3

(***************************************************************************)
(* Whatever the jobs run for, a job deletes reports and rows of its own    *)
(* repository and tag only, while it replaces them, and a merge deletes    *)
(* none (do_delete).                                                       *)
(***************************************************************************)
THEOREM ReplacedByTheirOwn == Spec => OnlyOwnAreReplaced
<1>1. IInv /\ [Next]_vars => [ReplacesOwn]_vars
  BY OwnIsReplaced DEF ReplacesOwn
<1> QED
  BY InitIInv, NextIInv, <1>1, PTL DEF Spec, OnlyOwnAreReplaced

-----------------------------------------------------------------------------
(***************************************************************************)
(* A job that is alone and was not signalled has its report: no rival is   *)
(* running, and nobody else has what it has found or has its id, so its    *)
(* report and the data of it stay, and no newer one of the tag is added.   *)
(***************************************************************************)
Clear(j) == alone[j] /\ ~job[j].signalled

Running(j) == ~At(j, "start") /\ ~Ended(j)

SameTag(j, k) == run[k].repo = run[j].repo /\ OwnTag(run[k]) = OwnTag(run[j])

Querying == {"saved", "previous", "last", "dapps", "actions", "data"}

\* A report says what its job runs for.
Describes(r, j) ==
    r.sha = j /\ r.repo = run[j].repo /\ r.evm = run[j].evm /\ r.proxy = run[j].proxy

Described == IsFiniteSet(reports) /\ \A r \in reports : Describes(r, r.sha)

FoundOfTag == \A j, k \in Jobs : job[k].id \in job[j].found => SameTag(j, k)

NoRivals == \A j \in Jobs : alone[j] /\ Running(j) => Rivals(j) = {}

\* The rows of the job's report.
OwnRows(j) == {d[2] : d \in {e \in data : e[1] = job[j].id}}

NothingToDelete(j) ==
    job[j].stage = "deleteReports" => \A d \in data : d[1] \notin job[j].found

ReportIsLast(j) ==
    job[j].stage \in Saving \cup Querying /\ Running(j) =>
      /\ \E r \in reports : r.id = job[j].id
      /\ \A r \in ReportsOf(run[j].repo, {OwnTag(run[j])}) : r.id <= job[j].id

RowsAreSaved(j) ==
    job[j].stage \in Querying /\ Running(j) => OwnRows(j) = job[j].report

\* What the queries have returned to the job so far.
TagsAreOthers(j) ==
    job[j].stage = "previous" =>
      job[j].tags \subseteq {OwnTag(run[j])} \/ OwnTag(run[j]) \notin job[j].tags

PreviousAreOthers(j) ==
    job[j].stage \in {"last", "dapps", "actions", "data", "compared"} =>
      \A r \in job[j].previous : r.id # job[j].id

LastIsOwn(j) ==
    job[j].stage \in {"dapps", "actions", "data", "compared"} =>
      \E r : Describes(r, j) /\ r.id = job[j].id /\ job[j].last = {r}

NamesAreOwn(j) ==
    /\ job[j].stage = "actions" => job[j].dapps = {row[1] : row \in job[j].report}
    /\ job[j].stage = "data" => job[j].report \subseteq job[j].names

PlottedIsOwn(j) ==
    job[j].stage = "compared" =>
      {p[2] : p \in {q \in job[j].plotted : q[1] \in job[j].last}} = job[j].report

Undisturbed(j) ==
    /\ job[j].stage # "failed"
    /\ NothingToDelete(j) /\ ReportIsLast(j) /\ RowsAreSaved(j) /\ TagsAreOthers(j)
    /\ PreviousAreOthers(j) /\ LastIsOwn(j) /\ NamesAreOwn(j) /\ PlottedIsOwn(j)
    /\ job[j].stage # "start" => job[j].report \in Reports

QuietInv == /\ Described /\ FoundOfTag /\ NoRivals
            /\ \A j \in Jobs : Clear(j) => Undisturbed(j)

LEMMA OthersSayTheSame ==
    ASSUME TypeOK, NEW j \in Jobs, Save(j) \/ Signal(j) \/ CompareReports(j)
    PROVE  \A k \in Jobs \ {j} : job'[k] = job[k]
<1>1. \E r : Becomes(j, r)
  BY Zenon DEF Save, Start, DeleteData, DeleteReports, InsertReport, Refresh, AddRow, CommitRows,
               Signal, CompareReports, Compare, QueryPrevious, QueryLast, QueryDapps,
               QueryActions, QueryData, Go, Fail
<1> QED
  BY <1>1, BecomesFields

\* Runs do not change, and only a job that starts changes who is alone.
LEMMA RunsStay ==
    ASSUME NEW j \in Jobs, Save(j) \/ Signal(j) \/ CompareReports(j)
    PROVE  run' = run /\ (~Start(j) => alone' = alone)
BY DEF Save, Start, DeleteData, DeleteReports, InsertReport, Refresh, AddRow, CommitRows,
       Signal, CompareReports, Compare, QueryPrevious, QueryLast, QueryDapps, QueryActions,
       QueryData

\* What does anything is running, or starts.
LEMMA RunningActs ==
    ASSUME NEW j \in Jobs, Save(j) \/ Signal(j) \/ CompareReports(j), ~Start(j)
    PROVE  Running(j)
<1>1. \/ job[j].stage \in {"deleteData", "deleteReports", "insert", "refresh", "rows",
                           "previous", "last", "dapps", "actions", "data"}
      \/ job[j].stage = "saved" /\ Compared(run[j])
  BY DEF Save, DeleteData, DeleteReports, InsertReport, Refresh, AddRow, CommitRows,
         Signal, CompareReports, Compare, QueryPrevious, QueryLast, QueryDapps, QueryActions,
         QueryData, At
<1> QED
  BY <1>1 DEF Running, Ended, At

LEMMA StepNoRivals ==
    ASSUME TypeOK, NoRivals, NEW j \in Jobs, Save(j) \/ Signal(j) \/ CompareReports(j)
    PROVE  NoRivals'
<1> SUFFICES ASSUME NEW m \in Jobs, alone'[m], Running(m)', NEW k \in Rivals(m)'
             PROVE  FALSE
  BY DEF NoRivals
<1>1. /\ \A i \in Jobs \ {j} : job'[i] = job[i]
      /\ run' = run
      /\ \A i \in Jobs \ {j} : Running(i)' => Running(i)
  <2>1. (\A i \in Jobs \ {j} : job'[i] = job[i]) /\ run' = run
    BY OthersSayTheSame, RunsStay
  <2> QED
    BY <2>1 DEF Running, Ended, At
<1>2. k \in Jobs \ {m} /\ SameTag(m, k) /\ Running(k)'
  BY <1>1 DEF Rivals, Running, SameTag
<1>3. CASE ~Start(j)
  <2>1. Running(m) /\ Running(k) /\ alone[m]
    BY <1>1, <1>2, <1>3, RunningActs, RunsStay
  <2>2. k \in Rivals(m)
    BY <1>2, <2>1 DEF Rivals, Running, SameTag
  <2> QED
    BY <2>1, <2>2 DEF NoRivals
<1>4. CASE Start(j)
  <2>1. /\ alone'[j] = (Rivals(j) = {})
        /\ \A i \in Jobs \ {j} : alone'[i] => alone[i] /\ i \notin Rivals(j)
    BY <1>4 DEF Start
  <2>2. CASE m = j
    <3>1. Running(k)
      BY <1>1, <1>2, <2>2
    <3>2. k \in Rivals(j)
      BY <1>2, <2>2, <3>1 DEF Rivals, Running, SameTag
    <3> QED
      BY <2>1, <2>2, <3>2
  <2>3. CASE m # j
    <3>1. Running(m) /\ alone[m] /\ m \notin Rivals(j)
      BY <1>1, <2>1, <2>3
    <3>2. CASE k = j
      <4>1. m \in Rivals(j)
        BY <1>2, <2>3, <3>1, <3>2 DEF Rivals, Running, SameTag
      <4> QED
        BY <3>1, <4>1
    <3>3. CASE k # j
      <4>1. Running(k)
        BY <1>1, <1>2, <3>3
      <4>2. k \in Rivals(m)
        BY <1>2, <4>1 DEF Rivals, Running, SameTag
      <4> QED
        BY <3>1, <4>2 DEF NoRivals
    <3> QED
      BY <3>2, <3>3
  <2> QED
    BY <2>2, <2>3
<1> QED
  BY <1>3, <1>4

\* Ids and what was found change when a job starts or inserts its report.
LEMMA IdsStay ==
    ASSUME TypeOK, NEW j \in Jobs, Save(j) \/ Signal(j) \/ CompareReports(j),
           ~Start(j), ~InsertReport(j)
    PROVE  \A k \in Jobs : job'[k].id = job[k].id /\ job'[k].found = job[k].found
<1>1. CASE CommitRows(j)
  <2>1. job[j] \in JobRecords
    BY DEF TypeOK
  <2>2. \E stage : Becomes(j, [job[j] EXCEPT !.stage = stage])
    BY <1>1, Zenon DEF CommitRows, Go, Fail
  <2>3. job'[j].id = job[j].id /\ job'[j].found = job[j].found
    BY <2>1, <2>2, BecomesFields DEF JobRecords
  <2> QED
    BY <2>3, OthersSayTheSame
<1>2. CASE ~CommitRows(j)
  <2>1. Harmless(j)
    BY <1>2, CompareIsHarmless, SignalIsHarmless, DeleteIsHarmless, AddIsHarmless DEF Save
  <2> QED
    BY <2>1 DEF Harmless
<1> QED
  BY <1>1, <1>2

LEMMA StepFoundOfTag ==
    ASSUME IInv, Described, FoundOfTag, NEW j \in Jobs,
           Save(j) \/ Signal(j) \/ CompareReports(j)
    PROVE  FoundOfTag'
<1> SUFFICES ASSUME NEW i \in Jobs, NEW k \in Jobs, job'[k].id \in job'[i].found
             PROVE  SameTag(i, k)
  BY RunsStay DEF FoundOfTag, SameTag
<1>1. TypeOK /\ job[j] \in JobRecords /\ \A l \in Jobs \ {j} : job'[l] = job[l]
  BY OthersSayTheSame DEF IInv, TypeOK
<1>2. CASE ~Start(j) /\ ~InsertReport(j)
  BY <1>1, <1>2, IdsStay DEF FoundOfTag
<1>3. CASE InsertReport(j)
  <2>1. job'[j] = [job[j] EXCEPT !.stage = "refresh", !.id = nextId]
    BY <1>1, <1>3, BecomesFields DEF InsertReport
  <2>2. job'[j].id = nextId /\ job'[j].found = job[j].found
    BY <1>1, <2>1 DEF JobRecords
  <2>3. job[i].found \subseteq Nat /\ \A n \in job[i].found : n < nextId
    BY DEF IInv, TypeOK, JobRecords, KnownIds
  <2>4. nextId \notin job[i].found
    BY <1>1, <2>3 DEF TypeOK
  <2> QED
    BY <1>1, <2>2, <2>4 DEF FoundOfTag
<1>4. CASE Start(j)
  <2>1. PICK report \in Reports :
          Becomes(j, [job[j] EXCEPT
                        !.stage = IF Superseded(j) = {} THEN "insert" ELSE "deleteData",
                        !.found = Superseded(j),
                        !.report = report,
                        !.todo = report])
    BY <1>4 DEF Start
  <2> DEFINE stage == IF Superseded(j) = {} THEN "insert" ELSE "deleteData"
  <2>2. job'[j] = [job[j] EXCEPT !.stage = stage, !.found = Superseded(j),
                                 !.report = report, !.todo = report]
    BY <1>1, <2>1, BecomesFields
  <2> HIDE DEF stage
  <2>3. job'[j].id = job[j].id /\ job'[j].found = Superseded(j)
    BY <1>1, <2>2 DEF JobRecords
  <2>4. CASE i # j
    BY <1>1, <2>3, <2>4 DEF FoundOfTag
  <2>5. CASE i = j
    <3> DEFINE same == ReportsOf(run[j].repo, {OwnTag(run[j])})
    <3>0. job[k].id \in Superseded(j)
      BY <1>1, <2>3, <2>5
    <3>1. PICK r \in same : r.id = job[k].id
      BY <3>0 DEF Superseded
    <3>2. r \in reports /\ r.repo = run[j].repo /\ OwnTag(r) = OwnTag(run[j])
      BY <3>1 DEF ReportsOf
    <3>3. r.sha \in Jobs /\ r.id \in Nat /\ job[r.sha].id = r.id /\ Describes(r, r.sha)
      BY <1>1, <3>2 DEF TypeOK, ReportRecords, IInv, OwnIds, Described
    <3>4. r.sha = k
      BY <3>1, <3>3 DEF IInv, OwnIds
    <3>5. run[k].repo = r.repo /\ OwnTag(run[k]) = OwnTag(r)
      BY <3>3, <3>4 DEF Describes, OwnTag
    <3> QED
      BY <2>5, <3>2, <3>5 DEF SameTag
  <2> QED
    BY <2>4, <2>5
<1> QED
  BY <1>2, <1>3, <1>4

LEMMA StepDescribed ==
    ASSUME IInv, Described, NEW j \in Jobs, Save(j) \/ Signal(j) \/ CompareReports(j)
    PROVE  Described'
<1>1. run' = run
  BY RunsStay
<1>2. CASE reports' \subseteq reports
  BY <1>1, <1>2, FS_Subset DEF Described, Describes
<1>3. CASE InsertReport(j)
  <2> DEFINE new == [id |-> nextId, repo |-> run[j].repo, evm |-> run[j].evm,
                     proxy |-> run[j].proxy, sha |-> j]
  <2>1. reports' = reports \cup {new} /\ Describes(new, j) /\ new.sha = j
    BY <1>3 DEF InsertReport, Describes
  <2> HIDE DEF new
  <2>2. IsFiniteSet(reports')
    BY <2>1, FS_AddElement DEF Described
  <2> QED
    BY <1>1, <2>1, <2>2 DEF Described, Describes
<1>4. InsertReport(j) \/ reports' \subseteq reports
  BY DEF Save, Start, DeleteData, DeleteReports, Refresh, AddRow, CommitRows,
         Signal, CompareReports, Compare, QueryPrevious, QueryLast, QueryDapps, QueryActions,
         QueryData
<1> QED
  BY <1>2, <1>3, <1>4

-----------------------------------------------------------------------------
\* While a job runs, jobs of its tag take no step if it stays alone.
LEMMA OthersAreOfOtherTags ==
    ASSUME QuietInv, NoRivals', NEW j \in Jobs, Save(j) \/ Signal(j) \/ CompareReports(j),
           NEW k \in Jobs \ {j}, job'[k] = job[k], alone'[k], Running(k)
    PROVE  alone[k] /\ (SameTag(k, j) => Start(j))
<1>1. run' = run
  BY RunsStay
<1>2. alone[k]
  BY DEF Save, Start, DeleteData, DeleteReports, InsertReport, Refresh, AddRow, CommitRows,
         Signal, CompareReports, Compare, QueryPrevious, QueryLast, QueryDapps, QueryActions,
         QueryData
<1>3. ASSUME SameTag(k, j), ~Start(j) PROVE FALSE
  <2>1. Running(j)
    BY <1>3, RunningActs
  <2>2. j \in Rivals(k)
    BY <1>3, <2>1 DEF Rivals, Running, SameTag
  <2> QED
    BY <1>2, <2>2 DEF QuietInv, NoRivals
<1> QED
  BY <1>2, <1>3

\* What the step of a job adds to the tables, or takes from them, is its own or found.
LEMMA TablesChange ==
    ASSUME TypeOK, NEW j \in Jobs, Save(j) \/ Signal(j) \/ CompareReports(j)
    PROVE  /\ \A d \in data' : d \in data \/ (d[1] = job[j].id /\ ~Start(j))
           /\ \A d \in data : d \in data' \/ (d[1] \in job[j].found /\ ~Start(j))
           /\ \A r \in reports : r \in reports' \/ (r.id \in job[j].found /\ ~Start(j))
           /\ \A r \in reports' : r \in reports
                                  \/ (r.repo = run[j].repo /\ OwnTag(r) = OwnTag(run[j])
                                      /\ ~Start(j))
<1>1. CASE DeleteData(j)
  <2>1. job[j].stage # "start"
    BY <1>1 DEF DeleteData, At
  <2> QED
    BY <1>1, <2>1 DEF DeleteData, Start, At
<1>2. CASE DeleteReports(j)
  <2>1. job[j].stage # "start"
    BY <1>2 DEF DeleteReports, At
  <2> QED
    BY <1>2, <2>1 DEF DeleteReports, Start, At
<1>3. CASE InsertReport(j)
  <2> DEFINE new == [id |-> nextId, repo |-> run[j].repo, evm |-> run[j].evm,
                     proxy |-> run[j].proxy, sha |-> j]
  <2>1. reports' = reports \cup {new} /\ new.repo = run[j].repo
        /\ OwnTag(new) = OwnTag(run[j])
    BY <1>3 DEF InsertReport, OwnTag
  <2>2. data' = data /\ ~Start(j)
    BY <1>3 DEF InsertReport, Start, At
  <2> HIDE DEF new
  <2> QED
    BY <2>1, <2>2
<1>4. CASE CommitRows(j)
  <2>1. ~Start(j)
    BY <1>4 DEF CommitRows, Start, At
  <2>2. \A d \in data' : d \in data \/ d[1] = job[j].id
    BY <1>4 DEF CommitRows
  <2> QED
    BY <1>4, <2>1, <2>2 DEF CommitRows
<1>5. CASE UNCHANGED <<reports, data>>
  BY <1>5
<1> QED
  BY <1>1, <1>2, <1>3, <1>4, <1>5 DEF Save, Start, Refresh, AddRow,
         Signal, CompareReports, Compare, QueryPrevious, QueryLast, QueryDapps, QueryActions,
         QueryData

LEMMA OthersStayUndisturbed ==
    ASSUME IInv, QuietInv, NoRivals', NEW j \in Jobs, Save(j) \/ Signal(j) \/ CompareReports(j),
           NEW k \in Jobs \ {j}, Clear(k)'
    PROVE  Undisturbed(k)'
<1>1. TypeOK /\ job'[k] = job[k] /\ run' = run
  BY OthersSayTheSame, RunsStay DEF IInv
<1>2. alone[k] /\ alone'[k]
  BY DEF Clear, Save, Start, DeleteData, DeleteReports, InsertReport, Refresh, AddRow, CommitRows,
         Signal, CompareReports, Compare, QueryPrevious, QueryLast, QueryDapps, QueryActions,
         QueryData
<1>3. Undisturbed(k)
  BY <1>1, <1>2 DEF QuietInv, Clear
<1>4. Running(k)' <=> Running(k)
  BY <1>1 DEF Running, Ended, At
<1>5. Running(k) => (SameTag(k, j) => Start(j))
  BY <1>1, <1>2, OthersAreOfOtherTags
<1>6. /\ job[k].id \in job[j].found => SameTag(k, j)
      /\ job[j].id \in job[k].found => SameTag(k, j)
  BY DEF QuietInv, FoundOfTag, SameTag
<1>7. NothingToDelete(k)'
  <2> SUFFICES ASSUME job[k].stage = "deleteReports", NEW d \in data', d[1] \in job[k].found
               PROVE  FALSE
    BY <1>1 DEF NothingToDelete
  <2>1. d \notin data
    BY <1>3 DEF Undisturbed, NothingToDelete
  <2>2. d[1] = job[j].id /\ ~Start(j)
    BY <1>1, <2>1, TablesChange
  <2>3. Running(k)
    BY DEF Running, Ended, At
  <2> QED
    BY <1>5, <1>6, <2>2, <2>3
<1>8. ReportIsLast(k)'
  <2> SUFFICES ASSUME job[k].stage \in Saving \cup Querying, Running(k)
               PROVE  /\ \E r \in reports' : r.id = job[k].id
                      /\ \A r \in ReportsOf(run[k].repo, {OwnTag(run[k])})' : r.id <= job[k].id
    BY <1>1, <1>4 DEF ReportIsLast, Saving, Querying
  <2>1. PICK own \in reports : own.id = job[k].id
    BY <1>3 DEF Undisturbed, ReportIsLast
  <2>2. own \in reports'
    <3>1. CASE own.id \in job[j].found /\ ~Start(j)
      BY <1>5, <1>6, <2>1, <3>1
    <3> QED
      BY <1>1, <3>1, TablesChange
  <2>3. ASSUME NEW r \in reports', r.repo = run[k].repo, OwnTag(r) = OwnTag(run[k])
        PROVE  r.id <= job[k].id
    <3>1. CASE r \in reports
      BY <1>3, <2>3, <3>1 DEF Undisturbed, ReportIsLast, ReportsOf
    <3>2. CASE r.repo = run[j].repo /\ OwnTag(r) = OwnTag(run[j]) /\ ~Start(j)
      BY <1>5, <2>3, <3>2 DEF SameTag
    <3> QED
      BY <1>1, <3>1, <3>2, TablesChange
  <2> QED
    BY <1>1, <2>1, <2>2, <2>3 DEF ReportsOf
<1>9. RowsAreSaved(k)'
  <2> SUFFICES ASSUME job[k].stage \in Querying, Running(k)
               PROVE  OwnRows(k)' = job[k].report
    BY <1>1, <1>4 DEF RowsAreSaved, Querying
  <2>1. OwnRows(k) = job[k].report
    BY <1>3 DEF Undisturbed, RowsAreSaved
  <2>2. SameTag(k, j) => Start(j)
    BY <1>5
  <2>3. job[j].id # job[k].id
    <3>1. job[k].stage \in Saving \cup Querying
      OBVIOUS
    <3>2. PICK own \in reports : own.id = job[k].id
      BY <1>3, <3>1 DEF Undisturbed, ReportIsLast
    <3>3. job[k].id \in Nat
      BY <1>1, <3>2 DEF TypeOK, ReportRecords
    <3> QED
      BY <3>3 DEF IInv, OwnIds
  <2>4. {e \in data' : e[1] = job[k].id} = {e \in data : e[1] = job[k].id}
    BY <1>1, <1>6, <2>2, <2>3, TablesChange
  <2> QED
    BY <1>1, <2>1, <2>4 DEF OwnRows
<1>10. /\ TagsAreOthers(k)' /\ PreviousAreOthers(k)' /\ NamesAreOwn(k)' /\ PlottedIsOwn(k)'
  BY <1>1, <1>3 DEF Undisturbed, TagsAreOthers, PreviousAreOthers, NamesAreOwn, PlottedIsOwn
<1>11. LastIsOwn(k)'
  BY <1>1, <1>3 DEF Undisturbed, LastIsOwn, Describes
<1> QED
  BY <1>1, <1>3, <1>7, <1>8, <1>9, <1>10, <1>11 DEF Undisturbed

-----------------------------------------------------------------------------
LEMMA NewestOfAll ==
    ASSUME NEW rs \in SUBSET ReportRecords, IsFiniteSet(rs), NEW own \in rs,
           \A r \in rs : r # own => r.id < own.id
    PROVE  /\ Newest(rs, 0, 1) = {own}
           /\ \A limit : own \notin Newest(rs, 1, limit)
<1> DEFINE newer(r) == {q \in rs : q.id > r.id}
<1>1. \A r \in rs : r.id \in Nat
  BY DEF ReportRecords
<1>2. newer(own) = {}
  BY <1>1
<1>3. Cardinality(newer(own)) = 0
  BY <1>2, FS_EmptySet
<1>4. ASSUME NEW r \in rs, r # own PROVE Cardinality(newer(r)) \in Nat \ {0}
  <2>1. own \in newer(r)
    BY <1>1, <1>4
  <2>2. newer(r) \subseteq rs
    OBVIOUS
  <2> HIDE DEF newer
  <2>3. IsFiniteSet(newer(r)) /\ newer(r) # {}
    BY <2>1, <2>2, FS_Subset
  <2> QED
    BY <2>3, FS_EmptySet, FS_CardinalityType
<1>5. \A r, offset, limit : r \in Newest(rs, offset, limit) <=>
          r \in rs /\ Cardinality(newer(r)) >= offset /\ Cardinality(newer(r)) < offset + limit
  BY DEF Newest
<1> HIDE DEF newer
<1>6. own \in Newest(rs, 0, 1)
  BY <1>3, <1>5
<1>7. \A r \in Newest(rs, 0, 1) : r = own
  <2> SUFFICES ASSUME NEW r \in rs, r # own, Cardinality(newer(r)) < 0 + 1 PROVE FALSE
    BY <1>5
  <2> QED
    BY <1>4
<1>8. \A limit : own \notin Newest(rs, 1, limit)
  BY <1>3, <1>5
<1> QED
  BY <1>6, <1>7, <1>8

\* From its insertion on, the report of an undisturbed job is the newest one of its tag.
LEMMA OwnReport ==
    ASSUME IInv, Described, NEW j \in Jobs, ReportIsLast(j),
           job[j].stage \in Saving \cup Querying, Running(j)
    PROVE  \E own \in ReportsOf(run[j].repo, {OwnTag(run[j])}) :
             /\ own.id = job[j].id /\ Describes(own, j)
             /\ \A r \in ReportsOf(run[j].repo, {OwnTag(run[j])}) : r # own => r.id < own.id
<1>1. PICK own \in reports : own.id = job[j].id
  BY DEF ReportIsLast
<1>2. TypeOK /\ own.sha \in Jobs /\ own.id \in Nat /\ job[own.sha].id = own.id
  BY DEF IInv, TypeOK, ReportRecords, OwnIds
<1>3. own.sha = j
  BY <1>1, <1>2 DEF IInv, OwnIds
<1>4. Describes(own, j)
  BY <1>3 DEF Described
<1>5. own \in ReportsOf(run[j].repo, {OwnTag(run[j])})
  BY <1>4 DEF Describes, ReportsOf, OwnTag
<1>6. ASSUME NEW r \in ReportsOf(run[j].repo, {OwnTag(run[j])}), r # own
      PROVE  r.id < own.id
  <2>1. r \in reports /\ r.id <= own.id
    BY <1>1 DEF ReportsOf, ReportIsLast
  <2>2. r.id # own.id
    BY <1>6, <2>1 DEF IInv, UniqueIds
  <2>3. r.id \in Nat
    BY <1>2, <2>1 DEF TypeOK, ReportRecords
  <2> QED
    BY <1>2, <2>1, <2>2, <2>3
<1> QED
  BY <1>1, <1>4, <1>5, <1>6

\* Where the job is tells which of its conditions there are.
LEMMA UndisturbedSaving ==
    ASSUME NEW j, job[j].stage \in {"insert", "deleteData"} \cup Saving,
           ReportIsLast(j), job[j].report \in Reports
    PROVE  Undisturbed(j)
BY DEF Undisturbed, NothingToDelete, RowsAreSaved, TagsAreOthers, PreviousAreOthers, LastIsOwn,
       NamesAreOwn, PlottedIsOwn, Saving, Querying

LEMMA StartUndisturbed ==
    ASSUME TypeOK, NEW j \in Jobs, Start(j)
    PROVE  Undisturbed(j)'
<1> DEFINE stage == IF Superseded(j) = {} THEN "insert" ELSE "deleteData"
<1>1. PICK report \in Reports :
        Becomes(j, [job[j] EXCEPT !.stage = stage, !.found = Superseded(j),
                                  !.report = report, !.todo = report])
  BY DEF Start
<1>2. job'[j] = [job[j] EXCEPT !.stage = stage, !.found = Superseded(j),
                               !.report = report, !.todo = report]
  BY <1>1, BecomesFields
<1>3. stage \in {"insert", "deleteData"} /\ job[j] \in JobRecords
  BY DEF TypeOK
<1> HIDE DEF stage
<1>4. job'[j].stage = stage /\ job'[j].report = report
  BY <1>2, <1>3 DEF JobRecords
<1>5. ReportIsLast(j)'
  BY <1>3, <1>4 DEF ReportIsLast, Saving, Querying
<1> QED
  BY <1>3, <1>4, <1>5, UndisturbedSaving DEF Undisturbed, NothingToDelete, RowsAreSaved,
     TagsAreOthers, PreviousAreOthers, LastIsOwn, NamesAreOwn, PlottedIsOwn, Saving, Querying

\* The steps that only change the stage.
LEMMA GoFields ==
    ASSUME TypeOK, NEW j \in Jobs, NEW stage, Go(j, stage)
    PROVE  /\ job'[j].stage = stage
           /\ job'[j].report = job[j].report /\ job'[j].id = job[j].id
           /\ job'[j].found = job[j].found /\ job'[j].signalled = job[j].signalled
<1>1. job'[j] = [job[j] EXCEPT !.stage = stage] /\ job[j] \in JobRecords
  BY BecomesFields DEF Go, TypeOK
<1> QED
  BY <1>1 DEF JobRecords

LEMMA DeleteDataUndisturbed ==
    ASSUME TypeOK, NEW j \in Jobs, DeleteData(j), Undisturbed(j)
    PROVE  Undisturbed(j)'
<1>1. job'[j].stage = "deleteReports" /\ job'[j].report = job[j].report
      /\ job'[j].found = job[j].found
  BY GoFields DEF DeleteData
<1>2. NothingToDelete(j)'
  BY <1>1 DEF NothingToDelete, DeleteData
<1>3. job'[j].report \in Reports
  BY <1>1 DEF Undisturbed, DeleteData, At
<1> QED
  BY <1>1, <1>2, <1>3 DEF Undisturbed, ReportIsLast, RowsAreSaved,
     TagsAreOthers, PreviousAreOthers, LastIsOwn, NamesAreOwn, PlottedIsOwn, Saving, Querying

LEMMA DeleteReportsUndisturbed ==
    ASSUME TypeOK, NEW j \in Jobs, DeleteReports(j), Undisturbed(j)
    PROVE  Undisturbed(j)'
<1>1. \A d \in data : d[1] \notin job[j].found
  BY DEF Undisturbed, NothingToDelete, DeleteReports, At
<1>2. Go(j, "insert")
  BY <1>1 DEF DeleteReports
<1>3. job'[j].stage = "insert" /\ job'[j].report = job[j].report
  BY <1>2, GoFields
<1>4. job'[j].report \in Reports
  BY <1>3 DEF Undisturbed, DeleteReports, At
<1> QED
  BY <1>3, <1>4 DEF Undisturbed, NothingToDelete, ReportIsLast, RowsAreSaved,
     TagsAreOthers, PreviousAreOthers, LastIsOwn, NamesAreOwn, PlottedIsOwn, Saving, Querying

LEMMA InsertReportUndisturbed ==
    ASSUME IInv, NEW j \in Jobs, InsertReport(j), Undisturbed(j)
    PROVE  Undisturbed(j)'
<1> DEFINE new == [id |-> nextId, repo |-> run[j].repo, evm |-> run[j].evm,
                   proxy |-> run[j].proxy, sha |-> j]
<1>1. TypeOK /\ job[j] \in JobRecords /\ job[j].stage = "insert" /\ nextId \in Nat
  BY DEF IInv, TypeOK, InsertReport, At
<1>2. job'[j] = [job[j] EXCEPT !.stage = "refresh", !.id = nextId]
  BY <1>1, BecomesFields DEF InsertReport
<1>3. job'[j].stage = "refresh" /\ job'[j].id = nextId /\ job'[j].report = job[j].report
  BY <1>1, <1>2 DEF JobRecords
<1>4. reports' = reports \cup {new} /\ new.id = nextId
  BY DEF InsertReport
<1> HIDE DEF new
<1>5. \A r \in reports' : r.id <= nextId
  <2>1. \A r \in reports : r.id < nextId /\ r.id \in Nat
    BY <1>1 DEF IInv, KnownIds, TypeOK, ReportRecords
  <2> QED
    BY <1>1, <1>4, <2>1
<1>6. ReportIsLast(j)'
  BY <1>3, <1>4, <1>5 DEF ReportIsLast, ReportsOf
<1>7. job'[j].report \in Reports
  BY <1>1, <1>3 DEF Undisturbed
<1> QED
  BY <1>3, <1>6, <1>7 DEF Undisturbed, NothingToDelete, RowsAreSaved,
     TagsAreOthers, PreviousAreOthers, LastIsOwn, NamesAreOwn, PlottedIsOwn, Saving, Querying

LEMMA AddUndisturbed ==
    ASSUME TypeOK, NEW j \in Jobs, Refresh(j) \/ AddRow(j), Undisturbed(j)
    PROVE  Undisturbed(j)'
<1>1. /\ job[j].stage \in Saving /\ Running(j) /\ job[j].stage # "start"
      /\ UNCHANGED <<reports, run>>
  BY DEF Refresh, AddRow, At, Saving, Running, Ended
<1>2. /\ \E r \in reports : r.id = job[j].id
      /\ \A r \in ReportsOf(run[j].repo, {OwnTag(run[j])}) : r.id <= job[j].id
  BY <1>1 DEF Undisturbed, ReportIsLast
<1>3. job'[j].stage = "rows" /\ job'[j].report = job[j].report /\ job'[j].id = job[j].id
  <2>1. CASE Refresh(j)
    BY <1>2, <2>1, GoFields DEF Refresh
  <2>2. CASE AddRow(j)
    <3>1. PICK row \in job[j].todo :
            Becomes(j, [job[j] EXCEPT !.todo = @ \ {row}, !.pending = @ \cup {row}])
      BY <2>2 DEF AddRow
    <3>2. job'[j] = [job[j] EXCEPT !.todo = @ \ {row}, !.pending = @ \cup {row}]
          /\ job[j] \in JobRecords /\ job[j].stage = "rows"
      BY <2>2, <3>1, BecomesFields DEF TypeOK, AddRow, At
    <3> QED
      BY <3>2 DEF JobRecords
  <2> QED
    BY <2>1, <2>2
<1>4. ReportIsLast(j)'
  BY <1>1, <1>2, <1>3 DEF ReportIsLast, ReportsOf
<1>5. job'[j].report \in Reports
  BY <1>1, <1>3 DEF Undisturbed
<1> QED
  BY <1>3, <1>4, <1>5 DEF Undisturbed, NothingToDelete, RowsAreSaved,
     TagsAreOthers, PreviousAreOthers, LastIsOwn, NamesAreOwn, PlottedIsOwn, Saving, Querying

LEMMA CommitRowsUndisturbed ==
    ASSUME IInv, IInv', Described', NEW j \in Jobs, CommitRows(j), Undisturbed(j), Clear(j)
    PROVE  Undisturbed(j)'
<1>1. /\ TypeOK /\ job[j] \in JobRecords /\ job[j].stage = "rows" /\ Running(j)
      /\ job[j].todo = {} /\ UNCHANGED <<reports, run>>
  BY DEF IInv, TypeOK, CommitRows, At, Running, Ended
<1>2. /\ \E r \in reports : r.id = job[j].id
      /\ \A r \in ReportsOf(run[j].repo, {OwnTag(run[j])}) : r.id <= job[j].id
      /\ job[j].report \in Reports
  BY <1>1 DEF Undisturbed, ReportIsLast, Saving
<1>3. Go(j, "saved") /\ data' = data \cup {<<job[j].id, row>> : row \in job[j].pending}
  BY <1>2 DEF CommitRows
<1>4. job'[j].stage = "saved" /\ job'[j].report = job[j].report /\ job'[j].id = job[j].id
      /\ job'[j].signalled = job[j].signalled
  BY <1>1, <1>3, GoFields
<1>5. ReportIsLast(j)'
  BY <1>1, <1>2, <1>4 DEF ReportIsLast, ReportsOf
<1>6. ASSUME Running(j)' PROVE OwnRows(j)' = job'[j].report
  <2>1. PICK own \in reports' : own.id = job'[j].id /\ own.sha = j
    BY <1>4, <1>5, <1>6 DEF ReportIsLast, Querying, IInv, OwnIds, TypeOK, ReportRecords
  <2>2. DataOf(own)' \in {{}, job'[j].report}
    BY <1>4, <2>1 DEF IInv, WholeReports, Clear
  <2>3. PICK row : row \in job[j].pending
    <3>1. job[j].todo \cup job[j].pending = job[j].report
      BY <1>1 DEF IInv, Measured, Clear, Saving
    <3> QED
      BY <1>1, <1>2, <3>1, ReportsHaveRows
  <2>4. OwnRows(j)' = DataOf(own)'
    BY <2>1 DEF OwnRows, DataOf
  <2>5. <<job'[j].id, row>> \in data'
    BY <1>3, <1>4, <2>3
  <2>6. row \in OwnRows(j)'
    BY <2>5 DEF OwnRows
  <2> QED
    BY <2>2, <2>4, <2>6
<1>7. RowsAreSaved(j)'
  BY <1>6 DEF RowsAreSaved
<1>8. job'[j].report \in Reports
  BY <1>2, <1>4
<1> QED
  BY <1>4, <1>5, <1>7, <1>8 DEF Undisturbed, NothingToDelete,
     TagsAreOthers, PreviousAreOthers, LastIsOwn, NamesAreOwn, PlottedIsOwn

-----------------------------------------------------------------------------
\* The queries leave the tables and what is saved.
LEMMA QueryKeeps ==
    ASSUME TypeOK, NEW j \in Jobs, CompareReports(j), Undisturbed(j)
    PROVE  /\ job[j].stage \in Querying /\ Running(j) /\ UNCHANGED <<reports, data, run>>
           /\ job'[j].id = job[j].id /\ job'[j].report = job[j].report
           /\ job'[j].stage # "deleteReports"
           /\ OwnRows(j) = job[j].report
           /\ ReportIsLast(j)' /\ RowsAreSaved(j)' /\ NothingToDelete(j)'
           /\ job'[j].report \in Reports
<1>1. UNCHANGED <<reports, data, run>>
  BY DEF CompareReports, Compare, QueryPrevious, QueryLast, QueryDapps, QueryActions, QueryData
<1>2. job[j].stage \in Querying /\ ~Start(j)
  BY DEF CompareReports, Compare, QueryPrevious, QueryLast, QueryDapps, QueryActions,
         QueryData, At, Querying, Start
<1>3. Running(j)
  BY <1>2, RunningActs
<1>4. /\ job'[j].id = job[j].id /\ job'[j].report = job[j].report
      /\ job'[j].stage \notin Early /\ job'[j].stage \notin Saving
  <2>1. Harmless(j)
    BY CompareIsHarmless
  <2> QED
    BY <1>2, <2>1 DEF Harmless, Querying, Early, Saving
<1>5. /\ \E r \in reports : r.id = job[j].id
      /\ \A r \in ReportsOf(run[j].repo, {OwnTag(run[j])}) : r.id <= job[j].id
      /\ OwnRows(j) = job[j].report /\ job[j].report \in Reports
  BY <1>2, <1>3 DEF Undisturbed, ReportIsLast, RowsAreSaved, Querying
<1>6. ReportIsLast(j)' /\ RowsAreSaved(j)' /\ NothingToDelete(j)'
  BY <1>1, <1>4, <1>5 DEF ReportIsLast, ReportsOf, RowsAreSaved, OwnRows, NothingToDelete, Early
<1> QED
  BY <1>1, <1>2, <1>3, <1>4, <1>5, <1>6 DEF Early

LEMMA CompareUndisturbed ==
    ASSUME TypeOK, NEW j \in Jobs, Compare(j), Undisturbed(j)
    PROVE  Undisturbed(j)'
<1> DEFINE own == OwnTag(run[j])
           tags == IF own \in GithubTags
                   THEN get_previous_tags(run[j].repo, own, Depth)
                   ELSE {IF run[j].branch # None THEN run[j].branch ELSE Latest}
<1>1. job[j] \in JobRecords /\ job'[j] = [job[j] EXCEPT !.stage = "previous", !.tags = tags]
  BY BecomesFields DEF TypeOK, Compare
<1>2. tags \subseteq {own} \/ own \notin tags
  <2>1. CASE own \in GithubTags
    <3>1. ASSUME own \in tags PROVE FALSE
      <4> DEFINE sorted == Descending({OwnTag(r) : r \in ReportsOf(run[j].repo, GithubTags)})
      <4>1. \E i : Version[sorted[i]] < Version[own] /\ sorted[i] = own
        BY <2>1, <3>1 DEF get_previous_tags
      <4> HIDE DEF sorted, own
      <4>2. Version[own] \in Nat
        BY <2>1, VersionsAreOrdered
      <4> QED
        BY <4>1, <4>2
    <3> QED
      BY <3>1
  <2>2. CASE own \notin GithubTags
    BY <2>2
  <2> QED
    BY <2>1, <2>2
<1> HIDE DEF tags
<1>3. job'[j].stage = "previous" /\ job'[j].tags = tags
  BY <1>1 DEF JobRecords
<1>4. /\ UNCHANGED run /\ job'[j].report \in Reports
      /\ ReportIsLast(j)' /\ RowsAreSaved(j)' /\ NothingToDelete(j)'
  BY QueryKeeps DEF CompareReports
<1>5. TagsAreOthers(j)'
  BY <1>2, <1>3, <1>4 DEF TagsAreOthers
<1> QED
  BY <1>3, <1>4, <1>5 DEF Undisturbed, PreviousAreOthers, LastIsOwn, NamesAreOwn, PlottedIsOwn

LEMMA QueryPreviousUndisturbed ==
    ASSUME IInv, Described, NEW j \in Jobs, QueryPrevious(j), Undisturbed(j)
    PROVE  Undisturbed(j)'
<1> DEFINE offset   == IF OwnTag(run[j]) \in job[j].tags THEN 1 ELSE 0
           found    == ReportsOf(run[j].repo, job[j].tags)
           previous == Newest(found, offset, Depth - 1)
<1>1. /\ TypeOK /\ job[j] \in JobRecords /\ job[j].stage = "previous"
      /\ job'[j] = [job[j] EXCEPT !.stage = "last", !.previous = previous]
  BY BecomesFields DEF IInv, TypeOK, QueryPrevious, At
<1>2. /\ UNCHANGED run /\ job'[j].report \in Reports /\ job'[j].id = job[j].id
      /\ ReportIsLast(j)' /\ RowsAreSaved(j)' /\ NothingToDelete(j)'
      /\ job[j].stage \in Saving \cup Querying /\ Running(j)
  BY <1>1, QueryKeeps DEF CompareReports
<1>3. ReportIsLast(j)
  BY DEF Undisturbed
<1>4. PICK own \in ReportsOf(run[j].repo, {OwnTag(run[j])}) :
        /\ own.id = job[j].id
        /\ \A r \in ReportsOf(run[j].repo, {OwnTag(run[j])}) : r # own => r.id < own.id
  BY <1>2, <1>3, OwnReport
<1>5. \A r \in previous : r.id # job[j].id
  <2> SUFFICES ASSUME NEW r \in previous, r.id = job[j].id PROVE FALSE
    OBVIOUS
  <2>1. r \in found /\ r \in reports /\ own \in reports /\ OwnTag(own) = OwnTag(run[j])
    BY <1>4, NewestIsSubset DEF ReportsOf
  <2>2. r = own
    BY <1>4, <2>1 DEF IInv, UniqueIds
  <2>3. OwnTag(run[j]) \in job[j].tags
    BY <2>1, <2>2 DEF ReportsOf
  <2>4. job[j].tags = {OwnTag(run[j])} /\ offset = 1
    BY <1>1, <2>3 DEF Undisturbed, TagsAreOthers
  <2>5. found \in SUBSET ReportRecords /\ IsFiniteSet(found)
    BY <1>1, ReportsOfIsSubset, FS_Subset DEF Described, TypeOK
  <2>6. own \notin Newest(found, 1, Depth - 1)
    BY <1>4, <2>4, <2>5, NewestOfAll
  <2> QED
    BY <2>2, <2>4, <2>6
<1> HIDE DEF previous
<1>6. job'[j].stage = "last" /\ job'[j].previous = previous
  BY <1>1 DEF JobRecords
<1>7. PreviousAreOthers(j)'
  BY <1>2, <1>5, <1>6 DEF PreviousAreOthers
<1> QED
  BY <1>2, <1>6, <1>7 DEF Undisturbed, TagsAreOthers, LastIsOwn, NamesAreOwn, PlottedIsOwn

LEMMA QueryLastUndisturbed ==
    ASSUME IInv, Described, NEW j \in Jobs, QueryLast(j), Undisturbed(j)
    PROVE  Undisturbed(j)'
<1> DEFINE found == ReportsOf(run[j].repo, {OwnTag(run[j])})
           last  == Newest(found, 0, 1)
<1>1. TypeOK /\ job[j] \in JobRecords /\ job[j].stage = "last"
  BY DEF IInv, TypeOK, QueryLast, At
<1>2. /\ UNCHANGED run /\ job'[j].report \in Reports /\ job'[j].id = job[j].id
      /\ ReportIsLast(j)' /\ RowsAreSaved(j)' /\ NothingToDelete(j)'
      /\ job[j].stage \in Saving \cup Querying /\ Running(j)
  BY <1>1, QueryKeeps DEF CompareReports
<1>3. ReportIsLast(j)
  BY DEF Undisturbed
<1>4. PICK own \in found :
        /\ own.id = job[j].id /\ Describes(own, j)
        /\ \A r \in found : r # own => r.id < own.id
  BY <1>2, <1>3, OwnReport
<1>5. last = {own}
  <2>1. found \in SUBSET ReportRecords /\ IsFiniteSet(found)
    BY <1>1, ReportsOfIsSubset, FS_Subset DEF Described, TypeOK
  <2> HIDE DEF found
  <2> QED
    BY <1>4, <2>1, NewestOfAll
<1>6. job'[j] = [job[j] EXCEPT !.stage = "dapps", !.last = last]
  BY <1>1, <1>5, BecomesFields DEF QueryLast
<1> HIDE DEF last
<1>7. job'[j].stage = "dapps" /\ job'[j].last = last /\ job'[j].previous = job[j].previous
  BY <1>1, <1>6 DEF JobRecords
<1>8. PreviousAreOthers(j)'
  BY <1>1, <1>2, <1>7 DEF Undisturbed, PreviousAreOthers
<1>9. LastIsOwn(j)'
  BY <1>2, <1>4, <1>5, <1>7 DEF LastIsOwn, Describes
<1> QED
  BY <1>2, <1>7, <1>8, <1>9 DEF Undisturbed, TagsAreOthers, NamesAreOwn, PlottedIsOwn

\* The last report is the own one, and so are its rows.
LEMMA LastRowsAreOwn ==
    ASSUME NEW j \in Jobs, LastIsOwn(j), job[j].stage \in {"dapps", "actions", "data"},
           OwnRows(j) = job[j].report
    PROVE  LastRows(j) = job[j].report
BY DEF LastIsOwn, LastRows, OwnRows

LEMMA QueryDappsUndisturbed ==
    ASSUME IInv, NEW j \in Jobs, QueryDapps(j), Undisturbed(j)
    PROVE  Undisturbed(j)'
<1> DEFINE dapps == {row[1] : row \in LastRows(j)}
<1>1. /\ TypeOK /\ job[j] \in JobRecords /\ job[j].stage = "dapps"
      /\ job'[j] = [job[j] EXCEPT !.stage = "actions", !.dapps = dapps]
  BY BecomesFields DEF IInv, TypeOK, QueryDapps, At
<1>2. /\ UNCHANGED run /\ job'[j].report \in Reports /\ job'[j].id = job[j].id
      /\ ReportIsLast(j)' /\ RowsAreSaved(j)' /\ NothingToDelete(j)'
      /\ job'[j].report = job[j].report /\ OwnRows(j) = job[j].report
  BY <1>1, QueryKeeps DEF CompareReports
<1>3. dapps = {row[1] : row \in job[j].report}
  BY <1>1, <1>2, LastRowsAreOwn DEF Undisturbed
<1> HIDE DEF dapps
<1>4. /\ job'[j].stage = "actions" /\ job'[j].dapps = dapps
      /\ job'[j].last = job[j].last /\ job'[j].previous = job[j].previous
  BY <1>1 DEF JobRecords
<1>5. PreviousAreOthers(j)' /\ NamesAreOwn(j)'
  BY <1>1, <1>2, <1>3, <1>4 DEF Undisturbed, PreviousAreOthers, NamesAreOwn
<1>6. LastIsOwn(j)'
  BY <1>1, <1>2, <1>4 DEF Undisturbed, LastIsOwn, Describes
<1> QED
  BY <1>2, <1>4, <1>5, <1>6 DEF Undisturbed, TagsAreOthers, PlottedIsOwn

LEMMA QueryActionsUndisturbed ==
    ASSUME IInv, NEW j \in Jobs, QueryActions(j), Undisturbed(j)
    PROVE  Undisturbed(j)'
<1> DEFINE names == job[j].dapps \X {row[2] : row \in LastRows(j)}
<1>1. /\ TypeOK /\ job[j] \in JobRecords /\ job[j].stage = "actions"
      /\ job'[j] = [job[j] EXCEPT !.stage = "data", !.names = names]
  BY BecomesFields DEF IInv, TypeOK, QueryActions, At
<1>2. /\ UNCHANGED run /\ job'[j].report \in Reports /\ job'[j].id = job[j].id
      /\ ReportIsLast(j)' /\ RowsAreSaved(j)' /\ NothingToDelete(j)'
      /\ job'[j].report = job[j].report /\ OwnRows(j) = job[j].report
  BY <1>1, QueryKeeps DEF CompareReports
<1>3. job[j].report \subseteq names
  <2>1. LastRows(j) = job[j].report /\ job[j].dapps = {row[1] : row \in job[j].report}
    BY <1>1, <1>2, LastRowsAreOwn DEF Undisturbed, NamesAreOwn
  <2>2. \A row \in job[j].report : row = <<row[1], row[2]>>
    BY <1>2, ReportsHaveRows
  <2> SUFFICES ASSUME NEW row \in job[j].report PROVE row \in names
    OBVIOUS
  <2>3. <<row[1], row[2]>> \in names
    BY <2>1
  <2> HIDE DEF names
  <2> QED
    BY <2>2, <2>3, Zenon
<1> HIDE DEF names
<1>4. /\ job'[j].stage = "data" /\ job'[j].names = names
      /\ job'[j].last = job[j].last /\ job'[j].previous = job[j].previous
  BY <1>1 DEF JobRecords
<1>5. PreviousAreOthers(j)' /\ NamesAreOwn(j)'
  BY <1>1, <1>2, <1>3, <1>4 DEF Undisturbed, PreviousAreOthers, NamesAreOwn
<1>6. LastIsOwn(j)'
  BY <1>1, <1>2, <1>4 DEF Undisturbed, LastIsOwn, Describes
<1> QED
  BY <1>2, <1>4, <1>5, <1>6 DEF Undisturbed, TagsAreOthers, PlottedIsOwn

LEMMA QueryDataUndisturbed ==
    ASSUME IInv, NEW j \in Jobs, QueryData(j), Undisturbed(j)
    PROVE  Undisturbed(j)'
<1> DEFINE sample == {p[1] : p \in {q \in Selected(j) : /\ q[1].evm = run[j].evm
                                                       /\ q[1].proxy = run[j].proxy}}
<1>1. TypeOK /\ job[j] \in JobRecords /\ job[j].stage = "data"
  BY DEF IInv, TypeOK, QueryData, At
<1>2. /\ UNCHANGED run /\ job'[j].report \in Reports /\ job'[j].id = job[j].id
      /\ ReportIsLast(j)' /\ RowsAreSaved(j)' /\ NothingToDelete(j)'
      /\ job'[j].report = job[j].report /\ OwnRows(j) = job[j].report
  BY <1>1, QueryKeeps DEF CompareReports
<1>3. PICK own : Describes(own, j) /\ own.id = job[j].id /\ job[j].last = {own}
  BY <1>1 DEF Undisturbed, LastIsOwn
<1>4. \A row : row \in job[j].report <=> <<own.id, row>> \in data
  <2>1. \A d \in data : d = <<d[1], d[2]>>
    BY <1>1 DEF TypeOK
  <2>2. \A row : row \in OwnRows(j) <=> \E d \in data : d[1] = own.id /\ d[2] = row
    BY <1>3 DEF OwnRows
  <2> QED
    BY <1>2, <2>1, <2>2
<1>5. job[j].report \subseteq job[j].names
  BY <1>1 DEF Undisturbed, NamesAreOwn
<1>6. \A row \in job[j].report : <<own, row>> \in Selected(j)
  <2> TAKE row \in job[j].report
  <2>1. row \in job[j].names /\ own \in job[j].previous \cup job[j].last
        /\ <<own.id, row>> \in data
    BY <1>3, <1>4, <1>5
  <2> QED
    BY <2>1 DEF Selected
<1>7. sample # {}
  <2>1. PICK row : row \in job[j].report
    BY <1>2, ReportsHaveRows
  <2>2. <<own, row>> \in Selected(j) /\ own.evm = run[j].evm /\ own.proxy = run[j].proxy
    BY <1>3, <1>6, <2>1 DEF Describes
  <2> QED
    BY <2>2
<1>8. \E v : Becomes(j, [job[j] EXCEPT !.stage = "compared", !.plotted = Selected(j),
                                      !.sha = v])
  <2> DEFINE first == CHOOSE r \in sample : \A q \in sample : r.id <= q.id
  <2>1. Becomes(j, [job[j] EXCEPT !.stage = "compared", !.plotted = Selected(j),
                                  !.sha = first.sha])
    BY <1>7 DEF QueryData
  <2> HIDE DEF first
  <2> QED
    BY <2>1
<1>9. PICK v : job'[j] = [job[j] EXCEPT !.stage = "compared", !.plotted = Selected(j), !.sha = v]
  BY <1>1, <1>8, BecomesFields
<1>10. /\ job'[j].stage = "compared" /\ job'[j].plotted = Selected(j)
       /\ job'[j].last = job[j].last /\ job'[j].previous = job[j].previous
  BY <1>1, <1>9 DEF JobRecords
<1>11. {p[2] : p \in {q \in Selected(j) : q[1] \in job[j].last}} = job[j].report
  <2>1. ASSUME NEW p \in Selected(j), p[1] = own PROVE p[2] \in job[j].report
    BY <1>4, <2>1 DEF Selected
  <2>2. ASSUME NEW row \in job[j].report
        PROVE  \E p \in Selected(j) : p[1] \in job[j].last /\ p[2] = row
    BY <1>3, <1>6
  <2> QED
    BY <1>3, <2>1, <2>2
<1>12. PreviousAreOthers(j)' /\ PlottedIsOwn(j)'
  BY <1>1, <1>2, <1>10, <1>11 DEF Undisturbed, PreviousAreOthers, PlottedIsOwn
<1>13. LastIsOwn(j)'
  BY <1>1, <1>2, <1>10 DEF Undisturbed, LastIsOwn, Describes
<1> QED
  BY <1>2, <1>10, <1>12, <1>13 DEF Undisturbed, TagsAreOthers, NamesAreOwn

LEMMA StepUndisturbed ==
    ASSUME IInv, IInv', Described, Described', NEW j \in Jobs,
           Save(j) \/ Signal(j) \/ CompareReports(j), Clear(j)', Clear(j) => Undisturbed(j)
    PROVE  Undisturbed(j)'
<1>1. TypeOK /\ (~Start(j) => alone' = alone)
  BY RunsStay DEF IInv
<1>2. CASE Start(j)
  BY <1>1, <1>2, StartUndisturbed
<1>3. CASE Signal(j)
  <2>1. job'[j].signalled = TRUE
    <3>1. job[j] \in JobRecords
      BY <1>1 DEF TypeOK
    <3>2. \/ \E stage : job'[j] = [job[j] EXCEPT !.stage = stage, !.signalled = TRUE]
          \/ job'[j] = [job[j] EXCEPT !.pending = {}, !.signalled = TRUE]
      BY <1>1, <1>3, BecomesFields DEF Signal
    <3> QED
      BY <3>1, <3>2 DEF JobRecords
  <2> QED
    BY <2>1 DEF Clear
<1>4. CASE ~Start(j) /\ ~Signal(j)
  <2>1. ~job[j].signalled
    <3>1. CASE CommitRows(j)
      BY <1>1, <3>1, GoFields DEF CommitRows, Fail, Clear
    <3>2. CASE InsertReport(j)
      <4>1. job'[j] = [job[j] EXCEPT !.stage = "refresh", !.id = nextId]
            /\ job[j] \in JobRecords
        BY <1>1, <3>2, BecomesFields DEF InsertReport, TypeOK
      <4> QED
        BY <4>1 DEF JobRecords, Clear
    <3>3. CASE ~CommitRows(j) /\ ~InsertReport(j)
      <4>1. Harmless(j)
        BY <1>1, <1>4, <3>3, CompareIsHarmless, DeleteIsHarmless, AddIsHarmless DEF Save
      <4> QED
        BY <4>1 DEF Harmless, Clear
    <3> QED
      BY <3>1, <3>2, <3>3
  <2>2. Clear(j) /\ Undisturbed(j)
    BY <1>1, <1>4, <2>1 DEF Clear
  <2> QED
    BY <1>1, <1>4, <2>2, DeleteDataUndisturbed, DeleteReportsUndisturbed,
       InsertReportUndisturbed, AddUndisturbed, CommitRowsUndisturbed, CompareUndisturbed,
       QueryPreviousUndisturbed, QueryLastUndisturbed, QueryDappsUndisturbed,
       QueryActionsUndisturbed, QueryDataUndisturbed DEF Save, CompareReports
<1> QED
  BY <1>2, <1>3, <1>4

LEMMA InitQuietInv == Init => QuietInv
<1> SUFFICES ASSUME Init PROVE QuietInv
  OBVIOUS
<1>1. reports = {} /\ \A j \in Jobs : job[j] = NewJob
  BY DEF Init
<1>2. Described
  BY <1>1, FS_EmptySet DEF Described
<1>3. \A j \in Jobs : job[j].stage = "start" /\ job[j].found = {}
  BY <1>1 DEF NewJob
<1>4. FoundOfTag /\ NoRivals
  BY <1>3 DEF FoundOfTag, NoRivals, Running, At
<1>5. \A j \in Jobs : Undisturbed(j)
  BY <1>3 DEF Undisturbed, NothingToDelete, ReportIsLast, RowsAreSaved, TagsAreOthers,
     PreviousAreOthers, LastIsOwn, NamesAreOwn, PlottedIsOwn, Saving, Querying
<1> QED
  BY <1>2, <1>4, <1>5 DEF QuietInv

LEMMA NextQuietInv == IInv /\ IInv' /\ QuietInv /\ [Next]_vars => QuietInv'
<1> SUFFICES ASSUME IInv, IInv', QuietInv, [Next]_vars PROVE QuietInv'
  OBVIOUS
<1>1. CASE UNCHANGED vars
  <2>1. /\ UNCHANGED <<reports, data, run, job, alone>>
    BY <1>1 DEF vars
  <2>2. Described' /\ FoundOfTag' /\ NoRivals'
    BY <2>1 DEF QuietInv, Described, Describes, FoundOfTag, SameTag, NoRivals, Rivals,
                Running, Ended, At
  <2>3. ASSUME NEW j \in Jobs, Clear(j)' PROVE Undisturbed(j)'
    <3>1. Undisturbed(j)
      BY <2>1, <2>3 DEF QuietInv, Clear
    <3>2. LastIsOwn(j)'
      BY <2>1, <3>1 DEF Undisturbed, LastIsOwn, Describes
    <3>3. ReportIsLast(j)'
      BY <2>1, <3>1 DEF Undisturbed, ReportIsLast, ReportsOf, Running, Ended, At
    <3>4. RowsAreSaved(j)'
      BY <2>1, <3>1 DEF Undisturbed, RowsAreSaved, OwnRows, Running, Ended, At
    <3> QED
      BY <2>1, <3>1, <3>2, <3>3, <3>4 DEF Undisturbed, NothingToDelete, TagsAreOthers,
         PreviousAreOthers, NamesAreOwn, PlottedIsOwn
  <2> QED
    BY <2>2, <2>3 DEF QuietInv
<1>2. ASSUME NEW j \in Jobs, Save(j) \/ Signal(j) \/ CompareReports(j) PROVE QuietInv'
  <2>1. Described' /\ FoundOfTag' /\ NoRivals'
    BY <1>2, StepDescribed, StepFoundOfTag, StepNoRivals DEF QuietInv, IInv
  <2>2. ASSUME NEW k \in Jobs, Clear(k)' PROVE Undisturbed(k)'
    <3>1. CASE k = j
      BY <1>2, <2>1, <2>2, <3>1, StepUndisturbed DEF QuietInv
    <3>2. CASE k # j
      BY <1>2, <2>1, <2>2, <3>2, OthersStayUndisturbed
    <3> QED
      BY <3>1, <3>2
  <2> QED
    BY <2>1, <2>2 DEF QuietInv
<1> QED
  BY <1>1, <1>2 DEF Next

(***************************************************************************)
(* A statement of a job fails only if the job was signalled, or if another *)
(* one of its repository and tag has run at the same time, however many    *)
(* jobs of other tags there are (the foreign key of dapp_data, the rows    *)
(* that cost_report.id and the queries read).                              *)
(***************************************************************************)
THEOREM FailuresAreCaused == Spec => []FailureHasCause
<1>1. QuietInv => FailureHasCause
  BY DEF QuietInv, Clear, Undisturbed, FailureHasCause, At
<1>2. Init => IInv /\ QuietInv
  BY InitIInv, InitQuietInv
<1>3. (IInv /\ QuietInv) /\ [Next]_vars => (IInv /\ QuietInv)'
  BY NextIInv, NextQuietInv
<1> QED
  BY <1>1, <1>2, <1>3, PTL DEF Spec

(***************************************************************************)
(* A job that nobody of its tag and no signal has disturbed compares the   *)
(* whole report that it has just saved with reports of others              *)
(* (compare_dapp_results), whatever the history is and who else runs.      *)
(***************************************************************************)
THEOREM OwnIsCompared == Spec => []ComparesItself
<1>1. QuietInv => ComparesItself
  <2> SUFFICES ASSUME QuietInv, NEW j \in Jobs, job[j].stage = "compared", Clear(j)
               PROVE  /\ \A r \in job[j].last : r.sha = j /\ r.id = job[j].id
                      /\ job[j].last \cap job[j].previous = {}
                      /\ {p[2] : p \in {q \in job[j].plotted : q[1] \in job[j].last}}
                           = job[j].report
    BY DEF ComparesItself, At, Clear
  <2>1. Undisturbed(j)
    BY DEF QuietInv
  <2>2. \E r : Describes(r, j) /\ r.id = job[j].id /\ job[j].last = {r}
    BY <2>1 DEF Undisturbed, LastIsOwn
  <2>3. \A r \in job[j].previous : r.id # job[j].id
    BY <2>1 DEF Undisturbed, PreviousAreOthers
  <2> QED
    BY <2>1, <2>2, <2>3 DEF Undisturbed, PlottedIsOwn, Describes
<1>2. Init => IInv /\ QuietInv
  BY InitIInv, InitQuietInv
<1>3. (IInv /\ QuietInv) /\ [Next]_vars => (IInv /\ QuietInv)'
  BY NextIInv, NextQuietInv
<1> QED
  BY <1>1, <1>2, <1>3, PTL DEF Spec
=============================================================================
