---------------------------- MODULE CostReportDb ----------------------------
(***************************************************************************)
(* The database of dApp cost reports (deploy/test_results_db) and the two  *)
(* commands of the CI jobs that use it: save_dapps_cost_report_to_db and   *)
(* compare_dapp_cost_reports.  Jobs of several repositories and branches   *)
(* run at the same time.  Every statement of a job is a step, since each   *)
(* change is committed on its own and a query reads what is committed when *)
(* it is made (READ COMMITTED).                                            *)
(*                                                                         *)
(* A job that is killed is one that takes no further step.                 *)
(***************************************************************************)
EXTENDS Naturals, FiniteSets, Sequences, SequencesExt

CONSTANTS
    Jobs,             \* jobs that run the commands
    Runs,             \* what they are run for: repo, evm_tag, proxy_tag, version_branch
    Latest,           \* the tag of the develop branches
    VersionBranches,  \* tags that match VERSION_BRANCH_TEMPLATE
    GithubTags,       \* tags that match GITHUB_TAG_PATTERN
    Version,          \* [GithubTags -> Nat], the order of version.parse
    Reports,          \* what prepare_report_data may return: sets of <<dapp, action>>
    Depth,            \* history_depth_limit
    ComparedBranches, \* those with a suffix, which the workflow does not take for merges
    MaxSignals,       \* bound: signals that reach the jobs
    None              \* no id, no version branch

Repos == {"evm", "proxy"}
Tags == {Latest} \cup UNION {{r.evm, r.proxy, r.branch} : r \in Runs}

ASSUME RunsHaveRepos == \A r \in Runs : r.repo \in Repos
ASSUME NoneIsNoId == None \notin Nat
ASSUME DepthIsPositive == Depth \in Nat \ {0}
ASSUME MaxSignalsIsNat == MaxSignals \in Nat
ASSUME VersionsAreOrdered == Version \in [GithubTags -> Nat]

\* prepare_report_data raises if it finds no row.
ASSUME ReportsHaveRows ==
    \A report \in Reports : report # {} /\ \A row \in report : row = <<row[1], row[2]>>

\* The tag of the service whose costs are reported.
OwnTag(r) == IF r.repo = "evm" THEN r.evm ELSE r.proxy

\* "This is a merge to develop", "This is a merge to version branch".
IsMerge(r) == r.evm = r.proxy /\ r.evm \in {Latest} \cup VersionBranches

VARIABLES
    reports,   \* table cost_report; ids ascend with the timestamps
    data,      \* table dapp_data: <<cost_report_id, row>>
    nextId,    \* the sequence of the ids of cost_report
    run,       \* what each job runs for
    job,       \* where it is, and its local variables
    signals,   \* signals sent so far
    alone      \* history: no other job has run for the repository and tag meanwhile

vars == <<reports, data, nextId, run, job, signals, alone>>

-----------------------------------------------------------------------------
At(j, stage) == job[j].stage = stage

\* The record of job j becomes r.
Becomes(j, r) == job' = [job EXCEPT ![j] = r]

\* Job j goes on to a stage.
Go(j, stage) == Becomes(j, [job[j] EXCEPT !.stage = stage])

Fail(j) == Go(j, "failed")

ReportsOf(repo, tags) == {r \in reports : r.repo = repo /\ OwnTag(r) \in tags}

\* The workflow compares what is not a merge, by a pattern of its own.
Compared(r) == OwnTag(r) \notin {Latest} \cup (VersionBranches \ ComparedBranches)

Ended(j) == At(j, "compared") \/ At(j, "failed") \/ (At(j, "saved") /\ ~Compared(run[j]))

\* The other jobs that run for the repository and the tag of a job.
Rivals(j) == {k \in Jobs \ {j} : /\ run[k].repo = run[j].repo
                                 /\ OwnTag(run[k]) = OwnTag(run[j])
                                 /\ ~At(k, "start") /\ ~Ended(k)}

NewJob == [stage |-> "start", signalled |-> FALSE, found |-> {}, id |-> None,
           report |-> {}, todo |-> {}, pending |-> {},
           tags |-> {}, previous |-> {}, last |-> {}, dapps |-> {},
           names |-> {}, plotted |-> {}, sha |-> None]

Init ==
    /\ reports = {}
    /\ data = {}
    /\ nextId = 1
    /\ run \in [Jobs -> Runs]
    /\ job = [j \in Jobs |-> NewJob]
    /\ signals = 0
    /\ alone = [j \in Jobs |-> TRUE]

-----------------------------------------------------------------------------
(***************************************************************************)
(* save_dapps_cost_report_to_db: unless it is a merge, find the reports of *)
(* the tag, delete their data, delete them; save the report, then its data.*)
(***************************************************************************)

\* Mutant: merges are replaced like the other reports.
SupersededAlways(j) == {r.id : r \in ReportsOf(run[j].repo, {OwnTag(run[j])})}

Superseded(j) ==
    IF IsMerge(run[j]) THEN {} ELSE {r.id : r \in ReportsOf(run[j].repo, {OwnTag(run[j])})}

Start(j) ==
    /\ At(j, "start")
    /\ \E report \in Reports :
         Becomes(j, [job[j] EXCEPT
                       !.stage = IF Superseded(j) = {} THEN "insert" ELSE "deleteData",
                       !.found = Superseded(j),
                       !.report = report,
                       !.todo = report])
    /\ alone' = [k \in Jobs |-> IF k = j THEN Rivals(j) = {}
                                ELSE alone[k] /\ k \notin Rivals(j)]
    /\ UNCHANGED <<reports, data, nextId, run, signals>>

\* Mutant: the reports are deleted first.
DeleteDataLater(j) ==
    /\ At(j, "deleteData")
    /\ Go(j, "deleteReports")
    /\ UNCHANGED <<reports, data, nextId, run, signals, alone>>

DeleteData(j) ==
    /\ At(j, "deleteData")
    /\ data' = {d \in data : d[1] \notin job[j].found}
    /\ Go(j, "deleteReports")
    /\ UNCHANGED <<reports, nextId, run, signals, alone>>

\* The foreign key of dapp_data: a report that has data cannot be deleted.
DeleteReports(j) ==
    /\ At(j, "deleteReports")
    /\ IF \E d \in data : d[1] \in job[j].found
       THEN Fail(j) /\ UNCHANGED reports
       ELSE Go(j, "insert") /\ reports' = {r \in reports : r.id \notin job[j].found}
    /\ UNCHANGED <<data, nextId, run, signals, alone>>

\* save_cost_report; the commit shas stand for the job.
InsertReport(j) ==
    /\ At(j, "insert")
    /\ reports' = reports \cup {[id |-> nextId, repo |-> run[j].repo, evm |-> run[j].evm,
                                 proxy |-> run[j].proxy, sha |-> j]}
    /\ nextId' = nextId + 1
    /\ Becomes(j, [job[j] EXCEPT !.stage = "refresh", !.id = nextId])
    /\ UNCHANGED <<data, run, signals, alone>>

\* The commit expires the object: cost_report.id reads the row again.
Refresh(j) ==
    /\ At(j, "refresh")
    /\ IF \E r \in reports : r.id = job[j].id THEN Go(j, "rows") ELSE Fail(j)
    /\ UNCHANGED <<reports, data, nextId, run, signals, alone>>

\* Mutant: a commit for every row.
AddRowCommits(j) ==
    /\ At(j, "rows")
    /\ \E row \in job[j].todo :
         /\ Becomes(j, [job[j] EXCEPT !.todo = @ \ {row}])
         /\ data' = data \cup {<<job[j].id, row>>}
    /\ UNCHANGED <<reports, nextId, run, signals, alone>>

\* save_cost_report_data: session.add(cost_report_data)
AddRow(j) ==
    /\ At(j, "rows")
    /\ \E row \in job[j].todo :
         Becomes(j, [job[j] EXCEPT !.todo = @ \ {row}, !.pending = @ \cup {row}])
    /\ UNCHANGED <<reports, data, nextId, run, signals, alone>>

\* The report of the pending rows has to exist, by the foreign key.
CommitRows(j) ==
    /\ At(j, "rows")
    /\ job[j].todo = {}
    /\ IF job[j].pending = {} \/ \E r \in reports : r.id = job[j].id
       THEN Go(j, "saved") /\ data' = data \cup {<<job[j].id, row>> : row \in job[j].pending}
       ELSE Fail(j) /\ UNCHANGED data
    /\ UNCHANGED <<reports, nextId, run, signals, alone>>

Save(j) == \/ Start(j) \/ DeleteData(j) \/ DeleteReports(j) \/ InsertReport(j)
           \/ Refresh(j) \/ AddRow(j) \/ CommitRows(j)

(***************************************************************************)
(* __handle_exit closes the sessions and returns: what is not committed is *)
(* rolled back or forgotten, and the job goes on.  A report that was not   *)
(* flushed has no id, one that was is detached and cannot be read again.   *)
(***************************************************************************)
Signal(j) ==
    /\ signals < MaxSignals
    /\ signals' = signals + 1
    /\ \/ /\ At(j, "deleteData")
          /\ Becomes(j, [job[j] EXCEPT !.stage = "deleteReports", !.signalled = TRUE])
       \/ /\ At(j, "deleteReports")
          /\ Becomes(j, [job[j] EXCEPT !.stage = "insert", !.signalled = TRUE])
       \/ /\ job[j].stage \in {"insert", "refresh"}
          /\ Becomes(j, [job[j] EXCEPT !.stage = "failed", !.signalled = TRUE])
       \/ /\ At(j, "rows")
          /\ Becomes(j, [job[j] EXCEPT !.pending = {}, !.signalled = TRUE])
    /\ UNCHANGED <<reports, data, nextId, run, alone>>

-----------------------------------------------------------------------------
(***************************************************************************)
(* get_previous_tags: the tags in descending order, from the first one     *)
(* below the given tag on, at most limit of them.                          *)
(***************************************************************************)
Descending(tags) == SetToSortSeq(tags, LAMBDA t, u : Version[t] > Version[u])

get_previous_tags(repo, tag, limit) ==
    LET tags   == {OwnTag(r) : r \in ReportsOf(repo, GithubTags)}
        sorted == Descending(tags)
        below  == {i \in DOMAIN sorted : Version[sorted[i]] < Version[tag]}
    IN  {t \in tags : \E i \in below :
           sorted[i] = t /\ \A first \in below : i < first + limit}

(***************************************************************************)
(* compare_dapp_results and get_historical_data.                           *)
(***************************************************************************)
Compare(j) ==
    /\ At(j, "saved")
    /\ Compared(run[j])
    /\ LET tags == IF OwnTag(run[j]) \in GithubTags
                   THEN get_previous_tags(run[j].repo, OwnTag(run[j]), Depth)
                   ELSE {IF run[j].branch # None THEN run[j].branch ELSE Latest}
       IN  Becomes(j, [job[j] EXCEPT !.stage = "previous", !.tags = tags])
    /\ UNCHANGED <<reports, data, nextId, run, signals, alone>>

\* ORDER BY timestamp DESC OFFSET offset LIMIT limit
Newest(rs, offset, limit) ==
    {r \in rs : LET newer == Cardinality({q \in rs : q.id > r.id})
                IN  newer >= offset /\ newer < offset + limit}

\* Mutant: the report just saved is not skipped.
QueryPreviousAll(j) ==
    /\ At(j, "previous")
    /\ LET previous == Newest(ReportsOf(run[j].repo, job[j].tags), 0, Depth - 1)
       IN  Becomes(j, [job[j] EXCEPT !.stage = "last", !.previous = previous])
    /\ UNCHANGED <<reports, data, nextId, run, signals, alone>>

QueryPrevious(j) ==
    /\ At(j, "previous")
    /\ LET offset   == IF OwnTag(run[j]) \in job[j].tags THEN 1 ELSE 0
           previous == Newest(ReportsOf(run[j].repo, job[j].tags), offset, Depth - 1)
       IN  Becomes(j, [job[j] EXCEPT !.stage = "last", !.previous = previous])
    /\ UNCHANGED <<reports, data, nextId, run, signals, alone>>

\* last_report.id raises if there is none.
QueryLast(j) ==
    /\ At(j, "last")
    /\ LET last == Newest(ReportsOf(run[j].repo, {OwnTag(run[j])}), 0, 1)
       IN  IF last = {} THEN Fail(j)
           ELSE Becomes(j, [job[j] EXCEPT !.stage = "dapps", !.last = last])
    /\ UNCHANGED <<reports, data, nextId, run, signals, alone>>

\* The rows of the last report, of which dapps and actions are selected.
LastRows(j) == {d[2] : d \in {e \in data : \E r \in job[j].last : e[1] = r.id}}

QueryDapps(j) ==
    /\ At(j, "dapps")
    /\ Becomes(j, [job[j] EXCEPT !.stage = "actions", !.dapps = {row[1] : row \in LastRows(j)}])
    /\ UNCHANGED <<reports, data, nextId, run, signals, alone>>

QueryActions(j) ==
    /\ At(j, "actions")
    /\ LET names == job[j].dapps \X {row[2] : row \in LastRows(j)}
       IN  Becomes(j, [job[j] EXCEPT !.stage = "data", !.names = names])
    /\ UNCHANGED <<reports, data, nextId, run, signals, alone>>

\* The rows that are plotted, each with its report.
Selected(j) == {p \in (job[j].previous \cup job[j].last) \X job[j].names :
                  <<p[1].id, p[2]>> \in data}

\* data_sample_row is the first, and thus oldest, row of this repo and tags;
\* iloc[0], or the column of an empty frame, raises if there is none.
QueryData(j) ==
    /\ At(j, "data")
    /\ LET sample == {p[1] : p \in {q \in Selected(j) : /\ q[1].evm = run[j].evm
                                                        /\ q[1].proxy = run[j].proxy}}
           first  == CHOOSE r \in sample : \A q \in sample : r.id <= q.id
       IN  IF sample = {} THEN Fail(j)
           ELSE Becomes(j, [job[j] EXCEPT !.stage = "compared", !.plotted = Selected(j),
                                          !.sha = first.sha])
    /\ UNCHANGED <<reports, data, nextId, run, signals, alone>>

CompareReports(j) == \/ Compare(j) \/ QueryPrevious(j) \/ QueryLast(j)
                     \/ QueryDapps(j) \/ QueryActions(j) \/ QueryData(j)

-----------------------------------------------------------------------------
Next == \E j \in Jobs : Save(j) \/ Signal(j) \/ CompareReports(j)

Spec == Init /\ [][Next]_vars

-----------------------------------------------------------------------------
Rows == UNION Reports

ReportRecords == [id : Nat, repo : Repos, evm : Tags, proxy : Tags, sha : Jobs]

Stages == {"start", "deleteData", "deleteReports", "insert", "refresh", "rows", "saved",
           "previous", "last", "dapps", "actions", "data", "compared", "failed"}

JobRecords == [stage : Stages, signalled : BOOLEAN, found : SUBSET Nat,
               id : Nat \cup {None}, report : SUBSET Rows, todo : SUBSET Rows,
               pending : SUBSET Rows, tags : SUBSET Tags,
               previous : SUBSET ReportRecords, last : SUBSET ReportRecords,
               dapps : SUBSET {row[1] : row \in Rows},
               names : SUBSET ({row[1] : row \in Rows} \X {row[2] : row \in Rows}),
               plotted : SUBSET (ReportRecords \X Rows), sha : Jobs \cup {None}]

TypeOK ==
    /\ reports \subseteq ReportRecords
    /\ data \subseteq Nat \X Rows
    /\ nextId \in Nat
    /\ run \in [Jobs -> Runs]
    /\ job \in [Jobs -> JobRecords]
    /\ signals \in 0..MaxSignals
    /\ alone \in [Jobs -> BOOLEAN]

DataOf(r) == {d[2] : d \in {e \in data : e[1] = r.id}}

(***************************************************************************)
(* Nobody ever reads half a report: the data of a report are those that    *)
(* its job has measured, or none yet or any more, unless a signal made the *)
(* job forget some of them (save_cost_report_data, delete_data_by_report_  *)
(* ids: one commit each).                                                  *)
(***************************************************************************)
WholeReports ==
    \A r \in reports :
      ~job[r.sha].signalled => DataOf(r) \in {{}, job[r.sha].report}

(***************************************************************************)
(* Jobs of different tags or repositories do not disturb each other: a job *)
(* fails in one of its statements (a foreign key, a row that is gone, an   *)
(* empty result) only if another job of its repository and tag has run at  *)
(* the same time, or if it was signalled.                                  *)
(***************************************************************************)
FailureHasCause ==
    \A j \in Jobs : At(j, "failed") => ~alone[j] \/ job[j].signalled

(***************************************************************************)
(* What a job compares is what it has just saved, with something else: the *)
(* last report is its own, with all its data, and the previous ones are    *)
(* others (compare_dapp_results after save_dapps_cost_report_to_db),       *)
(* whatever jobs of other tags do.                                         *)
(***************************************************************************)
ComparesItself ==
    \A j \in Jobs :
      At(j, "compared") /\ alone[j] /\ ~job[j].signalled =>
        /\ \A r \in job[j].last : r.sha = j /\ r.id = job[j].id
        /\ job[j].last \cap job[j].previous = {}
        /\ {p[2] : p \in {q \in job[j].plotted : q[1] \in job[j].last}} = job[j].report

\* A report goes, or a row of it.
Lost(r) == r \notin reports' \/ \E d \in data \ data' : d[1] = r.id

ReplacesOwn ==
    \A r \in reports : Lost(r) =>
      \E j \in Jobs : /\ ~IsMerge(run[j]) /\ job[j].stage \in {"deleteData", "deleteReports"}
                      /\ run[j].repo = r.repo /\ OwnTag(run[j]) = OwnTag(r)

(***************************************************************************)
(* Of the history that later runs are compared with only so much is lost:  *)
(* a job deletes reports, or rows of them, that are of its own repository  *)
(* and of its own tag, and it does so in place of them and not after it    *)
(* has saved its own; a merge deletes nothing (save_dapps_cost_report_to_  *)
(* db: do_delete).  So what goes of a merge goes because of a job of the   *)
(* same branch that ran with another tag of the other service, v1.1.x-fix  *)
(* with latest for instance, and is not taken for a merge.                 *)
(***************************************************************************)
OnlyOwnAreReplaced == [][ReplacesOwn]_vars
=============================================================================
