----------------------------- MODULE CostReports -----------------------------
(***************************************************************************)
(* utils/stats_collector.py: the cost reports that the xdist workers of a  *)
(* run collect, one JSON file for each class of wrappers, and the session  *)
(* start (conftest.py) that removes their directory.  The lock files are   *)
(* in that directory as well: a worker that opens one after a removal      *)
(* locks another file than one that has opened it before.                  *)
(*                                                                         *)
(* The run begins when every worker has collected its tests: the           *)
(* controller has removed the reports of an earlier run before it started  *)
(* the workers.  Later a worker may die, and another one is started in its *)
(* place, whose session start removes the directory again.                 *)
(***************************************************************************)
EXTENDS Naturals, FiniteSets, Sequences, SequencesExt

CONSTANTS
    Workers,      \* xdist workers; one that replaces another goes by its name
    Names,        \* the reports
    None,         \* no file
    Torn,         \* a file that is no JSON: emptied, or written by two
    MaxCalls,     \* bound: transactions of each worker whose costs are reported
    MaxCrashes    \* bound: workers that die

ASSUME BoundsAreNat == MaxCalls \in Nat /\ MaxCrashes \in Nat
ASSUME NoneIsNoId == None \notin Nat
ASSUME NoFileIsNoReport ==
    None # Torn /\ \A file \in {None, Torn} : file \notin Seq(Workers \X (1..MaxCalls))

VARIABLES
    dir,        \* whether the directory exists
    report,     \* the report files: None, Torn, or the sequence of actions
    lockFile,   \* the lock files: None, or the inode
    removed,    \* how often report and lock of a name were unlinked
    worker,     \* what each worker does, and its local variables
    calls,      \* calls each worker has made
    crashes,    \* workers that have died
    done,       \* history: the actions that were recorded
    stale,      \* history: actions whose call was under way during a removal
    atRisk      \* history: those that were recorded, or under way, when a removal
                \* began, and those whose call began beside a stale one

fs == <<dir, report, lockFile, removed>>
history == <<done, stale, atRisk>>
vars == <<dir, report, lockFile, removed, worker, calls, crashes, done, stale, atRisk>>

-----------------------------------------------------------------------------
At(w, stage) == worker[w].stage = stage

Become(w, r) == worker' = [worker EXCEPT ![w] = r]
Go(w, stage) == Become(w, [worker[w] EXCEPT !.stage = stage])

NewWorker == [stage |-> "idle", name |-> None, exists |-> FALSE, inode |-> None,
              out |-> None, actions |-> <<>>, listing |-> {}]

Inside  == {"check", "create", "created", "read", "change", "changed", "close"}
Calling == {"enter", "open", "lock"} \cup Inside
Starting == {"session", "unlink"}

\* The action of the call that a worker makes.
Action(w) == <<w, calls[w]>>

\* The lock that the worker holds: the flock of an inode.
Holds(w, n, inode) ==
    worker[w].stage \in Inside /\ worker[w].name = n /\ worker[w].inode = inode

Init ==
    /\ dir = FALSE
    /\ report = [n \in Names |-> None]
    /\ lockFile = [n \in Names |-> None]
    /\ removed = [n \in Names |-> [report |-> 0, lock |-> 0]]
    /\ worker = [w \in Workers |-> NewWorker]
    /\ calls = [w \in Workers |-> 0]
    /\ crashes = 0
    /\ done = {}
    /\ stale = {}
    /\ atRisk = {}

-----------------------------------------------------------------------------
UnderWay == {Action(v) : v \in {u \in Workers : worker[u].stage \in Calling}}

Removing == \E v \in Workers : At(v, "unlink")

\* A call that a removal has overlapped: its files may be others than those of new calls.
Stale(w) == worker[w].stage \in Calling /\ Action(w) \in stale

\* What the history says of a call that begins.
Begins(action) ==
    /\ stale' = stale \cup (IF Removing THEN {action} ELSE {})
    /\ atRisk' = atRisk \cup (IF Removing \/ \E v \in Workers : Stale(v) THEN {action} ELSE {})
    /\ UNCHANGED done

\* What it says of a removal that begins.
RemovalBegins ==
    /\ stale' = stale \cup UnderWay
    /\ atRisk' = atRisk \cup UnderWay \cup {d[2] : d \in done}
    /\ UNCHANGED done

-----------------------------------------------------------------------------
(***************************************************************************)
(* cost_report_from_receipt: with collector._update() as report.           *)
(***************************************************************************)
Call(w) ==
    /\ At(w, "idle")
    /\ calls[w] < MaxCalls
    /\ calls' = [calls EXCEPT ![w] = @ + 1]
    /\ \E n \in Names : Become(w, [NewWorker EXCEPT !.stage = "enter", !.name = n])
    /\ Begins(<<w, calls[w] + 1>>)
    /\ UNCHANGED <<fs, crashes>>

\* FileLock.acquire makes the directory and asks for the lock file ...
Enter(w) ==
    /\ At(w, "enter")
    /\ dir' = TRUE
    /\ Become(w, [worker[w] EXCEPT !.stage = "open",
                                   !.exists = lockFile[worker[w].name] # None])
    /\ UNCHANGED <<report, lockFile, removed, calls, crashes, history>>

\* The exception leaves the with statement and fails the test.
Raises(w) == Become(w, [NewWorker EXCEPT !.stage = "raised"])

\* ... opens it, with O_CREAT if it was not there ...
Open(w) ==
    LET n == worker[w].name
        opened(inode) == Become(w, [worker[w] EXCEPT !.stage = "lock", !.inode = inode])
    IN  /\ At(w, "open")
        /\ \/ /\ lockFile[n] # None
              /\ opened(lockFile[n])
              /\ UNCHANGED lockFile
           \/ /\ lockFile[n] = None /\ dir /\ ~worker[w].exists
              /\ opened(removed[n].lock)
              /\ lockFile' = [lockFile EXCEPT ![n] = removed[n].lock]
           \/ /\ lockFile[n] = None /\ (~dir \/ worker[w].exists)
              /\ Raises(w)
              /\ UNCHANGED lockFile
        /\ UNCHANGED <<dir, report, removed, calls, crashes, history>>

\* Mutant: the lock is not waited for.
FlockAnyway(w) ==
    /\ At(w, "lock")
    /\ Go(w, "check")
    /\ UNCHANGED <<fs, calls, crashes, history>>

\* ... and takes the flock of the inode, or closes the file and tries again.
Flock(w) ==
    /\ At(w, "lock")
    /\ Go(w, IF \E v \in Workers \ {w} : Holds(v, worker[w].name, worker[w].inode)
             THEN "enter" ELSE "check")
    /\ UNCHANGED <<fs, calls, crashes, history>>

\* Mutant: the report is created anew.
CheckAnyway(w) ==
    /\ At(w, "check")
    /\ Go(w, "create")
    /\ UNCHANGED <<fs, calls, crashes, history>>

\* if not self.report_file.exists()
Check(w) ==
    /\ At(w, "check")
    /\ Go(w, IF report[worker[w].name] = None THEN "create" ELSE "read")
    /\ UNCHANGED <<fs, calls, crashes, history>>

\* write_text opens the file, which makes or empties it ...
Empty(w, next) ==
    LET n == worker[w].name
    IN  /\ IF dir
           THEN /\ report' = [report EXCEPT ![n] = Torn]
                /\ Become(w, [worker[w] EXCEPT !.stage = next, !.out = removed[n].report])
           ELSE /\ Raises(w)
                /\ UNCHANGED report
        /\ UNCHANGED <<dir, lockFile, removed, calls, crashes, history>>

\* ... and writes into it, if it was not unlinked meanwhile.  Text that another
\* process wrote meanwhile may be longer, and its end remains.
Fill(w, actions, next) ==
    LET n == worker[w].name
    IN  /\ IF worker[w].out = removed[n].report
           THEN \E text \in {actions} \cup (IF report[n] = Torn THEN {} ELSE {Torn}) :
                  report' = [report EXCEPT ![n] = text]
           ELSE UNCHANGED report
        /\ Go(w, next)
        /\ UNCHANGED <<dir, lockFile, removed, calls, crashes, history>>

Create(w) == At(w, "create") /\ Empty(w, "created")
FillNew(w) == At(w, "created") /\ Fill(w, <<>>, "read")

\* Mutant: the reader waits for a report that can be parsed.
ReadReportWaits(w) ==
    LET n == worker[w].name
    IN  /\ At(w, "read")
        /\ report[n] \notin {None, Torn}
        /\ Become(w, [worker[w] EXCEPT !.stage = "change",
                                       !.actions = Append(report[n], Action(w))])
        /\ UNCHANGED <<fs, calls, crashes, history>>

\* report = self.read(), and report.actions.append(action)
ReadReport(w) ==
    LET n == worker[w].name
    IN  /\ At(w, "read")
        /\ IF report[n] \in {None, Torn}
           THEN Raises(w)
           ELSE Become(w, [worker[w] EXCEPT !.stage = "change",
                                            !.actions = Append(report[n], Action(w))])
        /\ UNCHANGED <<fs, calls, crashes, history>>

Change(w) == At(w, "change") /\ Empty(w, "changed")
FillChanged(w) == At(w, "changed") /\ Fill(w, worker[w].actions, "close")

\* The end of the with statement.
Close(w) ==
    /\ At(w, "close")
    /\ Become(w, NewWorker)
    /\ done' = done \cup {<<worker[w].name, Action(w)>>}
    /\ UNCHANGED <<fs, calls, crashes, stale, atRisk>>

\* The test has failed; the worker goes on with the next one.
NextTest(w) ==
    /\ At(w, "raised")
    /\ Become(w, NewWorker)
    /\ UNCHANGED <<fs, calls, crashes, history>>

CallStep(w) ==
    \/ Call(w) \/ Enter(w) \/ Open(w) \/ Flock(w) \/ Check(w) \/ Create(w) \/ FillNew(w)
    \/ ReadReport(w) \/ Change(w) \/ FillChanged(w) \/ Close(w) \/ NextTest(w)

-----------------------------------------------------------------------------
(***************************************************************************)
(* pytest_sessionstart of a worker that replaces one that died:            *)
(* shutil.rmtree lists the directory, unlinks what it has listed, and      *)
(* removes the directory, which has to be empty then.                      *)
(***************************************************************************)
Listing == {<<"report", n>> : n \in {m \in Names : report[m] # None}}
             \cup {<<"lock", n>> : n \in {m \in Names : lockFile[m] # None}}

SessionStart(w) ==
    /\ At(w, "session")
    /\ IF dir
       THEN /\ Become(w, [worker[w] EXCEPT !.stage = "unlink", !.listing = Listing])
            /\ RemovalBegins
       ELSE Become(w, NewWorker) /\ UNCHANGED history
    /\ UNCHANGED <<fs, calls, crashes>>

\* The session of the worker does not start.
FailsToStart(w) == Become(w, [NewWorker EXCEPT !.stage = "failed"])

Unlink(w) ==
    /\ At(w, "unlink")
    /\ \E entry \in worker[w].listing :
         LET n == entry[2]
         IN  \/ /\ entry \in Listing
                /\ removed' = [removed EXCEPT ![n][entry[1]] = @ + 1]
                /\ IF entry[1] = "report"
                   THEN report' = [report EXCEPT ![n] = None] /\ UNCHANGED lockFile
                   ELSE lockFile' = [lockFile EXCEPT ![n] = None] /\ UNCHANGED report
                /\ Become(w, [worker[w] EXCEPT !.listing = @ \ {entry}])
             \/ /\ entry \notin Listing
                /\ FailsToStart(w)
                /\ UNCHANGED <<report, lockFile, removed>>
    /\ UNCHANGED <<dir, calls, crashes, history>>

RemoveDirectory(w) ==
    /\ At(w, "unlink")
    /\ worker[w].listing = {}
    /\ IF dir /\ Listing = {}
       THEN dir' = FALSE /\ Become(w, NewWorker)
       ELSE FailsToStart(w) /\ UNCHANGED dir
    /\ UNCHANGED <<report, lockFile, removed, calls, crashes, history>>

\* A worker dies: its flock goes, the files stay, and another worker starts.
Crash(w) ==
    /\ worker[w].stage # "failed"
    /\ crashes < MaxCrashes
    /\ crashes' = crashes + 1
    /\ Become(w, [NewWorker EXCEPT !.stage = "session"])
    /\ UNCHANGED <<fs, calls, history>>

StartStep(w) == SessionStart(w) \/ Unlink(w) \/ RemoveDirectory(w)

Next == \E w \in Workers : CallStep(w) \/ StartStep(w) \/ Crash(w)

Fairness == \A w \in Workers : WF_vars(CallStep(w) \/ StartStep(w))

Spec == Init /\ [][Next]_vars /\ Fairness

-----------------------------------------------------------------------------
Actions == Workers \X (1..MaxCalls)

WorkerRecords ==
    [stage : {"idle", "raised", "failed"} \cup Calling \cup Starting,
     name : Names \cup {None}, exists : BOOLEAN, inode : Nat \cup {None},
     out : Nat \cup {None}, actions : Seq(Actions),
     listing : SUBSET ({"report", "lock"} \X Names)]

TypeOK ==
    /\ dir \in BOOLEAN
    /\ report \in [Names -> {None, Torn} \cup Seq(Actions)]
    /\ lockFile \in [Names -> Nat \cup {None}]
    /\ removed \in [Names -> [report : Nat, lock : Nat]]
    /\ worker \in [Workers -> WorkerRecords]
    /\ calls \in [Workers -> 0..MaxCalls]
    /\ crashes \in 0..MaxCrashes
    /\ done \subseteq Names \X Actions
    /\ stale \subseteq Actions /\ atRisk \subseteq Actions

(***************************************************************************)
(* An action that was recorded is in its report: no worker overwrites what *)
(* another one has appended (_update under self.lock).  Only the removal   *)
(* by a worker that replaces a dead one takes actions away: those that     *)
(* were recorded before it, those of calls that it overlapped, and those   *)
(* of calls that began beside such a call, which may hold the lock of a    *)
(* file that was removed.  What is recorded after that stays, however the  *)
(* removal went.  (Between a death and the removal a report may be torn.)  *)
(***************************************************************************)
NothingIsLost ==
    (\A w \in Workers : ~At(w, "session")) =>
      \A d \in done : d[2] \notin atRisk =>
        \/ report[d[1]] \notin {None, Torn} /\ d[2] \in ToSet(report[d[1]])
        \/ report[d[1]] = Torn /\ \E w \in Workers : /\ At(w, "changed") /\ worker[w].name = d[1]
                                                    /\ d[2] \in ToSet(worker[w].actions)

(***************************************************************************)
(* At most one worker at a time is in the with statement of a report,      *)
(* though the lock files are removed with the reports, of those whose call *)
(* no removal has overlapped; also after a removal that others disturbed.  *)
(***************************************************************************)
OneInside ==
    \A v, w \in Workers :
      /\ worker[v].stage \in Inside /\ worker[w].stage \in Inside
      /\ worker[v].name = worker[w].name
      /\ ~Stale(v) /\ ~Stale(w)
      => v = w

(***************************************************************************)
(* Every call and every session start end, whatever files a dead worker    *)
(* has left behind: nobody waits for a lock of the dead.                   *)
(***************************************************************************)
CallsEnd ==
    <>[](\A w \in Workers : At(w, "failed") \/ (At(w, "idle") /\ calls[w] = MaxCalls))
=============================================================================
