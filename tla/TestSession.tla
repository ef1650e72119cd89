---------------------------- MODULE TestSession ----------------------------
(***************************************************************************)
(* One `clickfile.py run <group>`: the click command, which becomes the    *)
(* pytest controller, and the xdist workers it starts.  All of them write  *)
(* to the error log (ErrorLog.tla); when the command fails, the workflow   *)
(* calls `clickfile.py send-notification`, which reports what the log      *)
(* holds.  xdist itself is not in the repository: it starts the workers    *)
(* after the controller's pytest_sessionstart, hands out tests once every  *)
(* worker has collected them, and replaces a worker that dies.             *)
(***************************************************************************)
EXTENDS LogModel, FiniteSets

CONSTANTS
    Ctl,            \* the click command and pytest controller
    Workers,        \* the xdist workers
    Tests,          \* the tests of the session
    Group,          \* its test group
    Unsuccessful,   \* the comment of catch_traceback
    NoProc, NoTest,
    Earlier,        \* the logs an earlier run may have left
    KeepOptions,    \* the values of --keep-error-log
    MaxCrashes      \* bound: how many workers die

ASSUME CtlIsNoWorker == Ctl \notin Workers
ASSUME NoProcIsNoProcess == NoProc \notin Workers \cup {Ctl}
ASSUME EarlierAreLogs == Earlier \subseteq Logs
ASSUME TestsAreNames == Tests \subseteq Names /\ NoTest \notin Tests
ASSUME GroupIsGroup == Group \in Groups /\ Unsuccessful \in Texts
ASSUME KeepIsBoolean == KeepOptions \subseteq BOOLEAN
ASSUME MaxCrashesIsNat == MaxCrashes \in Nat

VARIABLES
    file, lock, stage, req, snap,   \* as in ErrorLog
    keep,       \* --keep-error-log was given
    found,      \* the log that was there before
    pc,         \* what every process is doing
    todo,       \* the tests not yet handed to a worker
    running,    \* the test a worker runs
    owed,       \* the entries a worker still has to make for its last test
    reports,    \* the failed reports of every test: the phases that failed
    scheduled,  \* xdist has begun to hand out tests
    failed,     \* the exit code of the session is not zero
    crashes,    \* how many workers have died
    cutOff,     \* one of them has died between emptying the file and writing it
    notice      \* the log that the Slack notification shows

Procs == Workers \cup {Ctl}

logVars == <<file, lock, stage, req, snap>>
sessionVars == <<keep, found, pc, todo, running, owed, reports, scheduled,
                 failed, crashes, cutOff, notice>>
-----------------------------------------------------------------------------
Phases == {"setup", "call", "teardown"}

(***************************************************************************)
(* runtestprotocol: call runs only after setup has passed, teardown always.*)
(***************************************************************************)
Outcomes == {ph \in SUBSET Phases : ~({"setup", "call"} \subseteq ph)}

\* Mutant: everything but a failed teardown is a failure.
EntryOfTeardown(t, phase) ==
    [kind  |-> IF phase # "teardown" THEN "failures" ELSE "errors",
     group |-> Group,
     names |-> <<t>>]

\* pytest_runtest_protocol: a failed call is a failure, all else an error.
EntryOf(t, phase) ==
    [kind  |-> IF phase = "call" THEN "failures" ELSE "errors",
     group |-> Group,
     names |-> <<t>>]

\* The entries for the failed reports of a test, in the order of its reports.
EntriesOf(t, phases) ==
    LET For(phase) == IF phase \in phases THEN <<EntryOf(t, phase)>> ELSE <<>>
    IN  For("setup") \o For("call") \o For("teardown")

Comment == [kind |-> "comment", text |-> Unsuccessful]

\* What the processes of a run ask of the log, next to creating and reading it.
Requested ==
    {EntryOf(t, phase) : t \in Tests, phase \in Phases}
        \cup {Comment, [kind |-> "clear"]}

L == INSTANCE ErrorLog WITH Calls <- Requested, MaxEntries <- 0

vars == <<logVars, sessionVars>>

NoNotice == [sent |-> FALSE, log |-> EmptyLog]

Init ==
    /\ file \in {L!Absent} \cup {L!Whole(l) : l \in Earlier}
    /\ found = file.log
    /\ lock = NoProc
    /\ stage = [p \in Procs |-> "idle"]
    /\ req = [p \in Procs |-> L!Read]
    /\ snap = [p \in Procs |-> EmptyLog]
    /\ keep \in KeepOptions
    /\ pc = [p \in Procs |-> IF p = Ctl THEN "start" ELSE "absent"]
    /\ todo = Tests
    /\ running = [w \in Workers |-> NoTest]
    /\ owed = [w \in Workers |-> <<>>]
    /\ reports = [t \in Tests |-> {}]
    /\ scheduled = FALSE
    /\ failed = FALSE
    /\ crashes = 0
    /\ cutOff = FALSE
    /\ notice = NoNotice

Goto(p, place) == pc' = [pc EXCEPT ![p] = place]

-----------------------------------------------------------------------------
(***************************************************************************)
(* The controller.                                                         *)
(***************************************************************************)
\* from utils.error_log import error_log
StartCommand ==
    /\ pc[Ctl] = "start"
    /\ L!Invoke(Ctl, L!Create)
    /\ Goto(Ctl, "command")
    /\ UNCHANGED <<keep, found, todo, running, owed, reports, scheduled, failed,
                   crashes, cutOff, notice>>

\* run raises before it gets to pytest.main.
CommandFails ==
    /\ pc[Ctl] = "command"
    /\ L!Idle(Ctl)
    /\ failed' = TRUE
    /\ L!Invoke(Ctl, L!Read)
    /\ Goto(Ctl, "checking")
    /\ UNCHANGED <<keep, found, todo, running, owed, reports, scheduled, crashes,
                   cutOff, notice>>

\* pytest_sessionstart
ControllerSessionStart ==
    /\ pc[Ctl] = "command"
    /\ L!Idle(Ctl)
    /\ IF keep
       THEN UNCHANGED logVars
       ELSE L!Invoke(Ctl, L!Wipe)
    /\ Goto(Ctl, "session")
    /\ UNCHANGED <<keep, found, todo, running, owed, reports, scheduled, failed,
                   crashes, cutOff, notice>>

\* xdist hands out tests when all workers have collected them, in the process
\* that has been through pytest_sessionstart itself.
Schedule ==
    /\ pc[Ctl] = "session"
    /\ L!Idle(Ctl)
    /\ ~scheduled
    /\ \A w \in Workers : pc[w] = "ready"
    /\ scheduled' = TRUE
    /\ UNCHANGED <<logVars, keep, found, pc, todo, running, owed, reports,
                   failed, crashes, cutOff, notice>>

\* pytest.main returns, run exits, and catch_traceback looks at the exit code.
EndSession ==
    /\ pc[Ctl] = "session"
    /\ scheduled
    /\ \A w \in Workers : pc[w] \in {"done", "broken"}
    /\ IF failed
       THEN L!Invoke(Ctl, L!Read) /\ Goto(Ctl, "checking")
       ELSE UNCHANGED logVars /\ Goto(Ctl, "passed")
    /\ UNCHANGED <<keep, found, todo, running, owed, reports, scheduled, failed,
                   crashes, cutOff, notice>>

\* if not error_log.has_logs(): add_error_log_comment(...)
CatchTraceback ==
    /\ pc[Ctl] = "checking"
    /\ L!Idle(Ctl)
    /\ IF stage[Ctl] = "raised" \/ HasLogs(snap[Ctl])
       THEN UNCHANGED logVars
       ELSE L!Invoke(Ctl, Comment)
    /\ Goto(Ctl, "exiting")
    /\ UNCHANGED <<keep, found, todo, running, owed, reports, scheduled, failed,
                   crashes, cutOff, notice>>

\* The command is over; the workflow's next step is `send-notification`.
StartNotification ==
    /\ pc[Ctl] = "exiting"
    /\ L!Idle(Ctl)
    /\ L!Invoke(Ctl, L!Read)
    /\ Goto(Ctl, "notifying")
    /\ UNCHANGED <<keep, found, todo, running, owed, reports, scheduled, failed,
                   crashes, cutOff, notice>>

\* send_notification posts what get_count_by_group and read().comments return.
SendNotification ==
    /\ pc[Ctl] = "notifying"
    /\ stage[Ctl] = "returned"
    /\ notice' = [sent |-> TRUE, log |-> snap[Ctl]]
    /\ Goto(Ctl, "notified")
    /\ UNCHANGED <<logVars, keep, found, todo, running, owed, reports, scheduled,
                   failed, crashes, cutOff>>

\* The answer to the post is not 200: RuntimeError.
NotificationRefused ==
    /\ pc[Ctl] = "notifying"
    /\ stage[Ctl] = "returned"
    /\ Goto(Ctl, "refused")
    /\ UNCHANGED <<logVars, keep, found, todo, running, owed, reports, scheduled,
                   failed, crashes, cutOff, notice>>

\* get_count_by_group raises on a torn file, before there is anything to post.
LogUnreadable ==
    /\ pc[Ctl] = "notifying"
    /\ stage[Ctl] = "raised"
    /\ Goto(Ctl, "unread")
    /\ UNCHANGED <<logVars, keep, found, todo, running, owed, reports, scheduled,
                   failed, crashes, cutOff, notice>>

-----------------------------------------------------------------------------
(***************************************************************************)
(* The workers.                                                            *)
(***************************************************************************)
\* The first start of a worker, or the start of one that replaces a dead one.
StartWorker(w) ==
    /\ pc[w] = "absent"
    /\ pc[Ctl] = "session"
    /\ L!Idle(Ctl)
    /\ L!Invoke(w, L!Create)
    /\ Goto(w, "import")
    /\ UNCHANGED <<keep, found, todo, running, owed, reports, scheduled, failed,
                   crashes, cutOff, notice>>

\* Mutant: pytest_sessionstart without regard for --keep-error-log.
WorkerSessionStartClears(w) ==
    /\ pc[w] = "import"
    /\ L!Idle(w)
    /\ L!Invoke(w, L!Wipe)
    /\ Goto(w, "collecting")
    /\ UNCHANGED <<keep, found, todo, running, owed, reports, scheduled, failed,
                   crashes, cutOff, notice>>

\* pytest_sessionstart, which every worker runs as well.
WorkerSessionStart(w) ==
    /\ pc[w] = "import"
    /\ L!Idle(w)
    /\ IF keep
       THEN UNCHANGED logVars
       ELSE L!Invoke(w, L!Wipe)
    /\ Goto(w, "collecting")
    /\ UNCHANGED <<keep, found, todo, running, owed, reports, scheduled, failed,
                   crashes, cutOff, notice>>

Collected(w) ==
    /\ pc[w] = "collecting"
    /\ L!Idle(w)
    /\ Goto(w, "ready")
    /\ UNCHANGED <<logVars, keep, found, todo, running, owed, reports, scheduled,
                   failed, crashes, cutOff, notice>>

StartTest(w, t) ==
    /\ pc[w] = "ready"
    /\ scheduled
    /\ t \in todo
    /\ todo' = todo \ {t}
    /\ running' = [running EXCEPT ![w] = t]
    /\ Goto(w, "testing")
    /\ UNCHANGED <<logVars, keep, found, owed, reports, scheduled, failed,
                   crashes, cutOff, notice>>

\* runtestprotocol returns the reports; xdist sends them to the controller.
FinishTest(w, phases) ==
    /\ pc[w] = "testing"
    /\ reports' = [reports EXCEPT ![running[w]] = phases]
    /\ owed' = [owed EXCEPT ![w] = EntriesOf(running[w], phases)]
    /\ failed' = (failed \/ phases # {})
    /\ Goto(w, "recording")
    /\ UNCHANGED <<logVars, keep, found, todo, running, scheduled, crashes,
                   cutOff, notice>>

\* error_log.add_failure or add_error, one report after the other.
Record(w) ==
    /\ pc[w] = "recording"
    /\ L!Idle(w)
    /\ stage[w] # "raised"
    /\ owed[w] # <<>>
    /\ L!Invoke(w, Head(owed[w]))
    /\ owed' = [owed EXCEPT ![w] = Tail(@)]
    /\ UNCHANGED <<keep, found, pc, todo, running, reports, scheduled, failed,
                   crashes, cutOff, notice>>

\* The end of pytest_runtest_protocol for the test.
NextItem(w) ==
    /\ pc[w] = "recording"
    /\ L!Idle(w)
    /\ stage[w] # "raised"
    /\ owed[w] = <<>>
    /\ running' = [running EXCEPT ![w] = NoTest]
    /\ Goto(w, "ready")
    /\ UNCHANGED <<logVars, keep, found, todo, owed, reports, scheduled, failed,
                   crashes, cutOff, notice>>

\* An exception out of pytest_runtest_protocol ends the worker's session.
InternalError(w) ==
    /\ pc[w] = "recording"
    /\ stage[w] = "raised"
    /\ failed' = TRUE
    /\ Goto(w, "broken")
    /\ UNCHANGED <<logVars, keep, found, todo, running, owed, reports, scheduled,
                   crashes, cutOff, notice>>

StopWorker(w) ==
    /\ pc[w] = "ready"
    /\ scheduled
    /\ todo = {}
    /\ Goto(w, "done")
    /\ UNCHANGED <<logVars, keep, found, todo, running, owed, reports, scheduled,
                   failed, crashes, cutOff, notice>>

\* A worker process dies with its test; xdist reports the test as failed and
\* starts another worker.
Crash(w) ==
    /\ crashes < MaxCrashes
    /\ pc[w] \in {"testing", "recording"}
    /\ L!Kill(w)
    /\ crashes' = crashes + 1
    /\ cutOff' = (cutOff \/ stage[w] = "truncated")
    /\ failed' = TRUE
    /\ running' = [running EXCEPT ![w] = NoTest]
    /\ owed' = [owed EXCEPT ![w] = <<>>]
    /\ Goto(w, "absent")
    /\ UNCHANGED <<keep, found, todo, reports, scheduled, notice>>

-----------------------------------------------------------------------------
CtlStep ==
    \/ StartCommand \/ CommandFails \/ ControllerSessionStart \/ Schedule
    \/ EndSession \/ CatchTraceback \/ StartNotification \/ SendNotification
    \/ NotificationRefused \/ LogUnreadable
    \/ L!LogStep(Ctl) /\ UNCHANGED sessionVars

WorkerStep(w) ==
    \/ StartWorker(w) \/ WorkerSessionStart(w) \/ Collected(w)
    \/ \E t \in Tests : StartTest(w, t)
    \/ \E phases \in Outcomes : FinishTest(w, phases)
    \/ Record(w) \/ NextItem(w) \/ InternalError(w) \/ StopWorker(w)
    \/ L!LogStep(w) /\ UNCHANGED sessionVars

Next ==
    \/ CtlStep
    \/ \E w \in Workers : WorkerStep(w) \/ Crash(w)

(***************************************************************************)
(* Processes run until they end; a worker need not crash.                  *)
(***************************************************************************)
Spec ==
    /\ Init /\ [][Next]_vars
    /\ WF_vars(CtlStep)
    /\ \A w \in Workers : WF_vars(WorkerStep(w))

-----------------------------------------------------------------------------
Times(t, list) == Cardinality({i \in DOMAIN list : list[i] = t})

InFailures(l, t) == Times(t, ListOf(l.failures, Group))
InErrors(l, t) == Times(t, ListOf(l.errors, Group))

\* What the log held, for a test, when the session began.
Before == IF keep THEN found ELSE EmptyLog

FailedCalls(t) == IF "call" \in reports[t] THEN 1 ELSE 0
FailedFixtures(t) == Cardinality(reports[t] \ {"call"})

Exact(l, t) ==
    /\ InFailures(l, t) = InFailures(Before, t) + FailedCalls(t)
    /\ InErrors(l, t) = InErrors(Before, t) + FailedFixtures(t)

(***************************************************************************)
(* The notification about a failed session names every failed report once, *)
(* a failed call among the failures and a failed setup or teardown among   *)
(* the errors, next to what --keep-error-log kept and nothing else         *)
(* (pytest_runtest_protocol, pytest_sessionstart, send_notification).      *)
(***************************************************************************)
NoticeIsExact ==
    notice.sent /\ scheduled /\ crashes = 0 => \A t \in Tests : Exact(notice.log, t)

\* send-notification is over: it posted, was refused, or could not read the log.
Ends == {"notified", "refused", "unread"}

\* A log that reports nothing for a test that did not happen.
NothingInvented(l, t) ==
    /\ InFailures(l, t) <= InFailures(Before, t) + FailedCalls(t)
    /\ InErrors(l, t) <= InErrors(Before, t) + FailedFixtures(t)

(***************************************************************************)
(* What the deaths of workers cost.  The notification never makes up a     *)
(* failed report.  With --keep-error-log, each worker that dies costs the  *)
(* log at most the entries of the one test it was running; but one that    *)
(* dies between emptying the file and writing it costs everything: the log *)
(* stays torn, no later entry gets into it, and there is no notification.  *)
(* (Without the option the session start of a replacement clears the log,  *)
(* torn or not: conftest.py:91.)                                           *)
(***************************************************************************)
CrashCost ==
    scheduled /\ pc[Ctl] \in Ends =>
        /\ notice.sent => \A t \in Tests : NothingInvented(notice.log, t)
        /\ keep /\ ~cutOff =>
            /\ file.state = "whole"
            /\ notice.sent => notice.log = file.log
            /\ Cardinality({t \in Tests : ~Exact(file.log, t)}) <= crashes
        /\ keep /\ cutOff => file.state = "torn" /\ ~notice.sent
        /\ pc[Ctl] = "unread" => cutOff

(***************************************************************************)
(* Every run comes to an end, whoever dies with the lock or leaves the     *)
(* file torn: it passes with nothing failed, or it ends with a             *)
(* notification that is sent, that the server refuses, or for which the    *)
(* log cannot be read, and that only after a worker died over the empty    *)
(* file (catch_traceback, send_notification).                              *)
(***************************************************************************)
RunEnds ==
    <>(\/ pc[Ctl] = "passed" /\ ~failed
       \/ pc[Ctl] \in {"notified", "refused"}
       \/ pc[Ctl] = "unread" /\ cutOff)
=============================================================================
