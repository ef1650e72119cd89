------------------------------ MODULE OzRunner ------------------------------
(***************************************************************************)
(* `clickfile.py run oz` and `clickfile.py oz analyze`: the OpenZeppelin   *)
(* test files are run by a pool of threads that share a list of key sets,  *)
(* each set the private keys of funded accounts that only one hardhat      *)
(* process may use at a time; their counts are then summed up and judged.  *)
(* The error log is used by one process at a time here, so it is the log   *)
(* of AtomicLog.tla.                                                       *)
(***************************************************************************)
EXTENDS LogModel, FiniteSetsExt

CONSTANTS
    Jobs,           \* the threads of the pool
    Keys,           \* key sets
    PreparedKeys,   \* a list of key sets, one for each job
    Priority,       \* the test files that are to start first, a sequence
    Others,         \* the other test files, a sequence
    OldNames,       \* test files of an earlier run that are not in this one
    OldResults,     \* what an earlier run may have left in the results directory
    Results,        \* what the output of a file may count: passing, failing
    Majors,         \* the major versions of OpenZeppelin to consider
    Threshold,      \* the number of passing tests that versions 2 and 3 need
    Oz, NoName,     \* the group "oz", and the dummy name "" of its failures
    Raised,         \* the comment catch_traceback makes of an exception
    Earlier,        \* the logs an earlier command may have left
    NoKeys, NoFile, NoLog,
    MaxRaises       \* bound: how many times run_oz_file raises an exception

ASSUME PreparedKeysAreDistinct ==
    /\ PreparedKeys \in Seq(Keys)
    /\ \A i, j \in DOMAIN PreparedKeys : PreparedKeys[i] = PreparedKeys[j] => i = j
ASSUME NoKeysIsNoKeySet == NoKeys \notin Keys
ASSUME KeysForEveryJob == IsFiniteSet(Jobs) /\ Len(PreparedKeys) = Cardinality(Jobs)
ASSUME MaxRaisesIsNat == MaxRaises \in Nat
ASSUME NoLogIsNoResult == NoLog \notin Results
ASSUME ThresholdsArePositive == \A major \in DOMAIN Threshold : Threshold[major] \in Nat \ {0}

VARIABLES
    main,       \* what the commands are doing
    keysEnv,    \* the list of free key sets
    next,       \* the index of the test file that is handed out next
    pc,         \* what each thread of the pool is doing
    file,       \* the test file of a thread
    keys,       \* the key set of a thread
    results,    \* the stdout.log of each test file
    logged,     \* the test files whose logs this run has written
    raises,     \* how many exceptions between pop and append there were
    poolFailed, \* some call of run_oz_file raised an exception
    log,        \* the error log
    exit        \* how the commands ended

threadVars == <<keysEnv, next, pc, file, keys, results, logged, raises,
                poolFailed>>
vars == <<main, threadVars, log, exit>>

\* prioritised_tests
Files == Priority \o Others
FileNames == {Files[i] : i \in DOMAIN Files}

ASSUME FilesAreListed == Priority \in Seq(FileNames) /\ Others \in Seq(FileNames)

\* The directories in ./compatibility/results.
LogNames == FileNames \cup OldNames

ASSUME OldResultsAreResults == OldResults \subseteq [LogNames -> Results \cup {NoLog}]

Init ==
    /\ main = "run"
    /\ keysEnv = PreparedKeys
    /\ next = 1
    /\ pc = [j \in Jobs |-> "free"]
    /\ file = [j \in Jobs |-> NoFile]
    /\ keys = [j \in Jobs |-> NoKeys]
    /\ results \in OldResults
    /\ logged = {}
    /\ raises = 0
    /\ poolFailed = FALSE
    /\ log \in Earlier
    /\ exit = "none"

-----------------------------------------------------------------------------
(***************************************************************************)
(* The threads: run_oz_file.                                               *)
(***************************************************************************)
\* pool.map(run_oz_file, prioritised_tests, chunksize=1)
TakeFile(j) ==
    /\ main = "pool"
    /\ pc[j] = "free"
    /\ next <= Len(Files)
    /\ file' = [file EXCEPT ![j] = Files[next]]
    /\ next' = next + 1
    /\ pc' = [pc EXCEPT ![j] = "pop"]
    /\ UNCHANGED <<main, keysEnv, keys, results, logged, raises,
                   poolFailed, log, exit>>

\* Mutant: keys_env[0] instead of keys_env.pop(0).
PopKeysKeeps(j) ==
    /\ pc[j] = "pop"
    /\ keysEnv # <<>>
    /\ keys' = [keys EXCEPT ![j] = Head(keysEnv)]
    /\ pc' = [pc EXCEPT ![j] = "hardhat"]
    /\ UNCHANGED <<main, keysEnv, next, file, results, logged, raises, poolFailed,
                   log, exit>>

\* keys = keys_env.pop(0)
PopKeys(j) ==
    /\ pc[j] = "pop"
    /\ keysEnv # <<>>
    /\ keys' = [keys EXCEPT ![j] = Head(keysEnv)]
    /\ keysEnv' = Tail(keysEnv)
    /\ pc' = [pc EXCEPT ![j] = "hardhat"]
    /\ UNCHANGED <<main, next, file, results, logged, raises, poolFailed,
                   log, exit>>

\* An exception ends the call; the pool goes on with the next file.
Abandon(j) ==
    /\ poolFailed' = TRUE
    /\ pc' = [pc EXCEPT ![j] = "free"]
    /\ keys' = [keys EXCEPT ![j] = NoKeys]
    /\ file' = [file EXCEPT ![j] = NoFile]
    /\ UNCHANGED <<main, keysEnv, next, results, logged, log, exit>>

\* pop from the empty list: IndexError.
PopFails(j) ==
    /\ pc[j] = "pop"
    /\ keysEnv = <<>>
    /\ Abandon(j)
    /\ UNCHANGED raises

\* The subprocess cannot be started, or its output is not UTF-8: the key set
\* is not put back.
Raise(j) ==
    /\ pc[j] = "hardhat"
    /\ raises < MaxRaises
    /\ raises' = raises + 1
    /\ Abandon(j)

\* Mutant: the key set is not put back.
AppendKeysForgets(j) ==
    /\ pc[j] = "hardhat"
    /\ keys' = [keys EXCEPT ![j] = NoKeys]
    /\ pc' = [pc EXCEPT ![j] = "save"]
    /\ UNCHANGED <<main, keysEnv, next, file, results, logged, raises, poolFailed,
                   log, exit>>

\* keys_env.append(keys)
AppendKeys(j) ==
    /\ pc[j] = "hardhat"
    /\ keysEnv' = Append(keysEnv, keys[j])
    /\ keys' = [keys EXCEPT ![j] = NoKeys]
    /\ pc' = [pc EXCEPT ![j] = "save"]
    /\ UNCHANGED <<main, next, file, results, logged, raises, poolFailed,
                   log, exit>>

\* stdout.log, stderr.log and time.log of the file, over those of an earlier run.
SaveLogs(j) ==
    /\ pc[j] = "save"
    /\ \E r \in Results : results' = [results EXCEPT ![file[j]] = r]
    /\ logged' = logged \cup {file[j]}
    /\ pc' = [pc EXCEPT ![j] = "free"]
    /\ file' = [file EXCEPT ![j] = NoFile]
    /\ UNCHANGED <<main, keysEnv, next, keys, raises, poolFailed, log, exit>>

\* mkdir, open or write raises: the old stdout.log is still there, or what has
\* been written of the new one.
SaveFails(j) ==
    /\ pc[j] = "save"
    /\ \/ UNCHANGED results
       \/ \E r \in Results : results' = [results EXCEPT ![file[j]] = r]
    /\ poolFailed' = TRUE
    /\ pc' = [pc EXCEPT ![j] = "free"]
    /\ file' = [file EXCEPT ![j] = NoFile]
    /\ UNCHANGED <<main, keysEnv, next, keys, logged, raises, log, exit>>

-----------------------------------------------------------------------------
(***************************************************************************)
(* The commands.                                                           *)
(***************************************************************************)
\* catch_traceback, about a command that ends with an exception.
CatchTraceback(l) ==
    IF HasLogs(l) THEN l ELSE Apply([kind |-> "comment", text |-> Raised], l)

\* if not keep_error_log: error_log.clear()
LogsAtStart == {log, EmptyLog}

\* The key sets are prepared, and the pool is started.
StartRun ==
    /\ main = "run"
    /\ log' \in LogsAtStart
    /\ main' = "pool"
    /\ UNCHANGED <<threadVars, exit>>

\* `git submodule` or `npm ci` fails: check_profitability swallows the
\* CalledProcessError if it is to report the operator's balances.
SetupFails ==
    /\ main = "run"
    /\ \/ /\ log' \in LogsAtStart
          /\ main' = "analyze"
          /\ UNCHANGED exit
       \/ /\ \E l \in LogsAtStart : log' = CatchTraceback(l)
          /\ main' = "over" /\ exit' = "failed"
    /\ UNCHANGED threadVars

\* Mutant: nobody asks for the results of the calls.
JoinPoolIgnores ==
    /\ main = "pool"
    /\ next > Len(Files)
    /\ \A j \in Jobs : pc[j] = "free"
    /\ main' = "analyze"
    /\ UNCHANGED <<threadVars, log, exit>>

\* pool.join() when every call has returned; map raises what a call raised,
\* and the reports that are made of the run afterwards may raise as well.
FailRun ==
    /\ main' = "over" /\ exit' = "failed"
    /\ log' = CatchTraceback(log)

JoinPool ==
    /\ main = "pool"
    /\ next > Len(Files)
    /\ \A j \in Jobs : pc[j] = "free"
    /\ \/ FailRun
       \/ ~poolFailed /\ main' = "analyze" /\ UNCHANGED <<log, exit>>
    /\ UNCHANGED threadVars

\* parse_openzeppelin_results: every stdout.log there is, whoever wrote it.
Logged == {f \in LogNames : results[f] # NoLog}
Passing == MapThenSumSet(LAMBDA f : results[f].passing, Logged)
Failing == MapThenSumSet(LAMBDA f : results[f].failing, Logged)

\* The verdict of analyze_openzeppelin_results.
Rejected(major) ==
    IF major \in DOMAIN Threshold
    THEN Passing < Threshold[major]
    ELSE Failing > 0 \/ Passing = 0

DummyFailures ==
    [kind |-> "failures", group |-> Oz, names |-> [i \in 1..Failing |-> NoName]]

Analyze ==
    /\ main = "analyze"
    /\ \E major \in Majors :
         IF Rejected(major)
         THEN /\ exit' = "failed"
              /\ log' = CatchTraceback(Apply(DummyFailures, log))
         ELSE /\ exit' = "passed"
              /\ UNCHANGED log
    /\ main' = "over"
    /\ UNCHANGED threadVars

ThreadStep(j) ==
    \/ TakeFile(j) \/ PopKeys(j) \/ PopFails(j)
    \/ Raise(j) \/ AppendKeys(j) \/ SaveLogs(j) \/ SaveFails(j)

Next ==
    \/ \E j \in Jobs : ThreadStep(j)
    \/ StartRun \/ SetupFails \/ JoinPool \/ Analyze

Spec == Init /\ [][Next]_vars

-----------------------------------------------------------------------------
Places == {"free", "pop", "hardhat", "save"}

Using(j) == keys[j] # NoKeys

(***************************************************************************)
(* Two hardhat processes never sign with the same accounts: a key set is   *)
(* with one thread, or free and once in the list (keys_env).               *)
(***************************************************************************)
KeysAreExclusive ==
    /\ \A j, k \in Jobs : j # k /\ Using(j) => keys[j] # keys[k]
    /\ \A j \in Jobs : \A i \in DOMAIN keysEnv : keysEnv[i] # keys[j]
    /\ \A i, k \in DOMAIN keysEnv : keysEnv[i] = keysEnv[k] => i = k

(***************************************************************************)
(* A key set is missing from the list only while a thread uses it, or      *)
(* because of an exception between pop and append.                         *)
(***************************************************************************)
KeysAreConserved ==
    Len(keysEnv) + Cardinality({j \in Jobs : Using(j)}) + raises = Len(PreparedKeys)

(***************************************************************************)
(* Of the threads that are about to call keys_env.pop(0), all but as many  *)
(* as key sets were lost find one in the list: without an exception        *)
(* between pop and append no call fails with an IndexError, and each lost  *)
(* key set starves at most one thread at a time.                           *)
(***************************************************************************)
PopFindsKeys ==
    Cardinality({j \in Jobs : pc[j] = "pop"}) <= Len(keysEnv) + raises

(***************************************************************************)
(* The commands do not report success for some of the test files: either   *)
(* this run has written the logs of every one of them, or it has run none  *)
(* (its setup failed, and check_profitability swallowed that) and the      *)
(* verdict is that of an earlier run, whose logs are still in the results  *)
(* directory.  (A file whose log counts nothing is run, too: it is only    *)
(* listed by print_test_suite_results.)                                    *)
(***************************************************************************)
SuccessIsAllOrNothing ==
    exit = "passed" => FileNames \subseteq logged \/ (next = 1 /\ Logged # {})
=============================================================================
