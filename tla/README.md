# neon-tests in TLA+

neon-tests is the test suite of Neon EVM: pytest suites, the Solidity contracts
they deploy, a click program (`clickfile.py`) that runs them in CI, and the
infrastructure around it. This directory models the parts that have a protocol of
their own, where several processes, threads or loop iterations keep shared state
consistent, checks the models with TLC on small instances, and proves their
central properties with TLAPS for every instance.

## The system

| Part | State | Operations | Meets |
| --- | --- | --- | --- |
| error log (`utils/error_log.py`) | one JSON file: failures and errors by group, comments; a FileLock | create at import, clear, add_failure(s), add_error, add_comment, has_logs, get_count_by_group | every pytest process, the click commands |
| test session (`conftest.py`, `clickfile.py run`, `send-notification`) | the pytest controller, xdist workers, their reports, the exit code | session start, test protocol, `catch_traceback`, notification | error log |
| OpenZeppelin runner (`clickfile.py run oz`, `oz analyze`) | thread pool, list of key sets, `stdout.log` of each file | pop and append of key sets, hardhat, summing up and judging | error log |
| EIP-2535 diamond (`contracts/EIPs/EIP2535`) | mapping and array of selectors, owner, interfaces | diamondCut, transferOwnership, loupe | its facets and initializers, by delegatecall |
| cost report collector (`utils/stats_collector.py`) | a JSON file and a FileLock for each report | append an action | session start removes its directory |
| cost report database (`deploy/test_results_db`) | tables of reports and of their data | delete, save, compare | CI jobs of several repositories |
| EVM loader (`utils/evm_loader.py`, `instructions.py`) | holder account, transaction steps, messages under way | write chunks, execute in five ways, cancel | Solana, the Neon EVM program |
| deposits (`evm_loader.py`, `solana_client.py`, `layouts.py`) | lamports, token accounts, pools, balance accounts, operators | airdrop, wrap, mint, deposit, prepare an operator | Solana, xdist workers with the same key file |
| accounts and funding (`utils/accounts.py`, `faucet.py`, `web3client.py`) | balances, nonces, prices, the bank account | create, request, send, give back at teardown | proxy, faucet |
| tracer load tests (`loadtesting/tracerapi`) | transaction history, its dump, locks and flags of classes, event buffer | prepare, dump, ask and compare | proxy, tracer |
| lost transactions (`loadtesting/proxy/common`, `scripts/check_lost_trx.py`) | list of hashes, pool, files | save, ask, write, look for | proxy |
| stands (`clickfile.py infra`, `deploy/cli/infrastructure.py`, `.github`) | branches, terraform state, servers | choose images, apply, wait, destroy | GitHub, Hetzner |
| cost report plots, token contracts, test cases, UI tests, other load tests, clients | | | see "Not modelled" |

What is hard about them: the log is a file that many processes update and some
read without the lock; a write is a truncation and then a write; workers die and
are replaced; a pool of threads shares a list without a lock and loses entries to
exceptions; a command may fail in a way that leaves no trace; a contract keeps
one fact in two places, changes them in loops, and may revert at any iteration;
lock files are deleted while they may be in use; a database is read and changed
in statements of their own by jobs that know nothing of each other. Messages to
Solana arrive late, in any order or never, and equal ones are one; a transaction
is put together from several answers, each of which may be old when the next one
comes; greenlets share flags that an exception leaves behind; a run builds
servers that outlive it if one step too many fails.
`PROJECT.json` lists each such hazard with its line and the properties about it.

What makes each part correct:

- error log: each operation takes effect as a whole; entries go only by a clear, or
  by the death of a process between emptying the file and writing it;
- test session: the notification says what failed, exactly; a crash costs at most
  the entries of one test, or, if it leaves the file torn, the notification; every
  run ends;
- OpenZeppelin runner: a key set is used by one thread at a time and is not lost
  without an exception; success is of all files of this run, or of an earlier one;
- diamond: mapping, array and loupe agree; upgrades are all or nothing; functions
  of the diamond itself are never taken away;
- cost report collector: workers do not lose each other's actions, also after the
  directory was removed under their hands; nobody waits for the lock of a dead worker;
- cost report database: a report has all its data or none; a job deletes reports of
  its own repository and tag only, and a merge none; a job is disturbed only by jobs
  of its own repository and tag; comparisons are with the reports they are meant for;
- EVM loader: what returns was written or executed as a whole, once; calls raise
  for a reason, and end;
- deposits: a deposit that returned has arrived, once, and left nothing behind;
- funding: tests get accounts with money, money comes back, a price lasts;
- tracer load tests: entries are about mined transactions, right answers are not
  reported as wrong, every request that ends is reported once;
- lost transactions: a transaction is reported as lost only if it was there and got
  lost, or the script's own request for it failed; and saving ends;
- stands: a run tests a stand of its own with the images it is meant for, and
  leaves no server behind, as long as it does not meet a run of its own number.

## Modules

| Module | Models |
| --- | --- |
| `LogModel` | the data of the log, what a request changes in it, what the readers compute |
| `AtomicLog` | abstract: a log to which whole entries are added and which is emptied |
| `ErrorLog` | the file, the FileLock and the steps of every method in every process |
| `TestSession` | a run with controller and workers over `ErrorLog` (as `L`), then the notification |
| `OzRunner` | the thread pool and the two commands around it; one process at a time uses the log, so the log is that of `AtomicLog` |
| `DiamondModel` | abstract: the facet of every selector, changed by whole `diamondCut` calls |
| `Diamond` | LibDiamond iteration by iteration, and the loupe |
| `CostReports` | the report files, their lock files and the removal of both |
| `CostReportDb` | the two tables and the statements of the jobs that save and compare |
| `EvmInstructions` | the instructions: who signs, what they change, which budget they request |
| `EvmLoader` | a test that writes transactions to a holder and executes them, and Solana |
| `Deposits` | airdrops, token accounts, deposits and operators, over the same instructions |
| `Funding` | transactions of every type, the bank, the faucet, the accounts of the tests |
| `LoadTests` | the users who prepare transactions, the dump, the users who ask the tracer |
| `LostTransactions` | the hashes a Locust process saves, and the script that looks for them |
| `Stands` | runs of workflows with their images, terraform and servers |
| `PythonNone` | the constant `None` of the modules that are used together |
| `MC...` | the instances TLC checks, one for each component |
| `ErrorLogProofs`, `TestSessionProofs`, `OzRunnerProofs`, `DiamondProofs`, `CostReportsProofs`, `CostReportDbProofs`, `EvmLoaderProofs`, `LoadTestsProofs` | the proofs |

Proofs about components that belong together share a module: `OzRunnerProofs` is
also about `Stands` (both are the CI), `EvmLoaderProofs` about `Deposits` (both are
`evm_loader.py`), `LoadTestsProofs` about `LostTransactions` and `Funding` (what the
load tests send, and how). A proof module extends the components it is about, and
so their names differ: `StandsInit`, `DepositsSpec` and so on.

An action is one step that other processes can observe or that the process may
die after. In `ErrorLog` a method call is `Invoke`, then `Acquire` (`with
self.lock`), `Load` or `New` (read the model, or make an empty one, and change
it), `Truncate` and `Write` (the two halves of `write_text`) and `Release`;
`LoadFails` is the exception of `json.load`, `Exists` the import that finds a
file. `ReadUnlocked` is every reader, since `read` takes no lock. `Kill` is the
death of a process: the operating system releases its lock, and the file stays as
it is, torn if it was truncated. `AbstractLog`, the refinement mapping, is what
the file stands for: the model about to be written while the file is truncated,
the empty log when that process has died.

`TestSession` adds what the processes do between calls. xdist is not part of the
repository; its actions (`StartWorker`, `Collected`, `Schedule`, `StopWorker`,
`InternalError`, `Crash`) are written from how `conftest.py` depends on it: the
controller's session start comes first, every worker has its own, no test starts
before every worker has collected, and a worker that dies is replaced.
`SendNotification` reads the log and posts it. `LogUnreadable` is the exception of
`json.load` on a file that a dead worker has left empty, before anything is posted,
and `NotificationRefused` the RuntimeError after an answer other than 200. `cutOff`
remembers that a worker died between the truncation and the text.

In `OzRunner` a thread takes a file, pops a key set, runs hardhat, appends the key
set, writes the logs. Hardhat and the funding of accounts are outside; a call may
raise between pop and append (`Raise`), after that on an empty list (`PopFails`),
and while it writes its logs (`SaveFails`). `SetupFails` is a failure before the pool:
`check_profitability` swallows a CalledProcessError, so the run may still seem to
succeed. Nothing clears `compatibility/results`, and the analysis sums up whatever
`stdout.log` it finds there (`Logged`), so `OldResults` are the logs that earlier runs
may have left, of these files or of others; `logged` tells which files this run has
written.

In `Diamond` a call of `diamondCut` is a transaction `tx` whose loops take a step
for each FacetCut and each selector. `committed` is the storage as the last
transaction left it, to which `Revert` returns. `HasCode` is false of the diamond
itself until its constructor has ended.

`CostReports` has the actions of `ErrorLog` in finer steps, because here the lock
files are removed as well. `Enter`, `Open` and `Flock` are what filelock does
inside `with self.lock`: it makes the directory, asks whether the lock file is
there, opens it (creating it if it was not), and locks the inode it has opened.
`Check` to `FillNew` create a report inside the update, `ReadReport`, `Change` and
`FillChanged` are the update, `Close` its end. An inode is the number of unlinks
of its name before it was made. `SessionStart`, `Unlink` and `RemoveDirectory` are
the `rmtree` of a worker that replaces a dead one. `rmtree` takes no lock, so a call
that a removal overlaps may hold the lock of a file that is gone: `stale` remembers
these calls, and `atRisk` the actions that a removal may take away, which are those
that were recorded when it began, those of stale calls, and those of calls that begin
beside a stale one. `done` is never taken back: whatever else was recorded has to be
in its report for good, after a removal as well as before.

In `CostReportDb` a job is one run of the workflow's save and compare steps. Each
statement that reaches the database is an action: `DeleteData`, `DeleteReports`,
`InsertReport`, `Refresh` (the read of `cost_report.id` after the commit),
`CommitRows`, then the queries of `get_historical_data`. `AddRow` only adds to the
session. `Signal` is the handler that closes the sessions and returns, so that the
job goes on. The ids of reports ascend with their timestamps. `alone` remembers
that no other job of the repository and tag has run meanwhile.

In `EvmLoader` a message stands for a Solana transaction. Its signature depends on
its data and on the latest block hash, so a `Message` is a record of both, and
`Send` does nothing for one that was processed already. `CreateHolder` and `Cancel` are
what `integration/tests/neon_evm` does around the loader: `create_holder` before a
transaction, and, as `test_cancel_trx`, one step of it and then the cancellation.
`Land` is the Neon EVM
program, written from what the tests of `integration/tests/neon_evm` expect of
it; `Lose` is a block hash that expires. `flight` survives the call that sent it:
a chunk or a step that an earlier call gave up on may still land, which
`disturbed` remembers, and `trouble` remembers a confirmation that timed out or a
message that was taken for an old one. What the messages sign and change comes
from `EvmInstructions`, and a message whose instructions lack a signer, an account
or a budget fails.

A call of `Deposits` is a list of steps (`Script`); each looks (`Look`) whether it
is needed, sends one transaction and waits for it. `Checked` tells
`send_tx_and_check_status_ok`, which looks at the status, from `send_tx`, which has
a preflight and does not; `Awaited` is false of the mint of `mint_spl_to`, whose
default options skip the confirmation, so that the deposit is sent while the mint is
under way and may be processed before it, or without it. `operator_keypair` maps a
worker id to its key file; `gw0` and `gw10` have the same. `TestsCall` says that
deposits in several transactions use keys of their own worker, as the fixture
`solana_account` gives them.

In `Funding` a transaction is filled in question by question (`AskBaseFee`,
`AskNonce`, `AskPrice`) in the order of its `make_raw_tx`, and sent with what
the answers were; `given` is the price that the test gave. The proxy refuses it
for its nonce (`Refused`) or because its account is too poor (`TooPoor`). A worker creates at
most `MaxCreated` accounts, `<<w, 1>>` first. `Mine` and `Drop` are the chain,
`BaseFeeGrows` what makes prices old, `Pay` a faucet that pays late or not at
all. `list` and `collector` are the two lists of `EthAccounts`; `SendAllNeons`
is the teardown.

`LoadTests` has both Locust programs: greenlets change over at requests only, so an
action ends where the code sends one. A transaction goes to the mempool of the proxy
(`Sends`), where it is mined in the order of nonces (`MineSent`) or dropped
(`DropSent`), also after its sender gave up to wait for the receipt (`SendFails`,
`StoreTimesOut`); the pending count (`IsNext`) is past those that wait. `gap`
remembers that one was dropped from under a later one. `Teardown` and `StopTracing` are
the end of the two tests: Locust kills the users by GreenletExit, wherever they are.
`TakeLock` and `deploy_storage_contract` are
`on_start` of a class that deploys once for all; `ethCall` is the same of the tracer
tests, with its flag and its contract. `Teardown` also writes the dump that the second
program loads; a user that `StopTracing` kills while it waits for an answer is "cut",
its event unfired, since `except Exception` does not see a GreenletExit. `Recorded`
keeps what the entry holds, also that the balances of sender and recipient change
places.

In `LostTransactions` `Spawn` gives way to greenlets only when the pool is full, and
`RequestFails` appends to the list while the loop still goes over it: the method
that asks is wrapped as well. `Lose` is the transaction that the script is there to
find. `check_neon_tx` takes every exception for a transaction that was not found;
`unanswered` remembers those whose request failed.

In `Stands` the terraform state is kept per key and the key is the number of the
run, which each workflow counts for itself: runs of the same number share a state,
which terraform reads (`StartApply`, `StartDestroy`) and writes without a lock. `met`
remembers the runs that shared it at the same time or found what another had left.
`deploy` chooses the images, `Applied`, `ApplyFails` and `ApplyIsKilled` leave all,
part or nothing of the servers, listed in the state or not, and `DownloadLogs` and
`Destroy` are the steps that the workflow always takes.

Definitions whose comment begins with "Mutant" are faulty variants of the
definition below them. They are no part of the specifications; they serve to see
that a property notices the fault.

## Runs

| Run | Instance | Shows |
| --- | --- | --- |
| `ErrorLog.cfg` | two processes, one group, every kind of request, lists up to two | `WriterHoldsLock`, `ImplementsAtomicLog` with deaths at any step |
| `TestSession.cfg` | two workers, two tests, at most one crash, both values of `--keep-error-log`, a log with an old error | `NoticeIsExact` without a crash, `CrashCost` with it, `RunEnds` |
| `OzRunner.cfg` | two threads, four files, two lost key sets, no old logs or those of five files, OpenZeppelin 3 and 4 | `KeysAreExclusive`, `PopFindsKeys`, `SuccessIsAllOrNothing` |
| `Diamond.cfg` | four selectors, six facets, 24 lists of cuts, an array of at most three | `Index`, `LoupeIsExact`, `ImplementsDiamondModel`, `ImmutableStays` |
| `CostReports.cfg` | two workers, two calls each on one report, two deaths | `NothingIsLost`, `OneInside`, `CallsEnd` |
| `CostReportDb.cfg` | two jobs of any of ten kinds, one or two dApps, one signal | `WholeReports`, `FailureHasCause`, `ComparesItself`, `OnlyOwnAreReplaced` |
| `EvmLoader.cfg` | two transactions, one refused by the EVM, two parts and two steps each, one new block hash | `WriteReturnsWhole`, `ReturnsExecuted`, `RaisesHaveCause`, `CallsEnd` |
| `Deposits.cfg` | one worker with five calls in any order, or two with one key, two calls each | `NothingStaysBehind`, `DepositsArrive`, `OperatorIsReady` |
| `Funding.cfg` | a shared bank, or the faucet, or five transactions of two workers; the base fee grows by a tenth | `MoneyIsCollected`, `AccountsAreFunded`, `FeesLast`, `RaisesHaveCause` |
| `LoadTests.cfg` | one user who sends up to three transfers, two who store, one tracer with two requests | `NoncesAgree`, `EachRequestIsReported`, `OneContract`, `DumpIsMined`, `CallsHaveContract` |
| `LostTransactions.cfg` | three transactions, a pool of two, two wrapped levels | `NoFalseAlarm`, `SavingEnds` |
| `Stands.cfg` | two runs at once, of one number or of two, that start from develop or a pull request; or one from any of six events with any branches | `StandIsOwn`, `NothingLeaks`, `FeatureIsUsed` |

Why the bounds are enough. The protocol of the log is symmetric in processes and
entries: a lost update, a torn read or a lock held twice takes two processes and
one entry each. Two tests on two workers give concurrent updates and a worker
that goes on after another died; one crash gives a torn file, a replaced worker
and a lost entry, and the bound of `CrashCost` counts with it. Two
exceptions lose both key sets of two threads, so that `PopFails` happens, with
files left to run; the old logs include one of a file that this run does not have.
Three selectors suffice for a removal from the first, the
middle and the last place and for a last selector that moves twice, and
`MaxUint16 = 3` with four selectors makes the counter overflow. For the reports
two deaths are what it takes for two removals at the same time, and two workers
on one report for a removal during a call; reports of different names share only
the directory. Two jobs interleave every pair of statements of the database.

Two parts arrive in either order and one may be missing; two transactions are
what it takes for the parts of one to come while the other is written, and two
steps for one to be taken for the other. One block hash more than the first
separates messages that would be equal. A pool of two with three transactions
and two levels is full, waits and grows while it is iterated. One refused
airdrop stands for up to five; `MaxRetries = 3` is the value of the code, and so
is the tenth of `BaseFees`; no worker of the run can create more than
`MaxCreated = 3` accounts. Two users who store, and any number of failed
deployments, show the lock and the flag, and one of them stores twice, so that one
transaction waits when the other is made; with three transfers of one sender two
may time out and be mined, or one of them dropped, while the third waits. One
refused answer of GitHub is enough for each way the choice of an image can go,
and a second run for everything that two stands could share: of another number, or
of the same number in another workflow, at once or one after the other.

CHECK_DEADLOCK is off where the system stops: after the notification, after
`analyze`, for a diamond whose constructor reverted or that removed its
`diamondCut`, and when all calls, rounds, jobs or runs have ended. That the session
does not stop earlier is what `RunEnds` says; `CallsEnd` says it of the calls on the
cost reports and of the EVM loader, `SavingEnds` of `test_stop`.

Fairness. `TestSession` and `CostReports` assume weak fairness of each process: the
operating system schedules every one, `FileLock` polls until it gets the lock, and
tests end, at the latest at the `timeout-minutes` of the workflow. There is no
fairness of `Crash`. `EvmLoader` has weak fairness of the test, whose waits have a
time limit, and of Solana, which processes a message or drops it when its block
hash expires. `LostTransactions` has weak fairness of the event loop and of the end
of requests, which the client's timeout gives, and strong fairness of an answer: a
proxy that fails every request from some point on would keep the list from
getting shorter, and `SavingEnds` does not hold for it. The other modules have
safety properties only.

### Where code and text disagree

The models do what the code does. In these places it is not what its text, its
other half or its name says, and no property claims the latter:

- `conftest.py:91` clears the log in the session start of every worker process,
  also of a replacement in the middle of a run; the option's help says "Don't
  clear ... before run" (`clickfile.py:552`). `CrashCost` bounds the
  loss under `--keep-error-log`; without it, what was recorded before is gone.
- A worker that dies between the two halves of `write_text` leaves an empty file.
  With `--keep-error-log` nothing clears it: all later updates raise, and
  `send-notification` ends with an exception before it sends anything. `CrashCost`
  and `RunEnds` say that this happens only then.
- `clickfile.py:175` swallows a failed setup, nothing clears the results, and
  `oz analyze` judges the logs of an earlier run. `SuccessIsAllOrNothing` says that
  it never judges a mixture of both.
- `clickfile.py:1107` does not take a job of a version branch for a merge if the
  other service runs with another tag (`v1.1.x-fix` with `latest`): earlier reports of
  the branch are deleted, those of merges too. `OnlyOwnAreReplaced` says that no others
  are.
- `conftest.py:94` removes the lock files with the reports: calls that are under way
  may then be inside together with later ones, and lose what they append.
  `NothingIsLost` and `OneInside` are about all others.
- `tracerapi/locustfile.py:137` catches Exception: the event of a request in flight at
  the end of the test is never fired and stays in the buffer.
- `check_lost_trx.py:40` reports a transaction as not found when its own request fails.
- `solana_client.py:170` sends a mint without waiting for it (`mint_spl_to`; the fixtures
  that mint also pass through `integration/tests/conftest.py:305`): if it gets lost, the
  deposit that follows fails, since there is nothing to take.
- `clickfile.py:685` puts an empty list under the group `oz` when too few tests
  passed and none failed; `has_logs` then holds, `catch_traceback` ("Catch
  traceback to file", `clickfile.py:117`) adds no comment, and the counts are
  empty.
- `clickfile.py:1207` takes the commits for the title from the first row of the
  tags, which `get_historical_data` has sorted from the oldest on; for merges
  that are compared it is one of an older report.
- `solana_client.py:53` waits for a balance of at least the amount, not for the
  airdrop: an account that has as much already returns at once.
- `prepare_data/locustfile.py:140` stores the sender's balance as the
  recipient's, since `get_balances` returns the sender's first, and in wei, while
  `tracerapi/locustfile.py` compares with NEON. `eth_getBalance` is reported as
  wrong then.
- `prepare_data/locustfile.py:38` unpacks the result of a task, which is None as
  long as there is no contract.
- `loadtesting/proxy/common/base.py:50` draws the number of the file at random,
  so that one process may write over the file of another, and
  `scripts/check_lost_trx.py:30` keeps the last file it reads;
  `check_lost_trx.py:68` maps over Solana transactions and as many clients as
  there are Neon transactions, and ends with the shorter list.
- `TFSTATE_KEY` is made of `github.run_number`, which every workflow counts for
  itself, and five workflows use the same prefix (`basic.yml:88`, `openzeppelin.yml:63`,
  `economy.yml:52`, `dapps.yml:75`, `compiler_compatibility.yml:69`): runs of two
  workflows may have one state, and replace, destroy or lose each other's servers.
  `StandIsOwn` and `NothingLeaks` except the runs that meet so (`met`), and no others.
- `clickfile.py:448` takes a refusal of GitHub for a branch that does not exist, and
  `infrastructure.py:107` does not look at the result of the destroy: `FeatureIsUsed`
  lets a refused repository fall back, and `NothingLeaks` excepts a run whose destroy
  failed. They say that nothing else has these effects.

## Proofs

All proofs are checked by tlapm with its SMT, Zenon and LS4 backends.

- `ErrorLogProofs`: `TypeCorrect`, `MutualExclusion`, `ErrorLogIsAtomic`. The
  inductive invariant says of each process in the critical section that it holds
  the lock, and what its memory holds: after `Load`, the request applied to the
  log in the file; in "truncated" the file is torn. Without the second part a
  `Write` could not be matched with an `Add` of the abstract log. From it every
  step maps to `Add`, `Clear` or a stutter.
- `TestSessionProofs`: `NotificationIsExact`, `CrashesCostTheirTest`. They rest on the
  invariant of `ErrorLogProofs` (instance `E`). The new part balances accounts: for
  every test that was handed out, what the log has and what the worker that runs it
  still has to record (`InHand`, `Rest`) is what its reports say, no more and, but for
  the tests that are `Lost`, no less; a test gets lost only when its worker dies, so
  there are at most as many as crashes, at whichever step of an update it dies. What
  a process has loaded is the log as of now (`LoadedFits`), and what the notification
  has read is what the log has after the workers ended (`NoticeFits`). For `CrashCost`
  `CutFits` adds what became of the file: with the log kept it is torn for good once a
  worker died over the emptied file, and a read raises only then.
- `OzRunnerProofs`: `Exclusion`, `Conservation`, `PopIsSafe`. A thread has a key
  set exactly while it is in "hardhat"; the cardinality of the threads with a key
  set plus the length of the list plus the lost key sets is constant, and a thread that
  pops has none, so all of these but as many as are lost find one.
  `SuccessIsOfAllFiles`: for a file that was handed out this run has written the logs, or a
  thread is at it, or its call has raised (`HandedOut`); the pool ends in an exception if a
  call did, so when `oz analyze` starts either all files were written or none was handed
  out (`AnalyzedAsAWhole`), and without any logs every version is rejected, as each asks
  for at least one passed test.
  For `Stands`: `StandsAreOwn`, `StandsAreDestroyed`, `ImagesFollowBranches`. What
  terraform lists under a number, or has read there, are servers of runs with that number
  (`StateIsOwn`), and two runs of one number that are under way have met
  (`MeetingIsSeen`). So nobody else writes the state of a run that has not met another:
  unless terraform was killed it lists all the servers of the run, and none before apply
  and after destroy (`StateIsComplete`); tags are those of the answers that GitHub gave
  (`TagsAreChosen`).
- `DiamondProofs`: `TypeCorrect`, `MappingAndArrayAgree`,
  `ImmutableFunctionsStay`. `Index` alone is not inductive: a removal needs that
  the local count is the array's length, a revert that the committed storage is
  consistent as well, an addition that the facet is not the address zero.
  `CutsAreUpgrades` is the refinement: the routes in the middle of a transaction are what
  the model's recursive functions (`DuringCut`, `DuringCuts`) make of the selectors and cuts
  so far, each iteration permits what the model permits, and the end commits all of it.
  `LoupeTellsTheRoutes`: after n selectors the loops of the loupe have named each selector
  of a facet among the first n once, and each facet once; with the agreement of mapping and
  array that is all of them. Both are inductions over positions. Instead of an
  induction rule they take the least number at which a fact fails, which a well-founded
  order has, and show that there is none; a recursive function exists and is unique by the
  same argument (`Recursion`, `RecursionIsUnique`).
- `CostReportsProofs`: `TypeCorrect`, `Exclusion`. Mutual exclusion follows from
  the flock only if all hold the same inode, so the invariant adds that the lock file
  which a call has opened is the one that is there unless the call is stale
  (`OpenIsCurrent`), and that every call under way during a removal is
  (`RemovalsMakeStale`). `Recorded` says that no recorded action is lost: as long as
  anything counts, that is, some action is not at risk, no removal is going on and no
  stale call is left (`Quiet` or `NothingCounts`); then a worker that is inside finds the
  report as it left it (`ReportsAreMine`), and each action that counts is in the report
  or in what is about to be written to it (`Kept`, `Carries`).
- `EvmLoaderProofs`: `Types`, `WriteIsWhole`. `Types` needs that a message under way
  is one that its kind allows, and that the holder has a transaction and steps left while
  it is active. For `WriteIsWhole` the invariant follows one call to write: its own
  messages are parts of its transaction, each offset below the index was sent,
  each below the confirmed one is processed, and while no other message came in
  between, the account is for this transaction and has every part of `own` that
  was processed. The order of arrival plays no role in it.
  `StepsAreExecuted` adds where the EVM is (`Steps`): the account is as the index of the
  call says, or as it will be once the message that is waited for has landed
  (`Progress`); messages under way have not been processed before (`InFlightIsNew`).
  `RaisesAreCaused` is about calls without trouble: their own messages differ from
  each other, nothing else is under way, and the account is ready for what they do
  (`OwnDiffer`, `Quiet`, `AccountReady`; for a cancellation, that the EVM has begun the
  transaction), so no message can fail or be taken for another.
  For `Deposits`: `OperatorsAreReady`, since whatever the status of a creation, there is
  an operator account once it is processed; and `NothingIsLeftBehind`, whose invariant
  says that the tokens of a long deposit are those its one worker still carries: its
  transactions are processed once; those that are still under way after a timeout belong
  to calls that raised (`TokensAreCarried`, `ProcessedOnce`, `LateHasRaised`); and the
  mint, for which nobody waits, is under way, processed or lost, and a deposit is
  processed well only after it, since it takes what was minted.
  `DepositsAreMade` balances accounts: what an account has is the sum over the calls whose
  last transaction was processed (`BalanceIsSum`), which no transaction is twice
  (`SingleOnce`, `ProcessedOnce`); a call that returned is among them
  (`ReturnedHasArrived`), and each of them has returned, has raised or is at work
  (`Known`). The lemmas about `Total` come first: the sum of the community modules exists
  and is unique, does not depend on the element that is taken first (`TotalWithout`),
  and grows with the calls (`TotalIsCovered`); of the subsets without such a property one
  would be least.
- `LoadTestsProofs`: `Types`, `Nonces`, `Requests`, `Contract`, `Dump`, `EthCalls`. Only a
  sender sends from its account, and a block never changes once it is there. What waits
  in the mempool for a sender are nonces in a row, from the count of the latest block on
  (`Queues`), unless one was dropped from under a later one; a transaction is made with
  the nonce behind the row, so when its receipt is there all before it are mined, the
  pending count is that of its block, and an entry says what the tracer will find. A store
  that deploys has the lock, the flag is set while the lock is held, and nothing
  is deployed before the flag is set. Before there is a dump no user of the
  tracer does anything; after that the flag of `EthCall` implies its contract. An event is
  in the buffer exactly while its user waits or has been killed while it did
  (`ReportedAt`).
  For `LostTransactions`: `NoAlarmIsFalse`; what is in a dictionary, a file or the
  script's memory was mined at some time (`Noted`, `Kept`, `Examined`), only lost
  transactions stop being known, and a known one is found unless its request fails.
  For `Funding`: `AccountsHaveMoney`, `AllMoneyIsKnown`, `FeesAreEnough`. An account in
  creation can only get what it is created with, from one transaction or several
  grants of the same amount (`FundedOK`); nobody knows of an account that was not
  created (`Fresh`); only the teardown sends from created accounts (`MempoolOK`); and the
  base fee that was asked for is still the one in the transaction when it is sent
  (`FeesOK`, `Lasting`), so a tenth more is within `MaxFee`.
  `RefusalsAreExplained`: the transactions of an account that are under way have different
  nonces, none of them mined before (`NoncesDiffer`, `Ahead`, `Behind`), so the pending nonce
  is free, by the pigeonhole principle (`PendingNonceIsFree`), and stays free until the
  worker sends unless another one has begun a call with the same payer (`NonceIsFree`). A
  created account has what `restore` computes from (`IsSolvent`), since only one transaction
  gives money back unless nobody waited for an earlier one (`GivenBack`).
- `CostReportDbProofs`: `TypeCorrect`, `ReportsAreWhole`, `ReplacedByTheirOwn`. The
  invariant says that ids are unique and below `nextId`, that a job has its own
  report's id, that what it still has to add and what is pending make up its
  report, and that what it found to delete is of its own repository and tag
  (`FoundIsOwn`). For `FailuresAreCaused` and
  `OwnIsCompared` it adds, of a job that is alone with its tag and not signalled: it has
  no rivals that are running, its report is the last one of the tag and has all its
  rows once they are committed, and what its queries returned is about others or
  itself as the comparison needs it (`Undisturbed`).

The assumptions are those named in the modules: sentinels are not values, key
sets are distinct and there is one for each thread, the address of the diamond
is not zero, bounds are numbers, prices are natural numbers (`PricesAreNat`),
thresholds are positive (`ThresholdsArePositive`), a missing log is no result
(`NoLogIsNoResult`), what the runner lists are test files (`FilesAreListed`), a revert is no
table of routes (`RevertedIsNoRoute`),
tests ask for what the fixtures offer (`CallsAreCalls` of `Funding` and
`Deposits`), and, in `CostReportDb`, every run measures something
(`ReportsHaveRows`) and versions of tags have an order (`VersionsAreOrdered`). TLC
evaluates them in the runs. No theorem has a hypothesis beyond them.

The type invariants are theorems and no properties of the runs.

Every invariant and action property of the runs, and both refinements, are
theorems. Model-checked only: liveness (`RunEnds`, `SavingEnds`, and `CallsEnd` of the
cost reports and of the EVM loader), which is out of the prover's reach.

## Not modelled

- The plots and the data of the cost reports: `prepare_report_data` numbers equal
  actions and asks Solana for accounts, the rest is layout.
- Token and wrapper contracts, and the other test contracts: copies of well-known
  ones, or single calls of opcodes and precompiles. The diamond is modelled
  because it has a data structure of its own.
- The test cases of `integration/tests`, their fixtures, page objects and REST
  clients: straight-line code against a live stand, with no state but the
  accounts of `Funding` and `Deposits`.
- The other load tests and the k6 scripts: they send one kind of transaction again
  and again and keep nothing.
- Infrastructure scripts and the workflows without a stand: configuration. The
  order of run, analyze and send-notification is part of `TestSession` and
  `OzRunner`.
- The composition of command lines, allure reports, amounts that no property
  tells apart, and the text of messages.

- The ERC-20 stages of the tracer load tests: their task sets have no `get_balances`, so
  that each task raises before its first request and changes nothing. They could be
  added once they have one.
