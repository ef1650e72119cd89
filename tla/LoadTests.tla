------------------------------ MODULE LoadTests ------------------------------
(***************************************************************************)
(* loadtesting: users of the preparation stage (tracerapi/prepare_data)    *)
(* send transactions and write down where they were mined; then users of   *)
(* tracerapi/locustfile.py ask the tracer about these blocks and compare.  *)
(* The users of one process are greenlets: they run in turns, and give way *)
(* at every request.  Users of the ERC20 stages change nothing: their task *)
(* sets have no get_balances, and every task raises.                       *)
(***************************************************************************)
EXTENDS Naturals, Sequences, FiniteSets, FiniteSetsExt, PythonNone

CONSTANTS
    Senders,     \* users of NeonTransferPreparationStage
    Stores,      \* users of EthGetStorageAtPreparationStage
    Tracers,     \* users of EthRPCAPICallUsers
    Rich,        \* what the faucet gives to a sender
    Wei,         \* get_balance counts in wei, the tracer tests in NEON
    Transfers,   \* bound: tasks of each sender
    Values,      \* bound: tasks of each user who stores
    Queries      \* bound: requests of each tracer

ASSUME BoundsAreNumbers ==
    {Rich, Wei, Transfers, Queries} \subseteq Nat /\ Values \in [Stores -> Nat]
ASSUME UsersDiffer ==
    /\ Senders \cap Stores = {} /\ Tracers \cap (Senders \cup Stores) = {}
    /\ None \notin Stores

VARIABLES
    blocks,    \* the chain: balances and transaction counts after each block
    pool,      \* the mempool of the proxy
    gap,       \* history: it dropped a transaction from under a later one of its sender
    user,      \* what each user does, with its local variables
    lock,      \* _deploy_contract_locker
    done,      \* _deploy_contract_done
    contract,  \* storage_contract
    deployed,  \* storage contracts on the chain
    history,   \* transaction_history
    dump,      \* dumped_data/transaction.json
    buffer,    \* LocustEventHandler.buffer: tasks that run
    fired,     \* number of fired events of each user
    ethCall,   \* EthCall: _deploy_contract_done and _contract
    errors     \* how tasks of the tracer tests failed

proxy == <<blocks, pool, gap>>
locals == <<lock, done, contract, deployed>>
tracing == <<buffer, fired, ethCall>>
vars == <<proxy, user, locals, history, dump, tracing, errors>>

-----------------------------------------------------------------------------
Preparing == Senders \cup Stores

\* create_account gives the n-th recipient of a sender.
Accounts == ((Senders \cup Stores) \X {0}) \cup (Senders \X (1..(Transfers + 1)))
Own(u) == <<u, 0>>

Latest == blocks[Len(blocks)]

Resting == [stage |-> "start", recipient |-> 0, block |-> 0, nonce |-> 0, rounds |-> 0,
            tx |-> None, by |-> None, answer |-> None]

Init ==
    /\ blocks = <<[balance |-> [a \in Accounts |-> IF a[2] = 0 THEN Rich ELSE 0],
                   count |-> [a \in Accounts |-> 0]]>>
    /\ pool = {} /\ gap = FALSE
    /\ user = [u \in Preparing \cup Tracers |-> Resting]
    /\ lock = None /\ done = FALSE /\ contract = None /\ deployed = 0
    /\ history = {}
    /\ dump = None
    /\ buffer = {}
    /\ fired = [u \in Tracers |-> 0]
    /\ ethCall = [done |-> FALSE, contract |-> None]
    /\ errors = {}

At(u, stage) == user[u].stage = stage

Goes(u, stage) == user' = [user EXCEPT ![u].stage = stage]

\* A task ends, and its local variables are gone.
EndTask(u, stage) ==
    user' = [user EXCEPT ![u] = [@ EXCEPT !.stage = stage, !.block = 0, !.nonce = 0,
                                          !.tx = None, !.answer = None]]

Error(u, what) == errors' = errors \cup {<<u, what>>}

-----------------------------------------------------------------------------
(***************************************************************************)
(* The stand.  A transaction waits in the mempool, is mined in the order   *)
(* of the nonces of its sender, in a block of its own, or is dropped; that *)
(* its sender has stopped to wait for it changes nothing.  Bound: not when *)
(* the history is written, since nobody asks about the blocks after that.  *)
(***************************************************************************)
MineSent(t) ==
    /\ dump = None
    /\ t \in pool /\ t.nonce = Latest.count[t.from] /\ t.value <= Latest.balance[t.from]
    /\ pool' = pool \ {t}
    /\ blocks' = Append(blocks,
         [balance |-> [[Latest.balance EXCEPT ![t.from] = @ - t.value] EXCEPT ![t.to] = @ + t.value],
          count |-> [Latest.count EXCEPT ![t.from] = @ + 1]])
    /\ UNCHANGED <<gap, user, locals, history, dump, tracing, errors>>

\* A later transaction of the sender is in the mempool, or on its way to it.
HasLater(t) ==
    \/ \E l \in pool : l.from = t.from /\ l.nonce > t.nonce
    \/ \E u \in Senders : At(u, "send") /\ Own(u) = t.from /\ user[u].nonce > t.nonce

DropSent(t) ==
    /\ dump = None /\ t \in pool
    /\ pool' = pool \ {t}
    /\ gap' = (gap \/ HasLater(t))
    /\ UNCHANGED <<blocks, user, locals, history, dump, tracing, errors>>

\* The count with "pending": the first nonce that is not taken.  No sender has one
\* above Transfers.
Taken(a, n) == \E t \in pool : t.from = a /\ t.nonce = n

IsNext(a, n) ==
    /\ n >= Latest.count[a] /\ ~Taken(a, n)
    /\ \A m \in Latest.count[a]..(n - 1) : Taken(a, m)

\* The blocks that have the transaction of account a with nonce n.
BlocksOf(a, n) ==
    {b \in 2..Len(blocks) : blocks[b].count[a] = n + 1 /\ blocks[b - 1].count[a] = n}

Sends(u, to, value, nonce) ==
    pool' = pool \cup {[from |-> Own(u), to |-> to, value |-> value, nonce |-> nonce]}

-----------------------------------------------------------------------------
(***************************************************************************)
(* NeonTransferPreparationStage.send_neon: the balances, the nonce, the    *)
(* transfer to a new account and its receipt, the nonce and the balances.  *)
(***************************************************************************)
get_balances(u) == <<Latest.balance[Own(u)], Latest.balance[<<u, user[u].recipient>>]>>

SenderStarts(u) ==
    /\ At(u, "start")
    /\ user' = [user EXCEPT ![u].stage = "ready", ![u].recipient = 1]
    /\ UNCHANGED <<proxy, locals, history, dump, tracing, errors>>

BalancesBefore(u) ==
    /\ At(u, "ready") /\ user[u].rounds < Transfers
    /\ user' = [user EXCEPT ![u].stage = "before", ![u].rounds = @ + 1]
    /\ UNCHANGED <<proxy, locals, history, dump, tracing, errors>>

NonceBefore(u) ==
    /\ At(u, "before")
    /\ \E n \in 0..Transfers :
         /\ IsNext(Own(u), n)
         /\ user' = [user EXCEPT ![u].stage = "send", ![u].nonce = n, ![u].recipient = @ + 1]
    /\ UNCHANGED <<proxy, locals, history, dump, tracing, errors>>

task_send_neon(u) ==
    /\ At(u, "send")
    /\ Sends(u, <<u, user[u].recipient>>, 1, user[u].nonce)
    /\ Goes(u, "receipt")
    /\ UNCHANGED <<blocks, gap, locals, history, dump, tracing, errors>>

TransferMined(u) ==
    /\ At(u, "receipt")
    /\ \E b \in BlocksOf(Own(u), user[u].nonce) :
         user' = [user EXCEPT ![u].stage = "nonce", ![u].block = b]
    /\ UNCHANGED <<proxy, locals, history, dump, tracing, errors>>

\* A request of the task fails: the transaction is refused, or there is no
\* receipt in time, and the task ends.
SendFails(u) ==
    /\ user[u].stage \in {"before", "send", "receipt", "nonce", "after"}
    /\ EndTask(u, "ready")
    /\ UNCHANGED <<proxy, locals, history, dump, tracing, errors>>

\* Mutant: the nonce that the transaction was sent with.
NonceOfTransaction(u) ==
    /\ At(u, "nonce")
    /\ Goes(u, "after")
    /\ UNCHANGED <<proxy, locals, history, dump, tracing, errors>>

NonceAfter(u) ==
    /\ At(u, "nonce")
    /\ \E n \in 0..Transfers :
         /\ IsNext(Own(u), n)
         /\ user' = [user EXCEPT ![u].stage = "after", ![u].nonce = n]
    /\ UNCHANGED <<proxy, locals, history, dump, tracing, errors>>

\* Mutant: the latest block instead of that of the receipt.
RecordedLatest(u, balances) ==
    [kind |-> "transfer", from |-> Own(u), to |-> <<u, user[u].recipient>>, block |-> Len(blocks),
     recipient_balance_after |-> Wei * balances[1],
     sender_nonce |-> user[u].nonce]

\* get_balances returns the sender first; the caller takes it for the recipient.
Recorded(u, balances) ==
    [kind |-> "transfer", from |-> Own(u), to |-> <<u, user[u].recipient>>, block |-> user[u].block,
     recipient_balance_after |-> Wei * balances[1],
     sender_nonce |-> user[u].nonce]

BalancesAfter(u) ==
    /\ At(u, "after")
    /\ history' = history \cup {Recorded(u, get_balances(u))}
    /\ EndTask(u, "ready")
    /\ UNCHANGED <<proxy, locals, dump, tracing, errors>>

-----------------------------------------------------------------------------
(***************************************************************************)
(* EthGetStorageAtPreparationStage: one user deploys for all, under a lock.*)
(***************************************************************************)
\* Mutant: the flag is looked at without the lock.
LockFree(u) ==
    /\ At(u, "start")
    /\ Goes(u, IF done THEN "ready" ELSE "deploy")
    /\ UNCHANGED <<proxy, locals, history, dump, tracing, errors>>

TakeLock(u) ==
    /\ At(u, "start") /\ lock = None
    /\ IF done THEN Goes(u, "ready") /\ UNCHANGED <<lock, done>>
       ELSE Goes(u, "deploy") /\ lock' = u /\ done' = TRUE
    /\ UNCHANGED <<proxy, contract, deployed, history, dump, tracing, errors>>

deploy_storage_contract(u) ==
    /\ At(u, "deploy")
    /\ lock' = None
    /\ \/ /\ deployed' = deployed + 1 /\ contract' = u /\ done' = TRUE
          /\ Goes(u, "ready")
       \/ /\ done' = FALSE /\ Goes(u, "ready")
          /\ UNCHANGED <<deployed, contract>>
       \/ /\ deployed' \in {deployed, deployed + 1}
          /\ Goes(u, "start")
          /\ UNCHANGED <<contract, done>>
    /\ UNCHANGED <<proxy, history, dump, tracing, errors>>

(***************************************************************************)
(* The nonce is the count without "pending".  If the transaction of that   *)
(* nonce is not mined yet, the new one takes its place, or is refused.     *)
(***************************************************************************)
prepare_data_by_store_int(u) ==
    /\ At(u, "ready") /\ user[u].rounds < Values[u]
    /\ IF contract # None
       THEN /\ user' = [user EXCEPT ![u].stage = "storing", ![u].rounds = @ + 1,
                                    ![u].nonce = Latest.count[Own(u)]]
            /\ Sends(u, Own(u), 0, Latest.count[Own(u)])
       ELSE /\ user' = [user EXCEPT ![u].rounds = @ + 1]      \* a TypeError
            /\ UNCHANGED pool
    /\ UNCHANGED <<blocks, gap, locals, history, dump, tracing, errors>>

StoreRefused(u) ==
    /\ At(u, "ready") /\ user[u].rounds < Values[u] /\ contract # None
    /\ user' = [user EXCEPT ![u].rounds = @ + 1]
    /\ UNCHANGED <<proxy, locals, history, dump, tracing, errors>>

StoreMined(u) ==
    /\ At(u, "storing")
    /\ \E b \in BlocksOf(Own(u), user[u].nonce) :
         history' = history \cup {[kind |-> "store", from |-> Own(u), to |-> contract, block |-> b]}
    /\ EndTask(u, "ready")
    /\ UNCHANGED <<proxy, locals, dump, tracing, errors>>

StoreTimesOut(u) ==
    /\ At(u, "storing")
    /\ EndTask(u, "ready")
    /\ UNCHANGED <<proxy, locals, history, dump, tracing, errors>>

-----------------------------------------------------------------------------
(***************************************************************************)
(* The test is stopped: the users are killed wherever they are, which      *)
(* frees the lock, and the history is written if there is some.            *)
(***************************************************************************)
Teardown ==
    /\ dump = None /\ history # {}
    /\ dump' = history
    /\ user' = [u \in DOMAIN user |-> IF u \in Preparing THEN [Resting EXCEPT !.stage = "gone"]
                                     ELSE user[u]]
    /\ lock' = None
    /\ deployed' \in {deployed} \cup {deployed + 1 : u \in {c \in Stores : At(c, "deploy")}}
    /\ UNCHANGED <<proxy, done, contract, history, tracing, errors>>

(***************************************************************************)
(* The tracer tests.  A user takes one of the task sets and stays in it.   *)
(***************************************************************************)
TaskSets == {"eth_getBalance", "eth_getTransactionCount", "eth_getStorageAt"}

\* RPCType
Kind(method) == IF method \in {"eth_getStorageAt", "eth_call"} THEN "store" ELSE "transfer"

\* What _get_random_transaction chooses from.
Entries(method) == {t \in dump : t.kind = Kind(method)}

Enters(u, method) == user' = [user EXCEPT ![u].stage = "tasks", ![u].by = method]

EnterTaskSet(u) ==
    /\ At(u, "start") /\ dump # None
    /\ \E method \in TaskSets : Enters(u, method)
    /\ UNCHANGED <<proxy, locals, history, dump, tracing, errors>>

\* Mutant: the contract is not kept for the other users.
KeepsFlag(tx) == ethCall' = [ethCall EXCEPT !.done = TRUE]

KeepsContract(tx) == ethCall' = [done |-> TRUE, contract |-> tx.to]

(***************************************************************************)
(* EthCall.on_start, under its lock and without a request.  Without an     *)
(* entry it raises, the flag stays, and the user takes another task set.   *)
(***************************************************************************)
EnterEthCall(u) ==
    /\ At(u, "start") /\ dump # None
    /\ \/ ethCall.done /\ Enters(u, "eth_call") /\ UNCHANGED <<ethCall, errors>>
       \/ /\ ~ethCall.done
          /\ \E tx \in Entries("eth_call") : KeepsContract(tx)
          /\ Enters(u, "eth_call") /\ UNCHANGED errors
       \/ /\ ~ethCall.done /\ Entries("eth_call") = {}
          /\ ethCall' = [ethCall EXCEPT !.done = TRUE]
          /\ Error(u, "KeyError") /\ UNCHANGED user
    /\ UNCHANGED <<proxy, locals, history, dump, buffer, fired>>

\* A task raises before its request: there is no entry, or no contract, or
\* build_transaction fails.
TaskRaises(u) ==
    /\ At(u, "tasks")
    /\ IF user[u].by = "eth_call"
       THEN Error(u, IF ethCall.contract = None THEN "AttributeError" ELSE "build")
       ELSE Entries(user[u].by) = {} /\ Error(u, "KeyError")
    /\ UNCHANGED <<proxy, user, locals, history, dump, tracing>>

\* A request, which statistics_collector times, about the block of an entry.
SendRpc(u, tx) ==
    /\ At(u, "tasks") /\ user[u].rounds < Queries
    /\ user[u].by = "eth_call" => ethCall.contract # None
    /\ tx \in Entries(user[u].by)
    /\ buffer' = buffer \cup {u}
    /\ user' = [user EXCEPT ![u].stage = "rpc", ![u].tx = tx, ![u].rounds = @ + 1]
    /\ UNCHANGED <<proxy, locals, history, dump, fired, ethCall, errors>>

\* What the tracer answers, from the block it was asked for.
Answer(tx, method) ==
    CASE method = "eth_getBalance" -> blocks[tx.block].balance[tx.to]
      [] method = "eth_getTransactionCount" -> blocks[tx.block].count[tx.from]
      [] OTHER -> 1

Fire(u) ==
    /\ buffer' = buffer \ {u}
    /\ fired' = [fired EXCEPT ![u] = @ + 1]

\* Mutant: an exception leaves the event in the buffer.
NoFire(u) == UNCHANGED <<buffer, fired>>

FireFailure(u) == Fire(u)

\* The request failed: the event has the exception, and the answer is not there.
RpcFails(u) ==
    /\ At(u, "rpc")
    /\ FireFailure(u)
    /\ EndTask(u, "tasks") /\ Error(u, "rpc")
    /\ UNCHANGED <<proxy, locals, history, dump, ethCall>>

Rpc(u) ==
    /\ At(u, "rpc")
    /\ Fire(u)
    /\ user' = [user EXCEPT ![u].stage = "compare", ![u].answer = Answer(user[u].tx, user[u].by)]
    /\ UNCHANGED <<proxy, locals, history, dump, ethCall, errors>>

Expected(tx, method) ==
    CASE method = "eth_getBalance" -> tx.recipient_balance_after
      [] method = "eth_getTransactionCount" -> tx.sender_nonce
      [] OTHER -> 1

Compare(u) ==
    /\ At(u, "compare")
    /\ EndTask(u, "tasks")
    /\ IF user[u].answer = Expected(user[u].tx, user[u].by)
       THEN UNCHANGED errors ELSE Error(u, user[u].by)
    /\ UNCHANGED <<proxy, locals, history, dump, tracing>>

(***************************************************************************)
(* The test is stopped.  GreenletExit is no Exception: nothing fires the   *)
(* event of a user who is killed while it waits for the answer.            *)
(***************************************************************************)
StopTracing ==
    /\ dump # None
    /\ user' = [u \in DOMAIN user |->
                  [user[u] EXCEPT !.stage = IF @ \in {"rpc", "cut"} THEN "cut" ELSE "gone"]]
    /\ UNCHANGED <<proxy, locals, history, dump, tracing, errors>>

-----------------------------------------------------------------------------
Next ==
    \/ \E t \in pool : MineSent(t) \/ DropSent(t)
    \/ \E u \in Senders : \/ SenderStarts(u) \/ BalancesBefore(u) \/ NonceBefore(u)
                          \/ task_send_neon(u) \/ TransferMined(u) \/ SendFails(u)
                          \/ NonceAfter(u) \/ BalancesAfter(u)
    \/ \E u \in Stores : \/ TakeLock(u) \/ deploy_storage_contract(u)
                         \/ prepare_data_by_store_int(u) \/ StoreRefused(u)
                         \/ StoreMined(u) \/ StoreTimesOut(u)
    \/ Teardown \/ StopTracing
    \/ \E u \in Tracers : \/ EnterTaskSet(u) \/ EnterEthCall(u) \/ TaskRaises(u)
                          \/ RpcFails(u) \/ Rpc(u) \/ Compare(u)
                          \/ \E tx \in history : SendRpc(u, tx)

Spec == Init /\ [][Next]_vars

-----------------------------------------------------------------------------
TypeOK ==
    /\ \A b \in DOMAIN blocks : blocks[b].balance \in [Accounts -> Nat]
                                /\ blocks[b].count \in [Accounts -> Nat]
    /\ pool \subseteq [from : Accounts, to : Accounts, value : Nat, nonce : Nat]
    /\ gap \in BOOLEAN
    /\ lock \in Stores \cup {None} /\ done \in BOOLEAN /\ contract \in Stores \cup {None}
    /\ deployed \in Nat
    /\ dump \in {None} \cup SUBSET history
    /\ buffer \subseteq Tracers /\ fired \in [Tracers -> Nat]
    /\ ethCall \in [done : BOOLEAN, contract : Stores \cup {None}]

(***************************************************************************)
(* A right answer to eth_getTransactionCount is not reported as wrong: the *)
(* nonce that was written down is the count at the block of the transfer,  *)
(* although earlier transfers of the user timed out and are mined later;   *)
(* unless the mempool dropped one from under a later one.                  *)
(***************************************************************************)
NoncesAgree == gap \/ \A u \in Tracers : <<u, "eth_getTransactionCount">> \notin errors

(***************************************************************************)
(* Every request of the tracer tests is reported once, if it fails too     *)
(* (LocustEventHandler); only the event of a user who is killed while it   *)
(* waits for the answer stays in the buffer, and is not reported.          *)
(***************************************************************************)
EachRequestIsReported ==
    \A u \in Tracers :
      /\ u \in buffer <=> user[u].stage \in {"rpc", "cut"}
      /\ fired[u] + (IF u \in buffer THEN 1 ELSE 0) = user[u].rounds

(***************************************************************************)
(* One contract is deployed for all users, although they start at once and *)
(* another one tries again after a deployment that failed; one that raised *)
(* may have deployed it (EthGetStorageAtPreparationStage.on_start).        *)
(***************************************************************************)
OneContract == deployed <= 1

(***************************************************************************)
(* EthCall takes its contract "once for all spawned users": if the dump    *)
(* has an entry of the store, no user is without a contract.               *)
(***************************************************************************)
CallsHaveContract ==
    dump # None /\ Entries("eth_call") # {} =>
      \A u \in Tracers : <<u, "AttributeError">> \notin errors

(***************************************************************************)
(* What was dumped can be asked for: every entry has a block in which its  *)
(* sender's transaction was mined.                                         *)
(***************************************************************************)
DumpIsMined ==
    dump # None =>
      \A t \in dump : /\ t.block \in 2..Len(blocks)
                      /\ blocks[t.block].count[t.from] = blocks[t.block - 1].count[t.from] + 1
=============================================================================
