--------------------------- MODULE LostTransactions ---------------------------
(***************************************************************************)
(* loadtesting/proxy with SAVE_TRANSACTIONS: every Locust process keeps    *)
(* the hashes of the transactions it sends, and at test_stop asks the      *)
(* proxy for the Solana transactions of each and writes them to a file.    *)
(* scripts/check_lost_trx.py looks later whether they are still there.     *)
(***************************************************************************)
EXTENDS Naturals, Sequences, FiniteSets, Functions, SequencesExt, PythonNone

CONSTANTS
    Processes,   \* Locust processes
    MaxCalls,    \* bound: transactions that a process sends
    PoolSize,    \* Pool(10)
    Numbers,     \* random.randint(0, 1000)
    Depth,       \* wrapped methods of the client that call each other to send
    SolTxs,      \* Solana transactions of a Neon transaction
    Junk         \* a word that looks like a hash: an address, an object id

ASSUME Bounds == {MaxCalls, PoolSize, Depth, SolTxs} \subseteq Nat \ {0}

VARIABLES
    calls,     \* number of transactions each process has sent
    pending,   \* transactions that are not mined yet
    mined,     \* transactions the stand knows
    lost,      \* transactions that it has forgotten
    saved,     \* saved_transactions, what is left of it for the loop of test_stop
    asking,    \* greenlets of the pool: what they ask for
    trx,       \* the dictionary that is filled at test_stop
    pc,        \* where each process is
    files,     \* transactions-{number}.json
    txs,       \* what check_lost_trx.py has loaded
    checked,   \* transactions it has asked for
    found,     \* those it got an answer for
    unanswered \* history: those for which its request failed

stand == <<pending, mined, lost>>
saving == <<saved, asking, trx, pc>>
check == <<txs, checked, found, unanswered>>
lostTrxVars == <<calls, stand, saving, files, check>>

-----------------------------------------------------------------------------
Txs == Processes \X (1..MaxCalls)

\* The Solana transactions of a Neon transaction.
SolOf(tx) == [i \in 1..SolTxs |-> <<tx, i>>]

Nothing == [tx \in {} |-> <<>>]

LostTrxInit ==
    /\ calls = [w \in Processes |-> 0]
    /\ pending = {} /\ mined = {} /\ lost = {}
    /\ saved = [w \in Processes |-> <<>>]
    /\ asking = [w \in Processes |-> <<>>]
    /\ trx = [w \in Processes |-> Nothing]
    /\ pc = [w \in Processes |-> "run"]
    /\ files = [n \in Numbers |-> None]
    /\ txs = None /\ checked = {} /\ found = {} /\ unanswered = {}

-----------------------------------------------------------------------------
(***************************************************************************)
(* A method of the client that sends.  save_transaction wraps each method, *)
(* the ones that methods call too: each level appends the hash of the      *)
(* receipt, or the first word of the exception that starts with 0x.        *)
(***************************************************************************)
Saves(w, word) == \E n \in 1..Depth : saved' = [saved EXCEPT ![w] = @ \o [i \in 1..n |-> word]]

save_transaction(w, tx) ==
    \/ mined' = mined \cup {tx} /\ Saves(w, tx) /\ UNCHANGED pending
    \/ pending' = pending \cup {tx} /\ Saves(w, tx) /\ UNCHANGED mined   \* TimeExhausted names it
    \/ /\ Saves(w, Junk) \/ UNCHANGED saved                            \* it was refused
       /\ UNCHANGED <<pending, mined>>

Call(w) ==
    /\ pc[w] = "run" /\ calls[w] < MaxCalls
    /\ calls' = [calls EXCEPT ![w] = @ + 1]
    /\ save_transaction(w, <<w, calls[w] + 1>>)
    /\ UNCHANGED <<lost, asking, trx, pc, files, check>>

Include(tx) ==
    /\ tx \in pending
    /\ pending' = pending \ {tx} /\ mined' = mined \cup {tx}
    /\ UNCHANGED <<calls, lost, saving, files, check>>

Lose(tx) ==
    /\ tx \in mined
    /\ mined' = mined \ {tx} /\ lost' = lost \cup {tx}
    /\ UNCHANGED <<calls, pending, saving, files, check>>

-----------------------------------------------------------------------------
(***************************************************************************)
(* save_transactions_list: the loop over the list starts a greenlet for    *)
(* each hash, and gives way to them only when the pool is full.            *)
(***************************************************************************)
TestStop(w) ==
    /\ pc[w] = "run"
    /\ pc' = [pc EXCEPT ![w] = "spawn"]
    /\ UNCHANGED <<calls, stand, saved, asking, trx, files, check>>

Spawn(w) ==
    /\ pc[w] \in {"spawn", "wait"}
    /\ saved[w] # <<>> /\ Len(asking[w]) < PoolSize
    /\ saved' = [saved EXCEPT ![w] = Tail(@)]
    /\ asking' = [asking EXCEPT ![w] = Append(@, Head(saved[w]))]
    /\ pc' = [pc EXCEPT ![w] = IF Len(asking'[w]) = PoolSize THEN "wait" ELSE @]
    /\ UNCHANGED <<calls, stand, trx, files, check>>

\* Mutant: the loop waits for the greenlets and does not give way to them.
JoinIdle(w) ==
    /\ pc[w] \in {"spawn", "wait"} /\ saved[w] = <<>> /\ asking[w] = <<>>
    /\ pc' = [pc EXCEPT ![w] = "join"]
    /\ UNCHANGED <<calls, stand, saved, asking, trx, files, check>>

JoinAll(w) ==
    /\ pc[w] \in {"spawn", "wait"} /\ saved[w] = <<>>
    /\ pc' = [pc EXCEPT ![w] = "join"]
    /\ UNCHANGED <<calls, stand, saved, asking, trx, files, check>>

Finishes(w, i) == asking' = [asking EXCEPT ![w] = RemoveAt(@, i)]

\* The dictionary with the Solana transactions of one more transaction.
Added(tx, dict) == [t \in DOMAIN dict \cup {tx} |-> IF t = tx THEN SolOf(tx) ELSE dict[t]]

\* Mutant: an answer without a result is taken for an empty list.
AddAny(w, tx) == trx' = [trx EXCEPT ![w] = Added(tx, @)]

\* resp["result"], unless the proxy does not know the transaction.
AddResult(w, tx) ==
    trx' = [trx EXCEPT ![w] = IF tx \in mined THEN Added(tx, @) ELSE @]

get_solana_trx(w) ==
    /\ pc[w] \in {"wait", "join"}
    /\ \E i \in DOMAIN asking[w] : Finishes(w, i) /\ AddResult(w, asking[w][i])
    /\ UNCHANGED <<calls, stand, saved, pc, files, check>>

Appends(w) == saved' = [saved EXCEPT ![w] = Append(@, Junk)]

RequestFails(w) ==
    /\ pc[w] \in {"wait", "join"}
    /\ \E i \in DOMAIN asking[w] : Finishes(w, i)
    /\ IF pc[w] = "wait" THEN Appends(w) ELSE UNCHANGED saved
    /\ UNCHANGED <<calls, stand, trx, pc, files, check>>

\* open(..., "w+"): a file of the same number is written over.
WriteFile(w) ==
    /\ pc[w] = "join" /\ asking[w] = <<>>
    /\ pc' = [pc EXCEPT ![w] = "saved"]
    /\ \E n \in Numbers : files' = [files EXCEPT ![n] = trx[w]]
    /\ UNCHANGED <<calls, stand, saved, asking, trx, check>>

-----------------------------------------------------------------------------
(***************************************************************************)
(* check_lost_trx.py, once all processes have ended.                       *)
(***************************************************************************)
Written == {n \in Numbers : files[n] # None}

\* txs is assigned in the loop over the files: the last one of the glob stays.
load_transactions_list ==
    /\ txs = None
    /\ \A w \in Processes : pc[w] = "saved"
    /\ \E n \in Written : txs' = files[n]
    /\ UNCHANGED <<calls, stand, saving, files, checked, found, unanswered>>

CountIfKnown(tx) == found' = IF tx \in mined THEN found \cup {tx} ELSE found

\* executor.map over the keys: ten threads, in any order.  check_neon_tx takes
\* every exception for "not found", that of a request that failed too.
check_neon_tx ==
    /\ txs # None
    /\ \E tx \in DOMAIN txs \ checked :
         /\ checked' = checked \cup {tx}
         /\ \/ CountIfKnown(tx) /\ UNCHANGED unanswered
            \/ unanswered' = unanswered \cup {tx} /\ UNCHANGED found
    /\ UNCHANGED <<calls, stand, saving, files, txs>>

-----------------------------------------------------------------------------
LostTrxNext ==
    \/ \E w \in Processes : \/ Call(w) \/ TestStop(w) \/ Spawn(w) \/ JoinAll(w)
                            \/ get_solana_trx(w) \/ RequestFails(w) \/ WriteFile(w)
    \/ \E tx \in Txs : Include(tx) \/ Lose(tx)
    \/ load_transactions_list
    \/ check_neon_tx

Steps(w) == Spawn(w) \/ JoinAll(w) \/ WriteFile(w)

\* The event loop runs what can run, and requests end; the proxy answers again and again.
Fairness ==
    \A w \in Processes : /\ WF_lostTrxVars(Steps(w))
                         /\ WF_lostTrxVars(get_solana_trx(w) \/ RequestFails(w))
                         /\ SF_lostTrxVars(get_solana_trx(w))

LostTrxSpec == LostTrxInit /\ [][LostTrxNext]_lostTrxVars /\ Fairness

-----------------------------------------------------------------------------
(***************************************************************************)
(* The script raises no false alarm if its requests are answered: each     *)
(* transaction that it does not find was mined and is lost, or its request *)
(* failed, which it reports as the same (check_neon_tx).                   *)
(***************************************************************************)
NoFalseAlarm == checked \ found \subseteq lost \cup unanswered

(***************************************************************************)
(* test_stop ends with a file, although requests fail and add to the list  *)
(* of the loop, if the proxy answers again and again.                      *)
(***************************************************************************)
SavingEnds == \A w \in Processes : pc[w] = "spawn" ~> pc[w] = "saved"
=============================================================================
