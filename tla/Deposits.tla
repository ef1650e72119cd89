------------------------------ MODULE Deposits ------------------------------
(***************************************************************************)
(* utils/evm_loader.py and utils/solana_client.py: SOL, tokens of Solana   *)
(* and their deposits on a Neon chain.  A call is a list of steps; a step  *)
(* looks at an account, or not, and sends one transaction, which Solana    *)
(* processes as a whole, late, or never.                                   *)
(*                                                                         *)
(* Workers of pytest whose ids end in the same digit share the key of an   *)
(* operator (neon_evm/conftest.py operator_keypair, prepare_operator); a   *)
(* solana_account belongs to one worker.                                   *)
(***************************************************************************)
EXTENDS Integers, FiniteSets, Sequences, FiniteSetsExt, EvmInstructions, PythonNone

CONSTANTS
    Workers,
    Programs,   \* what the workers may run: for each, the calls that it makes, each once
    Refusals    \* bound: refused airdrops of a call

Calls == UNION {p[w] : p \in Programs, w \in Workers}
Keys == {c.key : c \in Calls}
Ethers == {c.to : c \in Calls}

Ops == {"request_airdrop", "send_sol", "deposit_neon", "make_new_user",
        "deposit_wrapped_sol", "deposit_neon_like", "prepare_operator"}

\* The deposits that take more than one transaction.
LongDeposits == {"deposit_wrapped_sol", "deposit_neon_like"}

(***************************************************************************)
(* A test deposits from the solana_account of its worker's session, or     *)
(* from a new key.                                                         *)
(***************************************************************************)
TestsCall ==
    /\ Programs \subseteq [Workers -> SUBSET Calls]
    /\ \A c \in Calls : c.op \in Ops /\ c.amount \in Nat \ {0} /\ c.mint \in {"NEON", "wSOL", "USDT"}
    /\ \A p \in Programs : \A v, w \in Workers : \A c \in p[v], d \in p[w] :
         c.op \in LongDeposits /\ d.op \in LongDeposits /\ c.key = d.key => v = w

ASSUME CallsAreCalls == TestsCall

VARIABLES
    wallet,    \* lamports of each key
    token,     \* associated token accounts: <<key, mint>> to the amount; -1: there is none
    pool,      \* tokens in the pool of each mint
    balance,   \* balances on the Neon chains: <<ether, mint>> to the amount; -1: no account
    operators, \* keys with an operator balance account
    sent,      \* transactions that were sent, and may still be processed
    receipts,  \* processed transactions, with their status
    clients,   \* what each worker does
    left,      \* calls that each worker has not made
    returned,  \* history: calls that returned
    raised     \* history: calls that raised, with their step and the cause

ledger == <<wallet, token, pool, balance, operators>>
depositVars == <<ledger, sent, receipts, clients, left, returned, raised>>

-----------------------------------------------------------------------------
\* The key file of a worker, by the last digit of its id.  ("master" takes that of gw1.)
operator_keypair(id) == IF id = 1 THEN 1 ELSE (id % 10) + 2

(***************************************************************************)
(* The steps of each operation, and a mutant that forgets one.             *)
(***************************************************************************)
ScriptWithoutDeposit(op) ==
    CASE op = "request_airdrop" -> <<"airdrop">>
      [] op = "send_sol" -> <<"send_sol">>
      [] op = "deposit_neon" -> <<"deposit_neon">>
      [] op = "make_new_user" -> <<"airdrop_empty", "balance_account">>
      [] op = "deposit_wrapped_sol" -> <<"token_account", "wrap", "sent_token">>
      [] op = "deposit_neon_like" -> <<"token_account", "mint">>
      [] op = "prepare_operator" -> <<"airdrop", "operator_account">>

Script(op) ==
    CASE op = "request_airdrop" -> <<"airdrop">>
      [] op = "send_sol" -> <<"send_sol">>
      [] op = "deposit_neon" -> <<"deposit_neon">>
      [] op = "make_new_user" -> <<"airdrop_empty", "balance_account">>
      [] op = "deposit_wrapped_sol" -> <<"token_account", "wrap", "sent_token">>
      [] op = "deposit_neon_like" -> <<"token_account", "mint", "sent_token">>
      [] op = "prepare_operator" -> <<"airdrop", "operator_account">>

\* Mutant: the operator is looked up by its lamports.
UnneededIfRich(step, c) ==
    \/ step = "token_account" /\ token[c.key, c.mint] # -1
    \/ step \in {"airdrop_empty", "operator_account"} /\ wallet[c.key] # 0

\* account_exists, get_solana_balance, get_account_info: a step that is done already.
Unneeded(step, c) ==
    CASE step = "token_account" -> token[c.key, c.mint] # -1
      [] step = "airdrop_empty" -> wallet[c.key] # 0
      [] step = "balance_account" -> balance[c.to, "NEON"] # -1
      [] step = "operator_account" -> c.key \in operators
      [] OTHER -> FALSE

IsAirdrop(step) == step \in {"airdrop", "airdrop_empty"}

\* send_tx_and_check_status_ok: no preflight, but the status is looked at.
Checked(step) == step \in {"send_sol", "token_account", "wrap", "sent_token"}

\* Token.mint_to of the library has a preflight, and does not wait for the transaction.
Awaited(step) == step # "mint"

Transaction(w, c, step) == [worker |-> w, call |-> c, step |-> step]

\* spl.token.instructions
Spl(tag, changed) == Instruction(tag, {"owner"}, changed)

InstructionsOf(t) ==
    CASE t.step = "token_account" -> {Spl("createToken", {"owner", "source"})}
      [] t.step = "send_sol" -> {Transfer("owner", "source")}
      [] t.step = "wrap" -> make_wSOL("owner", "source")
      [] t.step = "mint" -> {Instruction("mintTo", {"authority"}, {"source", "mint"})}
      [] t.step = "sent_token" ->
           {Spl("approve", {"source"}),
            make_DepositV03("mint", "source", "pool", "balance", "contract", "owner")}
      [] t.step = "deposit_neon" ->
           {make_CreateAssociatedTokenIdempotent("owner", "source"),
            Instruction("mintTo", {"authority"}, {"source", "mint"}), Spl("approve", {"source"}),
            make_DepositV03("mint", "source", "pool", "balance", "contract", "owner")}
      [] t.step = "balance_account" -> {make_CreateBalanceAccount("owner", "balance", "contract")}
      [] t.step = "operator_account" -> {make_OperatorBalanceAccount("owner", "operatorBalance")}
      [] OTHER -> {}

-----------------------------------------------------------------------------
AtRest == [stage |-> "idle", call |-> None, index |-> 0, tries |-> 0]

DepositsInit ==
    /\ wallet = [k \in Keys \cup Ethers |-> 0]
    /\ token = [p \in Keys \X {"NEON", "wSOL", "USDT"} |-> -1]
    /\ pool = [m \in {"NEON", "wSOL", "USDT"} |-> 0]
    /\ balance = [p \in Ethers \X {"NEON", "wSOL", "USDT"} |-> -1]
    /\ operators = {}
    /\ sent = {}
    /\ receipts = {}
    /\ clients = [w \in Workers |-> AtRest]
    /\ left \in Programs
    /\ returned = {}
    /\ raised = {}

Step(w) == Script(clients[w].call.op)[clients[w].index]
Sent(w) == Transaction(w, clients[w].call, Step(w))

-----------------------------------------------------------------------------
(***************************************************************************)
(* Solana: a transaction is processed as a whole, or it fails.  A transfer *)
(* leaves something for the fee.                                           *)
(***************************************************************************)
Amount(p) == IF token[p] = -1 THEN 0 ELSE token[p]

Failing(t) ==
    LET c == t.call IN
      \/ ~Permitted(InstructionsOf(t), "owner")
      \/ t.step \in {"send_sol", "wrap"} /\ wallet[c.key] <= c.amount
      \/ t.step = "token_account" /\ token[c.key, c.mint] # -1
      \/ t.step \in {"wrap", "mint", "sent_token"} /\ token[c.key, c.mint] = -1
      \/ t.step = "sent_token" /\ token[c.key, c.mint] < c.amount
      \/ t.step = "balance_account" /\ balance[c.to, "NEON"] # -1
      \/ t.step = "operator_account" /\ c.key \in operators

\* The delegate of the approval is the balance account, and takes all of it.
Deposited(c) ==
    /\ pool' = [pool EXCEPT ![c.mint] = @ + c.amount]
    /\ balance' = [balance EXCEPT ![<<c.to, c.mint>>] = (IF @ = -1 THEN 0 ELSE @) + c.amount]

Synced(t) == \E i \in InstructionsOf(t) : i.tag = "sync"

\* mint_to of deposit_neon
Minted(c) == c.amount

Effect(t) ==
    LET c == t.call IN
      /\ wallet' = CASE IsAirdrop(t.step) -> [wallet EXCEPT ![c.key] = @ + c.amount]
                     [] t.step = "send_sol" -> [[wallet EXCEPT ![c.key] = @ - c.amount]
                                                       EXCEPT ![c.to] = @ + c.amount]
                     [] t.step = "wrap" -> [wallet EXCEPT ![c.key] = @ - c.amount]
                     [] OTHER -> wallet
      /\ token' = CASE t.step = "token_account" -> [token EXCEPT ![<<c.key, c.mint>>] = 0]
                    [] t.step = "mint" \/ (t.step = "wrap" /\ Synced(t)) ->
                         [token EXCEPT ![<<c.key, c.mint>>] = @ + c.amount]
                    [] t.step = "sent_token" -> [token EXCEPT ![<<c.key, c.mint>>] = @ - c.amount]
                    [] t.step = "deposit_neon" ->
                         [token EXCEPT ![<<c.key, c.mint>>] =
                            Amount(<<c.key, c.mint>>) + Minted(c) - c.amount]
                    [] OTHER -> token
      /\ CASE t.step \in {"sent_token", "deposit_neon"} -> Deposited(c)
           [] t.step = "balance_account" ->
                balance' = [balance EXCEPT ![<<c.to, "NEON">>] = 0] /\ UNCHANGED pool
           [] OTHER -> UNCHANGED <<pool, balance>>
      /\ operators' = IF t.step = "operator_account" THEN operators \cup {c.key} ELSE operators

Arrive(t) ==
    /\ sent' = sent \ {t}
    /\ IF Failing(t)
       THEN receipts' = receipts \cup {[of |-> t, ok |-> FALSE]} /\ UNCHANGED ledger
       ELSE receipts' = receipts \cup {[of |-> t, ok |-> TRUE]} /\ Effect(t)
    /\ UNCHANGED <<clients, left, returned, raised>>

\* An airdrop, or a transaction whose block hash expired, does not arrive.
Expire(t) ==
    /\ sent' = sent \ {t}
    /\ UNCHANGED <<ledger, receipts, clients, left, returned, raised>>

-----------------------------------------------------------------------------
\* The next step of the call, or its end.
Advance(w) ==
    IF clients[w].index = Len(Script(clients[w].call.op))
    THEN /\ clients' = [clients EXCEPT ![w] = AtRest]
         /\ returned' = returned \cup {[by |-> w, call |-> clients[w].call]}
    ELSE /\ clients' = [clients EXCEPT ![w].stage = "look", ![w].index = @ + 1, ![w].tries = 0]
         /\ UNCHANGED returned

Raise(w, cause) ==
    /\ clients' = [clients EXCEPT ![w] = AtRest]
    /\ raised' = raised \cup {[by |-> w, call |-> clients[w].call, step |-> Step(w), cause |-> cause]}

Start(w, c) ==
    /\ clients[w].stage = "idle"
    /\ c \in left[w]
    /\ left' = [left EXCEPT ![w] = @ \ {c}]
    /\ clients' = [clients EXCEPT ![w] = [AtRest EXCEPT !.stage = "look", !.call = c, !.index = 1]]
    /\ UNCHANGED <<ledger, sent, receipts, returned, raised>>

Look(w) ==
    /\ clients[w].stage = "look"
    /\ IF Unneeded(Step(w), clients[w].call)
       THEN Advance(w)
       ELSE clients' = [clients EXCEPT ![w].stage = "send"] /\ UNCHANGED returned
    /\ UNCHANGED <<ledger, sent, receipts, left, raised>>

\* Both ways to send; send_tx has a preflight.
SendTransaction(w) ==
    /\ clients[w].stage = "send" /\ ~IsAirdrop(Step(w))
    /\ IF ~Checked(Step(w)) /\ Failing(Sent(w))
       THEN Raise(w, "preflight") /\ UNCHANGED <<sent, returned>>
       ELSE /\ sent' = sent \cup {Sent(w)}
            /\ UNCHANGED raised
            /\ IF Awaited(Step(w))
               THEN clients' = [clients EXCEPT ![w].stage = "confirm"] /\ UNCHANGED returned
               ELSE Advance(w)
    /\ UNCHANGED <<ledger, receipts, left>>

\* request_airdrop asks up to five times.
RequestAirdrop(w) ==
    /\ clients[w].stage = "send" /\ IsAirdrop(Step(w))
    /\ \/ /\ clients' = [clients EXCEPT ![w].stage = "wait"]
          /\ sent' = sent \cup {Sent(w)}
          /\ UNCHANGED raised
       \/ /\ IF clients[w].tries = Refusals
             THEN Raise(w, "refused")
             ELSE clients' = [clients EXCEPT ![w].tries = @ + 1] /\ UNCHANGED raised
          /\ UNCHANGED sent
    /\ UNCHANGED <<ledger, receipts, left, returned>>

\* ... and waits until the key has at least that much.
WaitAirdrop(w) ==
    /\ clients[w].stage = "wait"
    /\ wallet[clients[w].call.key] >= clients[w].call.amount
    /\ Advance(w)
    /\ UNCHANGED <<ledger, sent, receipts, left, raised>>

\* Mutant: the status is not looked at.
ConfirmAny(w) ==
    /\ clients[w].stage = "confirm"
    /\ \E r \in receipts : r.of = Sent(w)
    /\ Advance(w)
    /\ UNCHANGED <<ledger, sent, receipts, left, raised>>

Confirm(w) ==
    /\ clients[w].stage = "confirm"
    /\ \E r \in receipts :
         /\ r.of = Sent(w)
         /\ IF Checked(Step(w)) /\ ~r.ok
            THEN Raise(w, "status") /\ UNCHANGED returned
            ELSE Advance(w) /\ UNCHANGED raised
    /\ UNCHANGED <<ledger, sent, receipts, left>>

TimeOut(w) ==
    /\ clients[w].stage \in {"confirm", "wait"}
    /\ Raise(w, "timeout")
    /\ UNCHANGED <<ledger, sent, receipts, left, returned>>

WorkerStep(w) ==
    Look(w) \/ SendTransaction(w) \/ RequestAirdrop(w) \/ WaitAirdrop(w) \/ Confirm(w) \/ TimeOut(w)

DepositsNext == \/ \E w \in Workers : WorkerStep(w) \/ \E c \in left[w] : Start(w, c)
                \/ \E t \in sent : Arrive(t) \/ Expire(t)

DepositsSpec == DepositsInit /\ [][DepositsNext]_depositVars

-----------------------------------------------------------------------------
Deposits(calls, ether, mint) ==
    {r \in calls : r.call.to = ether /\ r.call.mint = mint
                   /\ r.call.op \in {"deposit_neon", "deposit_wrapped_sol", "deposit_neon_like"}}

Total(calls) == MapThenSumSet(LAMBDA r : r.call.amount, calls)

(***************************************************************************)
(* A deposit that returned is on the Neon account, once; one that did not  *)
(* return may be there as well (deposit_neon, deposit_wrapped_sol...,      *)
(* deposit_neon_like...).                                                  *)
(***************************************************************************)
DepositsArrive ==
    \A e \in Ethers, m \in {"NEON", "wSOL", "USDT"} :
      LET sure  == Deposits(returned, e, m)
          maybe == Deposits(raised, e, m)
          busy  == {[by |-> w, call |-> clients[w].call] : w \in {v \in Workers : clients[v].stage # "idle"}}
          has   == IF balance[e, m] = -1 THEN 0 ELSE balance[e, m]
      IN  /\ Total(sure) <= has
          /\ has <= Total(sure) + Total(maybe) + Total(Deposits(busy, e, m))

(***************************************************************************)
(* Tokens do not stay behind on Solana: what was wrapped or minted was     *)
(* deposited, unless a call raised after it, or is still at it.            *)
(***************************************************************************)
NothingStaysBehind ==
    \A k \in Keys, m \in {"wSOL", "USDT"} :
      Amount(<<k, m>>) > 0 =>
        \/ \E r \in raised : r.call.key = k /\ r.call.mint = m
        \/ \E w \in Workers : clients[w].stage # "idle" /\ clients[w].call.key = k

(***************************************************************************)
(* prepare_operator returns with an operator balance account, even if two  *)
(* workers prepare the same key: the creation that comes second fails, and *)
(* send_tx does not look at the status.                                    *)
(***************************************************************************)
OperatorIsReady ==
    \A r \in returned : r.call.op = "prepare_operator" => r.call.key \in operators
=============================================================================
