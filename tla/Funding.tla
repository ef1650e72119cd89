------------------------------- MODULE Funding -------------------------------
(***************************************************************************)
(* utils/web3client.py, utils/accounts.py and utils/faucet.py: transactions*)
(* on a Neon chain, the accounts of the tests, and where their money comes *)
(* from.  A transaction is put together from several answers of the proxy, *)
(* and the workers of pytest share the bank account (integration/tests/    *)
(* conftest.py), so that an answer may be old when it is used.             *)
(*                                                                         *)
(* Prices are per unit of gas, and every transaction takes one unit.       *)
(***************************************************************************)
EXTENDS Integers, Sequences, FiniteSets, FiniteSetsExt, SequencesExt, PythonNone

CONSTANTS
    Workers,
    Programs,   \* for each worker, the calls that it makes in any order, each once;
                \* and the account that pays, or None: the faucet
    Payers,     \* the accounts with money: the bank, and others
    Money,      \* what the bank and they have at first
    BaseFees,   \* base fees: the first, and how they may grow
    GasPrice,   \* the gas price that the proxy suggests for a legacy transaction
    Tip,        \* the priority fee that it suggests
    MaxRetries, \* 3: how often the faucet is asked again
    MaxCreated  \* bound: the accounts that a worker creates

Prices == /\ {GasPrice, Tip, Money, MaxRetries, MaxCreated} \subseteq Nat
          /\ BaseFees \in Seq(Nat) /\ BaseFees # <<>>

ASSUME PricesAreNat == Prices

Calls == UNION {p.calls[w] : p \in Programs, w \in Workers}
Created == Workers \X (1..MaxCreated)

(***************************************************************************)
(* Tests ask for accounts, or send something from those that have money to *)
(* one of these.                                                           *)
(***************************************************************************)
TestsAsk ==
    /\ Programs \subseteq [bank : Payers \cup {None}, calls : [Workers -> SUBSET Calls]]
    /\ \A c \in Calls :
         \/ c.op \in {"getitem", "create_account"} /\ c.amount \in Nat
         \/ /\ c.op = "send_tokens" /\ c.type \in {"legacy", "1559"}
            /\ {c.from, c.to} \subseteq Payers
            /\ c.amount \in Nat /\ c.price \in Nat \cup {None}
         \/ c.op = "deploy" /\ c.from \in Payers
         \/ c.op = "contract_call" /\ {c.from, c.to} \subseteq Payers
         \/ c.op = "restore"
    /\ Payers \cap Created = {} /\ None \notin Payers \cup Created \cup Calls \cup Nat

ASSUME CallsAreCalls == TestsAsk

VARIABLES
    bank,      \* the account that pays, or None
    balance,   \* of each account; 0 if there is none
    nonce,     \* mined transactions of each account
    mempool,   \* transactions that were accepted
    fee,       \* the index of the base fee
    grants,    \* what the faucet is going to pay
    client,    \* what each worker does, and the transaction it puts together
    list,      \* _accounts of each worker
    collector, \* accounts_collector of each worker
    created,   \* number of accounts that each worker has created
    left,      \* calls that each worker has not made
    included,  \* mined transactions
    log        \* history: the calls that ended, and how

chain == <<bank, balance, nonce, mempool, fee, grants, included>>
fundingVars == <<chain, client, list, collector, created, left, log>>

-----------------------------------------------------------------------------
Addresses == Payers \cup Created

BaseFee == BaseFees[fee]

Blank == [type |-> "legacy", from |-> None, to |-> None, value |-> 0, nonce |-> -1, max |-> -1,
          tip |-> 0, base |-> -1, given |-> None, by |-> None]

Idle == [stage |-> "idle", call |-> None, tx |-> Blank, new |-> None, tries |-> 0, before |-> 0,
         rest |-> <<>>]

FundingInit ==
    /\ balance = [a \in Addresses |-> IF a \in Payers THEN Money ELSE 0]
    /\ nonce = [a \in Addresses |-> 0]
    /\ mempool = {}
    /\ fee = 1
    /\ grants = {}
    /\ client = [w \in Workers |-> Idle]
    /\ list = [w \in Workers |-> <<>>]
    /\ collector = [w \in Workers |-> <<>>]
    /\ created = [w \in Workers |-> 0]
    /\ \E p \in Programs : left = p.calls /\ bank = p.bank
    /\ included = {}
    /\ log = {}

InStage(w, stage) == client[w].stage = stage

-----------------------------------------------------------------------------
(***************************************************************************)
(* The proxy: get_nonce asks for the pending count, and a transaction is   *)
(* mined once its nonce is the next one and it pays the base fee.  (A      *)
(* mutant asks for the latest count.)                                      *)
(***************************************************************************)
LatestNonce(a) == nonce[a]

PendingNonce(a) ==
    nonce[a] + Cardinality({t \in mempool :
                 /\ t.from = a /\ t.nonce >= nonce[a]
                 /\ \A k \in nonce[a]..t.nonce : \E p \in mempool : p.from = a /\ p.nonce = k})

Refused(t) ==
    \/ t.nonce < nonce[t.from]
    \/ \E p \in mempool : p.from = t.from /\ p.nonce = t.nonce

TooPoor(t) == balance[t.from] < t.value + t.max

Price(t) == IF t.type = "legacy" THEN t.max ELSE Min({t.max, BaseFee + t.tip})

Mine(t) ==
    /\ t.nonce = nonce[t.from]
    /\ t.max >= BaseFee
    /\ balance[t.from] >= t.value + Price(t)
    /\ balance' = [[balance EXCEPT ![t.from] = @ - t.value - Price(t)] EXCEPT ![t.to] = @ + t.value]
    /\ nonce' = [nonce EXCEPT ![t.from] = @ + 1]
    /\ mempool' = mempool \ {t}
    /\ included' = included \cup {[tx |-> t, price |-> Price(t)]}
    /\ UNCHANGED <<bank, fee, grants, client, list, collector, created, left, log>>

\* The mempool forgets a transaction.
Drop(t) ==
    /\ mempool' = mempool \ {t}
    /\ UNCHANGED <<bank, balance, nonce, fee, grants, included, client, list, collector, created, left, log>>

BaseFeeGrows ==
    /\ fee < Len(BaseFees)
    /\ fee' = fee + 1
    /\ UNCHANGED <<bank, balance, nonce, mempool, grants, included, client, list, collector, created, left, log>>

\* The faucet pays, or fails to.
Pay(g) ==
    /\ grants' = grants \ {g}
    /\ balance' \in {balance, [balance EXCEPT ![g.to] = @ + g.amount]}
    /\ UNCHANGED <<bank, nonce, mempool, fee, included, client, list, collector, created, left, log>>

-----------------------------------------------------------------------------
(***************************************************************************)
(* make_raw_tx and make_raw_tx_eip_1559 ask for the base fee before they   *)
(* ask for the nonce, deploy_contract and make_raw_tx for a legacy         *)
(* transaction after it.  Given a gas price, gas_price_to_eip1559_params   *)
(* asserts that it is enough now.                                          *)
(***************************************************************************)
FirstQuestion(type) == IF type = "1559" THEN "base" ELSE "nonce"

AskBaseFee(w) ==
    /\ InStage(w, "base")
    /\ client' = [client EXCEPT ![w].stage = IF client[w].tx.nonce = -1 THEN "nonce" ELSE "price",
                                ![w].tx.base = BaseFee]
    /\ UNCHANGED <<chain, list, collector, created, left, log>>

AskNonce(w) ==
    /\ InStage(w, "nonce")
    /\ client' = [client EXCEPT ![w].stage = IF client[w].tx.type = "filled" THEN "base" ELSE "price",
                                ![w].tx.nonce = PendingNonce(client[w].tx.from)]
    /\ UNCHANGED <<chain, list, collector, created, left, log>>

\* int(base * 1.1 + priority)
MaxFee(base, tip) == (11 * base) \div 10 + tip

\* What web3 fills in for a transaction without a price.
FilledFee(base, tip) == 2 * base + tip

\* Mutant: there is no base_fee_multiplier.
PricedBare(t, price) ==
    CASE t.type = "legacy" -> [t EXCEPT !.max = IF price = None THEN GasPrice ELSE price]
      [] t.type = "1559" /\ price = None -> [t EXCEPT !.tip = Tip, !.max = t.base + Tip]
      [] t.type = "filled" -> [t EXCEPT !.tip = Tip, !.max = FilledFee(t.base, Tip)]
      [] OTHER -> [t EXCEPT !.tip = price - t.base, !.max = price]

Priced(t, price) ==
    CASE t.type = "legacy" -> [t EXCEPT !.max = IF price = None THEN GasPrice ELSE price]
      [] t.type = "1559" /\ price = None -> [t EXCEPT !.tip = Tip, !.max = MaxFee(t.base, Tip)]
      [] t.type = "filled" -> [t EXCEPT !.tip = Tip, !.max = FilledFee(t.base, Tip)]
      [] OTHER -> [t EXCEPT !.tip = price - t.base, !.max = price]

\* The price that a call of a test gives.
GivenPrice(w) == IF client[w].call.op = "send_tokens" THEN client[w].call.price ELSE None

End(w, how) ==
    /\ client' = [client EXCEPT ![w] = Idle]
    /\ log' = log \cup {[by |-> w, call |-> client[w].call, how |-> how, new |-> client[w].new]}

AskPrice(w) ==
    /\ InStage(w, "price")
    /\ LET t == client[w].tx  p == GivenPrice(w) IN
         IF t.type = "1559" /\ p # None /\ p < t.base
         THEN End(w, "too low")
         ELSE /\ client' = [client EXCEPT ![w].stage = "send", ![w].tx = [Priced(t, p) EXCEPT !.given = p]]
              /\ UNCHANGED log
    /\ UNCHANGED <<chain, list, collector, created, left>>

-----------------------------------------------------------------------------
(***************************************************************************)
(* EthAccounts: what happens to a new account once it has its money.       *)
(***************************************************************************)
NewAccount(w) == <<w, created[w] + 1>>

Put(w, type, from, to, value) ==
    [client[w] EXCEPT !.stage = FirstQuestion(type),
        !.tx = [Blank EXCEPT !.type = type, !.from = from, !.to = to, !.value = value, !.by = w]]

\* create_account_with_balance, by send_neon or request_neon
Fund(w, c, amount) ==
    /\ created[w] < MaxCreated
    /\ created' = [created EXCEPT ![w] = @ + 1]
    /\ client' = [client EXCEPT ![w] =
         [(IF bank # None THEN Put(w, "legacy", bank, NewAccount(w), amount)
           ELSE [client[w] EXCEPT !.stage = "faucet", !.tries = 0, !.before = balance[NewAccount(w)]])
          EXCEPT !.call = c, !.new = NewAccount(w)]]

\* Mutant: __getitem__ does not collect.
CollectCreated(w) ==
    LET c == client[w].call IN
      /\ list' = IF c.op = "getitem" THEN [list EXCEPT ![w] = Append(@, client[w].new)] ELSE list
      /\ collector' = IF c.op = "create_account"
                      THEN [collector EXCEPT ![w] = Append(@, client[w].new)] ELSE collector

Collect(w) ==
    /\ list' = IF client[w].call.op = "getitem"
               THEN [list EXCEPT ![w] = Append(@, client[w].new)] ELSE list
    /\ collector' = [collector EXCEPT ![w] = Append(@, client[w].new)]

Funded(w) ==
    /\ Collect(w)
    /\ IF client[w].call.op = "getitem" /\ Len(list[w]) + 1 < client[w].call.item + 1
       THEN Fund(w, client[w].call, client[w].call.amount) /\ UNCHANGED log
       ELSE End(w, "returned") /\ UNCHANGED created

-----------------------------------------------------------------------------
\* send_tokens, send_transaction, send_all_neons: send_raw_transaction, and the receipt.
Send(w) ==
    /\ InStage(w, "send")
    /\ LET t == client[w].tx IN
         \/ Refused(t) /\ End(w, "refused") /\ UNCHANGED mempool
         \/ TooPoor(t) /\ End(w, "poor") /\ UNCHANGED mempool
         \/ /\ ~Refused(t) /\ ~TooPoor(t)
            /\ mempool' = mempool \cup {t}
            /\ client' = [client EXCEPT ![w].stage = "receipt"]
            /\ UNCHANGED log
    /\ UNCHANGED <<bank, balance, nonce, fee, grants, included, list, collector, created, left>>

Receipt(w) ==
    /\ InStage(w, "receipt")
    /\ \E m \in included : m.tx = client[w].tx
    /\ CASE client[w].call.op \in {"getitem", "create_account"} -> Funded(w)
         [] client[w].call.op = "restore" ->
              /\ client' = [client EXCEPT ![w].stage = "restore"]
              /\ UNCHANGED <<list, collector, created, log>>
         [] OTHER -> End(w, "returned") /\ UNCHANGED <<list, collector, created>>
    /\ UNCHANGED <<chain, left>>

TimeOut(w) ==
    /\ client[w].stage \in {"receipt", "wait"}
    /\ End(w, "timeout")
    /\ UNCHANGED <<chain, list, collector, created, left>>

-----------------------------------------------------------------------------
RequestNeon(w) ==
    /\ InStage(w, "faucet")
    /\ LET g == [by |-> w, to |-> client[w].new, try |-> client[w].tries,
                 amount |-> client[w].call.amount] IN
         \/ /\ grants' = grants \cup {g}
            /\ client' = [client EXCEPT ![w].stage = "wait"]
            /\ UNCHANGED log
         \/ /\ client[w].tries < MaxRetries
            /\ grants' \in {grants, grants \cup {g}}
            /\ client' = [client EXCEPT ![w].tries = @ + 1]
            /\ UNCHANGED log
         \/ End(w, "error") /\ UNCHANGED grants
    /\ UNCHANGED <<bank, balance, nonce, mempool, fee, included, list, collector, created, left>>

\* Mutant: the answer is enough.
WaitNeonNot(w) ==
    /\ InStage(w, "wait")
    /\ Funded(w)
    /\ UNCHANGED <<chain, left>>

WaitNeon(w) ==
    /\ InStage(w, "wait")
    /\ balance[client[w].new] > client[w].before
    /\ Funded(w)
    /\ UNCHANGED <<chain, left>>

-----------------------------------------------------------------------------
AllButFee(a) == balance[a] - (11 * GasPrice) \div 10

SendAllNeons(w) ==
    /\ InStage(w, "restore")
    /\ IF client[w].rest = <<>>
       THEN End(w, "returned") /\ list' = [list EXCEPT ![w] = <<>>]
       ELSE LET a == Head(client[w].rest) IN
            /\ client' = [client EXCEPT ![w] =
                 [(IF AllButFee(a) > 0 THEN Put(w, "legacy", a, bank, AllButFee(a))
                   ELSE client[w]) EXCEPT !.rest = Tail(@)]]
            /\ UNCHANGED <<list, log>>
    /\ UNCHANGED <<chain, collector, created, left>>

-----------------------------------------------------------------------------
(***************************************************************************)
(* The transactions that tests ask for.  compile_by_vyper_and_deploy gives *)
(* no type: deploy_contract leaves the price to web3.                      *)
(***************************************************************************)
send_tokens(w, c) == Put(w, c.type, c.from, c.to, c.amount)
deploy_contract(w, c) == Put(w, IF c.type = "legacy" THEN "legacy" ELSE "filled", c.from, None, 0)
contract_call(w, c) == Put(w, "legacy", c.from, c.to, 0)

SendRequested(w, c) ==
    client' = [client EXCEPT ![w] = [(CASE c.op = "send_tokens" -> send_tokens(w, c)
                                        [] c.op = "deploy" -> deploy_contract(w, c)
                                        [] c.op = "contract_call" -> contract_call(w, c))
                                     EXCEPT !.call = c]]

Start(w, c) ==
    /\ InStage(w, "idle")
    /\ c \in left[w]
    /\ left' = [left EXCEPT ![w] = @ \ {c}]
    /\ \/ /\ c.op = "getitem"
          /\ IF Len(list[w]) < c.item + 1
             THEN Fund(w, c, c.amount)
             ELSE UNCHANGED <<client, created>>
          /\ UNCHANGED <<collector, log>>
       \/ /\ c.op = "create_account"
          /\ IF c.amount > 0
             THEN Fund(w, c, c.amount) /\ UNCHANGED collector
             ELSE /\ created[w] < MaxCreated
                  /\ created' = [created EXCEPT ![w] = @ + 1]
                  /\ collector' = [collector EXCEPT ![w] = Append(@, NewAccount(w))]
                  /\ UNCHANGED client
          /\ UNCHANGED log
       \/ /\ c.op \in {"send_tokens", "deploy", "contract_call"}
          /\ SendRequested(w, c)
          /\ UNCHANGED <<collector, created, log>>
       \/ /\ c.op = "restore"
          /\ client' = [client EXCEPT ![w].stage = "restore", ![w].call = c,
                                      ![w].rest = collector[w]]
          /\ UNCHANGED <<collector, created, log>>
    /\ UNCHANGED <<chain, list>>

ClientStep(w) == \/ AskBaseFee(w) \/ AskNonce(w) \/ AskPrice(w) \/ Send(w) \/ Receipt(w)
                 \/ TimeOut(w) \/ RequestNeon(w) \/ WaitNeon(w) \/ SendAllNeons(w)

FundingNext == \/ \E w \in Workers : ClientStep(w) \/ \E c \in left[w] : Start(w, c)
               \/ \E t \in mempool : Mine(t) \/ Drop(t)
               \/ BaseFeeGrows
               \/ \E g \in grants : Pay(g)

FundingSpec == FundingInit /\ [][FundingNext]_fundingVars

-----------------------------------------------------------------------------
\* The calls that a worker has begun.
Begun(w) == {r.call : r \in {q \in log : q.by = w}} \cup ({client[w].call} \ {None})

(***************************************************************************)
(* A new account that the tests may use has the money it was created with, *)
(* until its worker gives it back (create_account_with_balance,            *)
(* EthAccounts).                                                           *)
(***************************************************************************)
AccountsAreFunded ==
    \A w \in Workers :
      ~(\E c \in Begun(w) : c.op = "restore") =>
        \A i \in DOMAIN list[w] :
          \E c \in Begun(w) : c.op = "getitem" /\ balance[list[w][i]] >= c.amount

(***************************************************************************)
(* Money is not lost sight of: an account that got some is collected, or   *)
(* its creation raised or still runs (EthAccounts.accounts_collector).     *)
(***************************************************************************)
MoneyIsCollected ==
    \A w \in Workers, n \in 1..MaxCreated :
      balance[<<w, n>>] > 0 =>
        \/ <<w, n>> \in ToSet(collector[w])
        \/ client[w].new = <<w, n>>
        \/ \E r \in log : r.new = <<w, n>> /\ r.how # "returned"

(***************************************************************************)
(* A transaction whose fees were left to the client can be mined: the base *)
(* fee may grow by a tenth after it was asked for (make_raw_tx_eip_1559).  *)
(***************************************************************************)
FeesLast ==
    \A t \in mempool : t.type \in {"1559", "filled"} /\ t.given = None =>
      (BaseFee * 10 <= t.base * 11 => t.max >= BaseFee)

Payer(c) == IF c.op \in {"send_tokens", "deploy", "contract_call"} THEN c.from ELSE bank

(***************************************************************************)
(* A transaction is refused for its nonce only if another worker uses the  *)
(* same account: nonces that were asked for in turn are all different,     *)
(* whatever timed out before.  And it is not for lack of money that an     *)
(* account cannot give its money back, unless it gave some back before     *)
(* and nobody waited for that (send_all_neons).                            *)
(***************************************************************************)
RaisesHaveCause ==
    \A r \in log :
      /\ r.how = "refused" =>
           \E v \in Workers \ {r.by} : \E c \in Begun(v) : Payer(c) = Payer(r.call)
      /\ r.how = "poor" /\ r.call.op = "restore" =>
           \E q \in log : q.by = r.by /\ q.call.op = "restore" /\ q.how = "timeout"
=============================================================================
