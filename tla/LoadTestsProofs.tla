--------------------------- MODULE LoadTestsProofs ---------------------------
(***************************************************************************)
(* Proofs about LoadTests, for any number of users and rounds; about       *)
(* LostTransactions, the other part of the load tests; and about Funding,  *)
(* how load tests and tests send transactions and get their money.         *)
(***************************************************************************)
EXTENDS LoadTests, LostTransactions, Funding, FiniteSetTheorems, TLAPS

Everyone == Preparing \cup Tracers
Methods == TaskSets \cup {"eth_call"}
SenderStages == {"start", "ready", "before", "send", "receipt", "nonce", "after", "gone"}
StoreStages == {"start", "ready", "deploy", "storing", "gone"}
TracerStages == {"start", "tasks", "rpc", "compare", "cut", "gone"}
Stages == SenderStages \cup StoreStages \cup TracerStages

TransferEntry ==
    [kind : {"transfer"}, from : Accounts, to : Accounts, block : Nat,
     recipient_balance_after : Nat, sender_nonce : Nat]
StoreEntry == [kind : {"store"}, from : Accounts, to : Stores, block : Nat]
Entry == TransferEntry \cup StoreEntry

Block == [balance : [Accounts -> Nat], count : [Accounts -> Nat]]
Sendable == [from : Accounts, to : Accounts, value : Nat, nonce : Nat]
User == [stage : Stages, recipient : Nat, block : Nat, nonce : Nat, rounds : Nat,
         tx : Entry \cup {None}, by : Methods \cup {None}, answer : Nat \cup {None}]

Typed ==
    /\ blocks \in Seq(Block) /\ Len(blocks) >= 1
    /\ pool \subseteq Sendable /\ gap \in BOOLEAN
    /\ user \in [Everyone -> User]
    /\ lock \in Stores \cup {None} /\ done \in BOOLEAN /\ contract \in Stores \cup {None}
    /\ deployed \in Nat
    /\ history \subseteq Entry /\ (dump = None \/ dump \subseteq history)
    /\ buffer \subseteq Tracers /\ fired \in [Tracers -> Nat]
    /\ ethCall \in [done : BOOLEAN, contract : Stores \cup {None}]

\* A sender has as many recipients as tasks, and one.
InPlaceAt(u) ==
    /\ user[u].stage \in SenderStages
    /\ user[u].rounds <= Transfers
    /\ user[u].recipient + (IF At(u, "before") THEN 1 ELSE 0) <= user[u].rounds + 1
    /\ user[u].stage \notin {"start", "gone"} => user[u].recipient >= 1

InPlace ==
    /\ \A u \in Senders : InPlaceAt(u)
    /\ \A u \in Stores : user[u].stage \in StoreStages /\ (At(u, "storing") => contract # None)

\* The transaction of an account is in a block.
IsMined(account, block) ==
    /\ block \in 2..Len(blocks)
    /\ blocks[block].count[account] = blocks[block - 1].count[account] + 1

\* Counts do not fall.
Rising == \A b \in 1..Len(blocks) : \A a \in Accounts : blocks[b].count[a] <= Latest.count[a]

FoundAt(u) == user[u].stage \in {"nonce", "after"} => IsMined(Own(u), user[u].block)

(***************************************************************************)
(* The transactions of an account in the mempool have the nonces from its  *)
(* count on, each once.                                                    *)
(***************************************************************************)
NonceIn(sent, n) == \E t \in sent : t.nonce = n

InRow(sent, count) ==
    \A t \in sent : /\ t.nonce >= count
                    /\ \A m \in count..t.nonce : NonceIn(sent, m)
                    /\ \A l \in sent : l.nonce = t.nonce => l = t

Sent(a) == {t \in pool : t.from = a}

\* A transaction whose receipt the sender waits for is the last of them; when it
\* has its receipt, there is none left.
Waits(sent, count, me, counted) ==
    /\ InRow(sent, count)
    /\ me.stage = "send" => /\ count <= me.nonce
                            /\ \A t \in sent : t.nonce < me.nonce
                            /\ \A m \in count..(me.nonce - 1) : NonceIn(sent, m)
    /\ me.stage = "receipt" => count <= me.nonce + 1 /\ \A t \in sent : t.nonce <= me.nonce
    /\ me.stage \in {"nonce", "after"} => sent = {} /\ count = counted
    /\ me.stage = "after" => me.nonce = counted

QueueAt(u) ==
    Waits(Sent(Own(u)), Latest.count[Own(u)], user[u], blocks[user[u].block].count[Own(u)])

Queues == gap \/ \A u \in Senders : QueueAt(u)

WrittenDown ==
    \A t \in history :
      /\ IsMined(t.from, t.block)
      /\ gap \/ t.kind # "transfer" \/ t.sender_nonce = blocks[t.block].count[t.from]

\* What a user of the tracer asks for, and the answer.
AskedAt(u) ==
    /\ user[u].stage \in TracerStages
    /\ user[u].stage \in {"tasks", "rpc", "compare"} => user[u].by \in Methods
    /\ user[u].stage \in {"rpc", "compare"} =>
         user[u].tx \in history /\ user[u].tx.kind = Kind(user[u].by)
    /\ At(u, "compare") => user[u].answer = Answer(user[u].tx, user[u].by)

Asked == \A u \in Tracers : AskedAt(u)

Locked ==
    /\ \A u \in Stores : At(u, "deploy") => lock = u
    /\ lock # None => done
    /\ deployed <= 1
    /\ ~done \/ lock # None => deployed = 0

\* Until there is a dump, no user of the tracer does anything.
Called ==
    /\ dump = None => /\ ~ethCall.done
                    /\ \A u \in Tracers : At(u, "start") /\ <<u, "AttributeError">> \notin errors
    /\ dump # None /\ Entries("eth_call") # {} /\ ethCall.done => ethCall.contract # None
    /\ \A u \in Tracers :
         user[u].stage \in {"tasks", "rpc", "compare"} /\ user[u].by = "eth_call" => ethCall.done

Inv == /\ Typed /\ InPlace /\ Rising /\ (\A u \in Senders : FoundAt(u)) /\ Queues
       /\ WrittenDown /\ Asked /\ Locked /\ Called
       /\ EachRequestIsReported /\ NoncesAgree /\ CallsHaveContract

-----------------------------------------------------------------------------
\* How the mempool keeps the nonces in a row.
LEMMA FirstLeaves ==
    ASSUME NEW sent, NEW count \in Nat, \A l \in sent : l.nonce \in Nat,
           InRow(sent, count), NEW t \in sent, t.nonce = count
    PROVE  InRow(sent \ {t}, count + 1)
<1> SUFFICES ASSUME NEW l \in sent \ {t}
             PROVE  /\ l.nonce >= count + 1
                    /\ \A m \in (count + 1)..l.nonce : NonceIn(sent \ {t}, m)
                    /\ \A k \in sent \ {t} : k.nonce = l.nonce => k = l
  BY DEF InRow
<1>1. l.nonce >= count /\ l.nonce # t.nonce /\ l.nonce \in Nat
  BY DEF InRow
<1>2. ASSUME NEW m \in (count + 1)..l.nonce PROVE NonceIn(sent \ {t}, m)
  <2>1. m \in count..l.nonce /\ m # count
    BY <1>1
  <2>2. PICK k \in sent : k.nonce = m
    BY <2>1 DEF InRow, NonceIn
  <2> QED BY <2>1, <2>2 DEF NonceIn
<1>3. l.nonce >= count + 1
  BY <1>1
<1>4. \A k \in sent \ {t} : k.nonce = l.nonce => k = l
  BY DEF InRow
<1> QED BY <1>2, <1>3, <1>4

LEMMA LastLeaves ==
    ASSUME NEW sent, NEW count \in Nat, \A l \in sent : l.nonce \in Nat,
           InRow(sent, count), NEW t \in sent, \A l \in sent : ~(l.nonce > t.nonce)
    PROVE  InRow(sent \ {t}, count)
<1> SUFFICES ASSUME NEW l \in sent \ {t}, NEW m \in count..l.nonce PROVE NonceIn(sent \ {t}, m)
  BY DEF InRow
<1>1. l.nonce # t.nonce
  BY DEF InRow
<1>2. l.nonce < t.nonce /\ l.nonce \in Nat /\ t.nonce \in Nat
  BY <1>1
<1>3. PICK k \in sent : k.nonce = m
  BY DEF InRow, NonceIn
<1> QED BY <1>2, <1>3 DEF NonceIn

LEMMA NextComes ==
    ASSUME NEW sent, NEW count \in Nat, \A l \in sent : l.nonce \in Nat, InRow(sent, count),
           NEW t, t.nonce \in Nat, count <= t.nonce, \A l \in sent : l.nonce < t.nonce,
           \A m \in count..(t.nonce - 1) : NonceIn(sent, m)
    PROVE  InRow(sent \cup {t}, count)
<1>1. \A m \in count..t.nonce : NonceIn(sent \cup {t}, m)
  BY DEF NonceIn
<1>2. \A l \in sent : \A m \in count..l.nonce : NonceIn(sent \cup {t}, m)
  BY DEF InRow, NonceIn
<1> QED BY <1>1, <1>2 DEF InRow

LEMMA NextIsLast ==
    ASSUME NEW sent, NEW count \in Nat, \A l \in sent : l.nonce \in Nat, InRow(sent, count),
           NEW n \in Nat, n >= count, ~NonceIn(sent, n)
    PROVE  \A l \in sent : l.nonce < n
<1> SUFFICES ASSUME NEW l \in sent, l.nonce >= n PROVE FALSE
  OBVIOUS
<1> QED BY DEF InRow

-----------------------------------------------------------------------------
\* The chain only gets longer.
Grows ==
    /\ blocks' \in Seq(Block) /\ Len(blocks') >= Len(blocks)
    /\ \A b \in 1..Len(blocks) : blocks'[b] = blocks[b]

\* A block stays what it is.
LEMMA MinedStays ==
    ASSUME Typed, Grows, NEW a, NEW b, IsMined(a, b)
    PROVE  /\ IsMined(a, b)' /\ blocks'[b] = blocks[b]
<1>1. b \in 2..Len(blocks) /\ Len(blocks) \in Nat /\ Len(blocks') \in Nat
  BY DEF IsMined, Typed, Grows
<1>2. b \in 1..Len(blocks) /\ b - 1 \in 1..Len(blocks) /\ b \in 2..Len(blocks')
  BY <1>1 DEF Grows
<1> QED BY <1>2 DEF IsMined, Grows

\* The chain stays as it is.
LEMMA ChainStays ==
    ASSUME Typed, blocks' = blocks
    PROVE  Grows /\ Latest' = Latest
BY DEF Typed, Grows, Latest

LEMMA EntriesStay ==
    ASSUME Inv, Grows, gap => gap', history' = history
    PROVE  WrittenDown'
<1> SUFFICES ASSUME NEW t \in history
             PROVE  /\ IsMined(t.from, t.block)'
                    /\ gap' \/ t.kind # "transfer" \/ t.sender_nonce = blocks'[t.block].count[t.from]
  BY DEF WrittenDown
<1>1. IsMined(t.from, t.block)
  BY DEF Inv, WrittenDown
<1>2. IsMined(t.from, t.block)' /\ blocks'[t.block] = blocks[t.block]
  BY <1>1, MinedStays DEF Inv
<1> QED BY <1>2 DEF Inv, WrittenDown

\* What the preparation and the stand do does not concern the tracer tests.
LEMMA TracingStays ==
    ASSUME Inv, Grows, gap => gap', history \subseteq history',
           \A v \in Tracers : user'[v] = user[v], UNCHANGED <<dump, tracing, errors>>
    PROVE  Asked' /\ Called' /\ EachRequestIsReported' /\ NoncesAgree' /\ CallsHaveContract'
<1>3. Asked'
  <2> SUFFICES ASSUME NEW v \in Tracers
               PROVE  /\ user[v].stage \in TracerStages
                      /\ user[v].stage \in {"tasks", "rpc", "compare"} => user[v].by \in Methods
                      /\ user[v].stage \in {"rpc", "compare"} =>
                           user[v].tx \in history' /\ user[v].tx.kind = Kind(user[v].by)
                      /\ user[v].stage = "compare" => user[v].answer = Answer(user[v].tx, user[v].by)'
    BY DEF Asked, AskedAt, At, Methods, TaskSets, Kind
  <2>1. ASSUME user[v].stage = "compare"
        PROVE  Answer(user[v].tx, user[v].by)' = Answer(user[v].tx, user[v].by)
    <3>1. user[v].tx \in history
      BY <2>1 DEF Inv, Asked, AskedAt
    <3>2. blocks'[user[v].tx.block] = blocks[user[v].tx.block]
      BY <3>1, MinedStays DEF Inv, WrittenDown
    <3> QED BY <3>2 DEF Answer
  <2> QED BY <2>1 DEF Inv, Asked, AskedAt, At
<1>4. Called' /\ CallsHaveContract'
  BY DEF Inv, Called, CallsHaveContract, Entries, Kind, At, tracing
<1>5. EachRequestIsReported'
  BY DEF Inv, EachRequestIsReported, At, tracing
<1>6. NoncesAgree'
  BY DEF Inv, NoncesAgree
<1> QED BY <1>3, <1>4, <1>5, <1>6

-----------------------------------------------------------------------------
\* What an account waits for depends on its transactions, its count, and its user.
LEMMA QueueStays ==
    ASSUME Inv, Grows, NEW u \in Senders, QueueAt(u), user'[u] = user[u],
           Sent(Own(u))' = Sent(Own(u)), Latest'.count[Own(u)] = Latest.count[Own(u)]
    PROVE  QueueAt(u)'
<1>1. CASE user[u].stage \in {"nonce", "after"}
  <2>1. IsMined(Own(u), user[u].block)
    BY <1>1 DEF Inv, FoundAt
  <2>2. blocks'[user[u].block] = blocks[user[u].block]
    BY <2>1, MinedStays DEF Inv
  <2> QED BY <2>2 DEF QueueAt, Own
<1>2. CASE user[u].stage \notin {"nonce", "after"}
  BY <1>2 DEF QueueAt, Waits, Own
<1> QED BY <1>1, <1>2

\* A user who has its block has it when the chain is longer.
LEMMA FoundStays ==
    ASSUME Inv, Grows, NEW u \in Senders, user'[u] = user[u]
    PROVE  FoundAt(u)'
<1> SUFFICES ASSUME user[u].stage \in {"nonce", "after"}
             PROVE  IsMined(Own(u), user[u].block)'
  BY DEF FoundAt, IsMined, Own
<1>1. IsMined(Own(u), user[u].block)
  BY DEF Inv, FoundAt
<1> DEFINE a == Own(u)
           b == user[u].block
<1>2. IsMined(a, b) /\ a' = a /\ b' = b
  BY <1>1 DEF Own
<1> QED BY <1>2, MinedStays DEF Inv, IsMined, Own

LEMMA CountIsNumber ==
    ASSUME Typed, NEW u \in Senders
    PROVE  /\ Latest \in Block /\ Len(blocks) \in Nat /\ Own(u) \in Accounts
           /\ Latest.count[Own(u)] \in Nat
           /\ \A t \in Sent(Own(u)) : t.nonce \in Nat /\ t \in pool
           /\ u \in Everyone /\ user[u] \in User
<1>1. Latest \in Block /\ Len(blocks) \in Nat
  BY DEF Typed, Latest
<1>2. Own(u) \in Accounts /\ u \in Everyone
  BY DEF Accounts, Own, Everyone, Preparing
<1> QED BY <1>1, <1>2 DEF Typed, Sent, Sendable, Block

\* The block that a transaction makes.
BlockOf(t) ==
    [balance |-> [[Latest.balance EXCEPT ![t.from] = @ - t.value] EXCEPT ![t.to] = @ + t.value],
     count |-> [Latest.count EXCEPT ![t.from] = @ + 1]]

LEMMA MinedGrows ==
    ASSUME Typed, Rising, NEW t \in pool, MineSent(t)
    PROVE  /\ Grows /\ Latest' = BlockOf(t) /\ Rising'
           /\ Latest'.count = [Latest.count EXCEPT ![t.from] = @ + 1]
<1>1. Latest \in Block /\ t \in Sendable /\ t.value <= Latest.balance[t.from]
  BY DEF Typed, Latest, MineSent
<1>2. BlockOf(t) \in Block
  <2>1. Latest.balance \in [Accounts -> Nat] /\ Latest.count \in [Accounts -> Nat]
    BY <1>1 DEF Block
  <2>2. t.from \in Accounts /\ t.to \in Accounts /\ t.value \in Nat
    BY <1>1 DEF Sendable
  <2> DEFINE paid == [Latest.balance EXCEPT ![t.from] = @ - t.value]
  <2>3. Latest.balance[t.from] - t.value \in Nat
    BY <1>1, <2>1, <2>2
  <2>4. paid \in [Accounts -> Nat]
    BY <2>1, <2>2, <2>3
  <2>5. [paid EXCEPT ![t.to] = @ + t.value] \in [Accounts -> Nat]
    <3> HIDE DEF paid
    <3> QED BY <2>2, <2>4
  <2>6. [Latest.count EXCEPT ![t.from] = @ + 1] \in [Accounts -> Nat]
    BY <2>1, <2>2
  <2> QED BY <2>5, <2>6 DEF BlockOf, Block
<1>3. blocks' = Append(blocks, BlockOf(t)) /\ Len(blocks) \in Nat /\ Len(blocks) >= 1
  BY DEF MineSent, BlockOf, Typed
<1>4. blocks' \in Seq(Block) /\ Len(blocks') = Len(blocks) + 1
  BY <1>2, <1>3 DEF Typed
<1>5. blocks'[Len(blocks) + 1] = BlockOf(t) /\ \A k \in 1..Len(blocks) : blocks'[k] = blocks[k]
  BY <1>2, <1>3 DEF Typed
<1>6. Latest' = BlockOf(t)
  BY <1>4, <1>5 DEF Latest
<1>7. Latest'.count = [Latest.count EXCEPT ![t.from] = @ + 1]
  BY <1>6 DEF BlockOf
<1>8. Rising'
  <2> SUFFICES ASSUME NEW b \in 1..Len(blocks'), NEW a \in Accounts
               PROVE  blocks'[b].count[a] <= Latest'.count[a]
    BY DEF Rising
  <2>1. Latest.count[a] \in Nat /\ Latest'.count[a] \in Nat /\ Latest.count[a] <= Latest'.count[a]
    BY <1>1, <1>7 DEF Block
  <2>2. CASE b = Len(blocks) + 1
    BY <1>5, <1>6, <2>1, <2>2
  <2>3. CASE b \in 1..Len(blocks)
    <3>1. blocks[b] \in Block
      BY <2>3 DEF Typed
    <3>2. blocks'[b] = blocks[b] /\ blocks[b].count[a] \in Nat /\ blocks[b].count[a] <= Latest.count[a]
      BY <1>5, <2>3, <3>1 DEF Rising, Block
    <3> QED BY <2>1, <3>2
  <2> QED BY <1>3, <1>4, <2>2, <2>3
<1> QED BY <1>3, <1>4, <1>5, <1>6, <1>7, <1>8 DEF Grows

LEMMA MineSentKeeps ==
    ASSUME Inv, NEW t \in pool, MineSent(t)
    PROVE  Inv'
<1>1. /\ Grows /\ Latest' = BlockOf(t) /\ Rising'
      /\ Latest'.count = [Latest.count EXCEPT ![t.from] = @ + 1]
  BY MinedGrows DEF Inv
<1>2. /\ pool' = pool \ {t} /\ t.nonce = Latest.count[t.from]
      /\ UNCHANGED <<gap, user, locals, history, dump, tracing, errors>>
  BY DEF MineSent
<1>3. Typed'
  <2>1. blocks' \in Seq(Block) /\ Len(blocks') >= 1
    BY <1>1 DEF Grows, Inv, Typed
  <2> QED BY <1>2, <2>1 DEF Inv, Typed, locals, tracing
<1>4. Asked' /\ Called' /\ EachRequestIsReported' /\ NoncesAgree' /\ CallsHaveContract'
  BY <1>1, <1>2, TracingStays
<1>5. WrittenDown'
  BY <1>1, <1>2, EntriesStay
<1>6. InPlace' /\ Locked'
  BY <1>2 DEF Inv, InPlace, InPlaceAt, Locked, At, locals
<1>7. \A u \in Senders : FoundAt(u)'
  BY <1>1, <1>2, FoundStays
<1>8. ASSUME NEW u \in Senders, QueueAt(u) PROVE QueueAt(u)'
  <2> DEFINE a == Own(u)
             count == Latest.count[a]
  <2>1. /\ Latest \in Block /\ a \in Accounts /\ count \in Nat
        /\ \A l \in Sent(a) : l.nonce \in Nat /\ l \in pool
        /\ user[u] \in User
    BY CountIsNumber DEF Inv
  <2>2. CASE t.from # a
    <3>1. Sent(a)' = Sent(a) /\ Latest'.count[a] = count
      BY <1>1, <1>2, <2>1, <2>2 DEF Sent, Block, Own
    <3> QED BY <1>1, <1>2, <1>8, <3>1, QueueStays
  <2>3. CASE t.from = a
    <3>1. t \in Sent(a) /\ t.nonce = count
      BY <1>2, <2>3 DEF Sent
    <3>2. Sent(a)' = Sent(a) \ {t} /\ Latest'.count[a] = count + 1
      BY <1>1, <1>2, <2>1, <2>3 DEF Sent, Block, Own
    <3>3. InRow(Sent(a), count)
      BY <1>8 DEF QueueAt, Waits
    <3>4. InRow(Sent(a) \ {t}, count + 1)
      BY <2>1, <3>1, <3>3, FirstLeaves
    <3>5. user[u].stage \notin {"nonce", "after"}
      BY <1>8, <3>1 DEF QueueAt, Waits
    <3>6. user[u].nonce \in Nat
      BY <2>1 DEF User
    <3>7. ASSUME user[u].stage = "send"
          PROVE  /\ count + 1 <= user[u].nonce
                 /\ \A l \in Sent(a) \ {t} : l.nonce < user[u].nonce
                 /\ \A m \in (count + 1)..(user[u].nonce - 1) : NonceIn(Sent(a) \ {t}, m)
      <4>1. /\ \A l \in Sent(a) : l.nonce < user[u].nonce
            /\ \A m \in count..(user[u].nonce - 1) : NonceIn(Sent(a), m)
        BY <1>8, <3>7 DEF QueueAt, Waits
      <4>2. count + 1 <= user[u].nonce
        BY <2>1, <3>1, <3>6, <4>1
      <4>3. ASSUME NEW m \in (count + 1)..(user[u].nonce - 1) PROVE NonceIn(Sent(a) \ {t}, m)
        <5>1. m \in count..(user[u].nonce - 1) /\ m # count
          BY <2>1, <3>6
        <5>2. PICK k \in Sent(a) : k.nonce = m
          BY <4>1, <5>1 DEF NonceIn
        <5> QED BY <3>1, <5>1, <5>2 DEF NonceIn
      <4> QED BY <4>1, <4>2, <4>3
    <3>8. ASSUME user[u].stage = "receipt"
          PROVE  count + 1 <= user[u].nonce + 1 /\ \A l \in Sent(a) \ {t} : l.nonce <= user[u].nonce
      <4>1. \A l \in Sent(a) : l.nonce <= user[u].nonce
        BY <1>8, <3>8 DEF QueueAt, Waits
      <4> QED BY <2>1, <3>1, <3>6, <4>1
    <3>9. Waits(Sent(a) \ {t}, count + 1, user[u], blocks'[user[u].block].count[a])
      <4> HIDE DEF a, count
      <4> QED BY <3>4, <3>5, <3>7, <3>8 DEF Waits
    <3> QED BY <1>2, <3>2, <3>9 DEF QueueAt, Own
  <2> QED BY <2>2, <2>3
<1>9. Queues'
  BY <1>2, <1>8 DEF Inv, Queues
<1> QED BY <1>1, <1>3, <1>4, <1>5, <1>6, <1>7, <1>9 DEF Inv

LEMMA DropSentKeeps ==
    ASSUME Inv, NEW t \in pool, DropSent(t)
    PROVE  Inv'
<1>1. /\ pool' = pool \ {t} /\ gap' = (gap \/ HasLater(t))
      /\ UNCHANGED <<blocks, user, locals, history, dump, tracing, errors>>
  BY DEF DropSent
<1>2. Grows /\ Latest' = Latest
  BY <1>1, ChainStays DEF Inv
<1>3. Typed'
  <2>1. gap' \in BOOLEAN
    BY <1>1 DEF HasLater
  <2> QED BY <1>1, <2>1 DEF Inv, Typed, locals, tracing
<1>4. Asked' /\ Called' /\ EachRequestIsReported' /\ NoncesAgree' /\ CallsHaveContract'
  BY <1>1, <1>2, TracingStays
<1>5. WrittenDown'
  BY <1>1, <1>2, EntriesStay
<1>6. InPlace' /\ Locked' /\ Rising'
  BY <1>1, <1>2 DEF Inv, InPlace, InPlaceAt, Locked, Rising, At, locals
<1>7. \A u \in Senders : FoundAt(u)'
  BY <1>1, <1>2, FoundStays
<1>8. ASSUME ~HasLater(t), NEW u \in Senders, QueueAt(u) PROVE QueueAt(u)'
  <2> DEFINE a == Own(u)
             count == Latest.count[a]
  <2>1. /\ count \in Nat /\ user[u].nonce \in Nat
        /\ \A l \in Sent(a) : l.nonce \in Nat /\ l \in pool
    BY CountIsNumber DEF Inv, User
  <2>2. CASE t.from # a
    <3>1. Sent(a)' = Sent(a)
      BY <1>1, <2>2 DEF Sent, Own
    <3> QED BY <1>1, <1>2, <1>8, <3>1, QueueStays
  <2>3. CASE t.from = a
    <3>1. t \in Sent(a) /\ Sent(a)' = Sent(a) \ {t}
      BY <1>1, <2>3 DEF Sent, Own
    <3>2. \A l \in Sent(a) : ~(l.nonce > t.nonce)
      BY <1>8, <2>3 DEF Sent, HasLater
    <3>3. InRow(Sent(a) \ {t}, count)
      BY <1>8, <2>1, <3>1, <3>2, LastLeaves DEF QueueAt, Waits
    <3>4. user[u].stage # "send"
      <4> SUFFICES ASSUME user[u].stage = "send" PROVE FALSE
        OBVIOUS
      <4>1. t.nonce < user[u].nonce
        BY <1>8, <3>1 DEF QueueAt, Waits
      <4> QED BY <1>8, <2>1, <2>3, <3>1, <4>1 DEF HasLater, At
    <3>5. Waits(Sent(a) \ {t}, count, user[u], blocks[user[u].block].count[a])
      <4>1. Waits(Sent(a), count, user[u], blocks[user[u].block].count[a])
        BY <1>8 DEF QueueAt
      <4> HIDE DEF a, count
      <4> QED BY <3>1, <3>3, <3>4, <4>1 DEF Waits
    <3> QED BY <1>1, <1>2, <3>1, <3>5 DEF QueueAt, Own
  <2> QED BY <2>2, <2>3
<1>9. Queues'
  BY <1>1, <1>8 DEF Inv, Queues
<1> QED BY <1>3, <1>4, <1>5, <1>6, <1>7, <1>9 DEF Inv

-----------------------------------------------------------------------------
\* Nobody but u moves.
Alone(u) == \A v \in Everyone \ {u} : user'[v] = user[v]

LEMMA OnlyOneMoves ==
    ASSUME Typed, NEW u \in Everyone, NEW me \in User, user' = [user EXCEPT ![u] = me]
    PROVE  Alone(u) /\ user'[u] = me /\ user' \in [Everyone -> User]
BY DEF Typed, Alone

\* A step of a sender keeps the invariant if it keeps what is the sender's own.
LEMMA SenderKeeps ==
    ASSUME Inv, NEW u \in Senders, Alone(u), Typed',
           UNCHANGED <<blocks, gap, locals, dump, tracing, errors>>,
           \A v \in Senders \ {u} : Sent(Own(v))' = Sent(Own(v)),
           history \subseteq history',
           \A t \in history' \ history :
             /\ IsMined(t.from, t.block)
             /\ gap \/ t.kind # "transfer" \/ t.sender_nonce = blocks[t.block].count[t.from],
           InPlaceAt(u)', FoundAt(u)', gap \/ QueueAt(u)'
    PROVE  Inv'
<1>1. Grows /\ Latest' = Latest
  BY ChainStays DEF Inv
<1>2. (\A v \in Tracers : user'[v] = user[v]) /\ (\A v \in Stores : user'[v] = user[v])
  BY UsersDiffer DEF Alone, Everyone, Preparing
<1>3. \A v \in Senders \ {u} : user'[v] = user[v]
  BY DEF Alone, Everyone, Preparing
<1>4. Asked' /\ Called' /\ EachRequestIsReported' /\ NoncesAgree' /\ CallsHaveContract'
  BY <1>1, <1>2, TracingStays
<1>5. Locked' /\ Rising'
  BY <1>1, <1>2 DEF Inv, Locked, Rising, At, locals
<1>6. InPlace'
  <2>1. \A v \in Senders \ {u} : InPlaceAt(v)'
    BY <1>3 DEF Inv, InPlace, InPlaceAt, At
  <2> QED BY <1>2, <2>1 DEF Inv, InPlace, At, locals
<1>7. \A v \in Senders : FoundAt(v)'
  BY <1>1, <1>3, FoundStays
<1>8. ASSUME NEW v \in Senders \ {u}, QueueAt(v) PROVE QueueAt(v)'
  BY <1>1, <1>3, <1>8, QueueStays
<1>9. Queues'
  BY <1>8 DEF Inv, Queues
<1>10. WrittenDown'
  BY DEF Inv, WrittenDown, IsMined
<1> QED BY <1>4, <1>5, <1>6, <1>7, <1>9, <1>10 DEF Inv

\* The facts about a sender that its steps need.
LEMMA SenderFacts ==
    ASSUME Inv, NEW u \in Senders
    PROVE  /\ u \in Everyone /\ user \in [Everyone -> User] /\ user[u] \in User
           /\ Own(u) \in Accounts /\ Latest \in Block /\ Len(blocks) \in Nat /\ Transfers \in Nat
           /\ Latest.count[Own(u)] \in Nat
           /\ \A t \in Sent(Own(u)) : t.nonce \in Nat /\ t \in pool
           /\ Typed /\ InPlaceAt(u) /\ FoundAt(u) /\ (gap \/ QueueAt(u))
BY CountIsNumber, BoundsAreNumbers DEF Inv, Typed, InPlace, Queues

\* A step of a sender that the mempool does not see.
LEMMA SenderMoves ==
    ASSUME Inv, NEW u \in Senders, NEW me \in User, user' = [user EXCEPT ![u] = me],
           UNCHANGED <<proxy, locals, history, dump, tracing, errors>>,
           me.stage \in {"ready", "before", "send", "receipt", "nonce", "after"},
           me.recipient >= 1, me.rounds <= Transfers, me.recipient <= me.rounds + 1,
           me.stage = "before" => me.recipient + 1 <= me.rounds + 1,
           me.stage \in {"nonce", "after"} => IsMined(Own(u), me.block),
           gap \/ Waits(Sent(Own(u)), Latest.count[Own(u)], me, blocks[me.block].count[Own(u)])
    PROVE  Inv'
<1>1. Alone(u) /\ user'[u] = me /\ user' \in [Everyone -> User]
  BY SenderFacts, OnlyOneMoves
<1>2. Latest' = Latest
  BY ChainStays DEF Inv, proxy
<1>3. Typed'
  BY <1>1 DEF Inv, Typed, proxy, locals, tracing
<1>4. InPlaceAt(u)'
  <2>1. me.recipient \in Nat /\ me.rounds \in Nat
    BY DEF User
  <2> QED BY <1>1, <2>1 DEF InPlaceAt, At, SenderStages
<1>5. FoundAt(u)'
  BY <1>1 DEF FoundAt, IsMined, Own, proxy
<1>6. \A v \in Senders : Sent(Own(v))' = Sent(Own(v))
  BY DEF Sent, Own, proxy
<1>7. gap \/ QueueAt(u)'
  BY <1>1, <1>2, <1>6 DEF QueueAt, Own, proxy
<1> QED BY <1>1, <1>3, <1>4, <1>5, <1>6, <1>7, SenderKeeps DEF proxy

LEMMA SenderStartsKeeps ==
    ASSUME Inv, NEW u \in Senders, SenderStarts(u)
    PROVE  Inv'
<1> DEFINE me == [user[u] EXCEPT !.stage = "ready", !.recipient = 1]
<1>1. /\ At(u, "start") /\ user' = [user EXCEPT ![u].stage = "ready", ![u].recipient = 1]
      /\ UNCHANGED <<proxy, locals, history, dump, tracing, errors>>
  BY DEF SenderStarts
<1>2. user[u] \in User /\ u \in Everyone /\ user \in [Everyone -> User] /\ InPlaceAt(u) /\ (gap \/ QueueAt(u))
  BY SenderFacts
<1>3. user' = [user EXCEPT ![u] = me]
  BY <1>1, <1>2
<1>4. /\ me \in User /\ me.stage = "ready" /\ me.recipient = 1 /\ me.rounds = user[u].rounds
      /\ user[u].rounds \in Nat
  BY <1>2 DEF User, Stages, SenderStages
<1>5. gap \/ Waits(Sent(Own(u)), Latest.count[Own(u)], me, blocks[me.block].count[Own(u)])
  <2> HIDE DEF me
  <2> QED BY <1>2, <1>4 DEF QueueAt, Waits
<1>6. me.rounds <= Transfers /\ me.recipient >= 1 /\ me.recipient <= me.rounds + 1
  <2> HIDE DEF me
  <2> QED BY <1>2, <1>4 DEF InPlaceAt
<1> HIDE DEF me
<1> QED BY <1>1, <1>3, <1>4, <1>5, <1>6, SenderMoves

LEMMA BalancesBeforeKeeps ==
    ASSUME Inv, NEW u \in Senders, BalancesBefore(u)
    PROVE  Inv'
<1> DEFINE me == [user[u] EXCEPT !.stage = "before", !.rounds = user[u].rounds + 1]
<1>1. /\ At(u, "ready") /\ user[u].rounds < Transfers
      /\ user' = [user EXCEPT ![u].stage = "before", ![u].rounds = @ + 1]
      /\ UNCHANGED <<proxy, locals, history, dump, tracing, errors>>
  BY DEF BalancesBefore
<1>2. /\ user[u] \in User /\ u \in Everyone /\ user \in [Everyone -> User] /\ InPlaceAt(u)
      /\ (gap \/ QueueAt(u)) /\ Transfers \in Nat
  BY SenderFacts
<1>3. user' = [user EXCEPT ![u] = me]
  BY <1>1, <1>2
<1>4. /\ me \in User /\ me.stage = "before" /\ me.recipient = user[u].recipient
      /\ me.rounds = user[u].rounds + 1 /\ user[u].rounds \in Nat /\ user[u].recipient \in Nat
  <2>1. user[u].rounds + 1 \in Nat /\ "before" \in Stages
    BY <1>2 DEF User, Stages, SenderStages
  <2> QED BY <1>2, <2>1 DEF User
<1>5. gap \/ Waits(Sent(Own(u)), Latest.count[Own(u)], me, blocks[me.block].count[Own(u)])
  <2> HIDE DEF me
  <2> QED BY <1>2, <1>4 DEF QueueAt, Waits
<1>6. /\ me.rounds <= Transfers /\ me.recipient >= 1 /\ me.recipient + 1 <= me.rounds + 1
      /\ me.recipient <= me.rounds + 1
  <2> HIDE DEF me
  <2> QED BY <1>1, <1>2, <1>4 DEF InPlaceAt, At
<1> HIDE DEF me
<1> QED BY <1>1, <1>3, <1>4, <1>5, <1>6, SenderMoves

LEMMA NonceBeforeKeeps ==
    ASSUME Inv, NEW u \in Senders, NonceBefore(u)
    PROVE  Inv'
<1> DEFINE sent == Sent(Own(u))
           count == Latest.count[Own(u)]
<1>1. PICK n \in 0..Transfers :
        /\ IsNext(Own(u), n)
        /\ user' = [user EXCEPT ![u].stage = "send", ![u].nonce = n, ![u].recipient = @ + 1]
  BY DEF NonceBefore
<1>2. At(u, "before") /\ UNCHANGED <<proxy, locals, history, dump, tracing, errors>>
  BY DEF NonceBefore
<1>3. /\ user[u] \in User /\ u \in Everyone /\ user \in [Everyone -> User] /\ InPlaceAt(u)
      /\ (gap \/ QueueAt(u)) /\ Transfers \in Nat /\ count \in Nat
      /\ \A t \in sent : t.nonce \in Nat
  BY SenderFacts
<1> DEFINE me == [user[u] EXCEPT !.stage = "send", !.nonce = n, !.recipient = user[u].recipient + 1]
<1>4. n \in Nat
  BY <1>3
<1>5. user' = [user EXCEPT ![u] = me]
  BY <1>1, <1>3
<1>6. /\ me \in User /\ me.stage = "send" /\ me.recipient = user[u].recipient + 1 /\ me.nonce = n
      /\ me.rounds = user[u].rounds /\ user[u].rounds \in Nat /\ user[u].recipient \in Nat
  <2>1. user[u].recipient + 1 \in Nat /\ "send" \in Stages
    BY <1>3 DEF User, Stages, SenderStages
  <2> QED BY <1>3, <1>4, <2>1 DEF User
<1>7. gap \/ Waits(sent, count, me, blocks[me.block].count[Own(u)])
  <2> SUFFICES ASSUME ~gap PROVE Waits(sent, count, me, blocks[me.block].count[Own(u)])
    OBVIOUS
  <2>1. InRow(sent, count)
    BY <1>3 DEF QueueAt, Waits
  <2>2. n >= count /\ ~NonceIn(sent, n) /\ \A m \in count..(n - 1) : NonceIn(sent, m)
    BY <1>1 DEF IsNext, Taken, NonceIn, Sent
  <2>3. \A l \in sent : l.nonce < n
    BY <1>3, <1>4, <2>1, <2>2, NextIsLast
  <2> HIDE DEF me, sent, count
  <2> QED BY <1>3, <1>4, <1>6, <2>1, <2>2, <2>3 DEF Waits
<1>8. me.rounds <= Transfers /\ me.recipient >= 1 /\ me.recipient <= me.rounds + 1
  <2> HIDE DEF me
  <2> QED BY <1>2, <1>3, <1>6 DEF InPlaceAt, At
<1> HIDE DEF me
<1> QED BY <1>2, <1>5, <1>6, <1>7, <1>8, SenderMoves

LEMMA task_send_neonKeeps ==
    ASSUME Inv, NEW u \in Senders, task_send_neon(u)
    PROVE  Inv'
<1> DEFINE sent == Sent(Own(u))
           count == Latest.count[Own(u)]
           me == [user[u] EXCEPT !.stage = "receipt"]
           new == [from |-> Own(u), to |-> <<u, user[u].recipient>>, value |-> 1, nonce |-> user[u].nonce]
<1>1. /\ At(u, "send") /\ pool' = pool \cup {new} /\ user' = [user EXCEPT ![u].stage = "receipt"]
      /\ UNCHANGED <<blocks, gap, locals, history, dump, tracing, errors>>
  BY DEF task_send_neon, Sends, Goes
<1>2. /\ user[u] \in User /\ u \in Everyone /\ user \in [Everyone -> User] /\ InPlaceAt(u) /\ Typed
      /\ (gap \/ QueueAt(u)) /\ Transfers \in Nat /\ count \in Nat /\ Own(u) \in Accounts
      /\ \A t \in sent : t.nonce \in Nat
  BY SenderFacts
<1>3. user' = [user EXCEPT ![u] = me]
  BY <1>1, <1>2
<1>4. /\ me \in User /\ me.stage = "receipt" /\ me.recipient = user[u].recipient
      /\ me.nonce = user[u].nonce /\ me.rounds = user[u].rounds /\ me.block = user[u].block
      /\ user[u].rounds \in Nat /\ user[u].recipient \in Nat /\ user[u].nonce \in Nat
  BY <1>2 DEF User, Stages, SenderStages
<1>5. new \in Sendable
  <2>1. user[u].recipient \in 1..(Transfers + 1)
    BY <1>1, <1>2, <1>4 DEF InPlaceAt, At
  <2>2. <<u, user[u].recipient>> \in Accounts
    BY <2>1 DEF Accounts
  <2> QED BY <1>2, <1>4, <2>2 DEF Sendable
<1>6. Alone(u) /\ user'[u] = me /\ user' \in [Everyone -> User]
  BY <1>2, <1>3, <1>4, OnlyOneMoves
<1>7. Typed'
  BY <1>1, <1>2, <1>5, <1>6 DEF Typed, locals, tracing
<1>8. \A v \in Senders \ {u} : Sent(Own(v))' = Sent(Own(v))
  BY <1>1 DEF Sent, Own
<1>9. sent' = sent \cup {new} /\ Latest' = Latest
  BY <1>1, <1>2, ChainStays DEF Sent, Own
<1>10. InPlaceAt(u)' /\ FoundAt(u)'
  <2> HIDE DEF me
  <2> QED BY <1>1, <1>2, <1>4, <1>6 DEF InPlaceAt, FoundAt, At, SenderStages
<1>11. ASSUME ~gap PROVE QueueAt(u)'
  <2>1. Waits(sent, count, user[u], blocks[user[u].block].count[Own(u)]) /\ user[u].stage = "send"
    BY <1>1, <1>2, <1>11 DEF QueueAt, At
  <2>2. new.nonce = user[u].nonce
    OBVIOUS
  <2>3. InRow(sent \cup {new}, count)
    <3> HIDE DEF new, sent, count
    <3> QED BY <1>2, <1>4, <2>1, <2>2, NextComes DEF Waits
  <2>4. Waits(sent \cup {new}, count, me, blocks[me.block].count[Own(u)])
    <3> HIDE DEF new, sent, count, me
    <3> QED BY <1>2, <1>4, <2>1, <2>2, <2>3 DEF Waits
  <2>5. Own(u)' = Own(u) /\ blocks' = blocks
    BY <1>1 DEF Own
  <2> QED BY <1>6, <1>9, <2>4, <2>5 DEF QueueAt
<1> QED BY <1>1, <1>6, <1>7, <1>8, <1>10, <1>11, SenderKeeps

LEMMA TransferMinedKeeps ==
    ASSUME Inv, NEW u \in Senders, TransferMined(u)
    PROVE  Inv'
<1> DEFINE sent == Sent(Own(u))
           count == Latest.count[Own(u)]
<1>1. PICK b \in BlocksOf(Own(u), user[u].nonce) :
        user' = [user EXCEPT ![u].stage = "nonce", ![u].block = b]
  BY DEF TransferMined
<1>2. At(u, "receipt") /\ UNCHANGED <<proxy, locals, history, dump, tracing, errors>>
  BY DEF TransferMined
<1>3. /\ user[u] \in User /\ u \in Everyone /\ user \in [Everyone -> User] /\ InPlaceAt(u) /\ Typed
      /\ (gap \/ QueueAt(u)) /\ Transfers \in Nat /\ count \in Nat /\ Own(u) \in Accounts
      /\ Len(blocks) \in Nat /\ \A t \in sent : t.nonce \in Nat
  BY SenderFacts
<1> DEFINE me == [user[u] EXCEPT !.stage = "nonce", !.block = b]
<1>4. /\ b \in 2..Len(blocks) /\ blocks[b].count[Own(u)] = user[u].nonce + 1
      /\ blocks[b - 1].count[Own(u)] = user[u].nonce
  BY DEF BlocksOf
<1>5. IsMined(Own(u), b) /\ b \in Nat
  BY <1>3, <1>4 DEF IsMined
<1>6. user' = [user EXCEPT ![u] = me]
  BY <1>1, <1>3
<1>7. /\ me \in User /\ me.stage = "nonce" /\ me.recipient = user[u].recipient /\ me.block = b
      /\ me.rounds = user[u].rounds /\ user[u].rounds \in Nat /\ user[u].recipient \in Nat
      /\ user[u].nonce \in Nat
  BY <1>3, <1>5 DEF User, Stages, SenderStages
<1>8. gap \/ Waits(sent, count, me, blocks[me.block].count[Own(u)])
  <2> SUFFICES ASSUME ~gap PROVE Waits(sent, count, me, blocks[b].count[Own(u)])
    BY <1>7
  <2>1. /\ InRow(sent, count) /\ count <= user[u].nonce + 1 /\ \A t \in sent : t.nonce <= user[u].nonce
    BY <1>2, <1>3 DEF QueueAt, Waits, At
  <2>2. blocks[b].count[Own(u)] <= count
    BY <1>3, <1>4 DEF Inv, Rising
  <2>3. count = blocks[b].count[Own(u)] /\ count = user[u].nonce + 1
    BY <1>3, <1>4, <1>7, <2>1, <2>2
  <2>4. sent = {}
    <3> SUFFICES ASSUME NEW t \in sent PROVE FALSE
      OBVIOUS
    <3>1. t.nonce >= count /\ t.nonce <= user[u].nonce /\ t.nonce \in Nat
      BY <1>3, <2>1 DEF InRow
    <3> HIDE DEF count
    <3> QED BY <1>7, <2>3, <3>1
  <2> HIDE DEF me, sent, count
  <2> QED BY <1>7, <2>1, <2>3, <2>4 DEF Waits
<1>9. me.rounds <= Transfers /\ me.recipient >= 1 /\ me.recipient <= me.rounds + 1
  <2> HIDE DEF me
  <2> QED BY <1>2, <1>3, <1>7 DEF InPlaceAt, At
<1> HIDE DEF me
<1> QED BY <1>2, <1>5, <1>6, <1>7, <1>8, <1>9, SenderMoves

\* How a task leaves its user.
LEMMA TaskEnds ==
    ASSUME Typed, NEW u \in Everyone, NEW stage \in Stages, EndTask(u, stage)
    PROVE  \E me \in User :
             /\ user' = [user EXCEPT ![u] = me]
             /\ me.stage = stage /\ me.recipient = user[u].recipient /\ me.rounds = user[u].rounds
             /\ me.by = user[u].by
<1> DEFINE me == [user[u] EXCEPT !.stage = stage, !.block = 0, !.nonce = 0, !.tx = None, !.answer = None]
<1>1. user[u] \in User /\ user \in [Everyone -> User]
  BY DEF Typed
<1>2. user' = [user EXCEPT ![u] = me]
  BY <1>1 DEF EndTask
<1>3. me \in User
  BY <1>1 DEF User
<1>4. me.stage = stage /\ me.recipient = user[u].recipient /\ me.rounds = user[u].rounds
      /\ me.by = user[u].by
  BY <1>1 DEF User
<1> HIDE DEF me
<1> QED BY <1>2, <1>3, <1>4

LEMMA SendFailsKeeps ==
    ASSUME Inv, NEW u \in Senders, SendFails(u)
    PROVE  Inv'
<1>1. /\ user[u].stage \in {"before", "send", "receipt", "nonce", "after"} /\ EndTask(u, "ready")
      /\ UNCHANGED <<proxy, locals, history, dump, tracing, errors>>
  BY DEF SendFails
<1>2. /\ user[u] \in User /\ u \in Everyone /\ InPlaceAt(u) /\ (gap \/ QueueAt(u)) /\ Typed
      /\ Transfers \in Nat
  BY SenderFacts
<1>3. PICK me \in User : /\ user' = [user EXCEPT ![u] = me]
                         /\ me.stage = "ready" /\ me.recipient = user[u].recipient
                         /\ me.rounds = user[u].rounds
  BY <1>1, <1>2, TaskEnds DEF Stages, SenderStages
<1>4. gap \/ Waits(Sent(Own(u)), Latest.count[Own(u)], me, blocks[me.block].count[Own(u)])
  BY <1>2, <1>3 DEF QueueAt, Waits
<1>5. user[u].recipient \in Nat /\ user[u].rounds \in Nat
  BY <1>2 DEF User
<1>6. me.recipient >= 1 /\ me.rounds <= Transfers /\ me.recipient <= me.rounds + 1
  BY <1>1, <1>2, <1>3, <1>5 DEF InPlaceAt
<1> QED BY <1>1, <1>3, <1>4, <1>6, SenderMoves

LEMMA NonceAfterKeeps ==
    ASSUME Inv, NEW u \in Senders, NonceAfter(u)
    PROVE  Inv'
<1> DEFINE sent == Sent(Own(u))
           count == Latest.count[Own(u)]
<1>1. PICK n \in 0..Transfers :
        IsNext(Own(u), n) /\ user' = [user EXCEPT ![u].stage = "after", ![u].nonce = n]
  BY DEF NonceAfter
<1>2. At(u, "nonce") /\ UNCHANGED <<proxy, locals, history, dump, tracing, errors>>
  BY DEF NonceAfter
<1>3. /\ user[u] \in User /\ u \in Everyone /\ user \in [Everyone -> User] /\ InPlaceAt(u)
      /\ (gap \/ QueueAt(u)) /\ FoundAt(u) /\ Transfers \in Nat /\ count \in Nat
  BY SenderFacts
<1> DEFINE me == [user[u] EXCEPT !.stage = "after", !.nonce = n]
<1>4. n \in Nat
  BY <1>3
<1>5. user' = [user EXCEPT ![u] = me]
  BY <1>1, <1>3
<1>6. /\ me \in User /\ me.stage = "after" /\ me.recipient = user[u].recipient /\ me.nonce = n
      /\ me.rounds = user[u].rounds /\ me.block = user[u].block
      /\ user[u].rounds \in Nat /\ user[u].recipient \in Nat
  BY <1>3, <1>4 DEF User, Stages, SenderStages
<1>7. gap \/ Waits(sent, count, me, blocks[me.block].count[Own(u)])
  <2> SUFFICES ASSUME ~gap PROVE Waits(sent, count, me, blocks[me.block].count[Own(u)])
    OBVIOUS
  <2>1. InRow(sent, count) /\ sent = {} /\ count = blocks[user[u].block].count[Own(u)]
    BY <1>2, <1>3 DEF QueueAt, Waits, At
  <2>2. n >= count /\ \A m \in count..(n - 1) : NonceIn(sent, m)
    BY <1>1 DEF IsNext, Taken, NonceIn, Sent
  <2>3. n = count
    <3> SUFFICES ASSUME n > count PROVE FALSE
      BY <1>3, <1>4, <2>2
    <3>1. count \in count..(n - 1)
      BY <1>3, <1>4
    <3> QED BY <2>1, <2>2, <3>1 DEF NonceIn
  <2> HIDE DEF me, sent, count
  <2> QED BY <1>6, <2>1, <2>3 DEF Waits
<1>8. me.rounds <= Transfers /\ me.recipient >= 1 /\ me.recipient <= me.rounds + 1
  <2> HIDE DEF me
  <2> QED BY <1>2, <1>3, <1>6 DEF InPlaceAt, At
<1>9. IsMined(Own(u), me.block)
  BY <1>2, <1>3, <1>6 DEF FoundAt, At
<1> HIDE DEF me
<1> QED BY <1>2, <1>5, <1>6, <1>7, <1>8, <1>9, SenderMoves

LEMMA BalancesAfterKeeps ==
    ASSUME Inv, NEW u \in Senders, BalancesAfter(u)
    PROVE  Inv'
<1> DEFINE entry == Recorded(u, get_balances(u))
<1>1. /\ At(u, "after") /\ history' = history \cup {entry} /\ EndTask(u, "ready")
      /\ UNCHANGED <<proxy, locals, dump, tracing, errors>>
  BY DEF BalancesAfter
<1>2. /\ user[u] \in User /\ u \in Everyone /\ user \in [Everyone -> User] /\ InPlaceAt(u) /\ Typed
      /\ (gap \/ QueueAt(u)) /\ FoundAt(u) /\ Transfers \in Nat /\ Own(u) \in Accounts /\ Latest \in Block
  BY SenderFacts
<1>3. PICK me \in User : /\ user' = [user EXCEPT ![u] = me]
                         /\ me.stage = "ready" /\ me.recipient = user[u].recipient
                         /\ me.rounds = user[u].rounds
  BY <1>1, <1>2, TaskEnds DEF Stages, SenderStages
<1>4. user[u].recipient \in Nat /\ user[u].rounds \in Nat /\ user[u].nonce \in Nat /\ user[u].block \in Nat
  BY <1>2 DEF User
<1>5. entry \in Entry
  <2>1. user[u].recipient \in 1..(Transfers + 1)
    BY <1>1, <1>2, <1>4 DEF InPlaceAt, At
  <2>2. <<u, user[u].recipient>> \in Accounts
    BY <2>1 DEF Accounts
  <2>3. get_balances(u)[1] \in Nat
    BY <1>2 DEF get_balances, Block
  <2>4. Wei * get_balances(u)[1] \in Nat
    <3> HIDE DEF entry
    <3>1. \A x \in Nat : Wei * x \in Nat
      BY BoundsAreNumbers
    <3> QED BY <2>3, <3>1
  <2> QED BY <1>2, <1>4, <2>2, <2>4 DEF Recorded, Entry, TransferEntry
<1>6. /\ entry.from = Own(u) /\ entry.kind = "transfer" /\ entry.block = user[u].block
      /\ entry.sender_nonce = user[u].nonce
  BY DEF Recorded
<1> HIDE DEF entry
<1>7. Alone(u) /\ user'[u] = me /\ user' \in [Everyone -> User]
  BY <1>2, <1>3, OnlyOneMoves
<1>8. Typed'
  BY <1>1, <1>2, <1>5, <1>7 DEF Typed, proxy, locals, tracing
<1>9. IsMined(entry.from, entry.block)
  BY <1>1, <1>2, <1>6 DEF FoundAt, At
<1>10. gap \/ entry.sender_nonce = blocks[entry.block].count[entry.from]
  BY <1>1, <1>2, <1>6 DEF QueueAt, Waits, At
<1>11. InPlaceAt(u)' /\ FoundAt(u)'
  BY <1>1, <1>2, <1>3, <1>4, <1>7 DEF InPlaceAt, FoundAt, At, SenderStages
<1>12. Latest' = Latest /\ (\A v \in Senders : Sent(Own(v))' = Sent(Own(v))) /\ blocks' = blocks
       /\ Own(u)' = Own(u)
  BY <1>1, <1>2, ChainStays DEF Sent, Own, proxy
<1>13. gap \/ QueueAt(u)'
  BY <1>2, <1>3, <1>7, <1>12 DEF QueueAt, Waits
<1> QED BY <1>1, <1>7, <1>8, <1>9, <1>10, <1>11, <1>12, <1>13, SenderKeeps DEF proxy

-----------------------------------------------------------------------------
\* Who stores keeps the invariant if it keeps the contract, the types and its
\* stages, and writes down blocks only that are mined.
LEMMA StoreKeeps ==
    ASSUME Inv, NEW u \in Stores, Alone(u), Typed',
           UNCHANGED <<blocks, gap, dump, tracing, errors>>,
           \A v \in Senders : Sent(Own(v))' = Sent(Own(v)),
           user'[u].stage \in StoreStages, user'[u].stage = "storing" => contract' # None,
           contract # None => contract' # None,
           history \subseteq history',
           \A t \in history' \ history : t.kind = "store" /\ IsMined(t.from, t.block),
           Locked'
    PROVE  Inv'
<1>1. Grows /\ Latest' = Latest
  BY ChainStays DEF Inv
<1>2. (\A v \in Tracers : user'[v] = user[v]) /\ (\A v \in Senders : user'[v] = user[v])
  BY UsersDiffer DEF Alone, Everyone, Preparing
<1>3. Asked' /\ Called' /\ EachRequestIsReported' /\ NoncesAgree' /\ CallsHaveContract'
  BY <1>1, <1>2, TracingStays
<1>4. InPlace'
  <2>1. \A v \in Senders : InPlaceAt(v)'
    BY <1>2 DEF Inv, InPlace, InPlaceAt, At
  <2>2. \A v \in Stores \ {u} : user'[v] = user[v]
    BY DEF Alone, Everyone, Preparing
  <2> QED BY <2>1, <2>2 DEF Inv, InPlace, At
<1>5. \A v \in Senders : FoundAt(v)'
  BY <1>1, <1>2, FoundStays
<1>6. ASSUME NEW v \in Senders, QueueAt(v) PROVE QueueAt(v)'
  BY <1>1, <1>2, <1>6, QueueStays
<1>7. Queues'
  BY <1>6 DEF Inv, Queues
<1>8. WrittenDown'
  BY DEF Inv, WrittenDown, IsMined
<1>9. Rising'
  BY <1>1 DEF Inv, Rising
<1> QED BY <1>3, <1>4, <1>5, <1>7, <1>8, <1>9 DEF Inv

LEMMA StoreFacts ==
    ASSUME Inv, NEW u \in Stores
    PROVE  /\ u \in Everyone /\ user \in [Everyone -> User] /\ user[u] \in User
           /\ Own(u) \in Accounts /\ Latest \in Block /\ Latest.count[Own(u)] \in Nat
           /\ Typed /\ Locked /\ user[u].stage \in StoreStages
           /\ \A v \in Senders : Own(v) # Own(u)
<1>1. Latest \in Block /\ Own(u) \in Accounts
  BY DEF Inv, Typed, Latest, Accounts, Own
<1> QED BY <1>1, UsersDiffer DEF Inv, Typed, InPlace, Everyone, Preparing, Block, Own

\* A step that leaves the stages of the others, and the contract, as they are.
LEMMA LockStays ==
    ASSUME Inv, NEW u \in Stores, Alone(u), UNCHANGED locals, user'[u].stage # "deploy"
    PROVE  Locked'
<1>1. \A v \in Stores \ {u} : user'[v] = user[v]
  BY DEF Alone, Everyone, Preparing
<1> QED BY <1>1 DEF Inv, Locked, At, locals

LEMMA TakeLockKeeps ==
    ASSUME Inv, NEW u \in Stores, TakeLock(u)
    PROVE  Inv'
<1>1. /\ At(u, "start") /\ lock = None
      /\ UNCHANGED <<proxy, contract, deployed, history, dump, tracing, errors>>
  BY DEF TakeLock
<1>2. /\ u \in Everyone /\ user \in [Everyone -> User] /\ user[u] \in User /\ Typed /\ Locked
  BY StoreFacts
<1>3. PICK stage \in {"ready", "deploy"} : user' = [user EXCEPT ![u] = [user[u] EXCEPT !.stage = stage]]
  BY <1>2 DEF TakeLock, Goes
<1>4. [user[u] EXCEPT !.stage = stage] \in User /\ [user[u] EXCEPT !.stage = stage].stage = stage
  BY <1>2 DEF User, Stages, StoreStages
<1>5. Alone(u) /\ user'[u] \in User /\ user'[u].stage = stage /\ user' \in [Everyone -> User]
  BY <1>2, <1>3, <1>4, OnlyOneMoves
<1>6. Typed'
  <2>1. lock' \in Stores \cup {None} /\ done' \in BOOLEAN
    BY <1>2 DEF TakeLock, Typed
  <2> QED BY <1>1, <1>2, <1>5, <2>1 DEF Typed, proxy, tracing
<1>7. Locked'
  <2>1. \A v \in Stores \ {u} : user'[v] = user[v]
    BY <1>5 DEF Alone, Everyone, Preparing
  <2>2. u # None /\ \A v \in Stores : ~At(v, "deploy")
    BY <1>1, <1>2, UsersDiffer DEF Locked
  <2>3. CASE done
    <3>1. Goes(u, "ready") /\ UNCHANGED <<lock, done>>
      BY <2>3 DEF TakeLock
    <3>2. user'[u].stage = "ready"
      BY <1>2, <3>1 DEF Goes, User
    <3> QED BY <1>1, <1>2, <2>1, <2>2, <3>1, <3>2 DEF Locked, At
  <2>4. CASE ~done
    <3>1. lock' = u /\ done' = TRUE
      BY <2>4 DEF TakeLock
    <3> QED BY <1>1, <1>2, <2>1, <2>2, <2>4, <3>1 DEF Locked, At
  <2> QED BY <2>3, <2>4
<1>8. \A v \in Senders : Sent(Own(v))' = Sent(Own(v))
  BY <1>1 DEF Sent, Own, proxy
<1> QED BY <1>1, <1>5, <1>6, <1>7, <1>8, StoreKeeps DEF proxy, StoreStages

LEMMA deploy_storage_contractKeeps ==
    ASSUME Inv, NEW u \in Stores, deploy_storage_contract(u)
    PROVE  Inv'
<1>1. /\ At(u, "deploy") /\ lock' = None /\ UNCHANGED <<proxy, history, dump, tracing, errors>>
  BY DEF deploy_storage_contract
<1>2. u \in Everyone /\ user \in [Everyone -> User] /\ user[u] \in User /\ Typed /\ Locked
  BY StoreFacts
<1>3. PICK stage \in {"ready", "start"} : user' = [user EXCEPT ![u] = [user[u] EXCEPT !.stage = stage]]
  BY <1>2 DEF deploy_storage_contract, Goes
<1>4. [user[u] EXCEPT !.stage = stage] \in User /\ [user[u] EXCEPT !.stage = stage].stage = stage
  BY <1>2 DEF User, Stages, StoreStages
<1>5. Alone(u) /\ user'[u] \in User /\ user'[u].stage = stage /\ user' \in [Everyone -> User]
  BY <1>2, <1>3, <1>4, OnlyOneMoves
<1>6. /\ contract' \in Stores \cup {None} /\ done' \in BOOLEAN /\ deployed' \in Nat
      /\ contract # None => contract' # None
      /\ deployed = 0 /\ done => deployed' <= 1 /\ (~done' => deployed' = 0)
  <2>1. deployed \in Nat /\ done \in BOOLEAN /\ contract \in Stores \cup {None} /\ u # None
    BY <1>2, UsersDiffer DEF Typed
  <2>2. CASE deployed' = deployed + 1 /\ contract' = u /\ done' = TRUE
    BY <2>1, <2>2
  <2>3. CASE done' = FALSE /\ UNCHANGED <<deployed, contract>>
    <3>1. deployed' = deployed /\ contract' = contract
      BY <2>3
    <3>2. deployed' \in Nat /\ (deployed = 0 => deployed' <= 1 /\ deployed' = 0)
      BY <2>1, <3>1
    <3>3. done' \in BOOLEAN /\ (contract # None => contract' # None) /\ contract' \in Stores \cup {None}
      BY <2>1, <2>3, <3>1
    <3> QED BY <3>2, <3>3
  <2>4. CASE deployed' \in {deployed, deployed + 1} /\ UNCHANGED <<contract, done>>
    BY <2>1, <2>4
  <2> QED BY <2>2, <2>3, <2>4 DEF deploy_storage_contract
<1>7. Typed'
  BY <1>1, <1>2, <1>5, <1>6 DEF Typed, proxy, tracing
<1>8. Locked'
  <2>1. \A v \in Stores \ {u} : user'[v] = user[v]
    BY <1>5 DEF Alone, Everyone, Preparing
  <2>2. /\ u # None /\ lock = u /\ done /\ deployed = 0
        /\ \A v \in Stores \ {u} : user[v].stage # "deploy"
    BY <1>1, <1>2, UsersDiffer DEF Locked, At
  <2>3. \A v \in Stores : user'[v].stage # "deploy"
    BY <1>5, <2>1, <2>2
  <2>4. deployed' <= 1 /\ (~done' => deployed' = 0)
    BY <1>6, <2>2
  <2> QED BY <1>1, <2>3, <2>4 DEF Locked, At
<1>9. \A v \in Senders : Sent(Own(v))' = Sent(Own(v))
  BY <1>1 DEF Sent, Own, proxy
<1> QED BY <1>1, <1>5, <1>6, <1>7, <1>8, <1>9, StoreKeeps DEF proxy, StoreStages

LEMMA prepare_data_by_store_intKeeps ==
    ASSUME Inv, NEW u \in Stores, prepare_data_by_store_int(u)
    PROVE  Inv'
<1> DEFINE count == Latest.count[Own(u)]
           new == [from |-> Own(u), to |-> Own(u), value |-> 0, nonce |-> count]
<1>1. At(u, "ready") /\ UNCHANGED <<blocks, gap, locals, history, dump, tracing, errors>>
  BY DEF prepare_data_by_store_int
<1>2. /\ u \in Everyone /\ user \in [Everyone -> User] /\ user[u] \in User /\ Typed
      /\ Own(u) \in Accounts /\ count \in Nat /\ \A v \in Senders : Own(v) # Own(u)
  BY StoreFacts
<1>3. user[u].rounds + 1 \in Nat
  BY <1>2 DEF User
<1>4. PICK me \in User : /\ user' = [user EXCEPT ![u] = me]
                         /\ me.stage \in {"ready", "storing"}
                         /\ me.stage = "storing" => contract # None
  <2>1. CASE contract = None
    <3> DEFINE me == [user[u] EXCEPT !.rounds = user[u].rounds + 1]
    <3>1. user' = [user EXCEPT ![u] = me]
      BY <1>2, <2>1 DEF prepare_data_by_store_int
    <3>2. me \in User /\ me.stage = "ready"
      BY <1>1, <1>2, <1>3 DEF User, At
    <3> HIDE DEF me
    <3> QED BY <3>1, <3>2
  <2>2. CASE contract # None
    <3> DEFINE me == [user[u] EXCEPT !.stage = "storing", !.rounds = user[u].rounds + 1, !.nonce = count]
    <3>1. user' = [user EXCEPT ![u] = me]
      BY <1>2, <2>2 DEF prepare_data_by_store_int
    <3>2. "storing" \in Stages
      BY DEF Stages, StoreStages
    <3>3. me \in User /\ me.stage = "storing"
      <4> HIDE DEF count
      <4> QED BY <1>2, <1>3, <3>2 DEF User
    <3> HIDE DEF me
    <3> QED BY <2>2, <3>1, <3>3
  <2> QED BY <2>1, <2>2
<1>5. Alone(u) /\ user'[u] = me /\ user' \in [Everyone -> User]
  BY <1>2, <1>4, OnlyOneMoves
<1>6. pool' = pool \/ pool' = pool \cup {new}
  BY DEF prepare_data_by_store_int, Sends
<1>7. new \in Sendable
  BY <1>2 DEF Sendable
<1>8. Typed'
  <2> HIDE DEF new
  <2> QED BY <1>1, <1>2, <1>5, <1>6, <1>7 DEF Typed, locals, tracing
<1>9. \A v \in Senders : Sent(Own(v))' = Sent(Own(v))
  <2> SUFFICES ASSUME NEW v \in Senders PROVE Sent(Own(v))' = Sent(Own(v))
    OBVIOUS
  <2>1. new.from = Own(u) /\ Own(v) # Own(u)
    BY <1>2
  <2> HIDE DEF new
  <2> QED BY <1>6, <2>1 DEF Sent, Own
<1>10. Locked'
  BY <1>1, <1>4, <1>5, LockStays
<1> QED BY <1>1, <1>4, <1>5, <1>8, <1>9, <1>10, StoreKeeps DEF StoreStages, locals

LEMMA StoreRefusedKeeps ==
    ASSUME Inv, NEW u \in Stores, StoreRefused(u)
    PROVE  Inv'
<1> DEFINE me == [user[u] EXCEPT !.rounds = user[u].rounds + 1]
<1>1. At(u, "ready") /\ UNCHANGED <<proxy, locals, history, dump, tracing, errors>>
  BY DEF StoreRefused
<1>2. u \in Everyone /\ user \in [Everyone -> User] /\ user[u] \in User /\ Typed
  BY StoreFacts
<1>3. user' = [user EXCEPT ![u] = me]
  BY <1>2 DEF StoreRefused
<1>4. me \in User /\ me.stage = "ready"
  <2>1. user[u].rounds + 1 \in Nat
    BY <1>2 DEF User
  <2> QED BY <1>1, <1>2, <2>1 DEF User, At
<1> HIDE DEF me
<1>5. Alone(u) /\ user'[u] = me /\ user' \in [Everyone -> User]
  BY <1>2, <1>3, <1>4, OnlyOneMoves
<1>6. Typed'
  BY <1>1, <1>2, <1>5 DEF Typed, proxy, locals, tracing
<1>7. Locked' /\ \A v \in Senders : Sent(Own(v))' = Sent(Own(v))
  BY <1>1, <1>4, <1>5, LockStays DEF Sent, Own, proxy
<1> QED BY <1>1, <1>4, <1>5, <1>6, <1>7, StoreKeeps DEF proxy, locals, StoreStages

\* The receipt came, or did not come in time.
LEMMA StoreEndsKeeps ==
    ASSUME Inv, NEW u \in Stores, StoreMined(u) \/ StoreTimesOut(u)
    PROVE  Inv'
<1>1. /\ At(u, "storing") /\ EndTask(u, "ready") /\ UNCHANGED <<proxy, locals, dump, tracing, errors>>
  BY DEF StoreMined, StoreTimesOut
<1>2. u \in Everyone /\ user \in [Everyone -> User] /\ user[u] \in User /\ Typed /\ Own(u) \in Accounts
  BY StoreFacts
<1>3. PICK me \in User : user' = [user EXCEPT ![u] = me] /\ me.stage = "ready"
  BY <1>1, <1>2, TaskEnds DEF Stages, StoreStages
<1>4. Alone(u) /\ user'[u] = me /\ user' \in [Everyone -> User]
  BY <1>2, <1>3, OnlyOneMoves
<1>5. contract \in Stores
  BY <1>1, <1>2 DEF Inv, InPlace, Typed
<1>6. ASSUME NEW t \in history' \ history
      PROVE  t \in Entry /\ t.kind = "store" /\ IsMined(t.from, t.block)
  <2>1. PICK b \in BlocksOf(Own(u), user[u].nonce) :
          t = [kind |-> "store", from |-> Own(u), to |-> contract, block |-> b]
    BY <1>6 DEF StoreMined, StoreTimesOut
  <2>2. b \in 2..Len(blocks) /\ b \in Nat
    BY <1>2 DEF BlocksOf, Typed
  <2>3. IsMined(Own(u), b)
    BY <2>2 DEF BlocksOf, IsMined
  <2> QED BY <1>2, <1>5, <2>1, <2>2, <2>3 DEF Entry, StoreEntry
<1>7. history \subseteq history'
  BY DEF StoreMined, StoreTimesOut
<1>8. Typed'
  <2>1. history' \subseteq Entry
    BY <1>2, <1>6 DEF Typed
  <2> QED BY <1>1, <1>2, <1>4, <1>7, <2>1 DEF Typed, proxy, locals, tracing
<1>9. Locked' /\ \A v \in Senders : Sent(Own(v))' = Sent(Own(v))
  BY <1>1, <1>3, <1>4, LockStays DEF Sent, Own, proxy
<1> QED BY <1>1, <1>3, <1>4, <1>6, <1>7, <1>8, <1>9, StoreKeeps DEF proxy, locals, StoreStages

-----------------------------------------------------------------------------
LEMMA TeardownKeeps ==
    ASSUME Inv, Teardown
    PROVE  Inv'
<1> DEFINE gone == [Resting EXCEPT !.stage = "gone"]
<1>1. /\ dump = None /\ dump' = history /\ lock' = None
      /\ user' = [u \in DOMAIN user |-> IF u \in Preparing THEN gone ELSE user[u]]
      /\ deployed' \in {deployed} \cup {deployed + 1 : u \in {c \in Stores : At(c, "deploy")}}
      /\ UNCHANGED <<proxy, done, contract, history, tracing, errors>>
  BY DEF Teardown
<1>2. gone \in User /\ gone.stage = "gone" /\ gone.recipient = 0 /\ gone.rounds = 0
  BY DEF Resting, User, Stages, SenderStages
<1> HIDE DEF gone
<1>3. /\ user \in [Everyone -> User] /\ Latest' = Latest /\ Transfers \in Nat /\ Typed
      /\ deployed \in Nat
  BY <1>1, ChainStays, BoundsAreNumbers DEF Inv, Typed, proxy
<1>4. \A u \in Preparing : user'[u] = gone
  BY <1>1, <1>3 DEF Everyone
<1>5. \A u \in Tracers : user'[u] = user[u]
  BY <1>1, <1>3, UsersDiffer DEF Everyone, Preparing
<1>6. user' \in [Everyone -> User]
  BY <1>1, <1>2, <1>3
<1>7. Typed'
  <2>1. deployed' \in Nat
    BY <1>1, <1>3
  <2> QED BY <1>1, <1>3, <1>6, <2>1 DEF Typed, proxy, tracing
<1>8. InPlace' /\ (\A u \in Senders : FoundAt(u)')
  BY <1>2, <1>3, <1>4 DEF InPlace, InPlaceAt, FoundAt, At, Preparing, SenderStages, StoreStages
<1>9. Rising' /\ WrittenDown'
  BY <1>1, <1>3 DEF Inv, Rising, WrittenDown, IsMined, proxy
<1>10. Queues'
  <2>1. ASSUME NEW u \in Senders, QueueAt(u) PROVE QueueAt(u)'
    <3>1. InRow(Sent(Own(u)), Latest.count[Own(u)])
      BY <2>1 DEF QueueAt, Waits
    <3>2. user'[u].stage = "gone"
      BY <1>2, <1>4 DEF Preparing
    <3>3. Sent(Own(u))' = Sent(Own(u)) /\ Own(u)' = Own(u)
      BY <1>1 DEF Sent, Own, proxy
    <3> QED BY <1>3, <3>1, <3>2, <3>3 DEF QueueAt, Waits
  <2> QED BY <1>1, <2>1 DEF Inv, Queues, proxy
<1>11. Asked'
  BY <1>1, <1>5 DEF Inv, Asked, AskedAt, At, Answer, proxy
<1>12. Called' /\ CallsHaveContract'
  BY <1>1, <1>5 DEF Inv, Called, CallsHaveContract, At, tracing
<1>13. EachRequestIsReported' /\ NoncesAgree'
  BY <1>1, <1>5 DEF Inv, EachRequestIsReported, NoncesAgree, At, tracing, proxy
<1>14. Locked'
  <2>1. \A u \in Stores : user'[u].stage = "gone"
    BY <1>2, <1>4 DEF Preparing
  <2>2. deployed' <= 1 /\ (~done => deployed' = 0)
    <3>1. CASE \E c \in Stores : At(c, "deploy")
      BY <1>1, <3>1, UsersDiffer DEF Inv, Locked
    <3>2. CASE ~\E c \in Stores : At(c, "deploy")
      BY <1>1, <3>2 DEF Inv, Locked
    <3> QED BY <3>1, <3>2
  <2> QED BY <1>1, <2>1, <2>2 DEF Locked, At
<1> QED BY <1>7, <1>8, <1>9, <1>10, <1>11, <1>12, <1>13, <1>14 DEF Inv

-----------------------------------------------------------------------------
\* What a request adds to the buffer and to the events, for one user.
ReportedAt(u) ==
    /\ u \in buffer <=> user[u].stage \in {"rpc", "cut"}
    /\ fired[u] + (IF u \in buffer THEN 1 ELSE 0) = user[u].rounds

InTasks(u) == user[u].stage \in {"tasks", "rpc", "compare"}

LEMMA ErrorIsOwn ==
    ASSUME NEW u, NEW what, Error(u, what)
    PROVE  \A v : v # u => \A w : <<v, w>> \in errors' => <<v, w>> \in errors
BY DEF Error

\* What a user of the tracer tests does does not concern the preparation.
LEMMA TracerAlone ==
    ASSUME Inv, \A v \in Preparing : user'[v] = user[v], UNCHANGED <<proxy, locals, history>>
    PROVE  /\ InPlace' /\ Rising' /\ (\A v \in Senders : FoundAt(v)') /\ Queues'
           /\ WrittenDown' /\ Locked'
<1>1. Grows /\ Latest' = Latest /\ UNCHANGED <<blocks, pool, gap>>
  BY ChainStays DEF Inv, proxy
<1>2. InPlace' /\ Locked'
  BY DEF Inv, InPlace, InPlaceAt, Locked, Preparing, At, locals
<1>3. Rising' /\ WrittenDown'
  BY <1>1 DEF Inv, Rising, WrittenDown, IsMined
<1>4. \A v \in Senders : FoundAt(v)'
  BY <1>1, FoundStays DEF Preparing
<1>5. ASSUME NEW v \in Senders, QueueAt(v) PROVE QueueAt(v)'
  <2>1. Sent(Own(v))' = Sent(Own(v)) /\ user'[v] = user[v]
    BY <1>1 DEF Sent, Own, Preparing
  <2> QED BY <1>1, <1>5, <2>1, QueueStays
<1>6. Queues'
  BY <1>1, <1>5 DEF Inv, Queues
<1> QED BY <1>2, <1>3, <1>4, <1>6

\* A step of a tracer user keeps the invariant if it keeps what is the user's own.
LEMMA TracerKeeps ==
    ASSUME Inv, NEW u \in Tracers, Alone(u), UNCHANGED <<proxy, locals, history, dump>>, dump # None,
           Typed', AskedAt(u)', ReportedAt(u)',
           \A v \in Tracers \ {u} : \A what : <<v, what>> \in errors' => <<v, what>> \in errors,
           \A v \in Tracers \ {u} : (v \in buffer' <=> v \in buffer) /\ fired'[v] = fired[v],
           ethCall.done => ethCall' = ethCall,
           Entries("eth_call") # {} /\ ethCall'.done => ethCall'.contract # None,
           InTasks(u)' /\ user'[u].by = "eth_call" => ethCall'.done,
           gap \/ <<u, "eth_getTransactionCount">> \notin errors',
           Entries("eth_call") # {} => <<u, "AttributeError">> \notin errors'
    PROVE  Inv'
<1>1. (\A v \in Tracers \ {u} : user'[v] = user[v]) /\ (\A v \in Preparing : user'[v] = user[v])
  BY UsersDiffer DEF Alone, Everyone, Preparing
<1>2. /\ InPlace' /\ Rising' /\ (\A v \in Senders : FoundAt(v)') /\ Queues'
      /\ WrittenDown' /\ Locked'
  BY <1>1, TracerAlone
<1>3. blocks' = blocks /\ gap' = gap
  BY DEF proxy
<1>4. Asked'
  <2> SUFFICES ASSUME NEW v \in Tracers \ {u} PROVE AskedAt(v)'
    BY DEF Asked
  <2> QED BY <1>1, <1>3 DEF Inv, Asked, AskedAt, At, Answer
<1>5. Called'
  <2>1. Entries("eth_call")' = Entries("eth_call")
    BY DEF Entries
  <2>2. \A v \in Tracers :
          user'[v].stage \in {"tasks", "rpc", "compare"} /\ user'[v].by = "eth_call" => ethCall'.done
    BY <1>1 DEF Inv, Called, InTasks
  <2> QED BY <2>1, <2>2 DEF Called
<1>6. EachRequestIsReported'
  BY <1>1 DEF Inv, EachRequestIsReported, ReportedAt
<1>7. NoncesAgree'
  BY <1>3 DEF Inv, NoncesAgree
<1>8. CallsHaveContract'
  BY DEF Inv, CallsHaveContract, Entries
<1> QED BY <1>2, <1>4, <1>5, <1>6, <1>7, <1>8 DEF Inv

\* A user who has begun has seen a dump, and has a place among the users.
LEMMA TracerFacts ==
    ASSUME Inv, NEW u \in Tracers, ~At(u, "start") \/ dump # None
    PROVE  /\ u \in Everyone /\ user \in [Everyone -> User] /\ user[u] \in User /\ Typed
           /\ dump # None /\ dump \subseteq history /\ AskedAt(u) /\ ReportedAt(u)
           /\ gap \/ <<u, "eth_getTransactionCount">> \notin errors
           /\ Entries("eth_call") # {} => <<u, "AttributeError">> \notin errors
           /\ Entries("eth_call") # {} /\ ethCall.done => ethCall.contract # None
           /\ InTasks(u) /\ user[u].by = "eth_call" => ethCall.done
<1>1. dump # None
  BY DEF Inv, Called
<1> QED BY <1>1 DEF Inv, Typed, Everyone, Asked, Called, EachRequestIsReported, ReportedAt, NoncesAgree,
                    CallsHaveContract, InTasks

LEMMA EnterTaskSetKeeps ==
    ASSUME Inv, NEW u \in Tracers, EnterTaskSet(u)
    PROVE  Inv'
<1>1. PICK method \in TaskSets : Enters(u, method)
  BY DEF EnterTaskSet
<1>2. At(u, "start") /\ dump # None /\ UNCHANGED <<proxy, locals, history, dump, tracing, errors>>
  BY DEF EnterTaskSet
<1>3. u \in Everyone /\ user[u] \in User /\ user \in [Everyone -> User] /\ Typed /\ ReportedAt(u)
  BY <1>2, TracerFacts
<1> DEFINE me == [user[u] EXCEPT !.stage = "tasks", !.by = method]
<1>4. user' = [user EXCEPT ![u] = me]
  BY <1>1, <1>3 DEF Enters
<1>5. me \in User /\ me.stage = "tasks" /\ me.by = method /\ me.rounds = user[u].rounds
  BY <1>3 DEF User, Stages, TracerStages, Methods
<1> HIDE DEF me
<1>6. Alone(u) /\ user'[u] = me /\ user' \in [Everyone -> User]
  BY <1>3, <1>4, <1>5, OnlyOneMoves
<1>7. Typed'
  BY <1>2, <1>3, <1>6 DEF Typed, proxy, locals, tracing
<1>8. AskedAt(u)' /\ ReportedAt(u)'
  BY <1>2, <1>3, <1>5, <1>6 DEF AskedAt, ReportedAt, At, Methods, TracerStages, tracing
<1>9. method # "eth_call"
  BY DEF TaskSets
<1> QED BY <1>2, <1>5, <1>6, <1>7, <1>8, <1>9, TracerFacts, TracerKeeps DEF tracing, InTasks

\* An entry of the store goes to a contract.
LEMMA EntryIsTyped ==
    ASSUME Inv, dump # None, NEW method, NEW tx \in Entries(method)
    PROVE  /\ tx \in history /\ tx \in Entry /\ tx.kind = Kind(method)
           /\ tx.kind = "store" => tx.to \in Stores
<1>1. tx \in history /\ tx \in Entry /\ tx.kind = Kind(method)
  BY DEF Entries, Inv, Typed
<1>2. ASSUME tx.kind = "store" PROVE tx.to \in Stores
  <2>1. tx \notin TransferEntry
    BY <1>2 DEF TransferEntry
  <2> QED BY <1>1, <2>1 DEF Entry, StoreEntry
<1> QED BY <1>1, <1>2

LEMMA EnterEthCallKeeps ==
    ASSUME Inv, NEW u \in Tracers, EnterEthCall(u)
    PROVE  Inv'
<1>1. /\ dump # None /\ At(u, "start") /\ UNCHANGED <<proxy, locals, history, dump, buffer, fired>>
  BY DEF EnterEthCall
<1>2. /\ u \in Everyone /\ user \in [Everyone -> User] /\ user[u] \in User /\ Typed
      /\ AskedAt(u) /\ ReportedAt(u)
      /\ gap \/ <<u, "eth_getTransactionCount">> \notin errors
      /\ Entries("eth_call") # {} => <<u, "AttributeError">> \notin errors
      /\ Entries("eth_call") # {} /\ ethCall.done => ethCall.contract # None
  BY <1>1, TracerFacts
<1>3. ASSUME Enters(u, "eth_call"), ethCall'.done, UNCHANGED errors,
             ethCall' \in [done : BOOLEAN, contract : Stores \cup {None}],
             ethCall.done => ethCall' = ethCall,
             Entries("eth_call") # {} => ethCall'.contract # None
      PROVE  Inv'
  <2> DEFINE me == [user[u] EXCEPT !.stage = "tasks", !.by = "eth_call"]
  <2>1. user' = [user EXCEPT ![u] = me]
    BY <1>2, <1>3 DEF Enters
  <2>2. me \in User /\ me.stage = "tasks" /\ me.by = "eth_call" /\ me.rounds = user[u].rounds
    BY <1>2 DEF User, Stages, TracerStages, Methods
  <2> HIDE DEF me
  <2>3. Alone(u) /\ user'[u] = me /\ user' \in [Everyone -> User]
    BY <1>2, <2>1, <2>2, OnlyOneMoves
  <2>4. Typed'
    BY <1>1, <1>2, <1>3, <2>3 DEF Typed, proxy, locals
  <2>5. AskedAt(u)' /\ ReportedAt(u)'
    BY <1>1, <1>2, <2>2, <2>3 DEF AskedAt, ReportedAt, At, Methods, TracerStages
  <2> QED BY <1>1, <1>2, <1>3, <2>3, <2>4, <2>5, TracerKeeps
<1>4. CASE ethCall.done /\ Enters(u, "eth_call") /\ UNCHANGED <<ethCall, errors>>
  BY <1>2, <1>3, <1>4 DEF Typed
<1>5. CASE /\ ~ethCall.done
           /\ \E tx \in Entries("eth_call") : KeepsContract(tx)
           /\ Enters(u, "eth_call") /\ UNCHANGED errors
  <2>1. PICK tx \in Entries("eth_call") : ethCall' = [done |-> TRUE, contract |-> tx.to]
    BY <1>5 DEF KeepsContract
  <2>2. tx.to \in Stores /\ tx.to # None
    BY <1>1, EntryIsTyped, UsersDiffer DEF Kind
  <2> QED BY <1>3, <1>5, <2>1, <2>2
<1>6. CASE /\ ~ethCall.done /\ Entries("eth_call") = {}
           /\ ethCall' = [ethCall EXCEPT !.done = TRUE]
           /\ Error(u, "KeyError") /\ UNCHANGED user
  <2>1. ethCall' \in [done : BOOLEAN, contract : Stores \cup {None}]
    BY <1>2, <1>6 DEF Typed
  <2>2. Typed'
    BY <1>1, <1>2, <1>6, <2>1 DEF Typed, proxy, locals
  <2>3. Alone(u)
    BY <1>6 DEF Alone
  <2>4. AskedAt(u)' /\ ReportedAt(u)'
    BY <1>1, <1>2, <1>6 DEF AskedAt, ReportedAt, At, Answer, proxy
  <2>5. gap \/ <<u, "eth_getTransactionCount">> \notin errors'
    BY <1>2, <1>6 DEF Error
  <2> QED BY <1>1, <1>6, <2>2, <2>3, <2>4, <2>5, ErrorIsOwn, TracerKeeps DEF At, InTasks
<1> QED BY <1>4, <1>5, <1>6 DEF EnterEthCall

LEMMA TaskRaisesKeeps ==
    ASSUME Inv, NEW u \in Tracers, TaskRaises(u)
    PROVE  Inv'
<1>1. /\ At(u, "tasks") /\ UNCHANGED <<proxy, user, locals, history, dump, tracing>>
  BY DEF TaskRaises
<1>2. /\ dump # None /\ AskedAt(u) /\ ReportedAt(u) /\ Typed
      /\ gap \/ <<u, "eth_getTransactionCount">> \notin errors
      /\ Entries("eth_call") # {} => <<u, "AttributeError">> \notin errors
      /\ Entries("eth_call") # {} /\ ethCall.done => ethCall.contract # None
      /\ user[u].by = "eth_call" => ethCall.done
  BY <1>1, TracerFacts DEF At, InTasks
<1>3. PICK what \in {"AttributeError", "build", "KeyError"} :
        /\ Error(u, what)
        /\ what = "AttributeError" => user[u].by = "eth_call" /\ ethCall.contract = None
  BY DEF TaskRaises
<1>4. Typed'
  BY <1>1, <1>2 DEF Typed, proxy, locals, tracing
<1>5. Alone(u)
  BY <1>1 DEF Alone
<1>6. AskedAt(u)' /\ ReportedAt(u)'
  BY <1>1, <1>2 DEF AskedAt, ReportedAt, At, Answer, proxy, tracing
<1>7. gap \/ <<u, "eth_getTransactionCount">> \notin errors'
  BY <1>2, <1>3 DEF Error
<1>8. Entries("eth_call") # {} => <<u, "AttributeError">> \notin errors'
  BY <1>2, <1>3 DEF Error
<1>9. \A v \in Tracers \ {u} : \A w : <<v, w>> \in errors' => <<v, w>> \in errors
  BY <1>3, ErrorIsOwn
<1> QED BY <1>1, <1>2, <1>4, <1>5, <1>6, <1>7, <1>8, <1>9, TracerKeeps DEF tracing, At, InTasks

LEMMA SendRpcKeeps ==
    ASSUME Inv, NEW u \in Tracers, NEW tx \in history, SendRpc(u, tx)
    PROVE  Inv'
<1>1. /\ At(u, "tasks") /\ tx \in Entries(user[u].by) /\ buffer' = buffer \cup {u}
      /\ UNCHANGED <<proxy, locals, history, dump, fired, ethCall, errors>>
  BY DEF SendRpc
<1>2. /\ u \in Everyone /\ user \in [Everyone -> User] /\ user[u] \in User /\ Typed
      /\ dump # None /\ AskedAt(u) /\ ReportedAt(u)
      /\ gap \/ <<u, "eth_getTransactionCount">> \notin errors
      /\ Entries("eth_call") # {} => <<u, "AttributeError">> \notin errors
      /\ Entries("eth_call") # {} /\ ethCall.done => ethCall.contract # None
      /\ user[u].by = "eth_call" => ethCall.done
  BY <1>1, TracerFacts DEF At, InTasks
<1>3. tx \in Entry /\ tx.kind = Kind(user[u].by)
  BY <1>1, <1>2, EntryIsTyped
<1> DEFINE me == [user[u] EXCEPT !.stage = "rpc", !.tx = tx, !.rounds = user[u].rounds + 1]
<1>4. user' = [user EXCEPT ![u] = me]
  BY <1>2 DEF SendRpc
<1>5. user[u].rounds \in Nat /\ user[u].rounds + 1 \in Nat /\ fired[u] \in Nat
  BY <1>2 DEF User, Typed
<1>6. /\ me \in User /\ me.stage = "rpc" /\ me.tx = tx /\ me.by = user[u].by
      /\ me.rounds = user[u].rounds + 1
  BY <1>2, <1>3, <1>5 DEF User, Stages, TracerStages
<1> HIDE DEF me
<1>7. Alone(u) /\ user'[u] = me /\ user' \in [Everyone -> User]
  BY <1>2, <1>4, <1>6, OnlyOneMoves
<1>8. Typed'
  BY <1>1, <1>2, <1>7 DEF Typed, proxy, locals
<1>9. AskedAt(u)'
  BY <1>1, <1>2, <1>3, <1>6, <1>7 DEF AskedAt, At, TracerStages
<1>10. ReportedAt(u)'
  BY <1>1, <1>2, <1>5, <1>6, <1>7 DEF ReportedAt, At
<1> QED BY <1>1, <1>2, <1>6, <1>7, <1>8, <1>9, <1>10, TracerKeeps

\* The end of a request, which is the same for both of its outcomes.
LEMMA FireKeeps ==
    ASSUME Inv, NEW u \in Tracers, At(u, "rpc"), Fire(u),
           UNCHANGED <<proxy, locals, history, dump, ethCall>>,
           NEW me \in User, user' = [user EXCEPT ![u] = me], me.stage \in {"tasks", "compare"},
           me.by = user[u].by, me.rounds = user[u].rounds,
           me.stage = "compare" => me.tx = user[u].tx /\ me.answer = Answer(user[u].tx, user[u].by),
           errors' = errors \/ Error(u, "rpc")
    PROVE  Inv'
<1>1. /\ u \in Everyone /\ user \in [Everyone -> User] /\ user[u] \in User /\ Typed
      /\ dump # None /\ AskedAt(u) /\ ReportedAt(u)
      /\ gap \/ <<u, "eth_getTransactionCount">> \notin errors
      /\ Entries("eth_call") # {} => <<u, "AttributeError">> \notin errors
      /\ Entries("eth_call") # {} /\ ethCall.done => ethCall.contract # None
      /\ user[u].by = "eth_call" => ethCall.done
  BY TracerFacts DEF At, InTasks
<1>2. Alone(u) /\ user'[u] = me /\ user' \in [Everyone -> User]
  BY <1>1, OnlyOneMoves
<1>3. /\ buffer' = buffer \ {u} /\ fired'[u] = fired[u] + 1 /\ fired[u] \in Nat
      /\ fired' \in [Tracers -> Nat] /\ \A v \in Tracers \ {u} : fired'[v] = fired[v]
  BY <1>1 DEF Fire, Typed
<1>4. Typed'
  BY <1>1, <1>2, <1>3 DEF Typed, proxy, locals
<1>5. AskedAt(u)'
  BY <1>1, <1>2 DEF AskedAt, At, Answer, TracerStages, proxy
<1>6. ReportedAt(u)'
  BY <1>1, <1>2, <1>3 DEF ReportedAt, At
<1>7. /\ gap \/ <<u, "eth_getTransactionCount">> \notin errors'
      /\ Entries("eth_call") # {} => <<u, "AttributeError">> \notin errors'
  BY <1>1 DEF Error
<1>8. \A v \in Tracers \ {u} : \A w : <<v, w>> \in errors' => <<v, w>> \in errors
  BY ErrorIsOwn
<1> QED BY <1>1, <1>2, <1>3, <1>4, <1>5, <1>6, <1>7, <1>8, TracerKeeps

LEMMA RpcFailsKeeps ==
    ASSUME Inv, NEW u \in Tracers, RpcFails(u)
    PROVE  Inv'
<1>1. Typed /\ u \in Everyone
  BY TracerFacts DEF RpcFails, At
<1>2. PICK me \in User : /\ user' = [user EXCEPT ![u] = me] /\ me.stage = "tasks"
                         /\ me.by = user[u].by /\ me.rounds = user[u].rounds
  BY <1>1, TaskEnds DEF RpcFails, Stages, TracerStages
<1> QED BY <1>2, FireKeeps DEF RpcFails, FireFailure

\* What can be asked has an answer, which is a number.
LEMMA AnswerIsNumber ==
    ASSUME Inv, NEW tx \in history, NEW method \in Methods, tx.kind = Kind(method)
    PROVE  Answer(tx, method) \in Nat
<1>1. tx.block \in 1..Len(blocks) /\ blocks[tx.block] \in Block
  BY DEF Inv, WrittenDown, IsMined, Typed
<1>2. ASSUME tx.kind = "transfer" PROVE tx.from \in Accounts /\ tx.to \in Accounts
  <2>1. tx \in Entry /\ tx \notin StoreEntry
    BY <1>2 DEF Inv, Typed, StoreEntry
  <2> QED BY <2>1 DEF Entry, TransferEntry
<1> QED BY <1>1, <1>2 DEF Answer, Kind, Block

LEMMA RpcKeeps ==
    ASSUME Inv, NEW u \in Tracers, Rpc(u)
    PROVE  Inv'
<1> DEFINE answer == Answer(user[u].tx, user[u].by)
           me == [user[u] EXCEPT !.stage = "compare", !.answer = answer]
<1>1. /\ AskedAt(u) /\ At(u, "rpc") /\ user[u] \in User /\ user \in [Everyone -> User]
      /\ u \in Everyone
  BY TracerFacts DEF Rpc, At
<1>2. answer \in Nat
  BY <1>1, AnswerIsNumber DEF AskedAt, At
<1> HIDE DEF answer
<1>3. /\ me \in User /\ me.stage = "compare" /\ me.by = user[u].by /\ me.rounds = user[u].rounds
      /\ me.tx = user[u].tx /\ me.answer = answer
  BY <1>1, <1>2 DEF User, Stages, TracerStages
<1>4. user' = [user EXCEPT ![u] = me]
  BY <1>1 DEF Rpc, answer
<1> HIDE DEF me
<1>5. me.answer = Answer(user[u].tx, user[u].by)
  BY <1>3 DEF answer
<1> QED BY <1>1, <1>3, <1>4, <1>5, FireKeeps DEF Rpc

LEMMA CompareKeeps ==
    ASSUME Inv, NEW u \in Tracers, Compare(u)
    PROVE  Inv'
<1> DEFINE method == user[u].by
           tx == user[u].tx
<1>1. At(u, "compare") /\ UNCHANGED <<proxy, locals, history, dump, tracing>>
  BY DEF Compare
<1>2. /\ u \in Everyone /\ user \in [Everyone -> User] /\ user[u] \in User /\ Typed
      /\ dump # None /\ AskedAt(u) /\ ReportedAt(u)
      /\ gap \/ <<u, "eth_getTransactionCount">> \notin errors
      /\ Entries("eth_call") # {} => <<u, "AttributeError">> \notin errors
      /\ Entries("eth_call") # {} /\ ethCall.done => ethCall.contract # None
      /\ user[u].by = "eth_call" => ethCall.done
  BY <1>1, TracerFacts DEF At, InTasks
<1>3. PICK me \in User : /\ user' = [user EXCEPT ![u] = me] /\ me.stage = "tasks"
                         /\ me.by = user[u].by /\ me.rounds = user[u].rounds
  BY <1>2, TaskEnds DEF Compare, Stages, TracerStages
<1>4. Alone(u) /\ user'[u] = me /\ user' \in [Everyone -> User]
  BY <1>2, <1>3, OnlyOneMoves
<1>5. Typed'
  BY <1>1, <1>2, <1>4 DEF Typed, proxy, locals, tracing
<1>6. AskedAt(u)' /\ ReportedAt(u)'
  BY <1>1, <1>2, <1>3, <1>4 DEF AskedAt, ReportedAt, At, TracerStages, tracing
<1>7. method \in Methods /\ tx \in history /\ tx.kind = Kind(method) /\ user[u].answer = Answer(tx, method)
  BY <1>1, <1>2 DEF AskedAt, At
<1>8. ASSUME method = "eth_getTransactionCount", ~gap
      PROVE  Answer(tx, method) = Expected(tx, method)
  <2>1. tx.sender_nonce = blocks[tx.block].count[tx.from]
    BY <1>7, <1>8 DEF Inv, WrittenDown, Kind
  <2> QED BY <1>8, <2>1 DEF Answer, Expected
<1>9. errors' = errors \/ (Error(u, method) /\ (gap \/ method # "eth_getTransactionCount"))
  BY <1>7, <1>8 DEF Compare
<1>10. /\ gap \/ <<u, "eth_getTransactionCount">> \notin errors'
       /\ Entries("eth_call") # {} => <<u, "AttributeError">> \notin errors'
  BY <1>2, <1>7, <1>9 DEF Error, Methods, TaskSets
<1>11. \A v \in Tracers \ {u} : \A w : <<v, w>> \in errors' => <<v, w>> \in errors
  BY <1>9, ErrorIsOwn
<1> QED BY <1>1, <1>2, <1>3, <1>4, <1>5, <1>6, <1>10, <1>11, TracerKeeps DEF tracing, At, InTasks

\* Users who are killed keep what they have asked for.
LEMMA StopTracingKeeps ==
    ASSUME Inv, StopTracing
    PROVE  Inv'
<1>1. /\ dump # None /\ UNCHANGED <<proxy, locals, history, dump, tracing, errors>>
      /\ user' = [u \in DOMAIN user |->
                    [user[u] EXCEPT !.stage = IF user[u].stage \in {"rpc", "cut"} THEN "cut" ELSE "gone"]]
  BY DEF StopTracing
<1>2. /\ user \in [Everyone -> User] /\ Typed /\ Latest' = Latest
      /\ UNCHANGED <<blocks, pool, gap>>
  BY <1>1, ChainStays DEF Inv, Typed, proxy
<1>3. ASSUME NEW u \in Everyone
      PROVE  /\ user'[u] \in User
             /\ user'[u].stage = IF user[u].stage \in {"rpc", "cut"} THEN "cut" ELSE "gone"
             /\ user'[u].rounds = user[u].rounds /\ user'[u].recipient = user[u].recipient
  <2> DEFINE stage == IF user[u].stage \in {"rpc", "cut"} THEN "cut" ELSE "gone"
             me == [user[u] EXCEPT !.stage = stage]
  <2>1. user[u] \in User /\ stage \in Stages /\ user'[u] = me
    BY <1>1, <1>2 DEF Stages, TracerStages
  <2> HIDE DEF stage
  <2>2. me \in User /\ me.stage = stage /\ me.rounds = user[u].rounds /\ me.recipient = user[u].recipient
    BY <2>1 DEF User
  <2> HIDE DEF me
  <2> QED BY <2>1, <2>2 DEF stage
<1>4. user' \in [Everyone -> User]
  BY <1>1, <1>2, <1>3
<1>5. Typed'
  BY <1>1, <1>2, <1>4 DEF Typed, locals, tracing
<1>6. ASSUME NEW u \in Preparing PROVE user'[u].stage = "gone"
  <2>1. user[u].stage \in SenderStages \cup StoreStages
    BY DEF Inv, InPlace, InPlaceAt, Preparing
  <2> QED BY <1>3, <2>1 DEF Everyone, SenderStages, StoreStages
<1>7. InPlace'
  <2>1. ASSUME NEW u \in Senders PROVE InPlaceAt(u)'
    <3>1. user[u].rounds \in Nat /\ user[u].recipient \in Nat /\ InPlaceAt(u)
      BY <1>2 DEF Inv, InPlace, User, Everyone, Preparing
    <3>2. user[u].recipient <= user[u].rounds + 1
      BY <3>1 DEF InPlaceAt
    <3> QED BY <1>3, <1>6, <3>1, <3>2 DEF InPlaceAt, At, Everyone, Preparing, SenderStages
  <2> QED BY <1>6, <2>1 DEF InPlace, At, Preparing, StoreStages
<1>8. Rising' /\ WrittenDown'
  BY <1>1, <1>2 DEF Inv, Rising, WrittenDown, IsMined
<1>9. \A u \in Senders : FoundAt(u)'
  BY <1>6 DEF FoundAt, Preparing
<1>10. Queues'
  <2>1. ASSUME NEW u \in Senders, QueueAt(u) PROVE QueueAt(u)'
    <3>1. InRow(Sent(Own(u)), Latest.count[Own(u)])
      BY <2>1 DEF QueueAt, Waits
    <3>2. user'[u].stage = "gone"
      BY <1>6 DEF Preparing
    <3>3. Sent(Own(u))' = Sent(Own(u)) /\ Own(u)' = Own(u)
      BY <1>2 DEF Sent, Own
    <3> QED BY <1>2, <3>1, <3>2, <3>3 DEF QueueAt, Waits
  <2> QED BY <1>2, <2>1 DEF Inv, Queues
<1>11. \A u \in Tracers : user'[u].stage \in {"cut", "gone"}
  BY <1>3 DEF Everyone
<1>12. Asked' /\ Called'
  <2>1. Entries("eth_call")' = Entries("eth_call")
    BY <1>1 DEF Entries
  <2> QED BY <1>1, <1>11, <2>1 DEF Inv, Asked, AskedAt, Called, At, TracerStages, tracing
<1>13. Locked'
  BY <1>1, <1>6 DEF Inv, Locked, At, Preparing, locals
<1>14. EachRequestIsReported'
  <2>1. ASSUME NEW u \in Tracers
        PROVE  /\ u \in buffer' <=> user'[u].stage \in {"rpc", "cut"}
               /\ fired'[u] + (IF u \in buffer' THEN 1 ELSE 0) = user'[u].rounds
    <3>1. buffer' = buffer /\ fired' = fired
      BY <1>1 DEF tracing
    <3>2. /\ u \in buffer <=> user[u].stage \in {"rpc", "cut"}
          /\ fired[u] + (IF u \in buffer THEN 1 ELSE 0) = user[u].rounds
      BY DEF Inv, EachRequestIsReported
    <3>3. user'[u].stage \in {"rpc", "cut"} <=> user[u].stage \in {"rpc", "cut"}
      BY <1>3 DEF Everyone
    <3>4. user'[u].rounds = user[u].rounds
      BY <1>3 DEF Everyone
    <3> QED BY <3>1, <3>2, <3>3, <3>4
  <2> QED BY <2>1 DEF EachRequestIsReported
<1>15. NoncesAgree' /\ CallsHaveContract'
  BY <1>1, <1>2 DEF Inv, NoncesAgree, CallsHaveContract, Entries
<1> QED BY <1>5, <1>7, <1>8, <1>9, <1>10, <1>12, <1>13, <1>14, <1>15 DEF Inv

-----------------------------------------------------------------------------
LEMMA InvInit == Init => Inv
<1> SUFFICES ASSUME Init PROVE Inv
  OBVIOUS
<1> USE DEF Init
<1>1. \A u \in Everyone : user[u] = Resting
  BY DEF Everyone
<1>2. Latest = blocks[1] /\ Len(blocks) = 1 /\ \A a \in Accounts : Latest.count[a] = 0
  BY DEF Latest
<1>3. Typed
  <2>1. blocks \in Seq(Block)
    <3> DEFINE b == [balance |-> [a \in Accounts |-> IF a[2] = 0 THEN Rich ELSE 0],
                     count |-> [a \in Accounts |-> 0]]
    <3>1. b \in Block
      BY BoundsAreNumbers DEF Block
    <3> HIDE DEF b
    <3>2. blocks = <<b>>
      BY DEF b
    <3> QED BY <3>1, <3>2
  <2>2. Resting \in User
    BY DEF Resting, User, Stages, SenderStages
  <2>3. user \in [Everyone -> User]
    BY <2>2 DEF Everyone
  <2>4. lock \in Stores \cup {None} /\ done \in BOOLEAN /\ contract \in Stores \cup {None} /\ deployed \in Nat
    OBVIOUS
  <2>5. ethCall \in [done : BOOLEAN, contract : Stores \cup {None}] /\ fired \in [Tracers -> Nat]
    OBVIOUS
  <2>6. history \subseteq Entry /\ dump = None /\ buffer \subseteq Tracers
    OBVIOUS
  <2>7. pool \subseteq Sendable /\ gap \in BOOLEAN
    OBVIOUS
  <2> QED BY <1>2, <2>1, <2>3, <2>4, <2>5, <2>6, <2>7 DEF Typed
<1>4. InPlace
  BY <1>1, BoundsAreNumbers DEF InPlace, InPlaceAt, At, Resting, Everyone, Preparing, SenderStages, StoreStages
<1>5. Rising /\ WrittenDown
  BY <1>2 DEF Rising, WrittenDown
<1>6. (\A u \in Senders : FoundAt(u)) /\ Queues
  <2>1. ASSUME NEW u \in Senders PROVE user[u] = Resting /\ Sent(Own(u)) = {}
    BY <1>1 DEF Sent, Everyone, Preparing
  <2> QED BY <2>1 DEF FoundAt, Queues, QueueAt, Waits, InRow, Resting
<1>7. Asked /\ Locked /\ Called
  BY <1>1 DEF Asked, AskedAt, Locked, Called, At, Resting, Everyone, Preparing, TracerStages
<1>8. EachRequestIsReported /\ NoncesAgree /\ CallsHaveContract
  BY <1>1 DEF EachRequestIsReported, NoncesAgree, CallsHaveContract, At, Resting, Everyone
<1> QED BY <1>3, <1>4, <1>5, <1>6, <1>7, <1>8 DEF Inv

\* What stays when nothing changes.
LEMMA InvStutter == Inv /\ UNCHANGED vars => Inv'
<1> SUFFICES ASSUME Inv, UNCHANGED vars PROVE Inv'
  OBVIOUS
<1>1. UNCHANGED <<blocks, pool, gap, proxy, user, locals, history, dump, tracing, errors>>
  BY DEF vars, proxy
<1>2. InPlace' /\ Rising' /\ (\A u \in Senders : FoundAt(u)') /\ Queues' /\ WrittenDown' /\ Locked'
  BY <1>1, TracerAlone
<1>3. Typed'
  BY <1>1 DEF Inv, Typed, locals, tracing
<1>4. Asked' /\ Called' /\ EachRequestIsReported' /\ NoncesAgree' /\ CallsHaveContract'
  BY <1>1, ChainStays, TracingStays DEF Inv
<1> QED BY <1>2, <1>3, <1>4 DEF Inv

LEMMA InvNext == Inv /\ [Next]_vars => Inv'
<1> SUFFICES ASSUME Inv, [Next]_vars PROVE Inv'
  OBVIOUS
<1>1. ASSUME NEW t \in pool, MineSent(t) \/ DropSent(t) PROVE Inv'
  BY <1>1, MineSentKeeps, DropSentKeeps
<1>2. ASSUME NEW u \in Senders,
             \/ SenderStarts(u) \/ BalancesBefore(u) \/ NonceBefore(u)
             \/ task_send_neon(u) \/ TransferMined(u) \/ SendFails(u)
             \/ NonceAfter(u) \/ BalancesAfter(u)
      PROVE  Inv'
  BY <1>2, SenderStartsKeeps, BalancesBeforeKeeps, NonceBeforeKeeps, task_send_neonKeeps,
     TransferMinedKeeps, SendFailsKeeps, NonceAfterKeeps, BalancesAfterKeeps
<1>3. ASSUME NEW u \in Stores,
             \/ TakeLock(u) \/ deploy_storage_contract(u) \/ prepare_data_by_store_int(u)
             \/ StoreRefused(u) \/ StoreMined(u) \/ StoreTimesOut(u)
      PROVE  Inv'
  BY <1>3, TakeLockKeeps, deploy_storage_contractKeeps, prepare_data_by_store_intKeeps,
     StoreRefusedKeeps, StoreEndsKeeps
<1>4. ASSUME NEW u \in Tracers,
             EnterTaskSet(u) \/ EnterEthCall(u) \/ TaskRaises(u) \/ RpcFails(u) \/ Rpc(u) \/ Compare(u)
      PROVE  Inv'
  BY <1>4, EnterTaskSetKeeps, EnterEthCallKeeps, TaskRaisesKeeps, RpcFailsKeeps, RpcKeeps, CompareKeeps
<1>5. ASSUME NEW u \in Tracers, NEW tx \in history, SendRpc(u, tx) PROVE Inv'
  BY <1>5, SendRpcKeeps
<1> QED BY <1>1, <1>2, <1>3, <1>4, <1>5, TeardownKeeps, StopTracingKeeps, InvStutter DEF Next

LEMMA InvHolds == Spec => []Inv
<1> QED BY InvInit, InvNext, PTL DEF Spec

(***************************************************************************)
(* The nonce that is written down after a transfer is the count at its     *)
(* block: a right answer of the tracer is not reported as wrong.  Earlier  *)
(* transfers of the user may have timed out, and are mined before it; only *)
(* after the mempool dropped one from under a later one nothing is said.   *)
(***************************************************************************)
THEOREM Nonces == Spec => []NoncesAgree
<1>1. Inv => NoncesAgree
  BY DEF Inv
<1> QED BY <1>1, InvHolds, PTL

(***************************************************************************)
(* Every request is reported by one event, however the requests            *)
(* interleave, when they fail too; the event of a user who is killed while *)
(* it waits for the answer is what stays in LocustEventHandler.buffer.     *)
(***************************************************************************)
THEOREM Requests == Spec => []EachRequestIsReported
<1>1. Inv => EachRequestIsReported
  BY DEF Inv
<1> QED BY <1>1, InvHolds, PTL

(***************************************************************************)
(* Any number of users of EthGetStorageAtPreparationStage deploy one       *)
(* contract, although deployments fail, raise, and are cut off.            *)
(***************************************************************************)
THEOREM Contract == Spec => []OneContract
<1>1. Inv => OneContract
  BY DEF Inv, Locked, OneContract
<1> QED BY <1>1, InvHolds, PTL

(***************************************************************************)
(* The entries of the dump name blocks in which a transaction of their     *)
(* sender was mined, and these blocks stay what they are.                  *)
(***************************************************************************)
THEOREM Dump == Spec => []DumpIsMined
<1>1. ASSUME Inv PROVE DumpIsMined
  <2> SUFFICES ASSUME dump # None, NEW t \in dump PROVE IsMined(t.from, t.block)
    BY DEF DumpIsMined, IsMined
  <2>1. t \in history
    BY <1>1 DEF Inv, Typed
  <2> QED BY <1>1, <2>1 DEF Inv, WrittenDown
<1> QED BY <1>1, InvHolds, PTL

(***************************************************************************)
(* All users of EthCall have the contract that the first of them took from *)
(* the dump, if the dump has one.                                          *)
(***************************************************************************)
THEOREM EthCalls == Spec => []CallsHaveContract
<1>1. Inv => CallsHaveContract
  BY DEF Inv
<1> QED BY <1>1, InvHolds, PTL

(***************************************************************************)
(* The types, with balances that never fall below zero.                    *)
(***************************************************************************)
THEOREM Types == Spec => []TypeOK
<1>1. ASSUME Inv PROVE TypeOK
  <2>1. \A b \in DOMAIN blocks : blocks[b] \in Block
    BY <1>1 DEF Inv, Typed
  <2>2. \A b \in DOMAIN blocks : blocks[b].balance \in [Accounts -> Nat] /\ blocks[b].count \in [Accounts -> Nat]
    BY <2>1 DEF Block
  <2> QED BY <1>1, <2>2 DEF Inv, Typed, TypeOK, Sendable
<1> QED BY <1>1, InvHolds, PTL

-----------------------------------------------------------------------------
(***************************************************************************)
(* The script that looks for lost transactions, for any number of          *)
(* processes and transactions.  No assumption of the module is needed.     *)
(***************************************************************************)
Known == mined \cup lost

\* Whatever is written down for a transaction, it was mined at that time.
Noted ==
    /\ trx = [w \in Processes |-> trx[w]]
    /\ \A w \in Processes : DOMAIN trx[w] \subseteq Known

Kept ==
    /\ files = [n \in Numbers |-> files[n]]
    /\ \A n \in Numbers : files[n] # None => DOMAIN files[n] \subseteq Known

Examined ==
    /\ txs # None => DOMAIN txs \subseteq Known
    /\ checked \ found \subseteq lost \cup unanswered

LostInv == Noted /\ Kept /\ Examined

LEMMA LostInit == LostTrxInit => LostInv
<1> SUFFICES ASSUME LostTrxInit PROVE LostInv
  OBVIOUS
<1>1. Noted
  <2>1. trx = [w \in Processes |-> Nothing]
    BY DEF LostTrxInit
  <2>2. DOMAIN Nothing = {}
    BY DEF Nothing
  <2>3. QED
    BY <2>1, <2>2 DEF Noted
<1>2. Kept /\ Examined
  BY DEF LostTrxInit, Kept, Examined
<1>3. QED
  BY <1>1, <1>2 DEF LostInv

\* A transaction that was mined once stays mined or gets lost.
LEMMA KnownGrows ==
    ASSUME LostInv, Known \subseteq Known', lost \subseteq lost',
           UNCHANGED <<trx, files, txs, checked, found, unanswered>>
    PROVE  LostInv'
BY DEF LostInv, Noted, Kept, Examined

LEMMA AnswerNoted ==
    ASSUME LostInv, NEW w \in Processes, get_solana_trx(w)
    PROVE  LostInv'
<1>1. PICK i \in DOMAIN asking[w] : AddResult(w, asking[w][i])
  BY DEF get_solana_trx
<1> DEFINE tx == asking[w][i]
<1>2. UNCHANGED <<mined, lost, files, txs, checked, found, unanswered>>
  BY DEF get_solana_trx, stand, check
<1>3. /\ trx' = [v \in Processes |-> IF v = w THEN trx'[w] ELSE trx[v]]
      /\ DOMAIN trx'[w] \subseteq Known
  <2>1. CASE tx \in mined
    <3>1. trx' = [trx EXCEPT ![w] = Added(tx, trx[w])]
      BY <1>1, <2>1 DEF AddResult
    <3>2. trx'[w] = Added(tx, trx[w]) /\ \A v \in Processes \ {w} : trx'[v] = trx[v]
      BY <3>1 DEF LostInv, Noted
    <3>3. DOMAIN Added(tx, trx[w]) = DOMAIN trx[w] \cup {tx}
      BY DEF Added
    <3>4. DOMAIN trx[w] \subseteq Known /\ tx \in Known
      BY <2>1 DEF LostInv, Noted, Known
    <3>5. DOMAIN trx'[w] \subseteq Known
      BY <3>2, <3>3, <3>4
    <3>6. trx' = [v \in Processes |-> IF v = w THEN trx'[w] ELSE trx[v]]
      BY <3>1, <3>2 DEF LostInv, Noted
    <3>7. QED
      BY <3>5, <3>6
  <2>2. CASE tx \notin mined
    BY <1>1, <2>2 DEF AddResult, LostInv, Noted
  <2>3. QED
    BY <2>1, <2>2
<1>4. Noted'
  BY <1>2, <1>3 DEF LostInv, Noted, Known
<1>5. QED
  BY <1>2, <1>4 DEF LostInv, Kept, Examined, Known

LEMMA FileKept ==
    ASSUME LostInv, NEW w \in Processes, WriteFile(w)
    PROVE  LostInv'
<1>1. PICK n \in Numbers : files' = [files EXCEPT ![n] = trx[w]]
  BY DEF WriteFile
<1>2. UNCHANGED <<mined, lost, trx, txs, checked, found, unanswered>>
  BY DEF WriteFile, stand, check
<1>3. files' = [m \in Numbers |-> IF m = n THEN trx[w] ELSE files[m]]
  BY <1>1 DEF LostInv, Kept
<1>4. Kept'
  <2>1. \A m \in Numbers : files'[m] = IF m = n THEN trx[w] ELSE files[m]
    BY <1>3
  <2>2. files' = [m \in Numbers |-> files'[m]]
    BY <1>3
  <2>3. QED
    BY <1>2, <2>1, <2>2 DEF LostInv, Noted, Kept, Known
<1>5. QED
  BY <1>2, <1>4 DEF LostInv, Noted, Examined, Known

LEMMA FileLoaded ==
    ASSUME LostInv, load_transactions_list
    PROVE  LostInv'
<1>1. PICK n \in Numbers : files[n] # None /\ txs' = files[n]
  BY DEF load_transactions_list, Written
<1>2. UNCHANGED <<mined, lost, trx, files, checked, found, unanswered>>
  BY DEF load_transactions_list, stand, saving
<1>3. QED
  BY <1>1, <1>2 DEF LostInv, Noted, Kept, Examined, Known

LEMMA TransactionChecked ==
    ASSUME LostInv, check_neon_tx
    PROVE  LostInv'
<1>1. PICK tx \in DOMAIN txs \ checked :
        /\ checked' = checked \cup {tx}
        /\ \/ CountIfKnown(tx) /\ UNCHANGED unanswered
           \/ unanswered' = unanswered \cup {tx} /\ UNCHANGED found
  BY DEF check_neon_tx
<1>2. UNCHANGED <<mined, lost, trx, files, txs>> /\ txs # None
  BY DEF check_neon_tx, stand, saving
<1>3. tx \in mined \cup lost
  BY <1>2 DEF LostInv, Examined, Known
<1>4. checked' \ found' \subseteq lost \cup unanswered'
  BY <1>1, <1>3 DEF CountIfKnown, LostInv, Examined
<1>5. QED
  BY <1>2, <1>4 DEF LostInv, Noted, Kept, Examined, Known

LEMMA LostStep == LostInv /\ [LostTrxNext]_lostTrxVars => LostInv'
<1> SUFFICES ASSUME LostInv, [LostTrxNext]_lostTrxVars PROVE LostInv'
  OBVIOUS
<1> USE DEF stand, saving, check
<1>1. ASSUME NEW w \in Processes, Call(w) PROVE LostInv'
  <2>1. mined \subseteq mined' /\ UNCHANGED <<lost, trx, files, txs, checked, found, unanswered>>
    BY <1>1 DEF Call, save_transaction
  <2>2. QED
    BY <2>1, KnownGrows DEF Known
<1>2. ASSUME NEW w \in Processes,
             TestStop(w) \/ Spawn(w) \/ JoinAll(w) \/ RequestFails(w)
      PROVE  LostInv'
  <2>1. UNCHANGED <<mined, lost, trx, files, txs, checked, found, unanswered>>
    BY <1>2 DEF TestStop, Spawn, JoinAll, RequestFails
  <2>2. QED
    BY <2>1, KnownGrows DEF Known
<1>3. ASSUME NEW tx, Include(tx) \/ Lose(tx) PROVE LostInv'
  <2>1. /\ Known \subseteq Known' /\ lost \subseteq lost'
        /\ UNCHANGED <<trx, files, txs, checked, found, unanswered>>
    BY <1>3 DEF Include, Lose, Known
  <2>2. QED
    BY <2>1, KnownGrows
<1>4. CASE UNCHANGED lostTrxVars
  <2>1. UNCHANGED <<mined, lost, trx, files, txs, checked, found, unanswered>>
    BY <1>4 DEF lostTrxVars
  <2>2. QED
    BY <2>1, KnownGrows DEF Known
<1>5. QED
  BY <1>1, <1>2, <1>3, <1>4, AnswerNoted, FileKept, FileLoaded, TransactionChecked DEF LostTrxNext

(***************************************************************************)
(* A transaction that the script does not find was mined and got lost, or  *)
(* the script's own request for it failed: no transaction that failed or   *)
(* is still pending is reported on an answer, whatever the proxy forgets   *)
(* in between, and whichever file the script reads.                        *)
(***************************************************************************)
THEOREM NoAlarmIsFalse == LostTrxSpec => []NoFalseAlarm
<1>1. LostInv => NoFalseAlarm
  BY DEF LostInv, Examined, NoFalseAlarm
<1> QED BY <1>1, LostInit, LostStep, PTL DEF LostTrxSpec

-----------------------------------------------------------------------------
(***************************************************************************)
(* Funding: what the tests send on a Neon chain by web3client.py, for any  *)
(* workers, accounts and prices (Funding.tla).                             *)
(***************************************************************************)
TxRecords ==
    [type : {"legacy", "1559", "filled"}, from : Addresses \cup {None},
     to : Addresses \cup {None}, value : Nat, nonce : Int, max : Int, tip : Int, base : Int,
     given : Nat \cup {None}, by : Workers \cup {None}]

\* A transaction is put together, or sent.
Filling == {"base", "nonce", "price", "send", "receipt"}
Asking == {"faucet", "wait"}
Creating == {"getitem", "create_account"}
Ends == {"too low", "returned", "refused", "poor", "timeout", "error"}

Spenders ==
    [stage : Filling \cup Asking \cup {"idle", "restore"}, call : Calls \cup {None},
     tx : TxRecords, new : Created \cup {None}, tries : Nat, before : Int,
     rest : Seq(Created)]

PurseTypes ==
    /\ bank \in Payers \cup {None}
    /\ balance \in [Addresses -> Nat] /\ nonce \in [Addresses -> Nat]
    /\ mempool \subseteq TxRecords /\ IsFiniteSet(mempool)
    /\ fee \in 1..Len(BaseFees)
    /\ grants \subseteq [by : Workers, to : Created, try : Nat, amount : Nat]
    /\ client \in [Workers -> Spenders]
    /\ list \in [Workers -> Seq(Created)] /\ collector \in [Workers -> Seq(Created)]
    /\ created \in [Workers -> 0..MaxCreated]
    /\ left \in [Workers -> SUBSET Calls]
    /\ included \subseteq [tx : TxRecords, price : Int]
    /\ log \subseteq [by : Workers, call : Calls, how : Ends, new : Created \cup {None}]

Busy(w) == client[w].stage # "idle"

\* The fees of a transaction for which no price was given.
Lasting(t) ==
    t.type \in {"1559", "filled"} /\ t.given = None =>
      /\ t.base \in Nat
      /\ t.max = IF t.type = "1559" THEN MaxFee(t.base, Tip) ELSE FilledFee(t.base, Tip)

\* The accounts that a worker has created.
OwnAccounts(w) == {<<w, n>> : n \in 1..created[w]}

\* What a worker does, and for which account.
SpenderOK(w) ==
    LET s == client[w]  t == s.tx IN
    /\ s.stage = "idle" <=> s.call = None
    /\ s.call # None => (s.call.op \in Creating <=> s.new # None)
    /\ s.new # None => s.call # None /\ s.new \in OwnAccounts(w)
    /\ s.stage \in Asking => s.new # None /\ bank = None /\ s.before = 0
    /\ s.stage = "restore" => s.call.op = "restore"
    /\ s.stage \in Filling => /\ t.from \in Addresses
                              /\ s.new # None => t.to = s.new /\ t.value = s.call.amount
                              /\ t.from \in Created => s.call.op = "restore" /\ t.from \in OwnAccounts(w)
    /\ t.to \in Created => t.to = s.new
    /\ bank = None => t.to \notin Created

FeesOK(w) ==
    LET s == client[w]  t == s.tx IN
    /\ s.stage = "nonce" /\ t.type = "1559" => t.base \in Nat
    /\ s.stage = "price" /\ t.type \in {"1559", "filled"} => t.base \in Nat
    /\ s.stage = "send" => Lasting(t)

ListsOK(w) == /\ \A i \in DOMAIN list[w] : list[w][i] \in OwnAccounts(w)
              /\ \A i \in DOMAIN collector[w] : collector[w][i] \in OwnAccounts(w)
              /\ \A i \in DOMAIN client[w].rest : client[w].rest[i] \in OwnAccounts(w)

Restored(w) == \E c \in Begun(w) : c.op = "restore"

\* Only the teardown sends from an account that was created.
MempoolOK == \A t \in mempool : /\ t.from \in Addresses /\ Lasting(t)
                                /\ t.from \in Created => Restored(t.from[1])

\* Nobody knows of an account that was not created.
Fresh == \A w \in Workers, n \in 1..MaxCreated : n > created[w] =>
           /\ balance[<<w, n>>] = 0
           /\ \A t \in mempool : t.from # <<w, n>> /\ t.to # <<w, n>>
           /\ \A m \in included : m.tx.to # <<w, n>>
           /\ \A g \in grants : g.to # <<w, n>>

\* An account that is being created gets what it is created with, and nothing less.
FundedOK(w) ==
    LET s == client[w] IN
    s.new # None =>
      /\ \A t \in mempool : t.to = s.new => t.value = s.call.amount
      /\ \A g \in grants : g.to = s.new => g.amount = s.call.amount
      /\ ~Restored(w) =>
           /\ \A m \in included : m.tx.to = s.new => balance[s.new] >= s.call.amount
           /\ s.stage \in Asking => balance[s.new] = 0 \/ balance[s.new] >= s.call.amount

KeptOK(w) ==
    ~Restored(w) =>
      \A i \in DOMAIN list[w] :
        \E c \in Begun(w) : c.op = "getitem" /\ balance[list[w][i]] >= c.amount

CollectedOK(w) ==
    \A n \in 1..created[w] :
      \/ <<w, n>> \in ToSet(collector[w])
      \/ client[w].new = <<w, n>>
      \/ \E r \in log : r.new = <<w, n>> /\ r.how # "returned"

PurseInv ==
    /\ PurseTypes /\ MempoolOK /\ Fresh
    /\ \A w \in Workers : /\ SpenderOK(w) /\ FeesOK(w) /\ ListsOK(w)
                          /\ FundedOK(w) /\ KeptOK(w) /\ CollectedOK(w)

-----------------------------------------------------------------------------
\* The constants, as they are used.
LEMMA PurseConstants ==
    ASSUME Prices, TestsAsk
    PROVE  /\ GasPrice \in Nat /\ Tip \in Nat /\ Money \in Nat /\ MaxRetries \in Nat
           /\ MaxCreated \in Nat
           /\ \A i \in 1..Len(BaseFees) : BaseFees[i] \in Nat
           /\ Len(BaseFees) \in Nat /\ 1 \in 1..Len(BaseFees)
           /\ None \notin Payers /\ None \notin Created /\ None \notin Calls
           /\ None \notin Nat /\ Payers \cap Created = {}
           /\ Addresses = Payers \cup Created
           /\ \A w \in Workers, n \in 1..MaxCreated :
                <<w, n>> \in Created /\ <<w, n>> \in Addresses /\ <<w, n>> \notin Payers
BY DEF Prices, TestsAsk, Addresses, Created

\* The base fee is a price.
LEMMA BaseFeeIsNat ==
    ASSUME Prices, TestsAsk, PurseTypes
    PROVE  BaseFee \in Nat
BY PurseConstants DEF PurseTypes, BaseFee

LEMMA PurseCardinality ==
    ASSUME NEW S
    PROVE  Cardinality(S) = Cardinality(S)
BY DEF Cardinality, Cardinality

\* get_nonce has an answer.
LEMMA NonceIsNat ==
    ASSUME PurseTypes, NEW a \in Addresses
    PROVE  PendingNonce(a) \in Int
<1> DEFINE next == {t \in mempool :
                 /\ t.from = a /\ t.nonce >= nonce[a]
                 /\ \A k \in nonce[a]..t.nonce : \E p \in mempool : p.from = a /\ p.nonce = k}
<1>1. IsFiniteSet(mempool) /\ next \subseteq mempool /\ nonce[a] \in Nat
  BY DEF PurseTypes
<1> HIDE DEF next
<1>2. Cardinality(next) \in Nat
  BY <1>1, FS_Subset, FS_CardinalityType
<1>3. PendingNonce(a) = nonce[a] + Cardinality(next)
  BY PurseCardinality DEF PendingNonce, next
<1> QED
  BY <1>1, <1>2, <1>3

LEMMA LeastOfTwo ==
    ASSUME NEW x \in Int, NEW y \in Int
    PROVE  Min({x, y}) \in {x, y}
<1>1. \E z \in {x, y} : \A u \in {x, y} : z =< u
  OBVIOUS
<1> QED
  BY <1>1 DEF Min

LEMMA PriceIsInt ==
    ASSUME Prices, TestsAsk, PurseTypes, NEW t \in TxRecords
    PROVE  Price(t) \in Int
<1>1. t.max \in Int /\ t.tip \in Int /\ BaseFee \in Int
  BY BaseFeeIsNat DEF TxRecords
<1>2. BaseFee + t.tip \in Int
  BY <1>1
<1>3. Min({t.max, BaseFee + t.tip}) \in {t.max, BaseFee + t.tip}
  BY <1>1, <1>2, LeastOfTwo
<1> QED
  BY <1>1, <1>2, <1>3 DEF Price

\* A call that was made, and what it may be.
LEMMA CallIsOne ==
    ASSUME TestsAsk, NEW c \in Calls
    PROVE  /\ c # None
           /\ c.op \in {"getitem", "create_account", "send_tokens", "deploy", "contract_call", "restore"}
           /\ c.op \in Creating => c.amount \in Nat
           /\ c.op = "send_tokens" =>
                /\ c.type \in {"legacy", "1559"} /\ c.from \in Payers /\ c.to \in Payers
                /\ c.amount \in Nat /\ c.price \in Nat \cup {None}
           /\ c.op = "deploy" => c.from \in Payers
           /\ c.op = "contract_call" => c.from \in Payers /\ c.to \in Payers
BY DEF TestsAsk, Creating

LEMMA IdleSpender ==
    ASSUME TestsAsk
    PROVE  /\ Idle \in Spenders /\ Blank \in TxRecords
           /\ Idle.stage = "idle" /\ Idle.call = None /\ Idle.new = None
           /\ Idle.tx.to = None /\ Idle.rest = <<>>
<1>1. Blank \in TxRecords /\ Blank.to = None
  BY DEF Blank, TxRecords
<1>2. /\ Idle.stage = "idle" /\ Idle.call = None /\ Idle.new = None
      /\ Idle.tx = Blank /\ Idle.rest = <<>>
  BY DEF Idle
<1>3. <<>> \in Seq(Created)
  OBVIOUS
<1>4. Idle \in Spenders
  BY <1>1, <1>3 DEF Idle, Spenders
<1> QED
  BY <1>1, <1>2, <1>4

\* A worker changes its stage and its transaction.
LEMMA StageAndTx ==
    ASSUME client \in [Workers -> Spenders], NEW w \in Workers,
           NEW x \in Filling \cup Asking \cup {"idle", "restore"}, NEW u \in TxRecords,
           client' = [client EXCEPT ![w] = [client[w] EXCEPT !.stage = x, !.tx = u]]
    PROVE  /\ client' \in [Workers -> Spenders]
           /\ \A v \in Workers \ {w} : client'[v] = client[v]
           /\ client'[w].stage = x /\ client'[w].tx = u /\ client'[w].call = client[w].call
           /\ client'[w].new = client[w].new /\ client'[w].before = client[w].before
           /\ client'[w].rest = client[w].rest
<1>1. client[w] \in Spenders
  OBVIOUS
<1>2. PICK s : s = [client[w] EXCEPT !.stage = x, !.tx = u]
  OBVIOUS
<1>3. /\ s \in Spenders /\ s.stage = x /\ s.tx = u /\ s.call = client[w].call
      /\ s.new = client[w].new /\ s.before = client[w].before /\ s.rest = client[w].rest
  BY <1>1, <1>2 DEF Spenders
<1> QED
  BY <1>2, <1>3

-----------------------------------------------------------------------------
(***************************************************************************)
(* The ways a worker goes on with its call.                                *)
(***************************************************************************)
GoesOn(w) ==
    /\ client' \in [Workers -> Spenders] /\ \A v \in Workers \ {w} : client'[v] = client[v]
    /\ Busy(w) /\ Busy(w)'
    /\ client'[w].call = client[w].call /\ client'[w].new = client[w].new
    /\ client'[w].before = client[w].before
    /\ UNCHANGED <<bank, balance, nonce, fee, list, collector, created, left, included, log>>

\* The next question, or the transaction is sent.
Fills(w) ==
    /\ GoesOn(w) /\ client[w].stage \in Filling /\ client'[w].stage \in Filling
    /\ client'[w].tx.from = client[w].tx.from /\ client'[w].tx.to = client[w].tx.to
    /\ client'[w].tx.value = client[w].tx.value
    /\ client'[w].rest = client[w].rest /\ grants' = grants
    /\ mempool' = mempool \/ (mempool' = mempool \cup {client[w].tx} /\ client[w].stage = "send")

\* What the proxy says: the nonce is asked for once, and the transaction taken as it is.
Learns(w) ==
    \/ /\ client[w].stage \in {"base", "nonce", "price"}
       /\ client'[w].stage \in {"base", "nonce", "price", "send"}
       /\ mempool' = mempool /\ client'[w].tx.type = client[w].tx.type
       /\ client'[w].tx.nonce = IF client[w].stage = "nonce" THEN PendingNonce(client[w].tx.from)
                                ELSE client[w].tx.nonce
       /\ client[w].stage = "base" /\ client[w].tx.nonce = -1 => client'[w].stage = "nonce"
       /\ client'[w].stage = "send" /\ client[w].tx.type = "legacy" /\ GivenPrice(w) = None =>
            client'[w].tx.max = GasPrice
    \/ /\ client[w].stage = "send" /\ client'[w].stage = "receipt"
       /\ client'[w].tx = client[w].tx /\ mempool' = mempool \cup {client[w].tx}
       /\ ~Refused(client[w].tx)

\* The transaction that a worker waits for was mined.
HasMined(w) == client[w].stage = "receipt" => \E m \in included : m.tx = client[w].tx

\* The faucet is asked.
AsksFaucet(w) ==
    /\ GoesOn(w) /\ client[w].stage = "faucet" /\ client'[w].stage \in Asking
    /\ client'[w].tx = client[w].tx /\ client'[w].rest = client[w].rest /\ mempool' = mempool
    /\ \E g \in [by : Workers, to : Created, try : Nat, amount : Nat] :
         /\ g.to = client[w].new /\ g.amount = client[w].call.amount
         /\ grants' \in {grants, grants \cup {g}}

\* The teardown: the next account.
GivesBack(w) ==
    /\ GoesOn(w) /\ client[w].call.op = "restore" /\ mempool' = mempool /\ grants' = grants
    /\ HasMined(w)
    /\ \/ /\ client'[w].stage = "restore" /\ client'[w].tx = client[w].tx
          /\ client'[w].rest = client[w].rest
       \/ /\ client[w].rest # <<>> /\ client'[w].rest = Tail(client[w].rest)
          /\ \/ client'[w].stage = "restore" /\ client'[w].tx = client[w].tx
             \/ /\ client'[w].stage = "nonce" /\ client'[w].tx.type = "legacy"
                /\ client'[w].tx.from = Head(client[w].rest) /\ client'[w].tx.to = bank
                /\ client'[w].tx.value = AllButFee(Head(client[w].rest))

\* The call ends.
EndsWith(w, how) ==
    /\ client' \in [Workers -> Spenders] /\ \A v \in Workers \ {w} : client'[v] = client[v]
    /\ client'[w] = Idle /\ how \in Ends /\ Busy(w)
    /\ log' = log \cup {[by |-> w, call |-> client[w].call, how |-> how, new |-> client[w].new]}
    /\ UNCHANGED <<bank, balance, nonce, mempool, fee, grants, created, left, included>>

\* A worker creates an account, and asks for its money.
Creates(w, c) ==
    /\ client' \in [Workers -> Spenders] /\ \A v \in Workers \ {w} : client'[v] = client[v]
    /\ created[w] < MaxCreated /\ created' = [created EXCEPT ![w] = @ + 1]
    /\ client'[w].call = c /\ client'[w].new = <<w, created[w] + 1>>
    /\ client'[w].rest = client[w].rest
    /\ \/ /\ bank # None /\ client'[w].stage = "nonce" /\ client'[w].tx.type = "legacy"
          /\ client'[w].tx.from = bank /\ client'[w].tx.to = client'[w].new
          /\ client'[w].tx.value = c.amount
       \/ /\ bank = None /\ client'[w].stage = "faucet" /\ client'[w].tx = client[w].tx
          /\ client'[w].before = balance[<<w, created[w] + 1>>]
    /\ UNCHANGED <<bank, balance, nonce, mempool, fee, grants, included, log>>

LEMMA FillSteps ==
    ASSUME TestsAsk, Prices, PurseTypes, NEW w \in Workers, SpenderOK(w), FeesOK(w),
           \/ AskBaseFee(w) \/ AskNonce(w)
           \/ AskPrice(w) \/ Send(w),
           Busy(w)'
    PROVE  Fills(w) /\ Learns(w) /\ FeesOK(w)'
<1> DEFINE s == client[w]  t == client[w].tx
<1>1. /\ client \in [Workers -> Spenders] /\ s \in Spenders /\ t \in TxRecords
      /\ s.stage = "idle" <=> s.call = None
  BY DEF PurseTypes, Spenders, SpenderOK
<1>2. ASSUME NEW x \in Filling, NEW u \in TxRecords, s.stage \in Filling,
             client' = [client EXCEPT ![w] = [client[w] EXCEPT !.stage = x, !.tx = u]],
             UNCHANGED <<bank, balance, nonce, fee, grants, list, collector, created, left, included, log>>,
             u.from = t.from /\ u.to = t.to /\ u.value = t.value,
             mempool' = mempool \/ (mempool' = mempool \cup {client[w].tx} /\ client[w].stage = "send")
      PROVE  Fills(w) /\ client'[w].stage = x /\ client'[w].tx = u
  <2>1. /\ client' \in [Workers -> Spenders]
        /\ \A v \in Workers \ {w} : client'[v] = client[v]
        /\ client'[w].stage = x /\ client'[w].tx = u /\ client'[w].call = s.call
        /\ client'[w].new = s.new /\ client'[w].before = s.before /\ client'[w].rest = s.rest
    BY <1>1, <1>2, StageAndTx
  <2>2. x # "idle" /\ s.stage # "idle"
    BY <1>2 DEF Filling
  <2>3. GoesOn(w)
    BY <1>2, <2>1, <2>2 DEF GoesOn, Busy
  <2> QED
    BY <1>2, <2>1, <2>3 DEF Fills
<1>3. CASE AskBaseFee(w)
  <2>1. PICK b \in Int : b = BaseFee /\ b \in Nat
    BY BaseFeeIsNat
  <2>2. PICK x \in {"nonce", "price"} : x = IF t.nonce = -1 THEN "nonce" ELSE "price"
    OBVIOUS
  <2>3. PICK u : u = [t EXCEPT !.base = b]
    OBVIOUS
  <2>4. u \in TxRecords /\ u.from = t.from /\ u.to = t.to /\ u.value = t.value /\ u.base \in Nat
        /\ u.type = t.type /\ u.given = t.given /\ u.max = t.max /\ u.nonce = t.nonce
    BY <1>1, <2>1, <2>3 DEF TxRecords
  <2>5. client' = [client EXCEPT ![w] = [client[w] EXCEPT !.stage = x, !.tx = u]]
    BY <1>1, <1>3, <2>1, <2>2, <2>3 DEF AskBaseFee
  <2>6. Fills(w) /\ client'[w].stage = x /\ client'[w].tx = u
    BY <1>2, <1>3, <2>2, <2>4, <2>5 DEF AskBaseFee, InStage, chain, Filling
  <2>7. Learns(w)
    BY <1>3, <2>2, <2>4, <2>6 DEF Learns, AskBaseFee, InStage, chain
  <2> QED
    BY <2>2, <2>4, <2>6, <2>7 DEF FeesOK
<1>4. CASE AskNonce(w)
  <2>1. PICK n \in Int : n = PendingNonce(t.from)
    BY <1>4, NonceIsNat DEF SpenderOK, AskNonce, InStage, Filling
  <2>2. PICK x \in {"base", "price"} : x = IF t.type = "filled" THEN "base" ELSE "price"
    OBVIOUS
  <2>3. PICK u : u = [t EXCEPT !.nonce = n]
    OBVIOUS
  <2>4. u \in TxRecords /\ u.from = t.from /\ u.to = t.to /\ u.value = t.value
        /\ u.type = t.type /\ u.given = t.given /\ u.max = t.max /\ u.base = t.base
        /\ u.nonce = n
    BY <1>1, <2>1, <2>3 DEF TxRecords
  <2>5. client' = [client EXCEPT ![w] = [client[w] EXCEPT !.stage = x, !.tx = u]]
    BY <1>1, <1>4, <2>1, <2>2, <2>3 DEF AskNonce
  <2>6. Fills(w) /\ client'[w].stage = x /\ client'[w].tx = u
    BY <1>2, <1>4, <2>2, <2>4, <2>5 DEF AskNonce, InStage, chain, Filling
  <2>7. t.type = "1559" => t.base \in Nat
    BY <1>4 DEF FeesOK, AskNonce, InStage
  <2>8. Learns(w)
    BY <1>4, <2>1, <2>2, <2>4, <2>6 DEF Learns, AskNonce, InStage, chain
  <2> QED
    BY <2>2, <2>4, <2>6, <2>7, <2>8 DEF FeesOK
<1>n. ASSUME NEW how, End(w, how) PROVE FALSE
  BY <1>1, <1>n, IdleSpender DEF End, Busy
<1>5. CASE AskPrice(w)
  <2>1. PICK p : p = GivenPrice(w)
    OBVIOUS
  <2>2. p \in Nat \cup {None}
    BY <1>1, <1>5, <2>1, CallIsOne DEF GivenPrice, AskPrice, InStage, Spenders
  <2>3. PICK u : u = [Priced(t, p) EXCEPT !.given = p]
    OBVIOUS
  <2>4. /\ u \in TxRecords /\ u.from = t.from /\ u.to = t.to /\ u.value = t.value
        /\ u.type = t.type /\ u.given = p /\ u.base = t.base
        /\ t.type = "1559" /\ p = None => u.max = MaxFee(t.base, Tip)
        /\ t.type = "filled" => u.max = FilledFee(t.base, Tip)
        /\ t.type = "legacy" /\ p = None => u.max = GasPrice
        /\ u.nonce = t.nonce
    <3>1. PICK m : m = MaxFee(t.base, Tip)
      OBVIOUS
    <3>2. PICK f : f = FilledFee(t.base, Tip)
      OBVIOUS
    <3>3. t.base \in Int /\ m \in Int /\ f \in Int /\ Tip \in Int /\ GasPrice \in Int
      <4>1. PICK b \in Int : b = t.base
        BY <1>1 DEF TxRecords
      <4>2. Tip \in Int /\ GasPrice \in Int
        BY PurseConstants
      <4>3. m = (11 * b) \div 10 + Tip /\ f = 2 * b + Tip
        BY <3>1, <3>2, <4>1 DEF MaxFee, FilledFee
      <4>4. m \in Int /\ f \in Int
        BY <4>1, <4>2, <4>3
      <4> QED
        BY <4>1, <4>2, <4>4
    <3>4. CASE t.type = "legacy"
      <4>1. PICK g \in Int : g = IF p = None THEN GasPrice ELSE p
        BY <2>2, <3>3
      <4>2. u = [[t EXCEPT !.max = g] EXCEPT !.given = p]
        BY <2>3, <3>4, <4>1 DEF Priced
      <4> QED
        BY <1>1, <2>2, <3>4, <4>1, <4>2 DEF TxRecords
    <3>5. CASE t.type = "1559" /\ p = None
      <4>1. u = [[t EXCEPT !.tip = Tip, !.max = m] EXCEPT !.given = p]
        BY <2>3, <3>1, <3>5 DEF Priced
      <4> QED
        BY <1>1, <2>2, <3>1, <3>3, <3>5, <4>1 DEF TxRecords
    <3>6. CASE t.type = "filled"
      <4>1. u = [[t EXCEPT !.tip = Tip, !.max = f] EXCEPT !.given = p]
        BY <2>3, <3>2, <3>6 DEF Priced
      <4> QED
        BY <1>1, <2>2, <3>2, <3>3, <3>6, <4>1 DEF TxRecords
    <3>7. CASE t.type = "1559" /\ p # None
      <4>1. PICK d \in Int : d = p - t.base
        BY <2>2, <3>3, <3>7
      <4>2. u = [[t EXCEPT !.tip = d, !.max = p] EXCEPT !.given = p]
        BY <2>3, <3>7, <4>1 DEF Priced
      <4>3. p \in Int
        BY <2>2, <3>7
      <4> QED
        BY <1>1, <2>2, <3>7, <4>1, <4>2, <4>3 DEF TxRecords
    <3>8. t.type \in {"legacy", "1559", "filled"}
      BY <1>1 DEF TxRecords
    <3> QED
      BY <3>4, <3>5, <3>6, <3>7, <3>8
  <2>5. client' = [client EXCEPT ![w] = [client[w] EXCEPT !.stage = "send", !.tx = u]]
    <3>1. client' = [client EXCEPT ![w].stage = "send", ![w].tx = [Priced(t, p) EXCEPT !.given = p]]
      BY <1>5, <1>n, <2>1 DEF AskPrice
    <3> QED
      BY <1>1, <2>3, <3>1
  <2>6. Fills(w) /\ client'[w].stage = "send" /\ client'[w].tx = u
    <3>1. UNCHANGED <<chain, list, collector, created, left, log>> /\ s.stage = "price"
      BY <1>5, <1>n DEF AskPrice, InStage
    <3> QED
      BY <1>2, <2>4, <2>5, <3>1 DEF chain, Filling
  <2>7. t.type \in {"1559", "filled"} => t.base \in Nat
    BY <1>5 DEF FeesOK, AskPrice, InStage
  <2>8. Learns(w)
    <3>1. s.stage = "price" /\ mempool' = mempool
      BY <1>5, <1>n DEF AskPrice, InStage, chain
    <3> QED
      BY <2>1, <2>4, <2>6, <3>1 DEF Learns
  <2> QED
    BY <2>4, <2>6, <2>7, <2>8 DEF FeesOK, Lasting
<1>6. CASE Send(w)
  <2>1. /\ client' = [client EXCEPT ![w].stage = "receipt"] /\ mempool' = mempool \cup {t}
        /\ UNCHANGED <<bank, balance, nonce, fee, grants, included, list, collector, created, left, log>>
        /\ s.stage = "send" /\ ~Refused(t)
    BY <1>6, <1>n DEF Send, InStage
  <2>2. client' = [client EXCEPT ![w] = [client[w] EXCEPT !.stage = "receipt", !.tx = t]]
    <3>1. [client[w] EXCEPT !.stage = "receipt", !.tx = t] = [client[w] EXCEPT !.stage = "receipt"]
      BY <1>1 DEF Spenders
    <3> QED
      BY <2>1, <3>1
  <2>3. Fills(w) /\ client'[w].stage = "receipt" /\ client'[w].tx = t
    BY <1>1, <1>2, <2>1, <2>2 DEF Filling
  <2> QED
    BY <2>1, <2>3 DEF FeesOK, Learns
<1> QED
  BY <1>3, <1>4, <1>5, <1>6

LEMMA AskSteps ==
    ASSUME TestsAsk, Prices, PurseTypes, NEW w \in Workers, SpenderOK(w),
           RequestNeon(w), Busy(w)'
    PROVE  AsksFaucet(w) /\ FeesOK(w)'
<1> DEFINE s == client[w]
<1>1. /\ client \in [Workers -> Spenders] /\ s \in Spenders /\ s.stage = "faucet"
      /\ UNCHANGED <<bank, balance, nonce, mempool, fee, included, list, collector, created, left>>
  BY DEF PurseTypes, RequestNeon, InStage
<1>2. s.new \in Created /\ s.call.amount \in Nat /\ s.tries \in Nat
  <2>1. s.new # None /\ s.call # None /\ s.call.op \in Creating
    BY <1>1 DEF SpenderOK, Asking
  <2> QED
    BY <1>1, <2>1, CallIsOne DEF Spenders
<1>3. PICK g : g = [by |-> w, to |-> s.new, try |-> s.tries, amount |-> s.call.amount]
  OBVIOUS
<1>4. /\ g \in [by : Workers, to : Created, try : Nat, amount : Nat]
      /\ g.to = s.new /\ g.amount = s.call.amount
  BY <1>2, <1>3
<1>n. ASSUME NEW how, End(w, how) PROVE FALSE
  BY <1>1, <1>n, IdleSpender DEF End, Busy
<1>5. \/ /\ client' = [client EXCEPT ![w].stage = "wait"]
         /\ grants' = grants \cup {g} /\ UNCHANGED log
      \/ /\ client' = [client EXCEPT ![w].tries = @ + 1]
         /\ grants' \in {grants, grants \cup {g}} /\ UNCHANGED log
  BY <1>3, <1>n DEF RequestNeon
<1>6. PICK n \in Nat : n = s.tries + 1
  BY <1>2
<1>7. PICK u : u \in {[s EXCEPT !.stage = "wait"], [s EXCEPT !.tries = n]}
               /\ client' = [client EXCEPT ![w] = u]
  BY <1>5, <1>6
<1>8. /\ u \in Spenders /\ u.stage \in Asking /\ u.call = s.call /\ u.new = s.new /\ u.tx = s.tx
      /\ u.before = s.before /\ u.rest = s.rest
  BY <1>1, <1>7 DEF Spenders, Asking
<1>9. /\ client' \in [Workers -> Spenders] /\ client'[w] = u
      /\ \A v \in Workers \ {w} : client'[v] = client[v]
  BY <1>1, <1>7, <1>8
<1>10. GoesOn(w)
  BY <1>1, <1>5, <1>8, <1>9 DEF GoesOn, Busy, Asking
<1>11. AsksFaucet(w)
  BY <1>1, <1>4, <1>5, <1>8, <1>9, <1>10 DEF AsksFaucet
<1> QED
  BY <1>8, <1>9, <1>11 DEF FeesOK, Asking

LEMMA BackSteps ==
    ASSUME TestsAsk, Prices, PurseTypes, NEW w \in Workers, SpenderOK(w),
           \/ Receipt(w) /\ client[w].call.op = "restore"
           \/ SendAllNeons(w),
           Busy(w)'
    PROVE  GivesBack(w) /\ FeesOK(w)'
<1> DEFINE s == client[w]
<1>1. client \in [Workers -> Spenders] /\ s \in Spenders /\ s.rest \in Seq(Created)
      /\ s.tx \in TxRecords /\ bank \in Payers \cup {None}
      /\ balance \in [Addresses -> Nat]
  BY DEF PurseTypes, Spenders
<1>n. ASSUME NEW how, End(w, how) PROVE FALSE
  BY <1>1, <1>n, IdleSpender DEF End, Busy
<1>2. CASE Receipt(w) /\ s.call.op = "restore"
  <2>1. /\ client' = [client EXCEPT ![w].stage = "restore"] /\ s.stage = "receipt"
        /\ HasMined(w)
        /\ UNCHANGED <<list, collector, created, log, bank, balance, nonce, mempool, fee, grants, included, left>>
    BY <1>2 DEF Receipt, chain, InStage, HasMined
  <2>2. PICK u : u = [s EXCEPT !.stage = "restore"]
    OBVIOUS
  <2>3. /\ u \in Spenders /\ u.stage = "restore" /\ u.call = s.call /\ u.new = s.new /\ u.tx = s.tx
        /\ u.before = s.before /\ u.rest = s.rest
    BY <1>1, <2>2 DEF Spenders
  <2>4. /\ client' \in [Workers -> Spenders] /\ client'[w] = u
        /\ \A v \in Workers \ {w} : client'[v] = client[v]
    BY <1>1, <2>1, <2>2, <2>3
  <2>5. GoesOn(w)
    BY <2>1, <2>3, <2>4 DEF GoesOn, Busy
  <2> QED
    BY <1>2, <2>1, <2>3, <2>4, <2>5 DEF GivesBack, FeesOK
<1>3. CASE SendAllNeons(w)
  <2>1. s.stage = "restore" /\ s.call.op = "restore" /\ s.rest # <<>>
    BY <1>3, <1>n DEF SendAllNeons, InStage, SpenderOK
  <2>2. PICK a \in Created : a = Head(s.rest)
    BY <1>1, <2>1
  <2>3. /\ client' = [client EXCEPT ![w] =
                 [(IF AllButFee(a) > 0 THEN Put(w, "legacy", a, bank, AllButFee(a))
                   ELSE client[w]) EXCEPT !.rest = Tail(@)]]
        /\ UNCHANGED <<list, collector, created, log, bank, balance, nonce, mempool, fee, grants, included, left>>
    BY <1>3, <2>1, <2>2 DEF SendAllNeons, chain
  <2>4. PICK rest \in Seq(Created) : rest = Tail(s.rest)
    <3>1. \A r \in Seq(Created) : r # <<>> => Tail(r) \in Seq(Created)
      OBVIOUS
    <3> QED
      BY <1>1, <2>1, <3>1
  <2>5. ASSUME NEW u \in Spenders, client' = [client EXCEPT ![w] = u],
               u.call = s.call, u.new = s.new, u.before = s.before, u.rest = rest,
               \/ u.stage = "restore" /\ u.tx = s.tx
               \/ /\ u.stage = "nonce" /\ u.tx.type = "legacy" /\ u.tx.from = a /\ u.tx.to = bank
                  /\ u.tx.value = AllButFee(a)
        PROVE  GivesBack(w) /\ FeesOK(w)'
    <3>1. /\ client' \in [Workers -> Spenders] /\ client'[w] = u
          /\ \A v \in Workers \ {w} : client'[v] = client[v]
      BY <1>1, <2>5
    <3>2. GoesOn(w)
      BY <2>1, <2>3, <2>5, <3>1 DEF GoesOn, Busy
    <3> QED
      BY <2>1, <2>2, <2>3, <2>4, <2>5, <3>1, <3>2 DEF GivesBack, FeesOK, HasMined
  <2>6. CASE AllButFee(a) > 0
    <3>1. PICK n \in Nat : n = AllButFee(a)
      <4>1. PICK b \in Nat : b = balance[a]
        BY <1>1, PurseConstants
      <4>2. GasPrice \in Nat
        BY PurseConstants
      <4>3. AllButFee(a) = b - (11 * GasPrice) \div 10
        BY <4>1 DEF AllButFee
      <4> QED
        BY <2>6, <4>1, <4>2, <4>3
    <3>2. PICK x : x = [Blank EXCEPT !.type = "legacy", !.from = a, !.to = bank, !.value = n,
                                     !.by = w]
      OBVIOUS
    <3>3. x \in TxRecords /\ x.type = "legacy" /\ x.from = a /\ x.to = bank /\ x.value = n
      <4>1. a \in Addresses /\ bank \in Addresses \cup {None}
        BY <1>1, PurseConstants
      <4> QED
        BY <3>2, <4>1, IdleSpender DEF TxRecords
    <3>4. PICK u : u = [[s EXCEPT !.stage = "nonce", !.tx = x] EXCEPT !.rest = rest]
      OBVIOUS
    <3>5. /\ u \in Spenders /\ u.call = s.call /\ u.new = s.new /\ u.before = s.before
          /\ u.rest = rest /\ u.stage = "nonce" /\ u.tx = x
      BY <1>1, <2>4, <3>3, <3>4 DEF Spenders, Filling
    <3>6. client' = [client EXCEPT ![w] = u]
      <4>1. Put(w, "legacy", a, bank, n) = [s EXCEPT !.stage = "nonce", !.tx = x]
        BY <3>2 DEF Put, FirstQuestion
      <4>2. Put(w, "legacy", a, bank, n).rest = s.rest
        BY <1>1, <4>1 DEF Spenders
      <4> QED
        BY <2>3, <2>4, <2>6, <3>1, <3>4, <4>1, <4>2
    <3> QED
      BY <2>5, <3>1, <3>3, <3>5, <3>6
  <2>7. CASE ~(AllButFee(a) > 0)
    <3>1. PICK u : u = [s EXCEPT !.rest = rest]
      OBVIOUS
    <3>2. /\ u \in Spenders /\ u.call = s.call /\ u.new = s.new /\ u.before = s.before
          /\ u.rest = rest /\ u.stage = "restore" /\ u.tx = s.tx
      BY <1>1, <2>1, <2>4, <3>1 DEF Spenders
    <3> QED
      BY <2>3, <2>4, <2>5, <2>7, <3>1, <3>2
  <2> QED
    BY <2>6, <2>7
<1> QED
  BY <1>2, <1>3

\* Fund, from the bank or from the faucet.
LEMMA FundSteps ==
    ASSUME TestsAsk, Prices, PurseTypes, NEW w \in Workers, NEW c \in Calls,
           c.op \in Creating, Fund(w, c, c.amount),
           UNCHANGED <<bank, balance, nonce, mempool, fee, grants, included, log>>
    PROVE  Creates(w, c) /\ FeesOK(w)' /\ Busy(w)'
<1> DEFINE s == client[w]
<1>1. client \in [Workers -> Spenders] /\ s \in Spenders /\ s.tx \in TxRecords
      /\ bank \in Payers \cup {None} /\ balance \in [Addresses -> Nat]
      /\ created[w] \in 0..MaxCreated
  BY DEF PurseTypes, Spenders
<1>2. /\ created[w] < MaxCreated /\ created' = [created EXCEPT ![w] = @ + 1]
      /\ client' = [client EXCEPT ![w] =
           [(IF bank # None THEN Put(w, "legacy", bank, NewAccount(w), c.amount)
             ELSE [client[w] EXCEPT !.stage = "faucet", !.tries = 0,
                                    !.before = balance[NewAccount(w)]])
            EXCEPT !.call = c, !.new = NewAccount(w)]]
  BY DEF Fund
<1>3. PICK a : a = NewAccount(w)
  OBVIOUS
<1>4. /\ a = <<w, created[w] + 1>> /\ a \in Created /\ a \in Addresses
      /\ c.amount \in Nat
  <2>1. created[w] + 1 \in 1..MaxCreated
    BY <1>1, <1>2, PurseConstants
  <2> QED
    BY <1>3, <2>1, PurseConstants, CallIsOne DEF NewAccount
<1>5. ASSUME NEW u \in Spenders, client' = [client EXCEPT ![w] = u], u.call = c, u.new = a,
             u.rest = s.rest,
             \/ /\ bank # None /\ u.stage = "nonce" /\ u.tx.type = "legacy"
                /\ u.tx.from = bank /\ u.tx.to = a /\ u.tx.value = c.amount
             \/ /\ bank = None /\ u.stage = "faucet" /\ u.tx = s.tx /\ u.before = balance[a]
      PROVE  Creates(w, c) /\ FeesOK(w)' /\ Busy(w)'
  <2>1. /\ client' \in [Workers -> Spenders] /\ client'[w] = u
        /\ \A v \in Workers \ {w} : client'[v] = client[v]
    BY <1>1, <1>5
  <2> QED
    BY <1>2, <1>4, <1>5, <2>1 DEF Creates, FeesOK, Busy
<1>6. CASE bank # None
  <2>1. PICK x : x = [Blank EXCEPT !.type = "legacy", !.from = bank, !.to = a,
                                   !.value = c.amount, !.by = w]
    OBVIOUS
  <2>2. /\ x \in TxRecords /\ x.type = "legacy" /\ x.from = bank /\ x.to = a
        /\ x.value = c.amount
    <3>1. bank \in Addresses
      BY <1>1, <1>6, PurseConstants
    <3> QED
      BY <1>4, <2>1, <3>1, IdleSpender DEF TxRecords
  <2>3. PICK u : u = [[s EXCEPT !.stage = "nonce", !.tx = x] EXCEPT !.call = c, !.new = a]
    OBVIOUS
  <2>4. /\ u \in Spenders /\ u.call = c /\ u.new = a /\ u.rest = s.rest
        /\ u.stage = "nonce" /\ u.tx = x
    BY <1>1, <1>4, <2>2, <2>3 DEF Spenders, Filling
  <2>5. Put(w, "legacy", bank, a, c.amount) = [s EXCEPT !.stage = "nonce", !.tx = x]
    BY <2>1 DEF Put, FirstQuestion
  <2> QED
    BY <1>2, <1>3, <1>5, <1>6, <2>2, <2>3, <2>4, <2>5
<1>7. CASE bank = None
  <2>1. PICK b \in Nat : b = balance[a]
    BY <1>1, <1>4
  <2>2. PICK u : u = [[s EXCEPT !.stage = "faucet", !.tries = 0, !.before = b]
                      EXCEPT !.call = c, !.new = a]
    OBVIOUS
  <2>3. /\ u \in Spenders /\ u.call = c /\ u.new = a /\ u.rest = s.rest
        /\ u.stage = "faucet" /\ u.tx = s.tx /\ u.before = b
    <3>1. PICK y : y = [s EXCEPT !.stage = "faucet", !.tries = 0, !.before = b]
      OBVIOUS
    <3>2. /\ y \in Spenders /\ y.rest = s.rest /\ y.stage = "faucet" /\ y.tx = s.tx
          /\ y.before = b
      <4>1. "faucet" \in Filling \cup Asking \cup {"idle", "restore"}
        BY DEF Asking
      <4>2. PICK zero \in Nat : zero = 0
        OBVIOUS
      <4>3. b \in Int
        OBVIOUS
      <4>4. y = [s EXCEPT !.stage = "faucet", !.tries = zero, !.before = b]
        BY <3>1, <4>2
      <4> QED
        BY <1>1, <4>1, <4>2, <4>3, <4>4 DEF Spenders
    <3>3. u = [y EXCEPT !.call = c, !.new = a]
      BY <2>2, <3>1
    <3> QED
      BY <1>4, <3>2, <3>3 DEF Spenders
  <2> QED
    BY <1>2, <1>3, <1>5, <1>7, <2>1, <2>2, <2>3
<1> QED
  BY <1>6, <1>7

-----------------------------------------------------------------------------
(***************************************************************************)
(* A call that ends, and an account that has its money.                    *)
(***************************************************************************)
HasMoney(w) ==
    /\ Busy(w) /\ client[w].call.op \in Creating
    /\ \/ client[w].stage = "receipt" /\ \E m \in included : m.tx = client[w].tx
       \/ client[w].stage = "wait" /\ balance[client[w].new] > client[w].before

Stops(w) ==
    \E how \in Ends :
      /\ EndsWith(w, how) /\ collector' = collector
      /\ list' \in {list, [list EXCEPT ![w] = <<>>]}
      /\ how = "returned" => client[w].new = None
      /\ how = "refused" => client[w].stage = "send" /\ Refused(client[w].tx)
      /\ how = "poor" => client[w].stage = "send" /\ TooPoor(client[w].tx)
      /\ HasMined(w) \/ how = "timeout"

Finishing(w) == HasMoney(w) /\ Collect(w) /\ EndsWith(w, "returned")

Repeats(w) == HasMoney(w) /\ Collect(w) /\ Creates(w, client[w].call) /\ left' = left

SpenderMove(w) ==
    \/ Fills(w) /\ Learns(w) /\ FeesOK(w)'
    \/ AsksFaucet(w) /\ FeesOK(w)'
    \/ GivesBack(w) /\ FeesOK(w)'
    \/ Stops(w)
    \/ Finishing(w)
    \/ Repeats(w) /\ FeesOK(w)'

LEMMA EndEnds ==
    ASSUME TestsAsk, PurseTypes, NEW w \in Workers, Busy(w), NEW how \in Ends,
           End(w, how),
           UNCHANGED <<bank, balance, nonce, mempool, fee, grants, created, left, included>>
    PROVE  EndsWith(w, how)
<1>1. client \in [Workers -> Spenders] /\ Idle \in Spenders
  BY IdleSpender DEF PurseTypes
<1>2. PICK i \in Spenders : i = Idle
  BY <1>1
<1>3. /\ client' = [client EXCEPT ![w] = i]
      /\ log' = log \cup {[by |-> w, call |-> client[w].call, how |-> how, new |-> client[w].new]}
  BY <1>2 DEF End
<1>4. client' \in [Workers -> Spenders] /\ client'[w] = i
      /\ \A v \in Workers \ {w} : client'[v] = client[v]
  BY <1>1, <1>3
<1> QED
  BY <1>2, <1>3, <1>4 DEF EndsWith

\* The account has its money.
LEMMA FundedSteps ==
    ASSUME TestsAsk, Prices, PurseTypes, NEW w \in Workers, SpenderOK(w), HasMoney(w),
           Funded(w),
           UNCHANGED <<bank, balance, nonce, mempool, fee, grants, included, left>>
    PROVE  Finishing(w) \/ (Repeats(w) /\ FeesOK(w)')
<1>1. client[w].call \in Calls /\ client[w].call.op \in Creating /\ Busy(w)
  <2>1. client[w] \in Spenders
    BY DEF PurseTypes
  <2>2. Busy(w) /\ client[w].call # None
    BY DEF HasMoney, Busy, SpenderOK
  <2> QED
    BY <2>1, <2>2 DEF HasMoney, Spenders
<1>2. CASE Fund(w, client[w].call, client[w].call.amount) /\ UNCHANGED log
  BY <1>1, <1>2, FundSteps DEF Funded, Repeats
<1>3. CASE End(w, "returned") /\ UNCHANGED created
  <2>1. EndsWith(w, "returned")
    BY <1>1, <1>3, EndEnds DEF Ends
  <2>2. Collect(w)
    BY DEF Funded
  <2> QED
    BY <2>1, <2>2 DEF Finishing
<1> QED
  BY <1>2, <1>3 DEF Funded

LEMMA SpenderMoves ==
    ASSUME TestsAsk, Prices, PurseTypes, NEW w \in Workers, SpenderOK(w), FeesOK(w),
           ClientStep(w)
    PROVE  SpenderMove(w)
<1>1. /\ client \in [Workers -> Spenders] /\ client[w] \in Spenders
      /\ Busy(w) <=> client[w].call # None
  BY DEF PurseTypes, Busy, SpenderOK
<1>2. ASSUME NEW how \in Ends, End(w, how), Busy(w), how = "returned" => client[w].new = None,
             UNCHANGED <<bank, balance, nonce, mempool, fee, grants, created, left, included>>,
             collector' = collector, list' \in {list, [list EXCEPT ![w] = <<>>]},
             how = "refused" => client[w].stage = "send" /\ Refused(client[w].tx),
             how = "poor" => client[w].stage = "send" /\ TooPoor(client[w].tx),
             HasMined(w) \/ how = "timeout"
      PROVE  SpenderMove(w)
  BY <1>2, EndEnds DEF SpenderMove, Stops
<1>3. ASSUME NEW x, x # "idle", client' = [client EXCEPT ![w].stage = x]
      PROVE  Busy(w)'
  BY <1>1, <1>3 DEF Busy, Spenders
<1>4. CASE AskBaseFee(w)
  <2>1. Busy(w)'
    <3>1. client'[w].stage \in {"nonce", "price"}
      BY <1>1, <1>4 DEF AskBaseFee, Spenders
    <3> QED
      BY <3>1 DEF Busy
  <2> QED
    BY <1>4, <2>1, FillSteps DEF SpenderMove
<1>5. CASE AskNonce(w)
  <2>1. Busy(w)'
    <3>1. client'[w].stage \in {"base", "price"}
      BY <1>1, <1>5 DEF AskNonce, Spenders
    <3> QED
      BY <3>1 DEF Busy
  <2> QED
    BY <1>5, <2>1, FillSteps DEF SpenderMove
<1>6. CASE AskPrice(w)
  <2>1. CASE End(w, "too low")
    BY <1>2, <1>6, <2>1 DEF AskPrice, InStage, chain, Ends, Busy, HasMined
  <2>2. CASE ~End(w, "too low")
    <3>1. client'[w].stage = "send"
      BY <1>1, <1>6, <2>2 DEF AskPrice, Spenders
    <3>2. Busy(w)'
      BY <3>1 DEF Busy
    <3> QED
      BY <1>6, <3>2, FillSteps DEF SpenderMove
  <2> QED
    BY <2>1, <2>2
<1>7. CASE Send(w)
  <2>1. CASE Refused(client[w].tx) /\ End(w, "refused") /\ UNCHANGED mempool
    BY <1>2, <1>7, <2>1 DEF Send, InStage, Ends, Busy, HasMined
  <2>3. CASE TooPoor(client[w].tx) /\ End(w, "poor") /\ UNCHANGED mempool
    BY <1>2, <1>7, <2>3 DEF Send, InStage, Ends, Busy, HasMined
  <2>2. CASE client' = [client EXCEPT ![w].stage = "receipt"]
    <3>1. Busy(w)'
      BY <1>3, <2>2
    <3> QED
      BY <1>7, <3>1, FillSteps DEF SpenderMove
  <2> QED
    BY <1>7, <2>1, <2>2, <2>3 DEF Send
<1>8. CASE Receipt(w)
  <2>1. /\ client[w].stage = "receipt" /\ \E m \in included : m.tx = client[w].tx
        /\ UNCHANGED <<bank, balance, nonce, mempool, fee, grants, included, left>> /\ Busy(w)
    BY <1>8 DEF Receipt, InStage, chain, Busy
  <2>2. CASE client[w].call.op \in Creating
    <3>1. HasMoney(w)
      BY <2>1, <2>2 DEF HasMoney
    <3>2. Funded(w)
      BY <1>8, <2>2 DEF Receipt, Creating
    <3> QED
      BY <2>1, <3>1, <3>2, FundedSteps DEF SpenderMove
  <2>3. CASE client[w].call.op = "restore"
    <3>1. client' = [client EXCEPT ![w].stage = "restore"]
      BY <1>8, <2>3 DEF Receipt
    <3>2. Busy(w)'
      BY <1>3, <3>1
    <3> QED
      BY <1>8, <2>3, <3>2, BackSteps DEF SpenderMove
  <2>4. CASE client[w].call.op \notin Creating /\ client[w].call.op # "restore"
    <3>1. End(w, "returned") /\ UNCHANGED <<list, collector, created>>
      BY <1>8, <2>4 DEF Receipt, Creating
    <3>2. client[w].new = None
      BY <1>1, <2>1, <2>4 DEF SpenderOK
    <3> QED
      BY <1>2, <2>1, <3>1, <3>2 DEF Ends, HasMined
  <2> QED
    BY <2>2, <2>3, <2>4
<1>9. CASE TimeOut(w)
  BY <1>2, <1>9 DEF TimeOut, chain, Ends, Busy
<1>10. CASE RequestNeon(w)
  <2>1. CASE End(w, "error") /\ UNCHANGED grants
    BY <1>2, <1>10, <2>1 DEF RequestNeon, InStage, Ends, Busy, HasMined
  <2>2. CASE ~(End(w, "error") /\ UNCHANGED grants)
    <3>1. client'[w].stage # "idle"
      BY <1>1, <1>10, <2>2 DEF RequestNeon, InStage, Spenders
    <3>2. Busy(w)'
      BY <3>1 DEF Busy
    <3> QED
      BY <1>10, <3>2, AskSteps DEF SpenderMove
  <2> QED
    BY <2>1, <2>2
<1>11. CASE WaitNeon(w)
  <2>1. /\ client[w].stage = "wait" /\ balance[client[w].new] > client[w].before
        /\ UNCHANGED <<bank, balance, nonce, mempool, fee, grants, included, left>>
        /\ Funded(w)
    BY <1>11 DEF WaitNeon, InStage, chain
  <2>2. Busy(w) /\ client[w].call.op \in Creating
    BY <2>1 DEF SpenderOK, Asking, Busy
  <2>3. HasMoney(w)
    BY <2>1, <2>2 DEF HasMoney
  <2> QED
    BY <2>1, <2>3, FundedSteps DEF SpenderMove
<1>12. CASE SendAllNeons(w)
  <2>1. CASE client[w].rest = <<>>
    <3>1. End(w, "returned") /\ list' = [list EXCEPT ![w] = <<>>] /\ client[w].stage = "restore"
          /\ UNCHANGED <<bank, balance, nonce, mempool, fee, grants, created, left, included, collector>>
      BY <1>12, <2>1 DEF SendAllNeons, InStage, chain
    <3>2. client[w].new = None /\ Busy(w)
      BY <3>1, <1>1 DEF SpenderOK, Creating, Busy
    <3> QED
      BY <1>2, <3>1, <3>2 DEF Ends, HasMined
  <2>2. CASE client[w].rest # <<>>
    <3>1. client'[w].stage # "idle"
      <4>1. PICK a : a = Head(client[w].rest)
        OBVIOUS
      <4>2. PICK n : n = AllButFee(a)
        OBVIOUS
      <4>3. PICK s : s = IF n > 0 THEN Put(w, "legacy", a, bank, n) ELSE client[w]
        OBVIOUS
      <4>4. s.stage # "idle"
        <5>1. client[w].stage = "restore"
          BY <1>12 DEF SendAllNeons, InStage
        <5>2. Put(w, "legacy", a, bank, n).stage = "nonce"
          BY <1>1 DEF Put, FirstQuestion, Spenders
        <5> QED
          BY <4>3, <5>1, <5>2
      <4>5. client' = [client EXCEPT ![w] = [s EXCEPT !.rest = Tail(@)]]
        BY <1>12, <2>2, <4>1, <4>2, <4>3 DEF SendAllNeons
      <4>6. client'[w] = [s EXCEPT !.rest = Tail(@)]
        BY <1>1, <4>5
      <4> QED
        BY <4>4, <4>6
    <3>2. Busy(w)'
      BY <3>1 DEF Busy
    <3> QED
      BY <1>12, <3>2, BackSteps DEF SpenderMove
  <2> QED
    BY <2>1, <2>2
<1> QED
  BY <1>4, <1>5, <1>6, <1>7, <1>8, <1>9, <1>10, <1>11, <1>12 DEF ClientStep

-----------------------------------------------------------------------------
(***************************************************************************)
(* The ways a worker begins a call.                                        *)
(***************************************************************************)
Skips(w) == UNCHANGED <<client, collector, created, log>>

\* create_account without money.
CreatesEmpty(w) ==
    /\ created[w] < MaxCreated /\ created' = [created EXCEPT ![w] = @ + 1]
    /\ collector' = [collector EXCEPT ![w] = Append(@, <<w, created[w] + 1>>)]
    /\ UNCHANGED <<client, log>>

Asks(w, c) ==
    /\ client' \in [Workers -> Spenders] /\ \A v \in Workers \ {w} : client'[v] = client[v]
    /\ client'[w].call = c /\ client'[w].new = None /\ c.op \notin Creating /\ Busy(w)'
    /\ \/ /\ client'[w].stage \in Filling /\ client'[w].tx.from \in Payers
          /\ client'[w].tx.to \in Payers \cup {None} /\ client'[w].rest = client[w].rest
          /\ c.op \in {"send_tokens", "deploy", "contract_call"} /\ client'[w].tx.from = c.from
          /\ \/ client'[w].stage = "nonce"
             \/ client'[w].stage = "base" /\ client'[w].tx.nonce = -1
       \/ /\ c.op = "restore" /\ client'[w].stage = "restore" /\ client'[w].tx = client[w].tx
          /\ client'[w].rest = collector[w]
    /\ UNCHANGED <<collector, created, log>>

Begins(w, c) ==
    /\ client[w].call = None /\ client[w].new = None /\ c \in Calls
    /\ left' \in [Workers -> SUBSET Calls]
    /\ UNCHANGED <<bank, balance, nonce, mempool, fee, grants, included, list>>
    /\ \/ Skips(w)
       \/ CreatesEmpty(w)
       \/ Creates(w, c) /\ FeesOK(w)' /\ Busy(w)' /\ c.op \in Creating /\ UNCHANGED collector
       \/ Asks(w, c) /\ FeesOK(w)'

LEMMA RequestSteps ==
    ASSUME TestsAsk, Prices, PurseTypes, NEW w \in Workers, SpenderOK(w),
           client[w].call = None, client[w].new = None, NEW c \in Calls,
           c.op \in {"send_tokens", "deploy", "contract_call"}, SendRequested(w, c),
           UNCHANGED <<collector, created, log>>
    PROVE  Asks(w, c) /\ FeesOK(w)'
<1> DEFINE s == client[w]
<1>1. client \in [Workers -> Spenders] /\ s \in Spenders
  BY DEF PurseTypes
<1>2. ASSUME NEW type \in {"legacy", "1559", "filled"}, NEW from \in Payers,
             NEW to \in Payers \cup {None}, NEW value \in Nat, from = c.from,
             client' = [client EXCEPT ![w] = [Put(w, type, from, to, value) EXCEPT !.call = c]]
      PROVE  Asks(w, c) /\ FeesOK(w)'
  <2>1. PICK x : x = [Blank EXCEPT !.type = type, !.from = from, !.to = to, !.value = value,
                                   !.by = w]
    OBVIOUS
  <2>2. x \in TxRecords /\ x.type = type /\ x.from = from /\ x.to = to /\ x.nonce = -1
    <3>1. from \in Addresses /\ to \in Addresses \cup {None}
      BY PurseConstants
    <3> QED
      BY <2>1, <3>1, IdleSpender DEF TxRecords, Blank
  <2>3. PICK q \in {"base", "nonce"} : q = IF type = "1559" THEN "base" ELSE "nonce"
    OBVIOUS
  <2>4. PICK u : u = [[s EXCEPT !.stage = q, !.tx = x] EXCEPT !.call = c]
    OBVIOUS
  <2>5. u \in Spenders /\ u.stage = q /\ u.tx = x /\ u.call = c /\ u.new = None /\ u.rest = s.rest
    BY <1>1, <2>2, <2>4 DEF Spenders, Filling
  <2>6. client' = [client EXCEPT ![w] = u]
    <3>1. Put(w, type, from, to, value) = [s EXCEPT !.stage = q, !.tx = x]
      BY <2>1, <2>3 DEF Put, FirstQuestion
    <3> QED
      BY <1>2, <2>4, <3>1
  <2>7. /\ client' \in [Workers -> Spenders] /\ client'[w] = u
        /\ \A v \in Workers \ {w} : client'[v] = client[v]
    BY <1>1, <2>5, <2>6
  <2>8. Asks(w, c)
    <3>1. c.op \notin Creating
      BY DEF Creating
    <3> QED
      BY <1>2, <2>2, <2>3, <2>5, <2>7, <3>1 DEF Asks, Busy, Filling
  <2> QED
    BY <2>2, <2>3, <2>5, <2>7, <2>8 DEF FeesOK
<1>3. CASE c.op = "send_tokens"
  <2>1. client' = [client EXCEPT ![w] =
                     [Put(w, c.type, c.from, c.to, c.amount) EXCEPT !.call = c]]
    BY <1>3 DEF SendRequested, send_tokens
  <2> QED
    BY <1>2, <1>3, <2>1, CallIsOne
<1>4. CASE c.op = "deploy"
  <2>1. PICK type \in {"legacy", "filled"} : type = IF c.type = "legacy" THEN "legacy" ELSE "filled"
    OBVIOUS
  <2>2. client' = [client EXCEPT ![w] = [Put(w, type, c.from, None, 0) EXCEPT !.call = c]]
    BY <1>4, <2>1 DEF SendRequested, deploy_contract
  <2>3. PICK zero \in Nat : zero = 0
    OBVIOUS
  <2> QED
    BY <1>2, <1>4, <2>1, <2>2, <2>3, CallIsOne
<1>5. CASE c.op = "contract_call"
  <2>1. client' = [client EXCEPT ![w] = [Put(w, "legacy", c.from, c.to, 0) EXCEPT !.call = c]]
    BY <1>5 DEF SendRequested, contract_call
  <2>2. PICK zero \in Nat : zero = 0
    OBVIOUS
  <2> QED
    BY <1>2, <1>5, <2>1, <2>2, CallIsOne
<1> QED
  BY <1>3, <1>4, <1>5

LEMMA StartMoves ==
    ASSUME TestsAsk, Prices, PurseTypes, NEW w \in Workers, SpenderOK(w),
           NEW c \in left[w], Start(w, c)
    PROVE  Begins(w, c)
<1>1. /\ client \in [Workers -> Spenders] /\ client[w] \in Spenders /\ c \in Calls
      /\ left \in [Workers -> SUBSET Calls] /\ collector \in [Workers -> Seq(Created)]
  BY DEF PurseTypes
<1>2. client[w].stage = "idle" /\ client[w].call = None /\ client[w].new = None
  BY <1>1 DEF Start, InStage, SpenderOK
<1>3. UNCHANGED <<bank, balance, nonce, mempool, fee, grants, included, list>>
  BY DEF Start, chain
<1>4. left' \in [Workers -> SUBSET Calls]
  <2>1. left' = [left EXCEPT ![w] = @ \ {c}]
    BY DEF Start
  <2> QED
    BY <1>1, <2>1
<1>5. CASE c.op = "getitem"
  <2>1. UNCHANGED <<collector, log>>
        /\ (Fund(w, c, c.amount) \/ UNCHANGED <<client, created>>)
    BY <1>5 DEF Start
  <2>2. CASE Fund(w, c, c.amount)
    <3>1. Creates(w, c) /\ FeesOK(w)' /\ Busy(w)'
      BY <1>1, <1>3, <1>5, <2>1, <2>2, FundSteps DEF Creating
    <3> QED
      BY <1>1, <1>2, <1>3, <1>4, <1>5, <2>1, <3>1 DEF Begins, Creating
  <2>3. CASE UNCHANGED <<client, created>>
    BY <1>1, <1>2, <1>3, <1>4, <2>1, <2>3 DEF Begins, Skips
  <2> QED
    BY <2>1, <2>2, <2>3
<1>6. CASE c.op = "create_account"
  <2>1. UNCHANGED log
        /\ IF c.amount > 0 THEN Fund(w, c, c.amount) /\ UNCHANGED collector
           ELSE /\ created[w] < MaxCreated
                /\ created' = [created EXCEPT ![w] = @ + 1]
                /\ collector' = [collector EXCEPT ![w] = Append(@, NewAccount(w))]
                /\ UNCHANGED client
    BY <1>6 DEF Start
  <2>2. CASE Fund(w, c, c.amount) /\ UNCHANGED collector
    <3>1. Creates(w, c) /\ FeesOK(w)' /\ Busy(w)'
      BY <1>1, <1>3, <1>6, <2>1, <2>2, FundSteps DEF Creating
    <3> QED
      BY <1>1, <1>2, <1>3, <1>4, <1>6, <2>2, <3>1 DEF Begins, Creating
  <2>3. CASE ~(c.amount > 0)
    <3>1. CreatesEmpty(w)
      BY <2>1, <2>3 DEF CreatesEmpty, NewAccount
    <3> QED
      BY <1>1, <1>2, <1>3, <1>4, <3>1 DEF Begins
  <2> QED
    BY <2>1, <2>2, <2>3
<1>7. CASE c.op \in {"send_tokens", "deploy", "contract_call"}
  <2>1. SendRequested(w, c) /\ UNCHANGED <<collector, created, log>>
    BY <1>7 DEF Start
  <2>2. Asks(w, c) /\ FeesOK(w)'
    BY <1>1, <1>2, <1>7, <2>1, RequestSteps
  <2> QED
    BY <1>1, <1>2, <1>3, <1>4, <2>2 DEF Begins
<1>8. CASE c.op = "restore"
  <2>1. /\ client' = [client EXCEPT ![w].stage = "restore", ![w].call = c, ![w].rest = collector[w]]
        /\ UNCHANGED <<collector, created, log>>
    BY <1>8 DEF Start
  <2>2. PICK rest \in Seq(Created) : rest = collector[w]
    BY <1>1
  <2>3. PICK u : u = [client[w] EXCEPT !.stage = "restore", !.call = c, !.rest = rest]
    OBVIOUS
  <2>4. /\ u \in Spenders /\ u.stage = "restore" /\ u.call = c /\ u.rest = rest
        /\ u.new = None /\ u.tx = client[w].tx
    BY <1>1, <1>2, <2>3 DEF Spenders
  <2>5. client' = [client EXCEPT ![w] = u]
    BY <1>1, <2>1, <2>2, <2>3
  <2>6. /\ client' \in [Workers -> Spenders] /\ client'[w] = u
        /\ \A v \in Workers \ {w} : client'[v] = client[v]
    BY <1>1, <2>4, <2>5
  <2>7. Asks(w, c) /\ FeesOK(w)'
    BY <1>8, <2>1, <2>2, <2>4, <2>6 DEF Asks, FeesOK, Busy, Creating
  <2> QED
    BY <1>1, <1>2, <1>3, <1>4, <2>7 DEF Begins
<1>9. c.op \in {"getitem", "create_account", "send_tokens", "deploy", "contract_call", "restore"}
  BY <1>1, CallIsOne
<1> QED
  BY <1>5, <1>6, <1>7, <1>8, <1>9

-----------------------------------------------------------------------------
(***************************************************************************)
(* What every step of a worker leaves as it is.                            *)
(***************************************************************************)
OnlyGrows(w) ==
    /\ UNCHANGED <<bank, balance, nonce, fee, included>>
    /\ \A v \in Workers \ {w} : /\ client'[v] = client[v] /\ list'[v] = list[v]
                                /\ collector'[v] = collector[v] /\ created'[v] = created[v]
    /\ created[w] <= created'[w]
    /\ log \subseteq log' /\ \A v \in Workers : Begun(v) \subseteq Begun(v)'
    /\ mempool' = mempool \/ (mempool' = mempool \cup {client[w].tx} /\ client[w].stage = "send")
    /\ \/ grants' = grants
       \/ /\ client[w].stage = "faucet"
          /\ \E g \in [by : Workers, to : Created, try : Nat, amount : Nat] :
               /\ g.to = client[w].new /\ g.amount = client[w].call.amount
               /\ grants' = grants \cup {g}

LEMMA BegunIs ==
    ASSUME NEW w, NEW c
    PROVE  c \in Begun(w) <=> \/ \E r \in log : r.by = w /\ r.call = c
                              \/ c = client[w].call /\ c # None
BY DEF Begun

LEMMA BegunIsNext ==
    ASSUME NEW w, NEW c
    PROVE  c \in Begun(w)' <=> \/ \E r \in log' : r.by = w /\ r.call = c
                               \/ c = client'[w].call /\ c # None
BY DEF Begun

\* What a worker has begun stays begun.
LEMMA BegunGrows ==
    ASSUME NEW w \in Workers, \A v \in Workers \ {w} : client'[v] = client[v],
           \/ log' = log /\ (client[w].call = None \/ client'[w].call = client[w].call)
           \/ \E how, new : log' = log \cup {[by |-> w, call |-> client[w].call, how |-> how,
                                              new |-> new]}
    PROVE  log \subseteq log' /\ \A v \in Workers : Begun(v) \subseteq Begun(v)'
<1>1. log \subseteq log'
  OBVIOUS
<1>2. ASSUME NEW v \in Workers, NEW c \in Begun(v)
      PROVE  c \in Begun(v)'
  <2>1. CASE \E r \in log : r.by = v /\ r.call = c
    BY <1>1, <2>1, BegunIsNext
  <2>2. CASE c = client[v].call /\ c # None
    <3>1. CASE client'[v].call = client[v].call
      BY <2>2, <3>1, BegunIsNext
    <3>2. CASE client'[v].call # client[v].call
      <4>1. v = w /\ client[w].call # None
        BY <2>2, <3>2
      <4>2. PICK how, new : log' = log \cup {[by |-> w, call |-> client[w].call, how |-> how,
                                              new |-> new]}
        BY <3>2, <4>1
      <4>3. PICK r : r = [by |-> w, call |-> client[w].call, how |-> how, new |-> new]
        OBVIOUS
      <4>4. r \in log' /\ r.by = v /\ r.call = c
        BY <2>2, <4>1, <4>2, <4>3
      <4> QED
        BY <4>4, BegunIsNext
    <3> QED
      BY <3>1, <3>2
  <2> QED
    BY <2>1, <2>2, BegunIs
<1> QED
  BY <1>1, <1>2

LEMMA CollectSteps ==
    ASSUME PurseTypes, NEW w \in Workers, SpenderOK(w), HasMoney(w), Collect(w)
    PROVE  /\ client[w].new \in Created /\ client[w].new \in OwnAccounts(w)
           /\ list' \in [Workers -> Seq(Created)]
           /\ collector' \in [Workers -> Seq(Created)]
           /\ \A v \in Workers \ {w} : list'[v] = list[v] /\ collector'[v] = collector[v]
           /\ \/ list'[w] = list[w]
              \/ client[w].call.op = "getitem" /\ list'[w] = Append(list[w], client[w].new)
           /\ collector'[w] = Append(collector[w], client[w].new)
<1>1. /\ list \in [Workers -> Seq(Created)] /\ collector \in [Workers -> Seq(Created)]
      /\ client[w] \in Spenders
  BY DEF PurseTypes
<1>2. client[w].new \in Created /\ client[w].new \in OwnAccounts(w)
  <2>1. client[w].call # None /\ client[w].call.op \in Creating
    BY DEF HasMoney, Busy, SpenderOK
  <2> QED
    BY <1>1, <2>1 DEF SpenderOK, Spenders
<1>a. \A q \in Seq(Created), x \in Created : Append(q, x) \in Seq(Created)
  OBVIOUS
<1>3. PICK more \in Seq(Created) : more = Append(list[w], client[w].new)
  BY <1>1, <1>2, <1>a
<1>4. PICK kept \in Seq(Created) : kept = Append(collector[w], client[w].new)
  BY <1>1, <1>2, <1>a
<1>5. list' = IF client[w].call.op = "getitem" THEN [list EXCEPT ![w] = more] ELSE list
  BY <1>1, <1>3 DEF Collect
<1>6. collector' = [collector EXCEPT ![w] = kept]
  BY <1>1, <1>4 DEF Collect
<1>7. /\ list' \in [Workers -> Seq(Created)]
      /\ \A v \in Workers \ {w} : list'[v] = list[v]
      /\ list'[w] = list[w] \/ (client[w].call.op = "getitem" /\ list'[w] = more)
  BY <1>1, <1>5
<1>8. /\ collector' \in [Workers -> Seq(Created)] /\ collector'[w] = kept
      /\ \A v \in Workers \ {w} : collector'[v] = collector[v]
  BY <1>1, <1>6
<1> QED
  BY <1>2, <1>3, <1>4, <1>7, <1>8

\* A call that ends is noted.
LEMMA EndsGrow ==
    ASSUME TestsAsk, PurseTypes, NEW w \in Workers, SpenderOK(w), NEW how, EndsWith(w, how)
    PROVE  /\ log' \subseteq [by : Workers, call : Calls, how : Ends,
                              new : Created \cup {None}]
           /\ log \subseteq log' /\ \A v \in Workers : Begun(v) \subseteq Begun(v)'
           /\ \E r \in log' : r.by = w /\ r.call = client[w].call /\ r.how = how
                              /\ r.new = client[w].new
           /\ client[w].call \in Begun(w)'
<1>1. client[w] \in Spenders /\ client[w].call # None
  BY DEF PurseTypes, EndsWith, Busy, SpenderOK
<1>2. PICK r : r = [by |-> w, call |-> client[w].call, how |-> how, new |-> client[w].new]
  OBVIOUS
<1>3. log' = log \cup {r}
  BY <1>2 DEF EndsWith
<1>4. /\ r \in [by : Workers, call : Calls, how : Ends, new : Created \cup {None}]
      /\ r.by = w /\ r.call = client[w].call /\ r.how = how /\ r.new = client[w].new
  BY <1>1, <1>2 DEF EndsWith, Spenders
<1>5. log \subseteq log' /\ \A v \in Workers : Begun(v) \subseteq Begun(v)'
  BY <1>2, <1>3, BegunGrows DEF EndsWith
<1>6. client[w].call \in Begun(w)
  BY <1>1, BegunIs
<1> QED
  BY <1>3, <1>4, <1>5, <1>6 DEF PurseTypes

\* A worker creates an account.
LEMMA CreatesGrow ==
    ASSUME Prices, TestsAsk, PurseTypes, NEW w \in Workers, created[w] < MaxCreated,
           created' = [created EXCEPT ![w] = @ + 1]
    PROVE  /\ created' \in [Workers -> 0..MaxCreated] /\ created'[w] = created[w] + 1
           /\ \A v \in Workers \ {w} : created'[v] = created[v]
           /\ created[w] \in Nat
           /\ <<w, created[w] + 1>> \in OwnAccounts(w)' /\ OwnAccounts(w) \subseteq OwnAccounts(w)'
           /\ <<w, created[w] + 1>> \in Created
<1>1. created \in [Workers -> 0..MaxCreated] /\ MaxCreated \in Nat
  BY PurseConstants DEF PurseTypes
<1>2. PICK n \in 0..MaxCreated : n = created[w]
  BY <1>1
<1>3. PICK m \in 1..MaxCreated : m = n + 1
  BY <1>1, <1>2
<1>4. created' = [created EXCEPT ![w] = m]
  BY <1>1, <1>2, <1>3
<1>5. /\ created' \in [Workers -> 0..MaxCreated] /\ created'[w] = m
      /\ \A v \in Workers \ {w} : created'[v] = created[v]
  BY <1>1, <1>3, <1>4
<1>6. m \in 1..m /\ 1..n \subseteq 1..m
  BY <1>2, <1>3
<1>7. <<w, m>> \in OwnAccounts(w)' /\ OwnAccounts(w) \subseteq OwnAccounts(w)'
  BY <1>2, <1>5, <1>6 DEF OwnAccounts
<1> QED
  BY <1>2, <1>3, <1>5, <1>7, PurseConstants

LEMMA MoveKeeps ==
    ASSUME PurseTypes, NEW w \in Workers, SpenderOK(w),
           UNCHANGED <<bank, balance, nonce, fee, included>>,
           mempool' = mempool \/ (mempool' = mempool \cup {client[w].tx} /\ client[w].stage = "send"),
           \/ grants' = grants
           \/ \E g \in [by : Workers, to : Created, try : Nat, amount : Nat] :
                grants' = grants \cup {g},
           client' \in [Workers -> Spenders],
           list' \in [Workers -> Seq(Created)], collector' \in [Workers -> Seq(Created)],
           created' \in [Workers -> 0..MaxCreated], left' \in [Workers -> SUBSET Calls],
           log' \subseteq [by : Workers, call : Calls, how : Ends,
                           new : Created \cup {None}]
    PROVE  PurseTypes'
<1>1. client[w].tx \in TxRecords
  BY DEF PurseTypes, Spenders
<1>2. mempool' \subseteq TxRecords /\ IsFiniteSet(mempool')
  <2>1. mempool \subseteq TxRecords /\ IsFiniteSet(mempool)
    BY DEF PurseTypes
  <2>2. PICK t : t = client[w].tx
    OBVIOUS
  <2>3. mempool' \in {mempool, mempool \cup {t}} /\ t \in TxRecords
    BY <1>1, <2>2
  <2>4. IsFiniteSet(mempool \cup {t})
    BY <2>1, FS_AddElement
  <2> QED
    BY <2>1, <2>3, <2>4
<1>3. grants' \subseteq [by : Workers, to : Created, try : Nat, amount : Nat]
  BY DEF PurseTypes
<1> QED
  BY <1>2, <1>3 DEF PurseTypes

LEMMA SpenderGrows ==
    ASSUME Prices, TestsAsk, PurseTypes, NEW w \in Workers, SpenderOK(w), ListsOK(w),
           SpenderMove(w)
    PROVE  PurseTypes' /\ OnlyGrows(w)
<1>1. /\ list \in [Workers -> Seq(Created)] /\ collector \in [Workers -> Seq(Created)]
      /\ created \in [Workers -> 0..MaxCreated] /\ left \in [Workers -> SUBSET Calls]
      /\ log \subseteq [by : Workers, call : Calls, how : Ends,
                        new : Created \cup {None}]
      /\ created[w] \in Int
  BY PurseConstants DEF PurseTypes
<1>2. ASSUME GoesOn(w),
             mempool' = mempool \/ (mempool' = mempool \cup {client[w].tx} /\ client[w].stage = "send"),
             \/ grants' = grants
             \/ /\ client[w].stage = "faucet"
                /\ \E g \in [by : Workers, to : Created, try : Nat, amount : Nat] :
                     /\ g.to = client[w].new /\ g.amount = client[w].call.amount
                     /\ grants' = grants \cup {g}
      PROVE  PurseTypes' /\ OnlyGrows(w)
  <2>1. PurseTypes'
    BY <1>1, <1>2, MoveKeeps DEF GoesOn
  <2>2. log \subseteq log' /\ \A v \in Workers : Begun(v) \subseteq Begun(v)'
    BY <1>2, BegunGrows DEF GoesOn
  <2> QED
    BY <1>1, <1>2, <2>1, <2>2 DEF OnlyGrows, GoesOn
<1>3. CASE Fills(w)
  BY <1>2, <1>3 DEF Fills
<1>4. CASE AsksFaucet(w)
  BY <1>2, <1>4 DEF AsksFaucet
<1>5. CASE GivesBack(w)
  BY <1>2, <1>5 DEF GivesBack
<1>6. CASE Stops(w)
  <2>1. PICK how \in Ends : EndsWith(w, how) /\ collector' = collector
                            /\ list' \in {list, [list EXCEPT ![w] = <<>>]}
    BY <1>6 DEF Stops
  <2>2. /\ list' \in [Workers -> Seq(Created)]
        /\ \A v \in Workers \ {w} : list'[v] = list[v]
    <3>1. <<>> \in Seq(Created)
      OBVIOUS
    <3> QED
      BY <1>1, <2>1, <3>1
  <2>3. /\ log' \subseteq [by : Workers, call : Calls, how : Ends,
                           new : Created \cup {None}]
        /\ log \subseteq log' /\ \A v \in Workers : Begun(v) \subseteq Begun(v)'
    BY <2>1, EndsGrow
  <2>4. PurseTypes'
    BY <1>1, <2>1, <2>2, <2>3, MoveKeeps DEF EndsWith
  <2> QED
    BY <1>1, <2>1, <2>2, <2>3, <2>4 DEF OnlyGrows, EndsWith
<1>7. CASE Finishing(w)
  <2>1. EndsWith(w, "returned") /\ HasMoney(w) /\ Collect(w)
    BY <1>7 DEF Finishing
  <2>2. /\ list' \in [Workers -> Seq(Created)]
        /\ collector' \in [Workers -> Seq(Created)]
        /\ \A v \in Workers \ {w} : list'[v] = list[v] /\ collector'[v] = collector[v]
    BY <2>1, CollectSteps
  <2>3. /\ log' \subseteq [by : Workers, call : Calls, how : Ends,
                           new : Created \cup {None}]
        /\ log \subseteq log' /\ \A v \in Workers : Begun(v) \subseteq Begun(v)'
    BY <2>1, EndsGrow
  <2>4. PurseTypes'
    BY <1>1, <2>1, <2>2, <2>3, MoveKeeps DEF EndsWith
  <2> QED
    BY <1>1, <2>1, <2>2, <2>3, <2>4 DEF OnlyGrows, EndsWith
<1>8. CASE Repeats(w)
  <2>1. Creates(w, client[w].call) /\ HasMoney(w) /\ Collect(w) /\ left' = left
    BY <1>8 DEF Repeats
  <2>2. /\ list' \in [Workers -> Seq(Created)]
        /\ collector' \in [Workers -> Seq(Created)]
        /\ \A v \in Workers \ {w} : list'[v] = list[v] /\ collector'[v] = collector[v]
    BY <2>1, CollectSteps
  <2>3. log \subseteq log' /\ \A v \in Workers : Begun(v) \subseteq Begun(v)'
    BY <2>1, BegunGrows DEF Creates
  <2>4. /\ created' \in [Workers -> 0..MaxCreated] /\ created'[w] = created[w] + 1
        /\ \A v \in Workers \ {w} : created'[v] = created[v]
    BY <2>1, CreatesGrow DEF Creates
  <2>5. PurseTypes'
    BY <1>1, <2>1, <2>2, <2>4, MoveKeeps DEF Creates
  <2>6. created[w] <= created'[w]
    BY <1>1, <2>4
  <2> QED
    BY <2>1, <2>2, <2>3, <2>4, <2>5, <2>6 DEF OnlyGrows, Creates
<1> QED
  BY <1>3, <1>4, <1>5, <1>6, <1>7, <1>8 DEF SpenderMove

LEMMA BeginGrows ==
    ASSUME Prices, TestsAsk, PurseTypes, NEW w \in Workers, SpenderOK(w), ListsOK(w),
           NEW c, Begins(w, c)
    PROVE  PurseTypes' /\ OnlyGrows(w)
<1>1. /\ list \in [Workers -> Seq(Created)] /\ collector \in [Workers -> Seq(Created)]
      /\ created \in [Workers -> 0..MaxCreated] /\ client \in [Workers -> Spenders]
      /\ log \subseteq [by : Workers, call : Calls, how : Ends,
                        new : Created \cup {None}]
      /\ created[w] \in Int
  BY PurseConstants DEF PurseTypes
<1>2. /\ client[w].call = None /\ left' \in [Workers -> SUBSET Calls]
      /\ UNCHANGED <<bank, balance, nonce, mempool, fee, grants, included, list>>
  BY DEF Begins
<1>3. ASSUME client' \in [Workers -> Spenders], \A v \in Workers \ {w} : client'[v] = client[v],
             log' = log, created' \in [Workers -> 0..MaxCreated], created[w] <= created'[w],
             \A v \in Workers \ {w} : created'[v] = created[v],
             collector' \in [Workers -> Seq(Created)],
             \A v \in Workers \ {w} : collector'[v] = collector[v]
      PROVE  PurseTypes' /\ OnlyGrows(w)
  <2>1. PurseTypes'
    BY <1>1, <1>2, <1>3, MoveKeeps
  <2>2. log \subseteq log' /\ \A v \in Workers : Begun(v) \subseteq Begun(v)'
    BY <1>2, <1>3, BegunGrows
  <2> QED
    BY <1>2, <1>3, <2>1, <2>2 DEF OnlyGrows
<1>4. CASE Skips(w)
  BY <1>1, <1>3, <1>4 DEF Skips
<1>5. CASE CreatesEmpty(w)
  <2>1. /\ created' \in [Workers -> 0..MaxCreated] /\ created'[w] = created[w] + 1
        /\ \A v \in Workers \ {w} : created'[v] = created[v]
        /\ <<w, created[w] + 1>> \in Created
    BY <1>5, CreatesGrow DEF CreatesEmpty
  <2>2. created[w] <= created'[w]
    BY <1>1, <2>1
  <2>3. PICK a \in Created : a = <<w, created[w] + 1>>
    BY <2>1
  <2>4. \A q \in Seq(Created), x \in Created : Append(q, x) \in Seq(Created)
    OBVIOUS
  <2>5. PICK kept \in Seq(Created) : kept = Append(collector[w], a)
    BY <1>1, <2>4
  <2>6. collector' = [collector EXCEPT ![w] = kept]
    BY <1>1, <1>5, <2>3, <2>5 DEF CreatesEmpty
  <2>7. /\ collector' \in [Workers -> Seq(Created)]
        /\ \A v \in Workers \ {w} : collector'[v] = collector[v]
    BY <1>1, <2>6
  <2> QED
    BY <1>1, <1>3, <1>5, <2>1, <2>2, <2>7 DEF CreatesEmpty
<1>6. CASE Creates(w, c) /\ UNCHANGED collector
  <2>1. /\ created' \in [Workers -> 0..MaxCreated] /\ created'[w] = created[w] + 1
        /\ \A v \in Workers \ {w} : created'[v] = created[v]
    BY <1>6, CreatesGrow DEF Creates
  <2>2. created[w] <= created'[w]
    BY <1>1, <2>1
  <2> QED
    BY <1>1, <1>3, <1>6, <2>1, <2>2 DEF Creates
<1>7. CASE Asks(w, c)
  BY <1>1, <1>3, <1>7 DEF Asks
<1> QED
  BY <1>4, <1>5, <1>6, <1>7 DEF Begins

-----------------------------------------------------------------------------
(***************************************************************************)
(* What a step of a worker means for the others, and for the chain.        *)
(***************************************************************************)
LEMMA RestoredGrows ==
    ASSUME NEW w \in Workers, OnlyGrows(w)
    PROVE  \A v \in Workers : Restored(v) => Restored(v)'
BY DEF OnlyGrows, Restored

\* What is sent is from, or to, an account that is there.
LEMMA SentIsOwn ==
    ASSUME TestsAsk, Prices, NEW w \in Workers, SpenderOK(w), FeesOK(w), client[w].stage = "send"
    PROVE  /\ client[w].tx.from \in Addresses /\ Lasting(client[w].tx)
           /\ client[w].tx.from \in Created => client[w].tx.from \in OwnAccounts(w) /\ Restored(w)
           /\ client[w].tx.to \in Created =>
                /\ client[w].tx.to = client[w].new /\ client[w].new \in OwnAccounts(w)
                /\ client[w].tx.value = client[w].call.amount
<1>1. client[w].call # None
  BY DEF SpenderOK
<1>2. client[w].call \in Begun(w)
  BY <1>1, BegunIs
<1>3. None \notin Created
  BY PurseConstants
<1>4. /\ client[w].tx.from \in Addresses
      /\ client[w].new # None => client[w].tx.value = client[w].call.amount
      /\ client[w].tx.from \in Created => client[w].call.op = "restore"
                                          /\ client[w].tx.from \in OwnAccounts(w)
      /\ client[w].tx.to \in Created => client[w].tx.to = client[w].new
      /\ client[w].new # None => client[w].new \in OwnAccounts(w)
  BY DEF SpenderOK, Filling
<1>5. Lasting(client[w].tx)
  BY DEF FeesOK
<1>6. client[w].call.op = "restore" => Restored(w)
  BY <1>2 DEF Restored
<1> QED
  BY <1>4, <1>5, <1>6, <1>3

LEMMA MempoolKeeps ==
    ASSUME TestsAsk, Prices, NEW w \in Workers, SpenderOK(w), FeesOK(w), MempoolOK,
           OnlyGrows(w)
    PROVE  MempoolOK'
<1> SUFFICES ASSUME NEW t \in mempool'
             PROVE  /\ t.from \in Addresses /\ Lasting(t)
                    /\ t.from \in Created => Restored(t.from[1])'
  BY DEF MempoolOK, Lasting, Addresses
<1>1. \A a \in Created : a[1] \in Workers
  BY DEF Created
<1>2. CASE t \in mempool
  BY <1>1, <1>2, RestoredGrows DEF MempoolOK
<1>3. CASE t \notin mempool
  <2>1. t = client[w].tx /\ client[w].stage = "send"
    BY <1>3 DEF OnlyGrows
  <2>2. \A a \in OwnAccounts(w) : a[1] = w
    BY DEF OwnAccounts
  <2> QED
    BY <2>1, <2>2, SentIsOwn, RestoredGrows
<1> QED
  BY <1>2, <1>3

LEMMA FreshKeeps ==
    ASSUME TestsAsk, Prices, PurseTypes, PurseTypes', NEW w \in Workers, SpenderOK(w),
           FeesOK(w), Fresh, OnlyGrows(w)
    PROVE  Fresh'
<1> SUFFICES ASSUME NEW v \in Workers, NEW n \in 1..MaxCreated, n > created'[v]
             PROVE  /\ balance'[<<v, n>>] = 0
                    /\ \A t \in mempool' : t.from # <<v, n>> /\ t.to # <<v, n>>
                    /\ \A m \in included' : m.tx.to # <<v, n>>
                    /\ \A g \in grants' : g.to # <<v, n>>
  BY DEF Fresh
<1>1. n > created[v]
  <2>1. created[v] \in Int /\ created'[v] \in Int /\ MaxCreated \in Int
    BY PurseConstants DEF PurseTypes
  <2>2. created[v] <= created'[v]
    BY <2>1 DEF OnlyGrows
  <2> QED
    BY <2>1, <2>2
<1>2. /\ balance[<<v, n>>] = 0
      /\ \A t \in mempool : t.from # <<v, n>> /\ t.to # <<v, n>>
      /\ \A m \in included : m.tx.to # <<v, n>>
      /\ \A g \in grants : g.to # <<v, n>>
  BY <1>1 DEF Fresh
<1>3. <<v, n>> \notin OwnAccounts(w)
  <2>1. created[v] \in Int
    BY PurseConstants DEF PurseTypes
  <2> QED
    BY <1>1, <2>1 DEF OwnAccounts
<1>4. <<v, n>> \in Created
  BY PurseConstants
<1>5. ASSUME NEW t \in mempool' PROVE t.from # <<v, n>> /\ t.to # <<v, n>>
  BY <1>2, <1>3, <1>4, SentIsOwn DEF OnlyGrows
<1>6. ASSUME NEW g \in grants' PROVE g.to # <<v, n>>
  <2>1. client[w].stage = "faucet" => client[w].new \in OwnAccounts(w)
    BY DEF SpenderOK, Asking
  <2> QED
    BY <1>2, <1>3, <2>1 DEF OnlyGrows
<1> QED
  BY <1>2, <1>5, <1>6 DEF OnlyGrows

LEMMA OthersKeep ==
    ASSUME TestsAsk, Prices, PurseTypes, PurseInv, NEW w \in Workers, OnlyGrows(w),
           NEW v \in Workers \ {w}
    PROVE  /\ SpenderOK(v)' /\ FeesOK(v)' /\ ListsOK(v)'
           /\ FundedOK(v)' /\ KeptOK(v)' /\ CollectedOK(v)'
<1>1. /\ SpenderOK(v) /\ FeesOK(v) /\ ListsOK(v) /\ FundedOK(v) /\ KeptOK(v) /\ CollectedOK(v)
      /\ SpenderOK(w) /\ FeesOK(w)
  BY DEF PurseInv
<1>2. /\ client'[v] = client[v] /\ list'[v] = list[v] /\ collector'[v] = collector[v]
      /\ created'[v] = created[v] /\ UNCHANGED <<bank, balance, nonce, fee, included>>
      /\ log \subseteq log' /\ Begun(v) \subseteq Begun(v)'
  BY DEF OnlyGrows
<1>3. OwnAccounts(v)' = OwnAccounts(v)
  BY <1>2 DEF OwnAccounts
<1>4. SpenderOK(v)' /\ FeesOK(v)' /\ ListsOK(v)'
  BY <1>1, <1>2, <1>3 DEF SpenderOK, FeesOK, ListsOK, Addresses, Lasting
<1>5. Restored(v) => Restored(v)'
  BY RestoredGrows
<1>6. ASSUME client[v].new # None
      PROVE  /\ client[v].new \in Created /\ client[v].new \notin OwnAccounts(w)
  <2>1. client[v].new \in OwnAccounts(v) /\ client[v] \in Spenders
    BY <1>1, <1>6 DEF SpenderOK, PurseTypes
  <2>2. \A a \in OwnAccounts(v) : a \notin OwnAccounts(w)
    BY DEF OwnAccounts
  <2> QED
    BY <1>6, <2>1, <2>2 DEF Spenders
<1>7. FundedOK(v)'
  <2> SUFFICES ASSUME client[v].new # None
               PROVE  /\ \A t \in mempool' : t.to = client[v].new => t.value = client[v].call.amount
                      /\ \A g \in grants' : g.to = client[v].new => g.amount = client[v].call.amount
                      /\ ~(Restored(v)') =>
                           /\ \A m \in included : m.tx.to = client[v].new =>
                                balance[client[v].new] >= client[v].call.amount
                           /\ client[v].stage \in Asking =>
                                \/ balance[client[v].new] = 0
                                \/ balance[client[v].new] >= client[v].call.amount
    BY <1>2 DEF FundedOK
  <2>1. ASSUME NEW t \in mempool', t.to = client[v].new
        PROVE  t.value = client[v].call.amount
    BY <1>1, <1>6, <2>1, SentIsOwn DEF OnlyGrows, FundedOK
  <2>2. ASSUME NEW g \in grants', g.to = client[v].new
        PROVE  g.amount = client[v].call.amount
    <3>1. client[w].stage = "faucet" => client[w].new \in OwnAccounts(w)
      BY <1>1 DEF SpenderOK, Asking
    <3> QED
      BY <1>1, <1>6, <2>2, <3>1 DEF OnlyGrows, FundedOK
  <2> QED
    BY <1>1, <1>5, <2>1, <2>2 DEF FundedOK
<1>8. KeptOK(v)'
  BY <1>1, <1>2, <1>5 DEF KeptOK
<1>9. CollectedOK(v)'
  BY <1>1, <1>2 DEF CollectedOK, ToSet
<1> QED
  BY <1>4, <1>7, <1>8, <1>9

-----------------------------------------------------------------------------
(***************************************************************************)
(* What a step of a worker means for itself.                               *)
(***************************************************************************)
LEMMA OneMore ==
    ASSUME NEW S, NEW s \in Seq(S), NEW x \in S
    PROVE  /\ \A i \in DOMAIN Append(s, x) : \/ i \in DOMAIN s /\ Append(s, x)[i] = s[i]
                                           \/ Append(s, x)[i] = x
           /\ x \in ToSet(Append(s, x))
           /\ ToSet(s) \subseteq ToSet(Append(s, x))
<1>1. /\ Len(s) \in Nat /\ DOMAIN s = 1..Len(s) /\ DOMAIN Append(s, x) = 1..(Len(s) + 1)
      /\ \A i \in 1..Len(s) : Append(s, x)[i] = s[i]
      /\ Append(s, x)[Len(s) + 1] = x
  OBVIOUS
<1>2. PICK q : q = Append(s, x)
  OBVIOUS
<1>3. PICK n \in Nat : n = Len(s)
  BY <1>1
<1>4. DOMAIN s = 1..n /\ DOMAIN q = 1..(n + 1) /\ q[n + 1] = x /\ \A i \in 1..n : q[i] = s[i]
  BY <1>1, <1>2, <1>3
<1>5. \A i \in DOMAIN q : (i \in DOMAIN s /\ q[i] = s[i]) \/ q[i] = x
  BY <1>4
<1>6. n + 1 \in DOMAIN q /\ \A i \in DOMAIN s : i \in DOMAIN q /\ q[i] = s[i]
  BY <1>4
<1>7. x \in ToSet(q)
  BY <1>4, <1>6 DEF ToSet
<1>8. ToSet(s) \subseteq ToSet(q)
  BY <1>6 DEF ToSet
<1> QED
  BY <1>2, <1>5, <1>7, <1>8

LEMMA OneLess ==
    ASSUME NEW S, NEW s \in Seq(S), s # <<>>
    PROVE  /\ 1 \in DOMAIN s /\ Head(s) = s[1]
           /\ \A i \in DOMAIN Tail(s) : i + 1 \in DOMAIN s /\ Tail(s)[i] = s[i + 1]
OBVIOUS

LEMMA OwnGrows ==
    ASSUME Prices, TestsAsk, PurseTypes, PurseTypes', NEW w \in Workers, OnlyGrows(w)
    PROVE  OwnAccounts(w) \subseteq OwnAccounts(w)'
<1>1. created[w] \in Int /\ created'[w] \in Int
  BY PurseConstants DEF PurseTypes
<1>2. created[w] <= created'[w]
  BY DEF OnlyGrows
<1>3. 1..created[w] \subseteq 1..created'[w]
  BY <1>1, <1>2
<1> QED
  BY <1>3 DEF OwnAccounts

\* An account that has its money.
LEMMA HasItsMoney ==
    ASSUME Prices, TestsAsk, PurseTypes, NEW w \in Workers, SpenderOK(w), FundedOK(w),
           HasMoney(w), ~Restored(w)
    PROVE  balance[client[w].new] >= client[w].call.amount
<1>1. client[w] \in Spenders /\ client[w].new # None
  BY DEF PurseTypes, HasMoney, Busy, SpenderOK
<1>2. CASE client[w].stage = "receipt" /\ \E m \in included : m.tx = client[w].tx
  <2>1. client[w].tx.to = client[w].new
    BY <1>1, <1>2 DEF SpenderOK, Filling
  <2> QED
    BY <1>1, <1>2, <2>1 DEF FundedOK
<1>3. CASE client[w].stage = "wait" /\ balance[client[w].new] > client[w].before
  <2>1. client[w].before = 0
    BY <1>3 DEF SpenderOK, Asking
  <2>2. balance[client[w].new] = 0 \/ balance[client[w].new] >= client[w].call.amount
    BY <1>1, <1>3 DEF FundedOK, Asking
  <2>3. PICK b \in Nat : b = balance[client[w].new]
    <3>1. client[w].new \in Addresses
      BY <1>1, PurseConstants DEF Spenders
    <3> QED
      BY <3>1 DEF PurseTypes
  <2>4. b # 0
    BY <1>3, <2>1, <2>3
  <2> QED
    BY <2>2, <2>3, <2>4
<1> QED
  BY <1>2, <1>3 DEF HasMoney

\* What is collected was paid for.
LEMMA CollectKeeps ==
    ASSUME Prices, TestsAsk, PurseTypes, PurseTypes', NEW w \in Workers, SpenderOK(w),
           ListsOK(w), FundedOK(w), KeptOK(w), HasMoney(w), Collect(w), OnlyGrows(w),
           client[w].call \in Begun(w)'
    PROVE  /\ KeptOK(w)'
           /\ \A i \in DOMAIN list'[w] : list'[w][i] \in OwnAccounts(w)
           /\ \A i \in DOMAIN collector'[w] : collector'[w][i] \in OwnAccounts(w)
           /\ client[w].new \in ToSet(collector'[w])
           /\ ToSet(collector[w]) \subseteq ToSet(collector'[w])
<1> DEFINE a == client[w].new
<1>1. /\ a \in Created /\ a \in OwnAccounts(w)
      /\ \/ list'[w] = list[w]
         \/ client[w].call.op = "getitem" /\ list'[w] = Append(list[w], a)
      /\ collector'[w] = Append(collector[w], a)
  BY CollectSteps
<1>2. list[w] \in Seq(Created) /\ collector[w] \in Seq(Created)
  BY DEF PurseTypes
<1>3. \A i \in DOMAIN list'[w] : \/ i \in DOMAIN list[w] /\ list'[w][i] = list[w][i]
                                 \/ client[w].call.op = "getitem" /\ list'[w][i] = a
  <2>1. CASE list'[w] = list[w]
    BY <2>1
  <2>2. CASE client[w].call.op = "getitem" /\ list'[w] = Append(list[w], a)
    BY <1>1, <1>2, <2>2, OneMore
  <2> QED
    BY <1>1, <2>1, <2>2
<1>4. \A i \in DOMAIN collector'[w] : \/ i \in DOMAIN collector[w] /\ collector'[w][i] = collector[w][i]
                                      \/ collector'[w][i] = a
  BY <1>1, <1>2, OneMore
<1>5. KeptOK(w)'
  <2> SUFFICES ASSUME ~(Restored(w)'), NEW i \in DOMAIN list'[w]
               PROVE  \E c \in Begun(w)' : /\ c.op = "getitem"
                                           /\ balance'[list'[w][i]] >= c.amount
    BY DEF KeptOK
  <2>1. ~Restored(w) /\ balance' = balance /\ Begun(w) \subseteq Begun(w)'
    BY RestoredGrows DEF OnlyGrows
  <2>2. CASE i \in DOMAIN list[w] /\ list'[w][i] = list[w][i]
    BY <2>1, <2>2 DEF KeptOK
  <2>3. CASE client[w].call.op = "getitem" /\ list'[w][i] = a
    <3>1. balance[a] >= client[w].call.amount
      BY <2>1, HasItsMoney
    <3> QED
      BY <2>1, <2>3, <3>1
  <2> QED
    BY <1>3, <2>2, <2>3
<1>6. /\ a \in ToSet(collector'[w])
      /\ ToSet(collector[w]) \subseteq ToSet(collector'[w])
  BY <1>1, <1>2, OneMore
<1> QED
  BY <1>1, <1>3, <1>4, <1>5, <1>6 DEF ListsOK

\* A worker begins to create an account.
LEMMA CreatesKeeps ==
    ASSUME Prices, TestsAsk, PurseTypes, PurseTypes', Fresh, NEW w \in Workers,
           NEW c \in Calls, c.op \in Creating, Creates(w, c), Busy(w)', SpenderOK(w), ListsOK(w)
    PROVE  /\ SpenderOK(w)' /\ FundedOK(w)'
           /\ \A i \in DOMAIN client'[w].rest : client'[w].rest[i] \in OwnAccounts(w)'
<1> DEFINE a == <<w, created[w] + 1>>
<1>1. /\ created[w] < MaxCreated /\ client'[w].call = c /\ client'[w].new = a /\ c # None
      /\ client'[w].rest = client[w].rest
      /\ UNCHANGED <<bank, balance, mempool, grants, included>>
  BY CallIsOne DEF Creates
<1>2. /\ created'[w] = created[w] + 1 /\ created[w] \in Nat /\ a \in OwnAccounts(w)'
      /\ a \in Created /\ OwnAccounts(w) \subseteq OwnAccounts(w)'
  BY CreatesGrow DEF Creates
<1>3. /\ balance[a] = 0 /\ \A t \in mempool : t.to # a
      /\ \A g \in grants : g.to # a
  <2>1. PICK n : n = created[w] + 1
    OBVIOUS
  <2>2. n \in 1..MaxCreated /\ n > created[w]
    BY <1>1, <1>2, <2>1, PurseConstants
  <2>3. /\ balance[<<w, n>>] = 0 /\ \A t \in mempool : t.to # <<w, n>>
        /\ \A g \in grants : g.to # <<w, n>>
    BY <2>2 DEF Fresh
  <2>4. \A m \in included : m.tx.to # <<w, n>>
    BY <2>2 DEF Fresh
  <2> QED
    BY <2>1, <2>3, <2>4
<1>4. \A m \in included : m.tx.to # a
  <2>1. PICK n : n = created[w] + 1
    OBVIOUS
  <2>2. n \in 1..MaxCreated /\ n > created[w]
    BY <1>1, <1>2, <2>1, PurseConstants
  <2> QED
    BY <2>1, <2>2 DEF Fresh
<1>5. FundedOK(w)'
  BY <1>1, <1>3, <1>4 DEF FundedOK
<1>6. /\ a # None /\ bank \in Payers \cup {None} /\ Payers \cap Created = {}
      /\ bank # None => bank \in Addresses
  BY <1>2, PurseConstants DEF PurseTypes
<1>7. SpenderOK(w)'
  <2>1. CASE bank # None
    <3>1. /\ client'[w].stage = "nonce" /\ client'[w].tx.from = bank /\ client'[w].tx.to = a
          /\ client'[w].tx.value = c.amount
      BY <1>1, <2>1 DEF Creates
    <3>2. bank \in Addresses /\ bank \notin Created
      BY <1>6, <2>1
    <3> QED
      BY <1>1, <1>2, <1>6, <2>1, <3>1, <3>2 DEF SpenderOK, Filling, Asking
  <2>2. CASE bank = None
    <3>1. /\ client'[w].stage = "faucet" /\ client'[w].tx = client[w].tx
          /\ client'[w].before = balance[a]
      BY <1>1, <2>2 DEF Creates
    <3> QED
      BY <1>1, <1>2, <1>3, <1>6, <2>2, <3>1 DEF SpenderOK, Filling, Asking
  <2> QED
    BY <2>1, <2>2
<1> QED
  BY <1>1, <1>2, <1>5, <1>7 DEF ListsOK

OwnOK(w) == SpenderOK(w) /\ FeesOK(w) /\ ListsOK(w) /\ FundedOK(w) /\ KeptOK(w) /\ CollectedOK(w)

LEMMA SpenderKeeps ==
    ASSUME Prices, TestsAsk, PurseTypes, PurseTypes', Fresh, NEW w \in Workers,
           OwnOK(w), SpenderMove(w), OnlyGrows(w)
    PROVE  OwnOK(w)'
<1>1. /\ SpenderOK(w) /\ FeesOK(w) /\ ListsOK(w) /\ FundedOK(w) /\ KeptOK(w) /\ CollectedOK(w)
      /\ client[w] \in Spenders /\ client[w].rest \in Seq(Created)
      /\ list[w] \in Seq(Created)
  BY DEF OwnOK, PurseTypes, Spenders
<1>2. /\ OwnAccounts(w) \subseteq OwnAccounts(w)' /\ (Restored(w) => Restored(w)') /\ log \subseteq log'
      /\ Begun(w) \subseteq Begun(w)' /\ UNCHANGED <<bank, balance, included>>
  BY OwnGrows, RestoredGrows DEF OnlyGrows
<1>3. /\ None \notin Created /\ Payers \cap Created = {}
      /\ bank \in Payers \cup {None} /\ None \notin Payers
  BY PurseConstants DEF PurseTypes
<1>4. ASSUME GoesOn(w), FeesOK(w)', SpenderOK(w)', FundedOK(w)',
             \A i \in DOMAIN client'[w].rest : client'[w].rest[i] \in OwnAccounts(w)
      PROVE  OwnOK(w)'
  <2>1. UNCHANGED <<list, collector, created>> /\ client'[w].new = client[w].new
    BY <1>4 DEF GoesOn
  <2>2. ListsOK(w)'
    BY <1>1, <1>2, <1>4, <2>1 DEF ListsOK
  <2>3. KeptOK(w)'
    BY <1>1, <1>2, <2>1 DEF KeptOK
  <2>4. CollectedOK(w)'
    BY <1>1, <1>2, <2>1 DEF CollectedOK
  <2> QED
    BY <1>4, <2>2, <2>3, <2>4 DEF OwnOK
<1>5. CASE Fills(w) /\ FeesOK(w)'
  <2>1. /\ GoesOn(w) /\ client[w].stage \in Filling /\ client'[w].stage \in Filling
        /\ client'[w].call = client[w].call /\ client'[w].new = client[w].new
        /\ client'[w].tx.from = client[w].tx.from /\ client'[w].tx.to = client[w].tx.to
        /\ client'[w].tx.value = client[w].tx.value
        /\ client'[w].rest = client[w].rest /\ grants' = grants
        /\ mempool' = mempool \/ (mempool' = mempool \cup {client[w].tx} /\ client[w].stage = "send")
    BY <1>5 DEF Fills, GoesOn
  <2>2. client[w].call # None
    BY <1>1, <2>1 DEF SpenderOK, Filling
  <2>3. SpenderOK(w)'
    BY <1>1, <1>2, <2>1, <2>2 DEF SpenderOK, Filling, Asking
  <2>4. FundedOK(w)'
    <3>1. ASSUME NEW t \in mempool', t.to = client[w].new, client[w].new # None
          PROVE  t.value = client[w].call.amount
      <4>1. CASE t \in mempool
        BY <1>1, <3>1, <4>1 DEF FundedOK
      <4>2. CASE t = client[w].tx /\ client[w].stage = "send"
        BY <1>1, <3>1, <4>2 DEF SpenderOK, Filling
      <4> QED
        BY <2>1, <3>1, <4>1, <4>2
    <3>2. client'[w].stage \notin Asking
      BY <2>1 DEF Filling, Asking
    <3> QED
      BY <1>1, <1>2, <2>1, <3>1, <3>2 DEF FundedOK
  <2>5. \A i \in DOMAIN client'[w].rest : client'[w].rest[i] \in OwnAccounts(w)
    BY <1>1, <2>1 DEF ListsOK
  <2> QED
    BY <1>4, <1>5, <2>1, <2>3, <2>4, <2>5
<1>6. CASE AsksFaucet(w) /\ FeesOK(w)'
  <2>1. /\ GoesOn(w) /\ client[w].stage = "faucet" /\ client'[w].stage \in Asking
        /\ client'[w].call = client[w].call /\ client'[w].new = client[w].new
        /\ client'[w].before = client[w].before
        /\ client'[w].tx = client[w].tx /\ client'[w].rest = client[w].rest /\ mempool' = mempool
        /\ \A g \in grants' : g \in grants \/ g.amount = client[w].call.amount
    BY <1>6 DEF AsksFaucet, GoesOn
  <2>2. client[w].call # None /\ client[w].stage \in Asking
    BY <1>1, <2>1 DEF SpenderOK, Asking
  <2>3. SpenderOK(w)'
    BY <1>1, <1>2, <2>1, <2>2 DEF SpenderOK, Filling, Asking
  <2>4. FundedOK(w)'
    <3>1. ASSUME NEW g \in grants', g.to = client[w].new, client[w].new # None
          PROVE  g.amount = client[w].call.amount
      BY <1>1, <2>1, <3>1 DEF FundedOK
    <3> QED
      BY <1>1, <1>2, <2>1, <2>2, <3>1 DEF FundedOK
  <2>5. \A i \in DOMAIN client'[w].rest : client'[w].rest[i] \in OwnAccounts(w)
    BY <1>1, <2>1 DEF ListsOK
  <2> QED
    BY <1>4, <1>6, <2>1, <2>3, <2>4, <2>5
<1>7. CASE GivesBack(w) /\ FeesOK(w)'
  <2>1. /\ GoesOn(w) /\ client[w].call.op = "restore"
        /\ client'[w].call = client[w].call /\ client'[w].new = client[w].new
        /\ client[w].call # None
        /\ \/ /\ client'[w].stage = "restore" /\ client'[w].tx = client[w].tx
              /\ client'[w].rest = client[w].rest
           \/ /\ client[w].rest # <<>> /\ client'[w].rest = Tail(client[w].rest)
              /\ \/ client'[w].stage = "restore" /\ client'[w].tx = client[w].tx
                 \/ /\ client'[w].stage = "nonce"
                    /\ client'[w].tx.from = Head(client[w].rest) /\ client'[w].tx.to = bank
    BY <1>1, <1>7 DEF GivesBack, GoesOn, Busy, SpenderOK
  <2>2. client[w].new = None
    BY <1>1, <2>1 DEF SpenderOK, Creating
  <2>3. FundedOK(w)'
    BY <2>1, <2>2 DEF FundedOK
  <2>4. \A i \in DOMAIN client'[w].rest : client'[w].rest[i] \in OwnAccounts(w)
    <3>1. CASE client'[w].rest = client[w].rest
      BY <1>1, <3>1 DEF ListsOK
    <3>2. CASE client[w].rest # <<>> /\ client'[w].rest = Tail(client[w].rest)
      <4>1. \A i \in DOMAIN Tail(client[w].rest) :
              i + 1 \in DOMAIN client[w].rest /\ Tail(client[w].rest)[i] = client[w].rest[i + 1]
        BY <1>1, <3>2, OneLess
      <4> QED
        BY <1>1, <3>2, <4>1 DEF ListsOK
    <3> QED
      BY <2>1, <3>1, <3>2
  <2>5. SpenderOK(w)'
    <3>1. CASE client'[w].stage = "restore" /\ client'[w].tx = client[w].tx
      BY <1>1, <1>2, <2>1, <2>2, <3>1 DEF SpenderOK, Filling, Asking, Creating
    <3>2. CASE /\ client'[w].stage = "nonce" /\ client'[w].tx.from = Head(client[w].rest)
               /\ client'[w].tx.to = bank /\ client[w].rest # <<>>
      <4>1. client'[w].tx.from \in OwnAccounts(w) /\ client'[w].tx.from \in Created
        BY <1>1, <3>2, OneLess DEF ListsOK
      <4>2. client'[w].tx.from \in Addresses
        BY <4>1, PurseConstants
      <4>3. client'[w].tx.to \notin Created
        BY <1>3, <3>2
      <4> QED
        BY <1>1, <1>2, <2>1, <2>2, <3>2, <4>1, <4>2, <4>3
        DEF SpenderOK, Filling, Asking, Creating
    <3> QED
      BY <2>1, <3>1, <3>2
  <2> QED
    BY <1>4, <1>7, <2>1, <2>3, <2>4, <2>5
<1>8. ASSUME NEW how, EndsWith(w, how), KeptOK(w)', CollectedOK(w)',
             \A i \in DOMAIN list'[w] : list'[w][i] \in OwnAccounts(w),
             \A i \in DOMAIN collector'[w] : collector'[w][i] \in OwnAccounts(w)
      PROVE  OwnOK(w)'
  <2>1. /\ client'[w].stage = "idle" /\ client'[w].call = None /\ client'[w].new = None
        /\ client'[w].tx.to = None /\ client'[w].rest = <<>>
    BY <1>8, IdleSpender DEF EndsWith
  <2>2. SpenderOK(w)'
    BY <1>3, <2>1 DEF SpenderOK, Filling, Asking
  <2>3. FeesOK(w)' /\ FundedOK(w)'
    BY <2>1 DEF FeesOK, FundedOK
  <2>4. ListsOK(w)'
    BY <1>2, <1>8, <2>1 DEF ListsOK
  <2> QED
    BY <1>8, <2>2, <2>3, <2>4 DEF OwnOK
<1>9. CASE Stops(w)
  <2>1. PICK how \in Ends : /\ EndsWith(w, how) /\ collector' = collector
                            /\ list' \in {list, [list EXCEPT ![w] = <<>>]}
                            /\ how = "returned" => client[w].new = None
    BY <1>9 DEF Stops
  <2>2. list'[w] = list[w] \/ list'[w] = <<>>
    BY <2>1 DEF PurseTypes
  <2>3. KeptOK(w)'
    BY <1>1, <1>2, <2>2 DEF KeptOK
  <2>4. CollectedOK(w)'
    <3>1. PICK r \in log' : r.how = how /\ r.new = client[w].new
      BY <1>1, <2>1, EndsGrow
    <3>2. created' = created
      BY <2>1 DEF EndsWith
    <3>3. ASSUME NEW n \in 1..created[w]
          PROVE  <<w, n>> \in ToSet(collector[w]) \/ \E q \in log' : q.new = <<w, n>> /\ q.how # "returned"
      <4>1. CASE client[w].new = <<w, n>>
        <5>1. <<w, n>> # None
          <6>1. client[w].new \in OwnAccounts(w) \/ client[w].new = None
            BY <1>1 DEF SpenderOK
          <6>2. created[w] \in 0..MaxCreated
            BY DEF PurseTypes
          <6>3. n \in 1..MaxCreated
            BY <6>2, <3>3, PurseConstants
          <6> QED
            BY <6>3, <1>3, PurseConstants
        <5> QED
          BY <2>1, <3>1, <4>1, <5>1
      <4> QED
        BY <1>1, <1>2, <4>1 DEF CollectedOK
    <3> QED
      BY <2>1, <3>2, <3>3 DEF CollectedOK
  <2> QED
    BY <1>1, <1>8, <2>1, <2>2, <2>3, <2>4 DEF ListsOK
<1>10. CASE Finishing(w)
  <2>1. EndsWith(w, "returned") /\ HasMoney(w) /\ Collect(w) /\ created' = created
    BY <1>10 DEF Finishing, EndsWith
  <2>2. client[w].call \in Begun(w)'
    BY <1>1, <2>1, EndsGrow
  <2>3. /\ KeptOK(w)'
        /\ \A i \in DOMAIN list'[w] : list'[w][i] \in OwnAccounts(w)
        /\ \A i \in DOMAIN collector'[w] : collector'[w][i] \in OwnAccounts(w)
        /\ client[w].new \in ToSet(collector'[w])
        /\ ToSet(collector[w]) \subseteq ToSet(collector'[w])
    BY <1>1, <2>1, <2>2, CollectKeeps
  <2>4. CollectedOK(w)'
    BY <1>1, <1>2, <2>1, <2>3 DEF CollectedOK
  <2> QED
    BY <1>8, <2>1, <2>3, <2>4
<1>11. CASE Repeats(w) /\ FeesOK(w)'
  <2>1. /\ Creates(w, client[w].call) /\ HasMoney(w) /\ Collect(w)
        /\ client'[w].call = client[w].call /\ client'[w].new = <<w, created[w] + 1>>
        /\ created[w] < MaxCreated /\ created' = [created EXCEPT ![w] = @ + 1]
    BY <1>11 DEF Repeats, Creates
  <2>2. client[w].call \in Calls /\ client[w].call.op \in Creating /\ client[w].call # None
    BY <1>1, <2>1 DEF HasMoney, Busy, SpenderOK, Spenders
  <2>3. client[w].call \in Begun(w)'
    BY <2>1, <2>2, BegunIsNext
  <2>4. /\ KeptOK(w)'
        /\ \A i \in DOMAIN list'[w] : list'[w][i] \in OwnAccounts(w)
        /\ \A i \in DOMAIN collector'[w] : collector'[w][i] \in OwnAccounts(w)
        /\ client[w].new \in ToSet(collector'[w])
        /\ ToSet(collector[w]) \subseteq ToSet(collector'[w])
    BY <1>1, <2>1, <2>3, CollectKeeps
  <2>5. Busy(w)'
    BY <2>1 DEF Creates, Busy
  <2>6. /\ SpenderOK(w)' /\ FundedOK(w)'
        /\ \A i \in DOMAIN client'[w].rest : client'[w].rest[i] \in OwnAccounts(w)'
    BY <1>1, <2>1, <2>2, <2>5, CreatesKeeps
  <2>7. ListsOK(w)'
    BY <1>2, <2>4, <2>6 DEF ListsOK
  <2>8. CollectedOK(w)'
    <3>1. created'[w] = created[w] + 1 /\ created[w] \in Nat
      BY <2>1, CreatesGrow
    <3>2. ASSUME NEW n \in 1..(created[w] + 1)
          PROVE  \/ <<w, n>> \in ToSet(collector'[w])
                 \/ client'[w].new = <<w, n>>
                 \/ \E r \in log' : r.new = <<w, n>> /\ r.how # "returned"
      <4>1. CASE n = created[w] + 1
        BY <2>1, <4>1
      <4>2. CASE n \in 1..created[w]
        BY <1>1, <1>2, <2>4, <4>2 DEF CollectedOK
      <4> QED
        BY <3>1, <3>2, <4>1, <4>2
    <3> QED
      BY <3>1, <3>2 DEF CollectedOK
  <2> QED
    BY <1>11, <2>4, <2>6, <2>7, <2>8 DEF OwnOK
<1> QED
  BY <1>5, <1>6, <1>7, <1>9, <1>10, <1>11 DEF SpenderMove

LEMMA BeginKeeps ==
    ASSUME Prices, TestsAsk, PurseTypes, PurseTypes', Fresh, NEW w \in Workers,
           OwnOK(w), NEW c, Begins(w, c), OnlyGrows(w)
    PROVE  OwnOK(w)'
<1>1. /\ SpenderOK(w) /\ FeesOK(w) /\ ListsOK(w) /\ FundedOK(w) /\ KeptOK(w) /\ CollectedOK(w)
      /\ client[w] \in Spenders /\ collector[w] \in Seq(Created)
  BY DEF OwnOK, PurseTypes
<1>2. /\ OwnAccounts(w) \subseteq OwnAccounts(w)' /\ (Restored(w) => Restored(w)') /\ log \subseteq log'
      /\ Begun(w) \subseteq Begun(w)' /\ UNCHANGED <<bank, balance, included>>
  BY OwnGrows, RestoredGrows DEF OnlyGrows
<1>3. /\ None \notin Created /\ Payers \cap Created = {}
      /\ bank \in Payers \cup {None} /\ None \notin Payers
  BY PurseConstants DEF PurseTypes
<1>4. /\ client[w].call = None /\ client[w].new = None /\ c \in Calls /\ c # None
      /\ UNCHANGED <<mempool, grants, list>>
  BY CallIsOne DEF Begins
<1>5. KeptOK(w)'
  BY <1>1, <1>2, <1>4 DEF KeptOK
<1>6. ASSUME UNCHANGED <<collector, created, log>> PROVE CollectedOK(w)'
  <2>1. ASSUME NEW n \in 1..created[w] PROVE <<w, n>> # None
    <3>1. created[w] \in 0..MaxCreated
      BY DEF PurseTypes
    <3>2. n \in 1..MaxCreated
      BY <3>1, <2>1, PurseConstants
    <3> QED
      BY <1>3, <3>2, PurseConstants
  <2> QED
    BY <1>1, <1>4, <1>6, <2>1 DEF CollectedOK
<1>7. CASE Skips(w)
  <2>1. UNCHANGED <<client, collector, created, log>>
    BY <1>7 DEF Skips
  <2>2. SpenderOK(w)'
    BY <1>1, <1>2, <2>1 DEF SpenderOK
  <2>3. FeesOK(w)' /\ FundedOK(w)'
    BY <1>1, <1>2, <1>4, <2>1 DEF FeesOK, FundedOK
  <2>4. ListsOK(w)'
    BY <1>1, <1>2, <1>4, <2>1 DEF ListsOK
  <2> QED
    BY <1>5, <1>6, <2>1, <2>2, <2>3, <2>4 DEF OwnOK
<1>8. CASE CreatesEmpty(w)
  <2>1. /\ UNCHANGED <<client, log>> /\ created[w] < MaxCreated
        /\ created' = [created EXCEPT ![w] = @ + 1]
        /\ collector' = [collector EXCEPT ![w] = Append(@, <<w, created[w] + 1>>)]
    BY <1>8 DEF CreatesEmpty
  <2>2. /\ created'[w] = created[w] + 1 /\ created[w] \in Nat
        /\ <<w, created[w] + 1>> \in OwnAccounts(w)' /\ <<w, created[w] + 1>> \in Created
    BY <2>1, CreatesGrow
  <2>3. PICK a \in Created : a = <<w, created[w] + 1>>
    BY <2>2
  <2>4. collector'[w] = Append(collector[w], a)
    BY <2>1, <2>3 DEF PurseTypes
  <2>5. /\ \A i \in DOMAIN collector'[w] : \/ /\ i \in DOMAIN collector[w]
                                              /\ collector'[w][i] = collector[w][i]
                                           \/ collector'[w][i] = a
        /\ a \in ToSet(collector'[w])
        /\ ToSet(collector[w]) \subseteq ToSet(collector'[w])
    BY <1>1, <2>4, OneMore
  <2>6. SpenderOK(w)'
    BY <1>1, <1>2, <2>1 DEF SpenderOK
  <2>7. FeesOK(w)' /\ FundedOK(w)'
    BY <1>1, <1>2, <1>4, <2>1 DEF FeesOK, FundedOK
  <2>8. ListsOK(w)'
    <3>1. \A i \in DOMAIN collector'[w] : collector'[w][i] \in OwnAccounts(w)'
      BY <1>1, <1>2, <2>2, <2>3, <2>5 DEF ListsOK
    <3> QED
      BY <1>1, <1>2, <1>4, <2>1, <3>1 DEF ListsOK
  <2>9. CollectedOK(w)'
    <3>1. ASSUME NEW n \in 1..(created[w] + 1)
          PROVE  \/ <<w, n>> \in ToSet(collector'[w])
                 \/ client'[w].new = <<w, n>>
                 \/ \E r \in log' : r.new = <<w, n>> /\ r.how # "returned"
      <4>1. CASE n = created[w] + 1
        BY <2>3, <2>5, <4>1
      <4>2. CASE n \in 1..created[w]
        BY <1>1, <2>1, <2>5, <4>2 DEF CollectedOK
      <4> QED
        BY <2>2, <3>1, <4>1, <4>2
    <3> QED
      BY <2>2, <3>1 DEF CollectedOK
  <2> QED
    BY <1>5, <2>6, <2>7, <2>8, <2>9 DEF OwnOK
<1>9. CASE /\ Creates(w, c) /\ FeesOK(w)' /\ Busy(w)' /\ c.op \in Creating
           /\ UNCHANGED collector
  <2>1. /\ SpenderOK(w)' /\ FundedOK(w)'
        /\ \A i \in DOMAIN client'[w].rest : client'[w].rest[i] \in OwnAccounts(w)'
    BY <1>1, <1>4, <1>9, CreatesKeeps
  <2>2. ListsOK(w)'
    BY <1>1, <1>2, <1>4, <1>9, <2>1 DEF ListsOK
  <2>3. created'[w] = created[w] + 1 /\ created[w] \in Nat /\ log' = log
        /\ client'[w].new = <<w, created[w] + 1>>
    BY <1>9, CreatesGrow DEF Creates
  <2>4. CollectedOK(w)'
    <3>1. ASSUME NEW n \in 1..(created[w] + 1)
          PROVE  \/ <<w, n>> \in ToSet(collector'[w])
                 \/ client'[w].new = <<w, n>>
                 \/ \E r \in log' : r.new = <<w, n>> /\ r.how # "returned"
      <4>1. CASE n = created[w] + 1
        BY <2>3, <4>1
      <4>2. CASE n \in 1..created[w]
        <5>1. <<w, n>> # None
          <6>1. n \in 1..MaxCreated
            BY <1>9, <2>3, <4>2, PurseConstants DEF Creates
          <6> QED
            BY <1>3, <6>1, PurseConstants
        <5> QED
          BY <1>1, <1>4, <1>9, <2>3, <4>2, <5>1 DEF CollectedOK
      <4> QED
        BY <2>3, <3>1, <4>1, <4>2
    <3> QED
      BY <2>3, <3>1 DEF CollectedOK
  <2> QED
    BY <1>5, <1>9, <2>1, <2>2, <2>4 DEF OwnOK
<1>10. CASE Asks(w, c) /\ FeesOK(w)'
  <2>1. /\ client'[w].call = c /\ client'[w].new = None /\ c.op \notin Creating
        /\ client'[w].stage # "idle"
        /\ \/ /\ client'[w].stage \in Filling /\ client'[w].tx.from \in Payers
              /\ client'[w].tx.to \in Payers \cup {None} /\ client'[w].rest = client[w].rest
           \/ /\ c.op = "restore" /\ client'[w].stage = "restore" /\ client'[w].tx = client[w].tx
              /\ client'[w].rest = collector[w]
        /\ UNCHANGED <<collector, created, log>>
    BY <1>10 DEF Asks, Busy
  <2>2. SpenderOK(w)'
    <3>1. CASE /\ client'[w].stage \in Filling /\ client'[w].tx.from \in Payers
               /\ client'[w].tx.to \in Payers \cup {None}
      <4>1. /\ client'[w].tx.to \notin Created /\ client'[w].tx.from \notin Created
            /\ client'[w].tx.from \in Addresses
        BY <1>3, <3>1, PurseConstants
      <4> QED
        BY <1>4, <2>1, <3>1, <4>1 DEF SpenderOK, Filling, Asking
    <3>2. CASE c.op = "restore" /\ client'[w].stage = "restore" /\ client'[w].tx = client[w].tx
      <4>1. client[w].tx.to \notin Created
        BY <1>1, <1>3, <1>4 DEF SpenderOK
      <4> QED
        BY <1>4, <2>1, <3>2, <4>1 DEF SpenderOK, Filling, Asking
    <3> QED
      BY <2>1, <3>1, <3>2
  <2>3. FundedOK(w)'
    BY <2>1 DEF FundedOK
  <2>4. ListsOK(w)'
    BY <1>1, <1>2, <1>4, <2>1 DEF ListsOK
  <2>5. CollectedOK(w)'
    BY <1>6, <2>1
  <2> QED
    BY <1>5, <1>10, <2>2, <2>3, <2>4, <2>5 DEF OwnOK
<1> QED
  BY <1>7, <1>8, <1>9, <1>10 DEF Begins

-----------------------------------------------------------------------------
(***************************************************************************)
(* What the chain and the faucet do.                                       *)
(***************************************************************************)
ChainMoves ==
    /\ UNCHANGED <<bank, client, list, collector, created, left, log>>
    /\ mempool' \subseteq mempool /\ grants' \subseteq grants
    /\ \A m \in included' :
         \/ m \in included
         \/ /\ m.tx \in mempool
            /\ m.tx.to \in Created /\ ~Restored(m.tx.to[1]) => balance'[m.tx.to] >= m.tx.value
    /\ \A a \in Created : balance'[a] # balance[a] =>
         \/ \E t \in mempool : a \in {t.from, t.to}
         \/ \E g \in grants : g.to = a
    /\ \A a \in Created : ~Restored(a[1]) =>
         /\ balance'[a] >= balance[a]
         /\ \/ balance'[a] = balance[a]
            \/ \E t \in mempool : t.to = a /\ balance'[a] >= t.value
            \/ \E g \in grants : g.to = a /\ balance'[a] >= g.amount

LEMMA ChainKeeps ==
    ASSUME Prices, TestsAsk, PurseTypes, PurseTypes', PurseInv, ChainMoves
    PROVE  PurseInv'
<1>1. /\ UNCHANGED <<bank, client, list, collector, created, left, log>>
      /\ mempool' \subseteq mempool /\ grants' \subseteq grants
  BY DEF ChainMoves
<1>2. \A w : OwnAccounts(w)' = OwnAccounts(w) /\ Begun(w)' = Begun(w) /\ (Restored(w)' <=> Restored(w))
  BY <1>1 DEF OwnAccounts, Begun, Restored
<1>3. MempoolOK'
  BY <1>1, <1>2 DEF PurseInv, MempoolOK, Addresses, Lasting
<1>4. Fresh'
  <2> SUFFICES ASSUME NEW v \in Workers, NEW n \in 1..MaxCreated, n > created[v]
               PROVE  /\ balance'[<<v, n>>] = 0
                      /\ \A t \in mempool' : t.from # <<v, n>> /\ t.to # <<v, n>>
                      /\ \A m \in included' : m.tx.to # <<v, n>>
                      /\ \A g \in grants' : g.to # <<v, n>>
    BY <1>1 DEF Fresh
  <2>1. /\ balance[<<v, n>>] = 0
        /\ \A t \in mempool : t.from # <<v, n>> /\ t.to # <<v, n>>
        /\ \A m \in included : m.tx.to # <<v, n>>
        /\ \A g \in grants : g.to # <<v, n>>
    BY DEF PurseInv, Fresh
  <2>2. <<v, n>> \in Created
    BY PurseConstants
  <2>3. balance'[<<v, n>>] = balance[<<v, n>>]
    BY <2>1, <2>2 DEF ChainMoves
  <2>4. \A m \in included' : m \in included \/ m.tx \in mempool
    BY DEF ChainMoves
  <2> QED
    BY <1>1, <2>1, <2>3, <2>4
<1>5. ASSUME NEW w \in Workers
      PROVE  OwnOK(w)'
  <2>1. /\ SpenderOK(w) /\ FeesOK(w) /\ ListsOK(w) /\ FundedOK(w) /\ KeptOK(w) /\ CollectedOK(w)
    BY DEF PurseInv
  <2>2. SpenderOK(w)' /\ FeesOK(w)' /\ ListsOK(w)' /\ CollectedOK(w)'
    <3>1. SpenderOK(w)' /\ FeesOK(w)'
      BY <1>1, <1>2, <2>1 DEF SpenderOK, FeesOK, Addresses, Lasting
    <3>2. ListsOK(w)' /\ CollectedOK(w)'
      BY <1>1, <1>2, <2>1 DEF ListsOK, CollectedOK
    <3> QED
      BY <3>1, <3>2
  <2>3. FundedOK(w)'
    <3> DEFINE s == client[w]  a == client[w].new
    <3> SUFFICES ASSUME a # None
                 PROVE  /\ \A t \in mempool' : t.to = a => t.value = s.call.amount
                        /\ \A g \in grants' : g.to = a => g.amount = s.call.amount
                        /\ ~Restored(w) =>
                             /\ \A m \in included' : m.tx.to = a => balance'[a] >= s.call.amount
                             /\ s.stage \in Asking => \/ balance'[a] = 0
                                                      \/ balance'[a] >= s.call.amount
      BY <1>1, <1>2 DEF FundedOK
    <3>1. a \in Created /\ a[1] = w /\ a \in Addresses /\ s.call.amount \in Nat
      <4>1. s \in Spenders /\ s.call # None /\ s.call.op \in Creating /\ a \in OwnAccounts(w)
        BY <2>1 DEF PurseTypes, SpenderOK
      <4>2. \A b \in OwnAccounts(w) : b[1] = w
        BY DEF OwnAccounts
      <4>3. a \in Created /\ s.call \in Calls
        BY <4>1 DEF Spenders
      <4>4. a \in Addresses
        BY <4>3, PurseConstants
      <4> QED
        BY <4>1, <4>2, <4>3, <4>4, CallIsOne
    <3>2. /\ \A t \in mempool : t.to = a => t.value = s.call.amount
          /\ \A g \in grants : g.to = a => g.amount = s.call.amount
      BY <2>1 DEF FundedOK
    <3>3. ASSUME ~Restored(w)
          PROVE  /\ balance'[a] >= balance[a]
                 /\ balance'[a] = balance[a] \/ balance'[a] >= s.call.amount
      BY <3>1, <3>2, <3>3 DEF ChainMoves
    <3>4. PICK x \in Nat : x = balance[a]
      BY <3>1 DEF PurseTypes
    <3>5. PICK y \in Nat : y = balance'[a]
      BY <3>1 DEF PurseTypes
    <3>6. PICK n \in Nat : n = s.call.amount
      BY <3>1
    <3>7. ASSUME ~Restored(w), NEW m \in included', m.tx.to = a
          PROVE  y >= n
      <4>1. CASE m \in included
        <5>1. x >= n
          BY <2>1, <3>4, <3>6, <3>7, <4>1 DEF FundedOK
        <5>2. y >= x
          BY <3>3, <3>4, <3>5, <3>7
        <5> QED
          BY <5>1, <5>2
      <4>2. CASE m.tx \in mempool /\ balance'[a] >= m.tx.value
        BY <3>2, <3>5, <3>6, <3>7, <4>2
      <4> QED
        BY <3>1, <3>7, <4>1, <4>2 DEF ChainMoves
    <3>8. ASSUME ~Restored(w), s.stage \in Asking
          PROVE  y = 0 \/ y >= n
      <4>1. x = 0 \/ x >= n
        BY <2>1, <3>4, <3>6, <3>8 DEF FundedOK
      <4>2. y = x \/ y >= n
        BY <3>3, <3>4, <3>5, <3>6, <3>8
      <4> QED
        BY <4>1, <4>2
    <3> QED
      BY <1>1, <3>2, <3>5, <3>6, <3>7, <3>8
  <2>4. KeptOK(w)'
    <3> SUFFICES ASSUME ~Restored(w), NEW i \in DOMAIN list[w]
                 PROVE  \E c \in Begun(w) : c.op = "getitem" /\ balance'[list[w][i]] >= c.amount
      BY <1>1, <1>2 DEF KeptOK
    <3>1. PICK c \in Begun(w) : c.op = "getitem" /\ balance[list[w][i]] >= c.amount
      BY <2>1 DEF KeptOK
    <3>2. c.amount \in Nat
      <4>1. c \in Calls
        <5>1. (\E r \in log : r.by = w /\ r.call = c) \/ (c = client[w].call /\ c # None)
          BY BegunIs
        <5> QED
          BY <5>1 DEF PurseTypes, Spenders
      <4> QED
        BY <3>1, <4>1, CallIsOne DEF Creating
    <3>3. PICK a \in Created : a = list[w][i] /\ a[1] = w /\ a \in Addresses
      <4>1. list[w] \in Seq(Created) /\ list[w][i] \in OwnAccounts(w)
        BY <2>1 DEF PurseTypes, ListsOK
      <4>2. list[w][i] \in Created
        BY <4>1
      <4>3. \A b \in OwnAccounts(w) : b[1] = w
        BY DEF OwnAccounts
      <4> QED
        BY <4>1, <4>2, <4>3, PurseConstants
    <3>4. PICK x \in Nat : x = balance[a]
      BY <3>3 DEF PurseTypes
    <3>5. PICK y \in Nat : y = balance'[a]
      BY <3>3 DEF PurseTypes
    <3>6. y >= x
      BY <3>3, <3>4, <3>5 DEF ChainMoves
    <3>7. PICK n \in Nat : n = c.amount
      BY <3>2
    <3>8. x >= n
      BY <3>1, <3>3, <3>4, <3>7
    <3>9. y >= n
      BY <3>6, <3>8
    <3> QED
      BY <3>1, <3>3, <3>5, <3>7, <3>9
  <2> QED
    BY <2>2, <2>3, <2>4 DEF OwnOK
<1> QED
  BY <1>3, <1>4, <1>5 DEF PurseInv, OwnOK

LEMMA MineMoves ==
    ASSUME Prices, TestsAsk, PurseTypes, PurseInv, NEW t \in mempool, Mine(t)
    PROVE  /\ PurseTypes' /\ ChainMoves
           /\ \A a \in Created : a # t.from => balance'[a] >= balance[a]
<1>1. /\ t \in TxRecords /\ balance \in [Addresses -> Nat]
      /\ nonce \in [Addresses -> Nat] /\ t.from \in Addresses
      /\ t.from \in Created => Restored(t.from[1])
  BY DEF PurseTypes, PurseInv, MempoolOK
<1>2. PICK p \in Int : p = Price(t)
  BY <1>1, PriceIsInt
<1>3. PICK b \in Nat : b = balance[t.from]
  BY <1>1
<1>4. PICK v \in Nat : v = t.value
  BY <1>1 DEF TxRecords
<1>5. PICK x \in Nat : x = b - v - p
  <2>1. b >= v + p
    BY <1>2, <1>3, <1>4 DEF Mine
  <2> QED
    BY <2>1
<1>6. PICK half \in [Addresses -> Nat] : half = [balance EXCEPT ![t.from] = x]
  BY <1>1
<1>7. balance' = [half EXCEPT ![t.to] = @ + v]
  <2>1. balance' = [[balance EXCEPT ![t.from] = @ - t.value - Price(t)] EXCEPT ![t.to] = @ + t.value]
    BY DEF Mine
  <2>2. balance[t.from] - t.value - Price(t) = x
    BY <1>2, <1>3, <1>4, <1>5
  <2>3. [balance EXCEPT ![t.from] = @ - t.value - Price(t)] = half
    BY <1>1, <1>6, <2>2
  <2> QED
    BY <1>4, <2>1, <2>3
<1>8. /\ balance' \in [Addresses -> Nat]
      /\ \A a \in Addresses : a # t.to => balance'[a] = half[a]
      /\ t.to \in Addresses => balance'[t.to] = half[t.to] + v
  <2>1. CASE t.to \in Addresses
    <3>1. PICK y \in Nat : y = half[t.to] + v
      BY <2>1
    <3>2. balance' = [half EXCEPT ![t.to] = y]
      BY <1>7, <3>1
    <3> QED
      BY <2>1, <3>1, <3>2
  <2>2. CASE t.to \notin Addresses
    <3>1. balance' = half
      BY <1>7, <2>2
    <3> QED
      BY <2>2, <3>1
  <2> QED
    BY <2>1, <2>2
<1>9. \A a \in Addresses : a # t.from => half[a] = balance[a]
  BY <1>1, <1>6
<1>10. nonce' \in [Addresses -> Nat]
  <2>1. PICK n \in Nat : n = nonce[t.from] + 1
    BY <1>1
  <2>2. nonce' = [nonce EXCEPT ![t.from] = n]
    BY <1>1, <2>1 DEF Mine
  <2> QED
    BY <1>1, <2>2
<1>11. PICK m : m = [tx |-> t, price |-> p]
  OBVIOUS
<1>12. /\ m \in [tx : TxRecords, price : Int] /\ m.tx = t
       /\ included' = included \cup {m}
  BY <1>1, <1>2, <1>11 DEF Mine
<1>13. /\ mempool' = mempool \ {t}
       /\ UNCHANGED <<bank, fee, grants, client, list, collector, created, left, log>>
  BY DEF Mine
<1>14. PurseTypes'
  <2>1. mempool' \subseteq TxRecords /\ IsFiniteSet(mempool')
    <3>1. mempool' \subseteq mempool
      BY <1>13
    <3> QED
      BY <3>1, FS_Subset DEF PurseTypes
  <2>2. included' \subseteq [tx : TxRecords, price : Int]
    BY <1>12 DEF PurseTypes
  <2> QED
    BY <1>8, <1>10, <1>13, <2>1, <2>2 DEF PurseTypes
<1>15. \A a \in Created : a \in Addresses
  BY PurseConstants
<1>16. ASSUME NEW a \in Created, ~Restored(a[1])
       PROVE  /\ a # t.from
              /\ a # t.to => balance'[a] = balance[a]
              /\ a = t.to => balance'[a] >= balance[a] /\ balance'[a] >= t.value
  <2>1. a # t.from /\ a \in Addresses
    BY <1>1, <1>15, <1>16
  <2>2. PICK y \in Nat : y = balance[a]
    BY <1>1, <2>1
  <2>3. half[a] = y
    BY <1>9, <2>1, <2>2
  <2>4. a = t.to => balance'[a] = y + v
    BY <1>8, <2>1, <2>3
  <2> QED
    BY <1>4, <1>8, <2>1, <2>2, <2>3, <2>4
<1>17. ASSUME NEW a \in Created, balance'[a] # balance[a]
       PROVE  a \in {t.from, t.to}
  BY <1>8, <1>9, <1>15, <1>17
<1>18. ASSUME NEW q \in included', q \notin included
       PROVE  /\ q.tx \in mempool
              /\ q.tx.to \in Created /\ ~Restored(q.tx.to[1]) => balance'[q.tx.to] >= q.tx.value
  <2>1. q.tx = t
    BY <1>12, <1>18
  <2> QED
    BY <1>16, <2>1
<1>19. ASSUME NEW a \in Created, ~Restored(a[1])
       PROVE  /\ balance'[a] >= balance[a]
              /\ \/ balance'[a] = balance[a]
                 \/ \E u \in mempool : u.to = a /\ balance'[a] >= u.value
  <2>1. PICK y \in Nat : y = balance[a]
    BY <1>1, <1>15
  <2> QED
    BY <1>16, <1>19, <2>1
<1>20. ASSUME NEW a \in Created, a # t.from
       PROVE  balance'[a] >= balance[a]
  <2>1. PICK y \in Nat : y = balance[a] /\ y = half[a]
    BY <1>1, <1>9, <1>15, <1>20
  <2>2. balance'[a] = y \/ balance'[a] = y + v
    BY <1>8, <1>15, <2>1
  <2> QED
    BY <2>1, <2>2
<1> QED
  BY <1>13, <1>14, <1>17, <1>18, <1>19, <1>20 DEF ChainMoves

LEMMA PayMoves ==
    ASSUME Prices, TestsAsk, PurseTypes, NEW g \in grants, Pay(g)
    PROVE  PurseTypes' /\ ChainMoves /\ \A a \in Created : balance'[a] >= balance[a]
<1>1. /\ balance \in [Addresses -> Nat] /\ g.to \in Created /\ g.amount \in Nat
      /\ \A a \in Created : a \in Addresses
  BY PurseConstants DEF PurseTypes
<1>2. PICK x \in Nat : x = balance[g.to] + g.amount
  BY <1>1
<1>3. /\ balance' \in {balance, [balance EXCEPT ![g.to] = x]} /\ grants' = grants \ {g}
      /\ UNCHANGED <<bank, nonce, mempool, fee, included, client, list, collector, created, left, log>>
  BY <1>1, <1>2 DEF Pay
<1>4. /\ balance' \in [Addresses -> Nat]
      /\ \A a \in Addresses : balance'[a] = balance[a] \/ (a = g.to /\ balance'[a] = x)
  BY <1>1, <1>3
<1>5. PurseTypes'
  BY <1>3, <1>4 DEF PurseTypes
<1>6. x >= balance[g.to] /\ x >= g.amount
  <2>1. PICK y \in Nat : y = balance[g.to]
    BY <1>1
  <2>2. PICK n \in Nat : n = g.amount
    BY <1>1
  <2> QED
    BY <1>2, <2>1, <2>2
<1>7. \A a \in Addresses : balance[a] >= balance[a]
  BY <1>1
<1>8. ASSUME NEW a \in Created
      PROVE  /\ balance'[a] >= balance[a]
             /\ balance'[a] = balance[a] \/ (g.to = a /\ balance'[a] >= g.amount)
  BY <1>1, <1>4, <1>6, <1>7
<1> QED
  BY <1>3, <1>5, <1>8 DEF ChainMoves

LEMMA QuietMoves ==
    ASSUME Prices, TestsAsk, PurseTypes,
           BaseFeeGrows \/ \E t \in mempool : Drop(t)
    PROVE  PurseTypes' /\ ChainMoves /\ \A a \in Created : balance'[a] >= balance[a]
<1>1. /\ UNCHANGED <<bank, balance, nonce, grants, included, client, list, collector, created, left, log>>
      /\ mempool' \subseteq mempool
  BY DEF BaseFeeGrows, Drop
<1>2. fee' \in 1..Len(BaseFees)
  <2>1. PICK n \in Nat : n = Len(BaseFees)
    BY PurseConstants
  <2>2. PICK f \in 1..n : f = fee
    BY <2>1 DEF PurseTypes
  <2>3. fee' = f \/ (f < n /\ fee' = f + 1)
    BY <2>1, <2>2 DEF BaseFeeGrows, Drop
  <2> QED
    BY <2>1, <2>2, <2>3
<1>3. IsFiniteSet(mempool') /\ mempool' \subseteq TxRecords
  BY <1>1, FS_Subset DEF PurseTypes
<1>4. PurseTypes'
  BY <1>1, <1>2, <1>3 DEF PurseTypes
<1>5. \A a \in Created : balance[a] >= balance[a]
  <2>1. \A a \in Created : balance[a] \in Nat
    BY PurseConstants DEF PurseTypes
  <2> QED
    BY <2>1
<1> QED
  BY <1>1, <1>4, <1>5 DEF ChainMoves

-----------------------------------------------------------------------------
LEMMA PurseInit ==
    ASSUME Prices, TestsAsk
    PROVE  FundingInit => PurseInv
<1> SUFFICES ASSUME FundingInit PROVE PurseInv
  OBVIOUS
<1>1. /\ balance = [a \in Addresses |-> IF a \in Payers THEN Money ELSE 0]
      /\ nonce = [a \in Addresses |-> 0] /\ mempool = {} /\ fee = 1 /\ grants = {}
      /\ client = [w \in Workers |-> Idle]
      /\ list = [w \in Workers |-> <<>>] /\ collector = [w \in Workers |-> <<>>]
      /\ created = [w \in Workers |-> 0] /\ included = {} /\ log = {}
  BY DEF FundingInit
<1>2. left \in [Workers -> SUBSET Calls] /\ bank \in Payers \cup {None}
  <2>1. PICK p \in Programs : left = p.calls /\ bank = p.bank
    BY DEF FundingInit
  <2>2. p \in [bank : Payers \cup {None}, calls : [Workers -> SUBSET Calls]]
    BY DEF TestsAsk
  <2> QED
    BY <2>1, <2>2
<1>3. PICK zero \in Nat : zero = 0
  OBVIOUS
<1>4. Money \in Nat /\ zero \in 0..MaxCreated
  BY <1>3, PurseConstants
<1>5. /\ balance \in [Addresses -> Nat] /\ nonce \in [Addresses -> Nat]
      /\ created \in [Workers -> 0..MaxCreated]
  BY <1>1, <1>3, <1>4
<1>6. /\ list \in [Workers -> Seq(Created)] /\ collector \in [Workers -> Seq(Created)]
  <2>1. <<>> \in Seq(Created)
    OBVIOUS
  <2> QED
    BY <1>1, <2>1
<1>7. client \in [Workers -> Spenders]
  BY <1>1, IdleSpender
<1>8. PurseTypes
  BY <1>1, <1>2, <1>5, <1>6, <1>7, FS_EmptySet, PurseConstants DEF PurseTypes
<1>9. MempoolOK
  BY <1>1 DEF MempoolOK
<1>10. Fresh
  <2>1. ASSUME NEW w \in Workers, NEW n \in 1..MaxCreated PROVE balance[<<w, n>>] = 0
    BY <1>1, PurseConstants
  <2> QED
    BY <1>1, <2>1 DEF Fresh
<1>11. ASSUME NEW w \in Workers
       PROVE  OwnOK(w)
  <2>1. /\ client[w].stage = "idle" /\ client[w].call = None /\ client[w].new = None
        /\ client[w].tx.to = None /\ client[w].rest = <<>> /\ list[w] = <<>>
        /\ collector[w] = <<>> /\ created[w] = 0
    BY <1>1, IdleSpender
  <2>2. None \notin Created
    BY PurseConstants
  <2>3. SpenderOK(w)
    BY <2>1, <2>2 DEF SpenderOK, Filling, Asking
  <2>4. FeesOK(w) /\ ListsOK(w) /\ FundedOK(w)
    BY <2>1 DEF FeesOK, ListsOK, FundedOK
  <2>5. KeptOK(w) /\ CollectedOK(w)
    BY <2>1 DEF KeptOK, CollectedOK
  <2> QED
    BY <2>3, <2>4, <2>5 DEF OwnOK
<1> QED
  BY <1>8, <1>9, <1>10, <1>11 DEF PurseInv, OwnOK

LEMMA PurseKeeps ==
    ASSUME Prices, TestsAsk, PurseInv, [FundingNext]_fundingVars
    PROVE  PurseInv'
<1>1. /\ PurseTypes /\ MempoolOK /\ Fresh /\ \A w \in Workers : OwnOK(w)
  BY DEF PurseInv, OwnOK
<1>2. ASSUME NEW w \in Workers, PurseTypes', OnlyGrows(w), OwnOK(w)'
      PROVE  PurseInv'
  <2>1. SpenderOK(w) /\ FeesOK(w)
    BY <1>1 DEF OwnOK
  <2>2. MempoolOK' /\ Fresh'
    BY <1>1, <1>2, <2>1, MempoolKeeps, FreshKeeps
  <2>3. ASSUME NEW v \in Workers PROVE OwnOK(v)'
    <3>1. CASE v = w
      BY <1>2, <3>1
    <3>2. CASE v # w
      BY <1>1, <1>2, <3>2, OthersKeep DEF OwnOK
    <3> QED
      BY <3>1, <3>2
  <2> QED
    BY <1>2, <2>2, <2>3 DEF PurseInv, OwnOK
<1>3. CASE \E w \in Workers : ClientStep(w)
  <2>1. PICK w \in Workers : ClientStep(w)
    BY <1>3
  <2>2. SpenderOK(w) /\ FeesOK(w) /\ ListsOK(w)
    BY <1>1 DEF OwnOK
  <2>3. SpenderMove(w)
    BY <1>1, <2>1, <2>2, SpenderMoves
  <2>4. PurseTypes' /\ OnlyGrows(w)
    BY <1>1, <2>2, <2>3, SpenderGrows
  <2>5. OwnOK(w)'
    BY <1>1, <2>3, <2>4, SpenderKeeps
  <2> QED
    BY <1>2, <2>4, <2>5
<1>4. CASE \E w \in Workers : \E c \in left[w] : Start(w, c)
  <2>w. PICK w \in Workers : \E c \in left[w] : Start(w, c)
    BY <1>4
  <2>1. PICK c \in left[w] : Start(w, c)
    BY <2>w
  <2>2. SpenderOK(w) /\ FeesOK(w) /\ ListsOK(w)
    BY <1>1 DEF OwnOK
  <2>3. Begins(w, c)
    BY <1>1, <2>1, <2>2, StartMoves
  <2>4. PurseTypes' /\ OnlyGrows(w)
    BY <1>1, <2>2, <2>3, BeginGrows
  <2>5. OwnOK(w)'
    BY <1>1, <2>3, <2>4, BeginKeeps
  <2> QED
    BY <1>2, <2>4, <2>5
<1>5. CASE \E t \in mempool : Mine(t)
  BY <1>1, <1>5, MineMoves, ChainKeeps
<1>6. CASE BaseFeeGrows \/ \E t \in mempool : Drop(t)
  BY <1>1, <1>6, QuietMoves, ChainKeeps
<1>7. CASE \E g \in grants : Pay(g)
  BY <1>1, <1>7, PayMoves, ChainKeeps
<1>8. CASE UNCHANGED fundingVars
  <2>1. UNCHANGED <<bank, balance, nonce, mempool, fee, grants, included, client, list, collector,
                    created, left, log>>
    BY <1>8 DEF fundingVars, chain
  <2>2. PurseTypes'
    BY <1>1, <2>1 DEF PurseTypes
  <2>3. ChainMoves
    <3>1. \A a \in Created : balance[a] \in Nat
      BY <1>1, PurseConstants DEF PurseTypes
    <3>2. \A a \in Created : balance[a] >= balance[a]
      BY <3>1
    <3> QED
      BY <2>1, <3>2 DEF ChainMoves
  <2> QED
    BY <1>1, <2>2, <2>3, ChainKeeps
<1> QED
  BY <1>3, <1>4, <1>5, <1>6, <1>7, <1>8 DEF FundingNext

(***************************************************************************)
(* A new account that the tests may use has the money it was created with, *)
(* until its worker gives it back, for any workers, calls and amounts      *)
(* (create_account_with_balance, EthAccounts).                             *)
(***************************************************************************)
THEOREM AccountsHaveMoney == FundingSpec => []AccountsAreFunded
<1> USE PricesAreNat, CallsAreCalls
<1>1. FundingInit => PurseInv
  BY PurseInit
<1>2. PurseInv /\ [FundingNext]_fundingVars => PurseInv'
  BY PurseKeeps
<1>3. PurseInv => AccountsAreFunded
  BY DEF PurseInv, KeptOK, Restored, AccountsAreFunded
<1> QED
  BY <1>1, <1>2, <1>3, PTL DEF FundingSpec

(***************************************************************************)
(* Money is not lost sight of: an account that got some is collected, or   *)
(* its creation raised or still runs (EthAccounts.accounts_collector).     *)
(***************************************************************************)
THEOREM AllMoneyIsKnown == FundingSpec => []MoneyIsCollected
<1> USE PricesAreNat, CallsAreCalls
<1>1. FundingInit => PurseInv
  BY PurseInit
<1>2. PurseInv /\ [FundingNext]_fundingVars => PurseInv'
  BY PurseKeeps
<1>3. PurseInv => MoneyIsCollected
  <2> SUFFICES ASSUME PurseInv, NEW w \in Workers, NEW n \in 1..MaxCreated, balance[<<w, n>>] > 0
               PROVE  \/ <<w, n>> \in ToSet(collector[w])
                      \/ client[w].new = <<w, n>>
                      \/ \E r \in log : r.new = <<w, n>> /\ r.how # "returned"
    BY DEF MoneyIsCollected
  <2>1. ~(n > created[w])
    BY DEF PurseInv, Fresh
  <2>2. created[w] \in 0..MaxCreated /\ MaxCreated \in Nat
    BY PurseConstants DEF PurseInv, PurseTypes
  <2>3. n \in 1..created[w]
    BY <2>1, <2>2
  <2> QED
    BY <2>3 DEF PurseInv, CollectedOK
<1> QED
  BY <1>1, <1>2, <1>3, PTL DEF FundingSpec

(***************************************************************************)
(* A transaction whose fees were left to the client can be mined although  *)
(* the base fee grew by a tenth after it was asked for, for any base fees  *)
(* and any tip (make_raw_tx_eip_1559, gas_price_to_eip1559_params).        *)
(***************************************************************************)
THEOREM FeesAreEnough == FundingSpec => []FeesLast
<1> USE PricesAreNat, CallsAreCalls
<1>1. FundingInit => PurseInv
  BY PurseInit
<1>2. PurseInv /\ [FundingNext]_fundingVars => PurseInv'
  BY PurseKeeps
<1>3. PurseInv => FeesLast
  <2> SUFFICES ASSUME PurseInv, NEW t \in mempool, t.type \in {"1559", "filled"}, t.given = None,
                      BaseFee * 10 <= t.base * 11
               PROVE  t.max >= BaseFee
    BY DEF FeesLast
  <2>1. PICK f \in Nat : f = BaseFee
    BY BaseFeeIsNat DEF PurseInv
  <2>2. PICK b \in Nat : b = t.base
    BY DEF PurseInv, MempoolOK, Lasting
  <2>3. PICK p \in Nat : p = Tip
    BY PurseConstants
  <2>4. t.max = (11 * b) \div 10 + p \/ t.max = 2 * b + p
    BY <2>2, <2>3 DEF PurseInv, MempoolOK, Lasting, MaxFee, FilledFee
  <2>5. f * 10 <= b * 11
    BY <2>1, <2>2
  <2>6. (11 * b) \div 10 + p >= f
    BY <2>5
  <2>7. 2 * b + p >= f
    BY <2>5
  <2> QED
    BY <2>1, <2>4, <2>6, <2>7
<1> QED
  BY <1>1, <1>2, <1>3, PTL DEF FundingSpec

-----------------------------------------------------------------------------
(***************************************************************************)
(* Nonces, and the money that is given back: why a transaction is refused. *)
(***************************************************************************)
\* A worker has asked for the nonce of the transaction that it puts together.
HasNonce(w) ==
    \/ client[w].stage \in {"price", "send"}
    \/ client[w].stage = "base" /\ client[w].tx.nonce # -1

\* Another worker uses the account that pays for a call.
Contended(w, c) == \E v \in Workers \ {w} : \E d \in Begun(v) : Payer(d) = Payer(c)

\* A worker did not wait until money was given back.
GaveUp(w) == \E q \in log : q.by = w /\ q.call.op = "restore" /\ q.how = "timeout"

NoncesDiffer == \A p, q \in mempool : p.from = q.from /\ p.nonce = q.nonce => p = q

Ahead == \A t \in mempool : t.nonce >= nonce[t.from]

Behind == \A m \in included : m.tx.from \in Addresses /\ m.tx.nonce < nonce[m.tx.from]

\* Only one transaction gives money of an account back, unless nobody waited for one.
GivenBack ==
    \A t \in mempool : t.from \in Created =>
      \/ GaveUp(t.from[1])
      \/ client[t.from[1]].stage = "receipt" /\ client[t.from[1]].tx = t

PaysItself(w) ==
    client[w].stage \in Filling =>
      /\ client[w].tx.from \in Payers => client[w].tx.from = Payer(client[w].call)
      /\ client[w].call.op = "restore" => client[w].tx.from \in Created

\* The nonce is still free when the transaction is sent.
NonceIsFree(w) ==
    LET t == client[w].tx IN
    HasNonce(w) =>
      \/ Contended(w, client[w].call)
      \/ /\ nonce[t.from] <= t.nonce
         /\ \A p \in mempool : p.from = t.from => p.nonce # t.nonce

\* What is given back is there.
IsSolvent(w) ==
    LET s == client[w]  t == s.tx IN
    s.stage \in {"base", "nonce", "price", "send"} /\ s.call.op = "restore" =>
      \/ GaveUp(w)
      \/ /\ t.type = "legacy" /\ t.value + (11 * GasPrice) \div 10 <= balance[t.from]
         /\ s.stage = "send" => t.max = GasPrice

HasCause(r) ==
    /\ r.how = "refused" => Contended(r.by, r.call)
    /\ r.how = "poor" /\ r.call.op = "restore" => GaveUp(r.by)

NonceInv ==
    /\ NoncesDiffer /\ Ahead /\ Behind /\ GivenBack
    /\ \A w \in Workers : PaysItself(w) /\ NonceIsFree(w) /\ IsSolvent(w)
    /\ \A r \in log : HasCause(r)

\* get_nonce: the next nonce that no pending transaction has.
LEMMA PendingNonceIsFree ==
    ASSUME PurseTypes, NoncesDiffer, NEW a \in Addresses
    PROVE  /\ nonce[a] <= PendingNonce(a)
           /\ \A p \in mempool : p.from = a => p.nonce # PendingNonce(a)
<1> DEFINE Has(k) == \E p \in mempool : p.from = a /\ p.nonce = k
           next == {t \in mempool : /\ t.from = a /\ t.nonce >= nonce[a]
                                    /\ \A k \in nonce[a]..t.nonce : Has(k)}
<1>1. IsFiniteSet(mempool) /\ nonce[a] \in Nat /\ \A t \in mempool : t.nonce \in Int
  BY DEF PurseTypes, TxRecords
<1>2. PICK b \in Nat : b = nonce[a]
  BY <1>1
<1>3. /\ next \subseteq mempool
      /\ \A t \in mempool : t \in next <=> /\ t.from = a /\ t.nonce >= b
                                           /\ \A k \in b..t.nonce : Has(k)
  BY <1>2
<1>4. PendingNonce(a) = nonce[a] + Cardinality(next)
  BY PurseCardinality DEF PendingNonce
<1> HIDE DEF next, Has
<1>5. IsFiniteSet(next) /\ Cardinality(next) \in Nat
  BY <1>1, <1>3, FS_Subset, FS_CardinalityType
<1>6. PICK n \in Nat : n = Cardinality(next)
  BY <1>5
<1>7. PICK m \in Nat : m = b + n
  BY <1>2, <1>6
<1>8. PendingNonce(a) = m
  BY <1>2, <1>4, <1>6, <1>7
<1>9. ~Has(m)
  <2> SUFFICES ASSUME Has(m) PROVE FALSE
    OBVIOUS
  <2>1. CASE \A k \in b..m : Has(k)
    <3>1. \A k \in b..m : \E p \in mempool : p.from = a /\ p.nonce = k
      BY <2>1 DEF Has
    <3> DEFINE who == [k \in b..m |-> CHOOSE p \in mempool : p.from = a /\ p.nonce = k]
    <3>2. \A k \in b..m : who[k] \in mempool /\ who[k].from = a /\ who[k].nonce = k
      BY <3>1
    <3>3. \A k \in b..m : who[k] \in next
      <4> SUFFICES ASSUME NEW k \in b..m PROVE who[k] \in next
        OBVIOUS
      <4>1. who[k] \in mempool /\ who[k].from = a /\ who[k].nonce = k
        BY <3>2
      <4>2. k >= b /\ \A i \in b..k : i \in b..m
        BY <1>2, <1>7
      <4> HIDE DEF who
      <4> QED
        BY <1>3, <2>1, <4>1, <4>2
    <3>4. who \in [b..m -> next]
      BY <3>3
    <3>5. \A i, k \in b..m : who[i] = who[k] => i = k
      <4> HIDE DEF who
      <4> QED
        BY <3>2
    <3> HIDE DEF who
    <3>6. who \in Injection(b..m, next)
      BY <3>4, <3>5 DEF Injection, IsInjective
    <3>7. Cardinality(b..m) <= n
      BY <1>5, <1>6, <3>6, FS_Injection
    <3>8. Cardinality(b..m) = m - b + 1
      BY <1>2, <1>7, FS_Interval
    <3> QED
      BY <1>2, <1>6, <1>7, <3>7, <3>8
  <2>2. CASE ~(\A k \in b..m : Has(k))
    <3>1. PICK k \in b..m : ~Has(k)
      BY <2>2
    <3> DEFINE its == [t \in next |-> t.nonce]
    <3>2. \A t \in next : t.nonce \in b..(k - 1)
      <4> SUFFICES ASSUME NEW t \in next PROVE t.nonce \in b..(k - 1)
        OBVIOUS
      <4>1. t \in mempool /\ t.nonce >= b /\ \A i \in b..t.nonce : Has(i)
        BY <1>3
      <4>2. PICK x \in Int : x = t.nonce
        BY <1>1, <4>1
      <4>3. ~(k \in b..x)
        BY <3>1, <4>1, <4>2
      <4> QED
        BY <4>1, <4>2, <4>3
    <3>3. its \in [next -> b..(k - 1)]
      BY <3>2
    <3>4. \A t, u \in next : its[t] = its[u] => t = u
      BY <1>3 DEF NoncesDiffer
    <3> HIDE DEF its
    <3>5. its \in Injection(next, b..(k - 1))
      BY <3>3, <3>4 DEF Injection, IsInjective
    <3>6. PICK j \in Int : j = k - 1
      OBVIOUS
    <3>7. IsFiniteSet(b..j) /\ Cardinality(b..j) = IF b > j THEN 0 ELSE j - b + 1
      BY FS_Interval
    <3>8. n <= Cardinality(b..j)
      BY <1>6, <3>5, <3>6, <3>7, FS_Injection
    <3>9. k = m
      BY <1>2, <1>6, <1>7, <3>6, <3>7, <3>8
    <3> QED
      BY <3>1, <3>9
  <2> QED
    BY <2>1, <2>2
<1> QED
  BY <1>2, <1>7, <1>8, <1>9 DEF Has

\* What is paid is at most the fee that is left for it.
LEMMA FeeIsLeft ==
    ASSUME Prices, TestsAsk
    PROVE  (11 * GasPrice) \div 10 \in Nat /\ GasPrice <= (11 * GasPrice) \div 10
<1>1. PICK g \in Nat : g = GasPrice
  BY PurseConstants
<1>2. (11 * g) \div 10 \in Nat /\ g <= (11 * g) \div 10
  OBVIOUS
<1> QED
  BY <1>1, <1>2

\* The account of a worker is known by the worker's name.
LEMMA CreatedBy ==
    ASSUME NEW w \in Workers, NEW a \in OwnAccounts(w)
    PROVE  a[1] = w
BY DEF OwnAccounts

\* Causes last.
LEMMA CausesLast ==
    ASSUME log \subseteq log', bank' = bank, \A v \in Workers : Begun(v) \subseteq Begun(v)'
    PROVE  /\ \A w, c : Contended(w, c) => Contended(w, c)'
           /\ \A w : GaveUp(w) => GaveUp(w)'
           /\ \A r : HasCause(r) => HasCause(r)'
<1>1. \A c : Payer(c)' = Payer(c)
  BY DEF Payer
<1>2. ASSUME NEW w, NEW c, Contended(w, c) PROVE Contended(w, c)'
  <2>1. PICK v \in Workers \ {w} : \E d \in Begun(v) : Payer(d) = Payer(c)
    BY <1>2 DEF Contended
  <2>2. PICK d \in Begun(v) : Payer(d) = Payer(c)
    BY <2>1
  <2>3. d \in Begun(v)' /\ Payer(d)' = Payer(c)'
    BY <1>1, <2>1, <2>2
  <2> QED
    BY <2>1, <2>3 DEF Contended
<1>3. ASSUME NEW w, GaveUp(w) PROVE GaveUp(w)'
  BY <1>3 DEF GaveUp
<1>4. ASSUME NEW r, HasCause(r) PROVE HasCause(r)'
  BY <1>2, <1>3, <1>4 DEF HasCause
<1> QED
  BY <1>2, <1>3, <1>4

\* A worker takes a step: what has to be shown of the worker itself.
LEMMA NonceStep ==
    ASSUME Prices, TestsAsk, PurseInv, NonceInv, NEW w \in Workers, OnlyGrows(w),
           PaysItself(w)', NonceIsFree(w)', IsSolvent(w)',
           \/ mempool' = mempool
           \/ /\ client[w].stage = "send" /\ client'[w].stage = "receipt"
              /\ client'[w].tx = client[w].tx /\ mempool' = mempool \cup {client[w].tx}
              /\ ~Refused(client[w].tx),
           HasMined(w) \/ client[w].tx.from \notin Created \/ GaveUp(w)',
           \A r \in log' : r \in log \/ HasCause(r)'
    PROVE  NonceInv'
<1>1. /\ UNCHANGED <<bank, balance, nonce, included>> /\ log \subseteq log'
      /\ \A v \in Workers \ {w} : client'[v] = client[v]
      /\ \A v \in Workers : Begun(v) \subseteq Begun(v)'
  BY DEF OnlyGrows
<1>2. /\ \A v, c : Contended(v, c) => Contended(v, c)'
      /\ \A v : GaveUp(v) => GaveUp(v)'
      /\ \A r : HasCause(r) => HasCause(r)'
      /\ \A c : Payer(c)' = Payer(c)
  BY <1>1, CausesLast DEF Payer
<1>3. /\ NoncesDiffer /\ Ahead /\ Behind /\ GivenBack
      /\ \A v \in Workers : PaysItself(v) /\ NonceIsFree(v) /\ IsSolvent(v) /\ SpenderOK(v)
      /\ \A r \in log : HasCause(r)
      /\ PurseTypes
  BY DEF NonceInv, PurseInv
<1>4. /\ nonce \in [Addresses -> Nat] /\ mempool \subseteq TxRecords
      /\ \A v \in Workers : client[v] \in Spenders /\ client[v].tx \in TxRecords
      /\ \A t \in TxRecords : t.nonce \in Int
  BY <1>3 DEF PurseTypes, Spenders, TxRecords
<1>5. ASSUME client[w].stage = "send", ~Refused(client[w].tx)
      PROVE  /\ client[w].tx.from \in Addresses
             /\ client[w].tx.nonce >= nonce[client[w].tx.from]
             /\ \A p \in mempool : p.from = client[w].tx.from => p.nonce # client[w].tx.nonce
  <2>1. client[w].tx.from \in Addresses
    BY <1>3, <1>5 DEF SpenderOK, Filling
  <2>2. PICK n \in Int : n = client[w].tx.nonce
    BY <1>4
  <2>3. PICK k \in Nat : k = nonce[client[w].tx.from]
    BY <1>4, <2>1
  <2>4. ~(n < k)
    BY <1>5, <2>2, <2>3 DEF Refused
  <2>5. n >= k
    BY <2>4
  <2> QED
    BY <1>5, <2>1, <2>2, <2>3, <2>5 DEF Refused
<1>6. NoncesDiffer'
  <2> SUFFICES ASSUME NEW p \in mempool', NEW q \in mempool', p.from = q.from, p.nonce = q.nonce
               PROVE  p = q
    BY DEF NoncesDiffer
  <2> QED
    BY <1>3, <1>5 DEF NoncesDiffer
<1>7. Ahead'
  BY <1>1, <1>3, <1>5 DEF Ahead
<1>8. Behind'
  BY <1>1, <1>3 DEF Behind, Addresses
<1>9. GivenBack'
  <2> SUFFICES ASSUME NEW t \in mempool', t.from \in Created
               PROVE  \/ GaveUp(t.from[1])'
                      \/ client'[t.from[1]].stage = "receipt" /\ client'[t.from[1]].tx = t
    BY DEF GivenBack
  <2>1. PICK v \in Workers : v = t.from[1]
    BY DEF Created
  <2>2. CASE t \in mempool
    <3>1. GaveUp(v) \/ (client[v].stage = "receipt" /\ client[v].tx = t)
      BY <1>3, <2>1, <2>2 DEF GivenBack
    <3>2. CASE v = w /\ client[v].stage = "receipt" /\ client[v].tx = t
      <4>1. ~HasMined(w)
        <5> SUFFICES ASSUME HasMined(w) PROVE FALSE
          OBVIOUS
        <5>1. PICK m \in included : m.tx = t
          BY <3>2 DEF HasMined
        <5>2. t.from \in Addresses /\ t.nonce < nonce[t.from] /\ t.nonce >= nonce[t.from]
          BY <1>3, <2>2, <5>1 DEF Behind, Ahead
        <5>3. t.nonce \in Int /\ nonce[t.from] \in Int
          BY <1>4, <2>2, <5>2
        <5> QED
          BY <5>2, <5>3
      <4> QED
        BY <2>1, <3>2, <4>1
    <3> QED
      BY <1>1, <1>2, <2>1, <3>1, <3>2
  <2>3. CASE t \notin mempool
    <3>1. t = client[w].tx /\ client[w].stage = "send" /\ client'[w].stage = "receipt"
          /\ client'[w].tx = t
      BY <2>3
    <3>2. t.from \in OwnAccounts(w)
      BY <1>3, <3>1 DEF SpenderOK, Filling
    <3>3. t.from[1] = w
      BY <3>2, CreatedBy
    <3> QED
      BY <3>1, <3>3
  <2> QED
    BY <2>2, <2>3
<1>10. ASSUME NEW v \in Workers
       PROVE  PaysItself(v)' /\ NonceIsFree(v)' /\ IsSolvent(v)'
  <2>1. CASE v = w
    BY <2>1
  <2>2. CASE v # w
    <3>1. client'[v] = client[v]
      BY <1>1, <2>2
    <3>2. PaysItself(v)'
      BY <1>2, <1>3, <3>1 DEF PaysItself
    <3>3. IsSolvent(v)'
      BY <1>1, <1>2, <1>3, <3>1 DEF IsSolvent
    <3>4. NonceIsFree(v)'
      <4> SUFFICES ASSUME HasNonce(v), ~Contended(v, client[v].call)'
                   PROVE  /\ nonce[client[v].tx.from] <= client[v].tx.nonce
                          /\ \A p \in mempool' : p.from = client[v].tx.from =>
                               p.nonce # client[v].tx.nonce
        BY <1>1, <3>1 DEF NonceIsFree, HasNonce
      <4>1. /\ nonce[client[v].tx.from] <= client[v].tx.nonce
            /\ \A p \in mempool : p.from = client[v].tx.from => p.nonce # client[v].tx.nonce
        <5>1. ~Contended(v, client[v].call)
          BY <1>2, <3>1
        <5> QED
          BY <1>3, <5>1 DEF NonceIsFree
      <4>2. client[w].stage = "send" => client[w].tx.from # client[v].tx.from
        <5> SUFFICES ASSUME client[w].stage = "send", client[w].tx.from = client[v].tx.from
                     PROVE  FALSE
          OBVIOUS
        <5>1. client[v].stage \in Filling /\ client[w].stage \in Filling
          BY DEF HasNonce, Filling
        <5>2. client[w].tx.from \in Payers \cup Created
          BY <1>3, <5>1, PurseConstants DEF SpenderOK
        <5>3. CASE client[w].tx.from \in Payers
          <6>1. Payer(client[w].call) = Payer(client[v].call)
            BY <1>3, <5>1, <5>3 DEF PaysItself
          <6>2. client[w].call # None
            BY <1>3, <5>1 DEF SpenderOK, Filling
          <6>3. client[w].call \in Begun(w)
            BY <6>2, BegunIs
          <6>4. Contended(v, client[v].call)
            BY <2>2, <6>1, <6>3 DEF Contended
          <6> QED
            BY <1>2, <3>1, <6>4
        <5>4. CASE client[w].tx.from \in Created
          <6>1. client[w].tx.from \in OwnAccounts(w) /\ client[w].tx.from \in OwnAccounts(v)
            BY <1>3, <5>1, <5>4 DEF SpenderOK
          <6> QED
            BY <2>2, <6>1, CreatedBy
        <5> QED
          BY <5>2, <5>3, <5>4
      <4> QED
        BY <4>1, <4>2
    <3> QED
      BY <3>2, <3>3, <3>4
  <2> QED
    BY <2>1, <2>2
<1>11. \A r \in log' : HasCause(r)'
  BY <1>2, <1>3
<1> QED
  BY <1>6, <1>7, <1>8, <1>9, <1>10, <1>11 DEF NonceInv

\* The chain takes a step.
LEMMA NonceChain ==
    ASSUME Prices, TestsAsk, PurseInv, NonceInv, UNCHANGED <<bank, client, log>>,
           mempool' \subseteq mempool,
           \A a \in Created : balance'[a] >= balance[a] \/ \E t \in mempool : t.from = a,
           balance' \in [Addresses -> Nat],
           \/ nonce' = nonce /\ included' = included
           \/ \E t \in mempool :
                /\ t.nonce = nonce[t.from] /\ nonce' = [nonce EXCEPT ![t.from] = @ + 1]
                /\ mempool' = mempool \ {t}
                /\ \E m : m.tx = t /\ included' = included \cup {m}
    PROVE  NonceInv'
<1>1. /\ NoncesDiffer /\ Ahead /\ Behind /\ GivenBack
      /\ \A v \in Workers : PaysItself(v) /\ NonceIsFree(v) /\ IsSolvent(v) /\ SpenderOK(v)
      /\ \A r \in log : HasCause(r)
      /\ PurseTypes /\ MempoolOK
  BY DEF NonceInv, PurseInv
<1>2. /\ \A v, c : Contended(v, c)' <=> Contended(v, c)
      /\ \A v : GaveUp(v)' <=> GaveUp(v)
      /\ \A r : HasCause(r)' <=> HasCause(r)
      /\ \A c : Payer(c)' = Payer(c)
      /\ \A v : HasNonce(v)' <=> HasNonce(v)
  BY DEF Contended, GaveUp, HasCause, Payer, Begun, HasNonce
<1>3. /\ nonce \in [Addresses -> Nat] /\ mempool \subseteq TxRecords
      /\ \A t \in TxRecords : t.nonce \in Int
      /\ \A t \in mempool : t.from \in Addresses
      /\ \A v \in Workers : client[v] \in Spenders /\ client[v].tx \in TxRecords
      /\ \A m \in included : m.tx \in TxRecords
      /\ balance \in [Addresses -> Nat] /\ \A a \in Created : a \in Addresses
  BY <1>1, PurseConstants DEF PurseTypes, Spenders, TxRecords, MempoolOK
<1>4. ASSUME NEW a \in Addresses
      PROVE  \/ nonce'[a] = nonce[a]
             \/ /\ nonce'[a] = nonce[a] + 1
                /\ \E t \in mempool : t.from = a /\ t.nonce = nonce[a] /\ mempool' = mempool \ {t}
  BY <1>3
<1>5. NoncesDiffer'
  BY <1>1 DEF NoncesDiffer
<1>6. Ahead'
  <2> SUFFICES ASSUME NEW t \in mempool' PROVE t.nonce >= nonce'[t.from]
    BY DEF Ahead
  <2>1. t \in mempool /\ t.from \in Addresses /\ t.nonce >= nonce[t.from]
    BY <1>1, <1>3 DEF Ahead
  <2>2. PICK n \in Int : n = t.nonce
    BY <1>3, <2>1
  <2>3. PICK k \in Nat : k = nonce[t.from]
    BY <1>3, <2>1
  <2>4. CASE nonce'[t.from] = nonce[t.from]
    BY <2>1, <2>4
  <2>5. CASE /\ nonce'[t.from] = nonce[t.from] + 1
             /\ \E u \in mempool : u.from = t.from /\ u.nonce = nonce[t.from] /\ mempool' = mempool \ {u}
    <3>1. n # k
      BY <1>1, <2>1, <2>2, <2>3, <2>5 DEF NoncesDiffer
    <3> QED
      BY <2>1, <2>2, <2>3, <2>5, <3>1
  <2> QED
    BY <1>4, <2>1, <2>4, <2>5
<1>7. Behind'
  <2> SUFFICES ASSUME NEW m \in included'
               PROVE  m.tx.from \in Addresses /\ m.tx.nonce < nonce'[m.tx.from]
    BY DEF Behind, Addresses
  <2>1. CASE m \in included
    <3>1. m.tx.from \in Addresses /\ m.tx.nonce < nonce[m.tx.from] /\ m.tx \in TxRecords
      BY <1>1, <1>3, <2>1 DEF Behind
    <3>2. PICK n \in Int : n = m.tx.nonce
      BY <1>3, <3>1
    <3>3. PICK k \in Nat : k = nonce[m.tx.from]
      BY <1>3, <3>1
    <3>4. nonce'[m.tx.from] = k \/ nonce'[m.tx.from] = k + 1
      BY <1>4, <3>1, <3>3
    <3> QED
      BY <3>1, <3>2, <3>3, <3>4
  <2>2. CASE m \notin included
    <3>1. PICK t \in mempool : /\ t.nonce = nonce[t.from] /\ m.tx = t
                               /\ nonce' = [nonce EXCEPT ![t.from] = @ + 1]
      BY <2>2
    <3>2. t.from \in Addresses
      BY <1>3
    <3>3. PICK k \in Nat : k = nonce[t.from]
      BY <1>3, <3>2
    <3>4. nonce'[t.from] = k + 1
      BY <1>3, <3>1, <3>2, <3>3
    <3> QED
      BY <3>1, <3>2, <3>3, <3>4
  <2> QED
    BY <2>1, <2>2
<1>8. GivenBack'
  <2> SUFFICES ASSUME NEW t \in mempool', t.from \in Created
               PROVE  \/ GaveUp(t.from[1])'
                      \/ client'[t.from[1]].stage = "receipt" /\ client'[t.from[1]].tx = t
    BY DEF GivenBack
  <2> QED
    BY <1>1, <1>2 DEF GivenBack
<1>9. ASSUME NEW v \in Workers
      PROVE  PaysItself(v)' /\ NonceIsFree(v)' /\ IsSolvent(v)'
  <2>1. PaysItself(v)'
    BY <1>1, <1>2 DEF PaysItself
  <2>2. NonceIsFree(v)'
    <3> SUFFICES ASSUME HasNonce(v), ~Contended(v, client[v].call)
                 PROVE  /\ nonce'[client[v].tx.from] <= client[v].tx.nonce
                        /\ \A p \in mempool' : p.from = client[v].tx.from =>
                             p.nonce # client[v].tx.nonce
      BY <1>2 DEF NonceIsFree
    <3>1. /\ nonce[client[v].tx.from] <= client[v].tx.nonce
          /\ \A p \in mempool : p.from = client[v].tx.from => p.nonce # client[v].tx.nonce
      BY <1>1 DEF NonceIsFree
    <3>2. client[v].tx.from \in Addresses
      <4>1. client[v].stage \in Filling
        BY DEF HasNonce, Filling
      <4> QED
        BY <1>1, <4>1 DEF SpenderOK
    <3>3. PICK n \in Int : n = client[v].tx.nonce
      BY <1>3
    <3>4. PICK k \in Nat : k = nonce[client[v].tx.from]
      BY <1>3, <3>2
    <3>5. nonce'[client[v].tx.from] = k \/ (nonce'[client[v].tx.from] = k + 1 /\ n # k)
      BY <1>4, <3>1, <3>2, <3>3, <3>4
    <3> QED
      BY <3>1, <3>3, <3>4, <3>5
  <2>3. IsSolvent(v)'
    <3> SUFFICES ASSUME client[v].stage \in {"base", "nonce", "price", "send"},
                        client[v].call.op = "restore", ~GaveUp(v)
                 PROVE  /\ client[v].tx.type = "legacy"
                        /\ client[v].tx.value + (11 * GasPrice) \div 10 <= balance'[client[v].tx.from]
                        /\ client[v].stage = "send" => client[v].tx.max = GasPrice
      BY <1>2 DEF IsSolvent
    <3>1. /\ client[v].tx.type = "legacy"
          /\ client[v].tx.value + (11 * GasPrice) \div 10 <= balance[client[v].tx.from]
          /\ client[v].stage = "send" => client[v].tx.max = GasPrice
      BY <1>1 DEF IsSolvent
    <3>2. PICK a \in Created : a = client[v].tx.from /\ a \in OwnAccounts(v)
      BY <1>1 DEF PaysItself, SpenderOK, Filling
    <3>3. \A t \in mempool : t.from # a
      <4> SUFFICES ASSUME NEW t \in mempool, t.from = a PROVE FALSE
        OBVIOUS
      <4>1. t.from[1] = v
        BY <3>2, CreatedBy
      <4>2. client[v].stage = "receipt"
        BY <1>1, <3>2, <4>1 DEF GivenBack
      <4> QED
        BY <4>2
    <3>4. balance'[a] >= balance[a]
      BY <3>3
    <3>5. PICK x \in Nat : x = balance[a]
      BY <1>3
    <3>6. PICK y \in Nat : y = balance'[a]
      BY <1>3
    <3>7. PICK z \in Int : z = client[v].tx.value + (11 * GasPrice) \div 10
      <4>1. client[v].tx.value \in Int
        BY <1>3 DEF TxRecords
      <4> QED
        BY <4>1, FeeIsLeft
    <3> QED
      BY <3>1, <3>2, <3>4, <3>5, <3>6, <3>7
  <2> QED
    BY <2>1, <2>2, <2>3
<1>10. \A r \in log' : HasCause(r)'
  BY <1>1, <1>2
<1> QED
  BY <1>5, <1>6, <1>7, <1>8, <1>9, <1>10 DEF NonceInv

\* A worker that puts nothing together keeps to the rules.
LEMMA NothingToPay ==
    ASSUME NEW w \in Workers, client'[w].stage \notin Filling
    PROVE  PaysItself(w)' /\ NonceIsFree(w)' /\ IsSolvent(w)'
BY DEF PaysItself, NonceIsFree, IsSolvent, HasNonce, Filling

\* A worker begins a transaction, and asks for its nonce.
LEMMA FirstAsk ==
    ASSUME NEW w \in Workers, bank' = bank,
           \/ client'[w].stage = "nonce"
           \/ client'[w].stage = "base" /\ client'[w].tx.nonce = -1,
           client'[w].tx.from = Payer(client'[w].call), client'[w].call.op # "restore"
    PROVE  PaysItself(w)' /\ NonceIsFree(w)' /\ IsSolvent(w)'
<1>1. Payer(client[w].call)' = Payer(client'[w].call)
  BY DEF Payer
<1>2. ~HasNonce(w)'
  BY DEF HasNonce
<1> QED
  BY <1>1, <1>2 DEF PaysItself, NonceIsFree, IsSolvent

\* A worker creates an account, and the bank pays for it if there is one.
LEMMA CreatesNonce ==
    ASSUME TestsAsk, NEW w \in Workers, NEW c \in Calls, c.op \in Creating, Creates(w, c)
    PROVE  PaysItself(w)' /\ NonceIsFree(w)' /\ IsSolvent(w)'
<1>1. CASE client'[w].stage = "faucet"
  BY <1>1, NothingToPay DEF Filling
<1>2. CASE client'[w].stage # "faucet"
  <2>1. /\ client'[w].stage = "nonce" /\ client'[w].tx.from = bank /\ bank' = bank
        /\ client'[w].call = c
    BY <1>2 DEF Creates
  <2>2. Payer(c) = bank /\ c.op # "restore"
    BY DEF Payer, Creating
  <2> QED
    BY <2>1, <2>2, FirstAsk
<1> QED
  BY <1>1, <1>2

LEMMA SpenderNonces ==
    ASSUME Prices, TestsAsk, PurseInv, NonceInv, NEW w \in Workers, SpenderMove(w), OnlyGrows(w)
    PROVE  NonceInv'
<1>1. /\ NoncesDiffer /\ PaysItself(w) /\ NonceIsFree(w) /\ IsSolvent(w) /\ SpenderOK(w)
      /\ PurseTypes /\ ListsOK(w) /\ client[w] \in Spenders /\ client[w].tx \in TxRecords
  BY DEF NonceInv, PurseInv, PurseTypes, Spenders
<1>2. /\ UNCHANGED <<bank, balance, nonce, included>> /\ log \subseteq log'
      /\ \A v \in Workers : Begun(v) \subseteq Begun(v)'
  BY DEF OnlyGrows
<1>3. /\ \A v, c : Contended(v, c) => Contended(v, c)'
      /\ \A v : GaveUp(v) => GaveUp(v)'
      /\ \A c : Payer(c)' = Payer(c)
  BY <1>2, CausesLast DEF Payer
<1>4. CASE Fills(w) /\ Learns(w)
  <2>1. /\ client'[w].call = client[w].call /\ log' = log /\ client[w].stage \in Filling
        /\ client'[w].tx.from = client[w].tx.from /\ client'[w].tx.value = client[w].tx.value
    BY <1>4 DEF Fills, GoesOn
  <2>2. client[w].tx.from \in Addresses /\ client[w].call # None
    BY <1>1, <2>1 DEF SpenderOK, Filling
  <2>3. PaysItself(w)'
    BY <1>1, <1>3, <2>1 DEF PaysItself
  <2>4. CASE /\ client[w].stage = "send" /\ client'[w].stage = "receipt"
             /\ client'[w].tx = client[w].tx /\ mempool' = mempool \cup {client[w].tx}
             /\ ~Refused(client[w].tx)
    <3>1. NonceIsFree(w)' /\ IsSolvent(w)' /\ HasMined(w)
      BY <2>4 DEF NonceIsFree, IsSolvent, HasNonce, HasMined
    <3> QED
      BY <2>1, <2>3, <2>4, <3>1, NonceStep
  <2>5. CASE client[w].stage # "send"
    <3>1. /\ client[w].stage \in {"base", "nonce", "price"}
          /\ client'[w].stage \in {"base", "nonce", "price", "send"}
          /\ mempool' = mempool /\ client'[w].tx.type = client[w].tx.type
          /\ client'[w].tx.nonce = IF client[w].stage = "nonce" THEN PendingNonce(client[w].tx.from)
                                   ELSE client[w].tx.nonce
          /\ client[w].stage = "base" /\ client[w].tx.nonce = -1 => client'[w].stage = "nonce"
          /\ client'[w].stage = "send" /\ client[w].tx.type = "legacy" /\ GivenPrice(w) = None =>
               client'[w].tx.max = GasPrice
      BY <1>4, <2>5 DEF Learns
    <3>2. NonceIsFree(w)'
      <4>1. CASE client[w].stage = "nonce"
        <5>1. /\ nonce[client[w].tx.from] <= client'[w].tx.nonce
              /\ \A p \in mempool : p.from = client[w].tx.from => p.nonce # client'[w].tx.nonce
          BY <1>1, <2>2, <3>1, <4>1, PendingNonceIsFree
        <5> QED
          BY <1>2, <2>1, <3>1, <5>1 DEF NonceIsFree
      <4>2. CASE client[w].stage # "nonce"
        <5>1. client'[w].tx.nonce = client[w].tx.nonce /\ (HasNonce(w)' => HasNonce(w))
          BY <3>1, <4>2 DEF HasNonce
        <5> QED
          BY <1>1, <1>2, <1>3, <2>1, <3>1, <5>1 DEF NonceIsFree
      <4> QED
        BY <4>1, <4>2
    <3>3. IsSolvent(w)'
      <4> SUFFICES ASSUME client[w].call.op = "restore", ~GaveUp(w)'
                   PROVE  /\ client'[w].tx.type = "legacy"
                          /\ client'[w].tx.value + (11 * GasPrice) \div 10
                               <= balance[client'[w].tx.from]
                          /\ client'[w].stage = "send" => client'[w].tx.max = GasPrice
        BY <1>2, <2>1 DEF IsSolvent
      <4>1. /\ client[w].tx.type = "legacy"
            /\ client[w].tx.value + (11 * GasPrice) \div 10 <= balance[client[w].tx.from]
        BY <1>1, <1>3, <3>1 DEF IsSolvent
      <4>2. GivenPrice(w) = None
        BY DEF GivenPrice
      <4> QED
        BY <2>1, <3>1, <4>1, <4>2
    <3>4. HasMined(w)
      BY <3>1 DEF HasMined
    <3> QED
      BY <2>1, <2>3, <3>1, <3>2, <3>3, <3>4, NonceStep
  <2> QED
    BY <1>4, <2>4, <2>5 DEF Learns
<1>5. CASE AsksFaucet(w)
  <2>1. /\ client'[w].stage \notin Filling /\ mempool' = mempool /\ log' = log
        /\ HasMined(w)
    BY <1>5 DEF AsksFaucet, GoesOn, Asking, Filling, HasMined
  <2> QED
    BY <2>1, NothingToPay, NonceStep
<1>6. CASE GivesBack(w)
  <2>1. /\ mempool' = mempool /\ log' = log /\ HasMined(w)
        /\ client'[w].call = client[w].call /\ client[w].call.op = "restore"
        /\ \/ client'[w].stage = "restore"
           \/ /\ client[w].rest # <<>> /\ client'[w].stage = "nonce"
              /\ client'[w].tx.type = "legacy" /\ client'[w].tx.from = Head(client[w].rest)
              /\ client'[w].tx.value = AllButFee(Head(client[w].rest))
    BY <1>6 DEF GivesBack, GoesOn
  <2>2. CASE client'[w].stage = "restore"
    BY <2>1, <2>2, NothingToPay, NonceStep DEF Filling
  <2>3. CASE client'[w].stage # "restore"
    <3>1. PICK a \in Created : a = Head(client[w].rest)
      <4>1. client[w].rest \in Seq(Created)
        BY <1>1 DEF Spenders
      <4> QED
        BY <2>1, <2>3, <4>1
    <3>2. client'[w].stage = "nonce" /\ client'[w].tx.from = a /\ client'[w].tx.type = "legacy"
          /\ client'[w].tx.value = AllButFee(a) /\ a \notin Payers
      BY <2>1, <2>3, <3>1, PurseConstants
    <3>3. AllButFee(a) + (11 * GasPrice) \div 10 <= balance[a]
      <4>1. PICK b \in Nat : b = balance[a]
        BY <1>1, PurseConstants DEF PurseTypes
      <4>2. PICK f \in Nat : f = (11 * GasPrice) \div 10
        BY FeeIsLeft
      <4>3. AllButFee(a) = b - f
        BY <4>1, <4>2 DEF AllButFee
      <4> QED
        BY <4>1, <4>2, <4>3
    <3>4. PaysItself(w)'
      BY <3>2 DEF PaysItself
    <3>5. NonceIsFree(w)'
      BY <3>2 DEF NonceIsFree, HasNonce
    <3>6. IsSolvent(w)'
      BY <1>2, <3>2, <3>3 DEF IsSolvent
    <3> QED
      BY <2>1, <3>4, <3>5, <3>6, NonceStep
  <2> QED
    BY <2>2, <2>3
<1>7. CASE Stops(w)
  <2>1. PICK how \in Ends :
          /\ EndsWith(w, how)
          /\ how = "refused" => client[w].stage = "send" /\ Refused(client[w].tx)
          /\ how = "poor" => client[w].stage = "send" /\ TooPoor(client[w].tx)
          /\ HasMined(w) \/ how = "timeout"
    BY <1>7 DEF Stops
  <2>2. PICK r : r = [by |-> w, call |-> client[w].call, how |-> how, new |-> client[w].new]
    OBVIOUS
  <2>3. /\ log' = log \cup {r} /\ mempool' = mempool /\ client'[w].stage = "idle"
        /\ r.by = w /\ r.call = client[w].call /\ r.how = how
    BY <2>1, <2>2, IdleSpender DEF EndsWith
  <2>4. HasCause(r)'
    <3>1. ASSUME how = "refused" PROVE Contended(r.by, r.call)'
      <4>1. client[w].stage = "send" /\ Refused(client[w].tx)
        BY <2>1, <3>1
      <4>2. client[w].tx.from \in Addresses /\ HasNonce(w)
        BY <1>1, <4>1 DEF SpenderOK, Filling, HasNonce
      <4>3. PICK n \in Int : n = client[w].tx.nonce
        BY <1>1 DEF TxRecords
      <4>4. PICK k \in Nat : k = nonce[client[w].tx.from]
        BY <1>1, <4>2 DEF PurseTypes
      <4>5. \/ n < k
            \/ \E p \in mempool : p.from = client[w].tx.from /\ p.nonce = n
        BY <4>1, <4>3, <4>4 DEF Refused
      <4>6. Contended(r.by, r.call)
        BY <1>1, <2>3, <4>2, <4>3, <4>4, <4>5 DEF NonceIsFree
      <4> QED
        BY <1>3, <4>6
    <3>2. ASSUME how = "poor", r.call.op = "restore" PROVE GaveUp(r.by)'
      <4>1. client[w].stage = "send" /\ TooPoor(client[w].tx)
        BY <2>1, <3>2
      <4>2. client[w].tx.from \in Addresses
        BY <1>1, <4>1 DEF SpenderOK, Filling
      <4>3. PICK b \in Nat : b = balance[client[w].tx.from]
        BY <1>1, <4>2 DEF PurseTypes
      <4>4. PICK v \in Nat : v = client[w].tx.value
        BY <1>1 DEF TxRecords
      <4>5. PICK m \in Int : m = client[w].tx.max
        BY <1>1 DEF TxRecords
      <4>6. b < v + m
        BY <4>1, <4>3, <4>4, <4>5 DEF TooPoor
      <4>7. PICK f \in Nat : f = (11 * GasPrice) \div 10 /\ GasPrice <= f
        BY FeeIsLeft
      <4>8. PICK g \in Nat : g = GasPrice
        BY PurseConstants
      <4>9. ASSUME v + f <= b, m = g PROVE FALSE
        BY <4>6, <4>7, <4>8, <4>9
      <4>10. GaveUp(r.by)
        BY <1>1, <2>3, <3>2, <4>1, <4>3, <4>4, <4>5, <4>7, <4>8, <4>9 DEF IsSolvent
      <4> QED
        BY <1>3, <4>10
    <3> QED
      BY <2>3, <3>1, <3>2 DEF HasCause
  <2>5. HasMined(w) \/ client[w].tx.from \notin Created \/ GaveUp(w)'
    <3> SUFFICES ASSUME how = "timeout", client[w].stage = "receipt", client[w].tx.from \in Created
                 PROVE  GaveUp(w)'
      BY <2>1 DEF HasMined
    <3>1. client[w].call.op = "restore"
      BY <1>1 DEF SpenderOK, Filling
    <3> QED
      BY <2>3, <3>1 DEF GaveUp
  <2>6. client'[w].stage \notin Filling
    BY <2>3 DEF Filling
  <2> QED
    BY <2>3, <2>4, <2>5, <2>6, NothingToPay, NonceStep
<1>8. CASE Finishing(w)
  <2>1. EndsWith(w, "returned") /\ HasMoney(w)
    BY <1>8 DEF Finishing
  <2>2. HasMined(w)
    BY <2>1 DEF HasMoney, HasMined
  <2>3. PICK r : r = [by |-> w, call |-> client[w].call, how |-> "returned",
                      new |-> client[w].new]
    OBVIOUS
  <2>4. /\ log' = log \cup {r} /\ mempool' = mempool /\ client'[w].stage = "idle"
        /\ r.how = "returned"
    BY <2>1, <2>3, IdleSpender DEF EndsWith
  <2>5. HasCause(r)'
    BY <2>4 DEF HasCause
  <2>6. client'[w].stage \notin Filling
    BY <2>4 DEF Filling
  <2> QED
    BY <2>2, <2>4, <2>5, <2>6, NothingToPay, NonceStep
<1>9. CASE Repeats(w)
  <2>1. Creates(w, client[w].call) /\ HasMoney(w)
    BY <1>9 DEF Repeats
  <2>2. client[w].call \in Calls /\ client[w].call.op \in Creating /\ HasMined(w)
    <3>1. client[w].call # None
      BY <1>1, <2>1 DEF HasMoney, Busy, SpenderOK
    <3> QED
      BY <1>1, <2>1, <3>1 DEF HasMoney, HasMined, Spenders
  <2>3. mempool' = mempool /\ log' = log
    BY <2>1 DEF Creates
  <2> QED
    BY <2>1, <2>2, <2>3, CreatesNonce, NonceStep
<1> QED
  BY <1>4, <1>5, <1>6, <1>7, <1>8, <1>9 DEF SpenderMove

LEMMA BeginNonces ==
    ASSUME Prices, TestsAsk, PurseInv, NonceInv, NEW w \in Workers, NEW c, Begins(w, c),
           OnlyGrows(w)
    PROVE  NonceInv'
<1>1. SpenderOK(w) /\ client[w].stage = "idle" /\ c \in Calls /\ mempool' = mempool /\ bank' = bank
  BY DEF PurseInv, Begins, SpenderOK
<1>2. HasMined(w)
  BY <1>1 DEF HasMined
<1>3. CASE UNCHANGED <<client, log>>
  <2>1. client'[w].stage \notin Filling
    BY <1>1, <1>3 DEF Filling
  <2> QED
    BY <1>1, <1>2, <1>3, <2>1, NothingToPay, NonceStep
<1>4. CASE Creates(w, c) /\ c.op \in Creating
  <2>1. log' = log
    BY <1>4 DEF Creates
  <2> QED
    BY <1>1, <1>2, <1>4, <2>1, CreatesNonce, NonceStep
<1>5. CASE Asks(w, c)
  <2>1. client'[w].call = c /\ log' = log
    BY <1>5 DEF Asks
  <2>2. CASE client'[w].stage = "restore"
    <3>1. client'[w].stage \notin Filling
      BY <2>2 DEF Filling
    <3> QED
      BY <1>1, <1>2, <2>1, <3>1, NothingToPay, NonceStep
  <2>3. CASE client'[w].stage # "restore"
    <3>1. /\ c.op \in {"send_tokens", "deploy", "contract_call"} /\ client'[w].tx.from = c.from
          /\ \/ client'[w].stage = "nonce"
             \/ client'[w].stage = "base" /\ client'[w].tx.nonce = -1
      BY <1>5, <2>3 DEF Asks
    <3>2. Payer(c) = c.from
      BY <3>1 DEF Payer
    <3>3. PaysItself(w)' /\ NonceIsFree(w)' /\ IsSolvent(w)'
      BY <1>1, <2>1, <3>1, <3>2, FirstAsk
    <3> QED
      BY <1>1, <1>2, <2>1, <3>3, NonceStep
  <2> QED
    BY <2>2, <2>3
<1> QED
  BY <1>3, <1>4, <1>5 DEF Begins, Skips, CreatesEmpty

LEMMA NonceInit ==
    ASSUME Prices, TestsAsk, FundingInit
    PROVE  NonceInv
<1>1. mempool = {} /\ included = {} /\ log = {} /\ \A w \in Workers : client[w] = Idle
  BY DEF FundingInit
<1>2. \A w \in Workers : client[w].stage = "idle"
  BY <1>1, IdleSpender
<1>3. \A w \in Workers : PaysItself(w) /\ NonceIsFree(w) /\ IsSolvent(w)
  BY <1>2 DEF PaysItself, NonceIsFree, IsSolvent, HasNonce, Filling
<1> QED
  BY <1>1, <1>3 DEF NonceInv, NoncesDiffer, Ahead, Behind, GivenBack

LEMMA NonceKeeps ==
    ASSUME Prices, TestsAsk, PurseInv, NonceInv, [FundingNext]_fundingVars
    PROVE  NonceInv'
<1>1. /\ PurseTypes /\ \A w \in Workers : SpenderOK(w) /\ FeesOK(w) /\ ListsOK(w)
      /\ balance \in [Addresses -> Nat]
      /\ \A a \in Created : balance[a] \in Nat
  BY PurseConstants DEF PurseInv, PurseTypes
<1>2. CASE \E w \in Workers : ClientStep(w)
  <2>1. PICK w \in Workers : ClientStep(w)
    BY <1>2
  <2>2. SpenderMove(w)
    BY <1>1, <2>1, SpenderMoves
  <2>3. OnlyGrows(w)
    BY <1>1, <2>2, SpenderGrows
  <2> QED
    BY <2>2, <2>3, SpenderNonces
<1>3. CASE \E w \in Workers : \E c \in left[w] : Start(w, c)
  <2>w. PICK w \in Workers : \E c \in left[w] : Start(w, c)
    BY <1>3
  <2>1. PICK c \in left[w] : Start(w, c)
    BY <2>w
  <2>2. Begins(w, c)
    BY <1>1, <2>1, StartMoves
  <2>3. OnlyGrows(w)
    BY <1>1, <2>2, BeginGrows
  <2> QED
    BY <2>2, <2>3, BeginNonces
<1>4. CASE \E t \in mempool : Mine(t)
  <2>1. PICK t \in mempool : Mine(t)
    BY <1>4
  <2>2. PurseTypes' /\ \A a \in Created : a # t.from => balance'[a] >= balance[a]
    BY <1>1, <2>1, MineMoves
  <2>3. /\ UNCHANGED <<bank, client, log>> /\ t.nonce = nonce[t.from]
        /\ nonce' = [nonce EXCEPT ![t.from] = @ + 1] /\ mempool' = mempool \ {t}
        /\ included' = included \cup {[tx |-> t, price |-> Price(t)]}
    BY <2>1 DEF Mine
  <2>4. PICK m : m = [tx |-> t, price |-> Price(t)]
    OBVIOUS
  <2>5. m.tx = t /\ included' = included \cup {m} /\ balance' \in [Addresses -> Nat]
    BY <2>2, <2>3, <2>4 DEF PurseTypes, Addresses
  <2>6. \A a \in Created : balance'[a] >= balance[a] \/ \E u \in mempool : u.from = a
    BY <2>2
  <2>7. mempool' \subseteq mempool
    BY <2>3
  <2> QED
    BY <2>3, <2>5, <2>6, <2>7, NonceChain
<1>5. CASE BaseFeeGrows \/ \E t \in mempool : Drop(t)
  <2>1. PurseTypes' /\ \A a \in Created : balance'[a] >= balance[a]
    BY <1>1, <1>5, QuietMoves
  <2>2. UNCHANGED <<bank, client, log, nonce, included>> /\ mempool' \subseteq mempool
    BY <1>5 DEF BaseFeeGrows, Drop
  <2>3. balance' \in [Addresses -> Nat]
    BY <2>1 DEF PurseTypes, Addresses
  <2> QED
    BY <2>1, <2>2, <2>3, NonceChain
<1>6. CASE \E g \in grants : Pay(g)
  <2>1. PICK g \in grants : Pay(g)
    BY <1>6
  <2>2. PurseTypes' /\ \A a \in Created : balance'[a] >= balance[a]
    BY <1>1, <2>1, PayMoves
  <2>3. UNCHANGED <<bank, client, log, nonce, included>> /\ mempool' \subseteq mempool
    BY <2>1 DEF Pay
  <2>4. balance' \in [Addresses -> Nat]
    BY <2>2 DEF PurseTypes, Addresses
  <2> QED
    BY <2>2, <2>3, <2>4, NonceChain
<1>7. CASE UNCHANGED fundingVars
  <2>1. UNCHANGED <<bank, client, log, nonce, included, mempool, balance>>
    BY <1>7 DEF fundingVars, chain
  <2>2. balance' \in [Addresses -> Nat] /\ \A a \in Created : balance'[a] >= balance[a]
    BY <1>1, <2>1
  <2> QED
    BY <2>1, <2>2, NonceChain
<1> QED
  BY <1>2, <1>3, <1>4, <1>5, <1>6, <1>7 DEF FundingNext

(***************************************************************************)
(* A transaction is refused for its nonce only if another worker uses the  *)
(* same account, and an account is too poor to give its money back only if *)
(* its worker did not wait for what it gave back before, for any workers,  *)
(* calls, prices and base fees (get_nonce, send_all_neons).                *)
(***************************************************************************)
THEOREM RefusalsAreExplained == FundingSpec => []RaisesHaveCause
<1> USE PricesAreNat, CallsAreCalls
<1>1. FundingInit => PurseInv /\ NonceInv
  BY PurseInit, NonceInit
<1>2. PurseInv /\ NonceInv /\ [FundingNext]_fundingVars => (PurseInv /\ NonceInv)'
  BY PurseKeeps, NonceKeeps
<1>3. NonceInv => RaisesHaveCause
  BY DEF NonceInv, HasCause, Contended, GaveUp, RaisesHaveCause
<1> QED
  BY <1>1, <1>2, <1>3, PTL DEF FundingSpec
=============================================================================
