--------------------------- MODULE EvmLoaderProofs ---------------------------
(***************************************************************************)
(* Proofs about EvmLoader: types, that a write that returns has brought    *)
(* the whole transaction into the account, that a call that executes step  *)
(* by step has executed every step once, and why a call raises.  At the    *)
(* end, about Deposits, which has the other calls of the same classes:     *)
(* operators are ready, tokens do not stay behind, and deposits arrive.    *)
(***************************************************************************)
EXTENDS EvmLoader, Deposits, FiniteSetTheorems, TLAPS

\* The messages that are sent: those that carry a transaction, and a part of it.
Good ==
    {m \in Messages : m.kind \in {"write", "instruction", "wholeInstruction", "cancel"} =>
                        m.tx \in Txs /\ (m.kind = "write" => m.n \in Offsets)}

HolderOK == holder.tag = "active" => holder.tx \in Txs /\ holder.left \in 1..Iterations

ClientOK ==
    /\ client.stage \in {"part", "confirm"} => client.tx \in Txs /\ client.index \in Offsets
    /\ At("written") => client.written \in Txs
    /\ At("step") => client.method \in Methods
    /\ At("whole") => client.method \in {"create", "cancel", "wholeAccount", "wholeInstruction"}
    /\ client.stage \in {"step", "whole", "wait"} =>
         (client.method \in {"instruction", "wholeInstruction", "cancel"} => client.tx \in Txs)

TypeInv == TypeOK /\ flight \subseteq Good /\ HolderOK /\ ClientOK

\* The assumptions of EvmLoader, as they are used.
LEMMA Constants ==
    /\ Parts \in Nat /\ Parts > 0 /\ Iterations \in Nat /\ Iterations > 0
    /\ MaxBlocks \in Nat /\ None \notin Txs
    /\ FromAccount \subseteq {"account", "noChainId"}
BY PartsAreSome, MaxBlocksIsNat, NoneIsNoTx, MethodsAreTheirs

-----------------------------------------------------------------------------
(***************************************************************************)
(* Types.                                                                  *)
(***************************************************************************)
LEMMA InitTypes == Init => TypeInv
<1> SUFFICES ASSUME Init PROVE TypeInv
  OBVIOUS
<1>1. holder \in [tag : {"none", "holder", "active", "finalized"}, tx : Txs \cup {None},
                  parts : SUBSET Offsets, left : 0..Iterations]
  BY Constants DEF Init
<1>2. client \in [stage : Stages, method : Kinds \cup {None}, tx : Txs \cup {None}, index : Nat,
                  message : Messages \cup {None}, written : Txs \cup {None}]
  BY DEF Init, Idle, Stages
<1>3. HolderOK /\ ClientOK
  BY DEF Init, Idle, HolderOK, ClientOK, At
<1>4. 0 \in 0..MaxBlocks
  BY Constants
<1> QED
  BY <1>1, <1>2, <1>3, <1>4 DEF Init, TypeInv, TypeOK

LEMMA MessageIsGood ==
  ASSUME TypeInv, NEW kind \in Kinds, NEW tx \in Txs \cup {None}, NEW n \in Nat,
         kind \in {"write", "instruction", "wholeInstruction", "cancel"} =>
           tx \in Txs /\ (kind = "write" => n \in Offsets)
  PROVE  Message(kind, tx, n) \in Good
BY DEF Message, Good, Messages, TypeInv, TypeOK

LEMMA SendTypes ==
  ASSUME TypeInv, NEW m \in Good, NEW next, Send(m, next),
         next \in [stage : Stages, method : Kinds \cup {None}, tx : Txs \cup {None}, index : Nat,
                   message : Messages \cup {None}, written : Txs \cup {None}],
         next.tx = client.tx, next.method = client.method,
         next.stage \in {"part", "confirm"} => next.tx \in Txs /\ next.index \in Offsets,
         next.stage \notin {"written", "step", "whole"},
         next.stage = "wait" => client.stage \in {"step", "whole"}
  PROVE  TypeInv'
<1>1. m \in Messages
  BY DEF Good
<1>2. CASE Refused(m)
  <2>1. /\ client' = [client EXCEPT !.stage = "raised", !.message = m]
        /\ trouble' = (trouble \/ (Processed(m) /\ m \notin own))
        /\ UNCHANGED <<flight, own, holder, processed, block, used, ran, disturbed>>
    BY <1>2 DEF Send
  <2>2. client' \in [stage : Stages, method : Kinds \cup {None}, tx : Txs \cup {None}, index : Nat,
                     message : Messages \cup {None}, written : Txs \cup {None}]
    BY <1>1, <2>1 DEF TypeInv, TypeOK, Stages
  <2>3. client'.stage = "raised" /\ client'.method = client.method /\ client'.tx = client.tx
    BY <2>1 DEF TypeInv, TypeOK
  <2>4. trouble' \in BOOLEAN
    BY <2>1 DEF TypeInv, TypeOK
  <2> QED
    BY <2>1, <2>2, <2>3, <2>4 DEF TypeInv, TypeOK, HolderOK, ClientOK, At
<1>3. CASE ~Refused(m)
  <2>1. /\ client' = next
        /\ flight' = flight \cup {m}
        /\ own' = own \cup {m}
        /\ UNCHANGED <<trouble, holder, processed, block, used, ran, disturbed>>
    BY <1>3 DEF Send
  <2> QED
    BY <1>1, <2>1 DEF TypeInv, TypeOK, HolderOK, ClientOK, At
<1> QED
  BY <1>2, <1>3

LEMMA CallTypes ==
  ASSUME TypeInv, NEW stage \in {"part", "step", "whole"}, NEW method \in Kinds,
         NEW tx \in Txs \cup {None}, Call(stage, method, tx), used' \subseteq Txs,
         stage = "part" => tx \in Txs,
         stage = "step" => method \in Methods,
         stage = "whole" => method \in {"create", "cancel", "wholeAccount", "wholeInstruction"},
         method \in {"instruction", "wholeInstruction", "cancel"} => tx \in Txs
  PROVE  TypeInv'
<1>1. client' = [stage |-> stage, method |-> method, tx |-> tx, index |-> 0, message |-> None,
                 written |-> client.written]
  BY DEF Call, Idle
<1>2. 0 \in Offsets
  BY Constants DEF Offsets
<1>3. /\ own' = {} /\ disturbed' \in BOOLEAN
      /\ UNCHANGED <<holder, flight, processed, block, ran, trouble>>
  BY DEF Call, TypeInv, TypeOK
<1>4. client' \in [stage : Stages, method : Kinds \cup {None}, tx : Txs \cup {None}, index : Nat,
                   message : Messages \cup {None}, written : Txs \cup {None}]
  BY <1>1 DEF Stages, TypeInv, TypeOK
<1>5. ClientOK'
  BY <1>1, <1>2 DEF ClientOK, At
<1> QED
  BY <1>3, <1>4, <1>5 DEF TypeInv, TypeOK, HolderOK

\* A step of the client that only changes its own variables.
LEMMA ClientTypes ==
  ASSUME TypeInv, NEW stage \in {"confirm", "written", "executed", "step", "raised", "sent"},
         NEW index \in Nat, NEW written \in Txs \cup {None},
         client' = [client EXCEPT !.stage = stage, !.index = index, !.written = written],
         stage = "confirm" => client.tx \in Txs /\ index \in Offsets,
         stage = "written" => written \in Txs,
         stage = "step" => At("wait") /\ client.method \in Methods,
         trouble' \in BOOLEAN, UNCHANGED <<chain, block, used, own>>
  PROVE  TypeInv'
<1>1. client' \in [stage : Stages, method : Kinds \cup {None}, tx : Txs \cup {None}, index : Nat,
                   message : Messages \cup {None}, written : Txs \cup {None}]
  BY DEF TypeInv, TypeOK, Stages
<1>2. /\ client'.stage = stage /\ client'.index = index /\ client'.written = written
      /\ client'.tx = client.tx /\ client'.method = client.method
  BY DEF TypeInv, TypeOK
<1>3. ClientOK'
  BY <1>2 DEF ClientOK, At, TypeInv
<1> QED
  BY <1>1, <1>3 DEF TypeInv, TypeOK, HolderOK, chain

-----------------------------------------------------------------------------
(***************************************************************************)
(* What the program does to the account.                                   *)
(***************************************************************************)
LEMMA SubjectIsTx ==
  ASSUME TypeInv, NEW m \in Good, ExecutesTx(m), Begins(m) \/ Continues(m)
  PROVE  Subject(m) \in Txs
<1>1. m.kind \in Kinds /\ m.kind \notin {"create", "write", "cancel"}
  BY DEF Good, Messages, ExecutesTx
<1>2. CASE m.kind \in {"instruction", "wholeInstruction"}
  BY <1>2, Constants DEF Good, Subject
<1>3. CASE m.kind \in FromAccount \cup {"wholeAccount"}
  <2>1. Subject(m) = holder.tx /\ m.kind \notin {"instruction", "wholeInstruction"}
    BY <1>3, Constants DEF Subject
  <2>2. holder.tx \in Txs \cup {None}
    BY DEF TypeInv, TypeOK
  <2>3. CASE Begins(m)
    BY <2>1, <2>2, <2>3 DEF Begins
  <2>4. CASE Continues(m)
    BY <2>1, <2>4 DEF Continues, TypeInv, HolderOK
  <2> QED
    BY <2>3, <2>4
<1> QED
  BY <1>1, <1>2, <1>3 DEF Kinds, Methods

LEMMA ExecutedTypes ==
  ASSUME TypeInv, NEW m \in Good, ExecutesTx(m), Begins(m) \/ Continues(m)
  PROVE  /\ Executed(m) \in [tag : {"none", "holder", "active", "finalized"}, tx : Txs \cup {None},
                             parts : SUBSET Offsets, left : 0..Iterations]
         /\ Executed(m).tag = "active" => Executed(m).tx \in Txs /\ Executed(m).left \in 1..Iterations
<1> DEFINE leftOver == IF m.kind \notin Methods THEN 0
                       ELSE (IF Continues(m) THEN holder.left ELSE Iterations) - 1
<1>1. Subject(m) \in Txs
  BY SubjectIsTx
<1>2. Continues(m) => holder.left \in 1..Iterations
  BY DEF Continues, TypeInv, HolderOK
<1>3. leftOver \in 0..Iterations
  BY <1>2, Constants
<1>4. Executed(m) = IF leftOver = 0 THEN Finalized(Subject(m))
                    ELSE [tag |-> "active", tx |-> Subject(m), parts |-> {}, left |-> leftOver]
  BY DEF Executed
<1> HIDE DEF leftOver
<1>5. leftOver # 0 => leftOver \in 1..Iterations
  BY <1>3, Constants
<1> QED
  BY <1>1, <1>3, <1>4, <1>5, Constants DEF Finalized

LEMMA ProcessTypes ==
  ASSUME TypeInv, NEW m \in flight,
         NEW result \in {"ok", "err", "exit_status", "ExitError"}, Process(m, result)
  PROVE  /\ processed' \subseteq [message : Messages, result : {"ok", "err", "exit_status", "ExitError"}]
         /\ flight' \subseteq Good /\ flight' \subseteq Messages
         /\ disturbed' \in BOOLEAN
<1>1. m \in Messages
  BY DEF TypeInv, TypeOK
<1>2. [message |-> m, result |-> result] \in
        [message : Messages, result : {"ok", "err", "exit_status", "ExitError"}]
  BY <1>1
<1> QED
  BY <1>2 DEF Process, TypeInv, TypeOK

LEMMA LandTypes ==
  ASSUME TypeInv, NEW m \in flight, Land(m)
  PROVE  TypeInv'
<1> DEFINE HolderType == [tag : {"none", "holder", "active", "finalized"}, tx : Txs \cup {None},
                          parts : SUBSET Offsets, left : 0..Iterations]
<1>1. m \in Good /\ UNCHANGED <<block, client, used, own, trouble>>
  BY DEF Land, TypeInv
<1>2. \E result \in {"ok", "err", "exit_status", "ExitError"} : Process(m, result)
  BY DEF Land
<1>3. /\ processed' \subseteq [message : Messages, result : {"ok", "err", "exit_status", "ExitError"}]
      /\ flight' \subseteq Good /\ flight' \subseteq Messages
      /\ disturbed' \in BOOLEAN
  BY <1>2, ProcessTypes
<1>4. holder' \in HolderType /\ HolderOK' /\ ran' \in [Txs -> Nat]
  <2>1. CASE Fails(m)
    BY <2>1 DEF Land, TypeInv, TypeOK, HolderOK
  <2>2. CASE ~Fails(m) /\ m.kind = "create"
    <3>1. holder' = Created /\ ran' = ran
      BY <2>2 DEF Land, ExecutesTx
    <3> QED
      BY <3>1, Constants DEF Created, HolderOK, TypeInv, TypeOK
  <2>3. CASE ~Fails(m) /\ m.kind = "write"
    <3>1. holder' = Written(m) /\ ran' = ran
      BY <2>3 DEF Land, ExecutesTx
    <3>2. m.tx \in Txs /\ m.n \in Offsets
      BY <1>1, <2>3 DEF Good
    <3>3. holder.parts \subseteq Offsets
      BY DEF TypeInv, TypeOK
    <3> QED
      BY <3>1, <3>2, <3>3, Constants DEF Written, HolderOK, TypeInv, TypeOK
  <2>4. CASE ~Fails(m) /\ m.kind = "cancel"
    <3>1. holder' = Finalized(m.tx) /\ ran' = ran
      BY <2>4 DEF Land, ExecutesTx
    <3>2. m.tx \in Txs
      BY <1>1, <2>4 DEF Good
    <3> QED
      BY <3>1, <3>2, Constants DEF Finalized, HolderOK, TypeInv, TypeOK
  <2>5. CASE ~Fails(m) /\ ExecutesTx(m)
    <3>1. holder' = Executed(m) /\ ran' = [ran EXCEPT ![Subject(m)] = @ + 1]
      BY <2>5 DEF Land, ExecutesTx
    <3>2. Begins(m) \/ Continues(m)
      BY <2>5 DEF Fails
    <3>3. ran' \in [Txs -> Nat]
      BY <1>1, <2>5, <3>1, <3>2, SubjectIsTx DEF TypeInv, TypeOK
    <3> QED
      BY <1>1, <2>5, <3>1, <3>2, <3>3, ExecutedTypes DEF HolderOK
  <2> QED
    BY <2>1, <2>2, <2>3, <2>4, <2>5 DEF ExecutesTx
<1>5. ClientOK'
  BY <1>1 DEF ClientOK, At, TypeInv
<1> QED
  BY <1>1, <1>3, <1>4, <1>5 DEF TypeInv, TypeOK

-----------------------------------------------------------------------------
LEMMA PartIsGood ==
  ASSUME TypeInv, At("part")
  PROVE  /\ Message("write", client.tx, client.index) \in Good
         /\ client.tx \in Txs /\ client.index \in Offsets
<1>1. client.tx \in Txs /\ client.index \in Offsets
  BY DEF TypeInv, ClientOK, At
<1>2. client.index \in Nat
  BY DEF TypeInv, TypeOK
<1> QED
  BY <1>1, <1>2, MessageIsGood DEF Kinds

LEMMA SendPartTypes ==
  ASSUME TypeInv, SendPart
  PROVE  TypeInv'
<1> DEFINE m == Message("write", client.tx, client.index)
           last == client.index + 1 = Parts
           next == [client EXCEPT !.message = m, !.index = IF last THEN 0 ELSE @ + 1,
                                  !.stage = IF last THEN "confirm" ELSE "part"]
<1>1. At("part") /\ Send(m, next)
  BY DEF SendPart
<1>2. m \in Good /\ m \in Messages /\ client.tx \in Txs /\ client.index \in Offsets
  BY <1>1, PartIsGood DEF Good
<1>3. (IF last THEN 0 ELSE client.index + 1) \in Offsets
  BY <1>2, Constants DEF Offsets
<1>4. Offsets \subseteq Nat
  BY DEF Offsets
<1> HIDE DEF m, last
<1>5. /\ next.tx = client.tx /\ next.method = client.method
      /\ next.index = (IF last THEN 0 ELSE client.index + 1)
      /\ next.stage = IF last THEN "confirm" ELSE "part"
  BY DEF TypeInv, TypeOK
<1>6. next \in [stage : Stages, method : Kinds \cup {None}, tx : Txs \cup {None}, index : Nat,
                message : Messages \cup {None}, written : Txs \cup {None}]
  BY <1>2, <1>3, <1>4 DEF TypeInv, TypeOK, Stages
<1> HIDE DEF next
<1> QED
  BY <1>1, <1>2, <1>3, <1>5, <1>6, SendTypes

LEMMA SendStepTypes ==
  ASSUME TypeInv, SendStep
  PROVE  TypeInv'
<1> DEFINE index == client.index + 1
           tx == IF client.method = "instruction" THEN client.tx ELSE None
           m == Message(client.method, tx, client.index)
           next == [client EXCEPT !.stage = "wait", !.message = m, !.index = index]
<1>1. At("step") /\ Send(m, next)
  BY DEF SendStep, TypeInv, TypeOK
<1>2. client.method \in Methods /\ client.index \in Nat
  BY <1>1 DEF TypeInv, TypeOK, ClientOK
<1>3. tx \in Txs \cup {None} /\ (client.method = "instruction" => tx \in Txs)
  BY <1>1 DEF TypeInv, TypeOK, ClientOK, At
<1>4. /\ client.method \in Kinds
      /\ client.method \notin {"write", "wholeInstruction", "cancel"}
  BY <1>2, Constants DEF Kinds, Methods
<1> index \in Nat
  BY <1>2
<1> HIDE DEF tx, index
<1>5. m \in Good /\ m \in Messages
  BY <1>2, <1>3, <1>4, MessageIsGood DEF Good
<1> HIDE DEF m
<1>6. next \in [stage : Stages, method : Kinds \cup {None}, tx : Txs \cup {None}, index : Nat,
                message : Messages \cup {None}, written : Txs \cup {None}]
  BY <1>2, <1>5 DEF TypeInv, TypeOK, Stages
<1>7. next.tx = client.tx /\ next.method = client.method /\ next.stage = "wait"
  BY DEF TypeInv, TypeOK
<1> HIDE DEF next
<1> QED
  BY <1>1, <1>5, <1>6, <1>7, SendTypes DEF At

LEMMA SendWholeTypes ==
  ASSUME TypeInv, SendWhole
  PROVE  TypeInv'
<1> DEFINE tx == IF client.method = "wholeAccount" THEN None ELSE client.tx
           m == Message(client.method, tx, 0)
           next == [client EXCEPT !.stage = "wait", !.message = m]
<1>1. At("whole") /\ Send(m, next)
  BY DEF SendWhole
<1>2. client.method \in {"create", "cancel", "wholeAccount", "wholeInstruction"}
  BY <1>1 DEF TypeInv, ClientOK
<1>3. /\ tx \in Txs \cup {None}
      /\ client.method \in {"wholeInstruction", "cancel"} => tx \in Txs
  BY <1>1 DEF TypeInv, TypeOK, ClientOK, At
<1>4. client.method \in Kinds /\ client.method \notin {"write", "instruction"}
  BY <1>2 DEF Kinds
<1> HIDE DEF tx
<1>5. m \in Good /\ m \in Messages
  BY <1>3, <1>4, MessageIsGood DEF Good
<1> HIDE DEF m
<1>6. /\ next.tx = client.tx /\ next.method = client.method /\ next.stage = "wait"
      /\ next \in [stage : Stages, method : Kinds \cup {None}, tx : Txs \cup {None}, index : Nat,
                   message : Messages \cup {None}, written : Txs \cup {None}]
  BY <1>5 DEF TypeInv, TypeOK, Stages
<1> HIDE DEF next
<1> QED
  BY <1>1, <1>5, <1>6, SendTypes DEF At

-----------------------------------------------------------------------------
LEMMA ClientStepTypes ==
  ASSUME TypeInv, ClientStep
  PROVE  TypeInv'
<1>0. client.index \in Nat /\ client.written \in Txs \cup {None} /\ client.tx \in Txs \cup {None}
  BY DEF TypeInv, TypeOK
<1>1. CASE ConfirmPart
  <2>1. /\ client.tx \in Txs /\ client.index \in Offsets
        /\ UNCHANGED <<chain, block, used, own, trouble>>
    BY <1>1 DEF ConfirmPart, TypeInv, ClientOK, At
  <2>2. CASE client.index + 1 = Parts
    <3>1. client' = [client EXCEPT !.stage = "written", !.index = client.index, !.written = client.tx]
      BY <1>1, <2>2 DEF ConfirmPart, TypeInv, TypeOK
    <3> QED
      BY <1>0, <2>1, <3>1, ClientTypes DEF TypeInv, TypeOK
  <2>3. CASE client.index + 1 # Parts
    <3>1. client' = [client EXCEPT !.stage = "confirm", !.index = client.index + 1,
                                   !.written = client.written]
      BY <1>1, <2>3 DEF ConfirmPart, TypeInv, TypeOK, At
    <3>2. client.index + 1 \in Offsets /\ client.index + 1 \in Nat
      BY <1>0, <2>1, <2>3, Constants DEF Offsets
    <3> QED
      BY <1>0, <2>1, <3>1, <3>2, ClientTypes DEF TypeInv, TypeOK
  <2> QED
    BY <2>2, <2>3
<1>2. CASE CheckStep
  <2>1. \E stage \in {"executed", "step", "raised"} : client' = [client EXCEPT !.stage = stage]
    BY <1>2 DEF CheckStep
  <2>2. PICK stage \in {"executed", "step", "raised"} : client' = [client EXCEPT !.stage = stage]
    BY <2>1
  <2>3. client' = [client EXCEPT !.stage = stage, !.index = client.index, !.written = client.written]
    BY <2>2 DEF TypeInv, TypeOK
  <2>4. At("wait") /\ client.method \in Methods /\ UNCHANGED <<chain, block, used, own, trouble>>
    BY <1>2 DEF CheckStep
  <2> QED
    BY <1>0, <2>3, <2>4, ClientTypes DEF TypeInv, TypeOK
<1>3. CASE ReturnWhole
  <2>1. client' = [client EXCEPT !.stage = "sent", !.index = client.index, !.written = client.written]
    BY <1>3 DEF ReturnWhole, TypeInv, TypeOK
  <2>2. UNCHANGED <<chain, block, used, own, trouble>>
    BY <1>3 DEF ReturnWhole
  <2> QED
    BY <1>0, <2>1, <2>2, ClientTypes DEF TypeInv, TypeOK
<1>4. CASE GiveUp
  <2>1. client' = [client EXCEPT !.stage = "raised", !.index = client.index, !.written = client.written]
    BY <1>4 DEF GiveUp, TypeInv, TypeOK
  <2>2. trouble' \in BOOLEAN /\ UNCHANGED <<chain, block, used, own>>
    BY <1>4 DEF GiveUp
  <2> QED
    BY <1>0, <2>1, <2>2, ClientTypes
<1> QED
  BY <1>1, <1>2, <1>3, <1>4, SendPartTypes, SendStepTypes, SendWholeTypes DEF ClientStep

LEMMA TestStepTypes ==
  ASSUME TypeInv, TestStep
  PROVE  TypeInv'
<1>0. used \subseteq Txs /\ client.tx \in Txs \cup {None}
  BY DEF TypeInv, TypeOK
<1>1. CASE \E tx \in Txs : Write(tx) \/ StepsFromInstruction(tx) \/ WholeFromInstruction(tx) \/ Cancel(tx)
  <2>1. PICK tx \in Txs : Write(tx) \/ StepsFromInstruction(tx) \/ WholeFromInstruction(tx) \/ Cancel(tx)
    BY <1>1
  <2>2. used' \subseteq Txs
    BY <1>0, <2>1 DEF Write, StepsFromInstruction, WholeFromInstruction, Cancel
  <2>3. CASE Write(tx)
    BY <2>2, <2>3, CallTypes DEF Write, Kinds
  <2>4. CASE StepsFromInstruction(tx)
    BY <2>2, <2>4, CallTypes DEF StepsFromInstruction, Kinds, Methods
  <2>5. CASE WholeFromInstruction(tx)
    BY <2>2, <2>5, CallTypes DEF WholeFromInstruction, Kinds
  <2>6. CASE Cancel(tx)
    BY <2>2, <2>6, CallTypes DEF Cancel, Kinds
  <2> QED
    BY <2>1, <2>3, <2>4, <2>5, <2>6
<1>2. CASE \E method \in FromAccount : StepsFromAccount(method)
  <2>1. PICK method \in FromAccount : StepsFromAccount(method)
    BY <1>2
  <2>2. client.written \in Txs /\ used' = used
    BY <2>1 DEF StepsFromAccount, TypeInv, ClientOK
  <2>3. method \in Methods /\ method \in Kinds /\ Call("step", method, client.written)
    BY <2>1 DEF StepsFromAccount, Methods, Kinds
  <2> QED
    BY <1>0, <2>2, <2>3, CallTypes
<1>3. CASE WholeFromAccount
  <2>1. client.written \in Txs /\ used' = used /\ Call("whole", "wholeAccount", client.written)
    BY <1>3 DEF WholeFromAccount, TypeInv, ClientOK
  <2> QED
    BY <1>0, <2>1, CallTypes DEF Kinds
<1>4. CASE CreateHolder
  <2>1. used' = used /\ Call("whole", "create", None)
    BY <1>4 DEF CreateHolder
  <2> QED
    BY <1>0, <2>1, CallTypes DEF Kinds
<1> QED
  BY <1>1, <1>2, <1>3, <1>4 DEF TestStep

LEMMA NextTypes ==
  ASSUME TypeInv, [Next]_vars
  PROVE  TypeInv'
<1>1. CASE NetworkStep
  <2>1. PICK m \in flight : Land(m) \/ Lose(m)
    BY <1>1 DEF NetworkStep
  <2>2. CASE Land(m)
    BY <2>2, LandTypes
  <2>3. CASE Lose(m)
    BY <2>3 DEF Lose, TypeInv, TypeOK, HolderOK, ClientOK, At
  <2> QED
    BY <2>1, <2>2, <2>3
<1>2. CASE NewBlock
  <2>1. block' \in 0..MaxBlocks
    BY <1>2, Constants DEF NewBlock, TypeInv, TypeOK
  <2> QED
    BY <1>2, <2>1 DEF NewBlock, chain, TypeInv, TypeOK, HolderOK, ClientOK, At
<1>3. CASE UNCHANGED vars
  BY <1>3 DEF vars, TypeInv, TypeOK, HolderOK, ClientOK, At
<1> QED
  BY <1>1, <1>2, <1>3, ClientStepTypes, TestStepTypes DEF Next

\* The type invariant of EvmLoader: in particular the offsets of the parts in
\* the account stay those of the transaction (write_transaction_to_holder_account).
THEOREM Types == Spec => []TypeOK
<1>1. Init => TypeInv
  BY InitTypes
<1>2. TypeInv /\ [Next]_vars => TypeInv'
  BY NextTypes
<1>3. TypeInv => TypeOK
  BY DEF TypeInv
<1> QED
  BY <1>1, <1>2, <1>3, PTL DEF Spec

-----------------------------------------------------------------------------
(***************************************************************************)
(* write_transaction_to_holder_account: what is known of its messages      *)
(* while they are sent and confirmed.                                      *)
(***************************************************************************)
Writing == client.stage \in {"part", "confirm", "written"}

OwnAreParts == \A m \in own : m.kind = "write" /\ m.tx = client.tx

SentBefore == \A n \in Offsets : (At("part") /\ client.index <= n) \/ \E m \in own : m.n = n

Confirmed ==
    \A n \in Offsets : At("written") \/ (At("confirm") /\ n < client.index) =>
      \E m \in own : m.n = n /\ Processed(m)

\* What was processed is in the account, and stays there as long as only parts
\* of the same transaction follow.
Kept ==
    ~disturbed => /\ own # {} => MayWrite
                  /\ \A m \in own : Processed(m) =>
                       holder.tag = "holder" /\ holder.tx = client.tx /\ m.n \in holder.parts

WriteInv == Writing => OwnAreParts /\ SentBefore /\ Confirmed /\ Kept

LEMMA WriteIsPermitted ==
  ASSUME NEW m, m.kind = "write"
  PROVE  Permitted(Instructions(m), "operator")
<1> DEFINE i == make_WriteHolder("operator", "holder")
<1>1. Instructions(m) = {i}
  BY DEF Instructions
<1>2. i.tag = "0x26" /\ i.signers = {"operator"} /\ i.writable = {"holder"}
  BY DEF make_WriteHolder, Instruction
<1> HIDE DEF i
<1>3. Needs(i.tag, "operator") = [signed |-> {"operator"}, changed |-> {"holder"}]
  BY <1>2 DEF Needs
<1>4. "operator" \in Signers({i}) /\ "holder" \in Writable({i}, "operator")
  BY <1>2 DEF Signers, Writable
<1>5. ~Executes(i)
  BY <1>2 DEF Executes
<1> QED
  BY <1>1, <1>3, <1>4, <1>5 DEF Permitted

LEMMA ProcessedGrows ==
  ASSUME NEW m, NEW result, Process(m, result), NEW x
  PROVE  Processed(x)' <=> Processed(x) \/ x = m
<1> DEFINE r == [message |-> m, result |-> result]
<1>1. processed' = processed \cup {r} /\ r.message = m
  BY DEF Process
<1> HIDE DEF r
<1>2. (\E p \in processed' : p.message = x) <=> (\E p \in processed : p.message = x) \/ r.message = x
  BY <1>1
<1> QED
  BY <1>1, <1>2 DEF Processed

LEMMA LandWrite ==
  ASSUME TypeInv, WriteInv, NEW m \in flight, Land(m)
  PROVE  WriteInv'
<1> SUFFICES ASSUME Writing' PROVE (OwnAreParts /\ SentBefore /\ Confirmed /\ Kept)'
  BY DEF WriteInv
<1>1. UNCHANGED <<client, own>> /\ Writing
  BY DEF Land, Writing
<1>2. PICK result : Process(m, result)
  BY DEF Land
<1>3. \A x : Processed(x)' <=> Processed(x) \/ x = m
  BY <1>2, ProcessedGrows
<1>4. OwnAreParts /\ SentBefore /\ Confirmed /\ Kept
  BY <1>1 DEF WriteInv
<1>5. OwnAreParts' /\ SentBefore'
  BY <1>1, <1>4 DEF OwnAreParts, SentBefore, At
<1>6. Confirmed'
  BY <1>1, <1>3, <1>4 DEF Confirmed, At
<1>7. Kept'
  <2> SUFFICES ASSUME ~disturbed' PROVE /\ own # {} => MayWrite'
                                        /\ \A x \in own : Processed(x)' =>
                                             /\ holder'.tag = "holder" /\ holder'.tx = client.tx
                                             /\ x.n \in holder'.parts
    BY <1>1 DEF Kept
  <2>1. ~disturbed /\ m \in own
    BY <1>2 DEF Process
  <2>2. m.kind = "write" /\ m.tx = client.tx /\ MayWrite
    BY <1>4, <2>1 DEF OwnAreParts, Kept
  <2>3. ~Fails(m)
    BY <2>2, WriteIsPermitted DEF Fails, ExecutesTx
  <2>4. holder' = Written(m)
    BY <2>2, <2>3 DEF Land, ExecutesTx
  <2>5. /\ holder'.tag = "holder" /\ holder'.tx = client.tx
        /\ m.n \in holder'.parts
        /\ holder.tag = "holder" /\ holder.tx = client.tx => holder.parts \subseteq holder'.parts
    BY <2>2, <2>4 DEF Written
  <2>6. ASSUME NEW x \in own, Processed(x)'
        PROVE  x.n \in holder'.parts
    BY <1>3, <1>4, <2>1, <2>5, <2>6 DEF Kept
  <2> QED
    BY <2>5, <2>6 DEF MayWrite
<1> QED
  BY <1>5, <1>6, <1>7

LEMMA SendPartWrite ==
  ASSUME TypeInv, WriteInv, SendPart
  PROVE  WriteInv'
<1> DEFINE m == Message("write", client.tx, client.index)
           last == client.index + 1 = Parts
           next == [client EXCEPT !.message = m, !.index = IF last THEN 0 ELSE @ + 1,
                                  !.stage = IF last THEN "confirm" ELSE "part"]
<1>1. At("part") /\ Send(m, next)
  BY DEF SendPart
<1>2. CASE Refused(m)
  <2>1. client'.stage = "raised"
    BY <1>1, <1>2 DEF Send, TypeInv, TypeOK
  <2> QED
    BY <2>1 DEF WriteInv, Writing
<1>3. CASE ~Refused(m)
  <2>1. client' = next /\ own' = own \cup {m} /\ UNCHANGED <<holder, processed, disturbed>>
    BY <1>1, <1>3 DEF Send
  <2>2. /\ client'.tx = client.tx
        /\ client'.index = (IF last THEN 0 ELSE client.index + 1)
        /\ client'.stage = (IF last THEN "confirm" ELSE "part")
    BY <2>1 DEF TypeInv, TypeOK
  <2>3. m.kind = "write" /\ m.tx = client.tx /\ m.n = client.index
    BY DEF Message
  <2>4. MayWrite /\ ~Processed(m)
    BY <1>3, <2>3 DEF Refused, Fails
  <2> HIDE DEF m
  <2>5. OwnAreParts /\ SentBefore /\ Kept
    BY <1>1 DEF WriteInv, Writing, At
  <2>6. OwnAreParts'
    BY <2>1, <2>2, <2>3, <2>5 DEF OwnAreParts
  <2>7. SentBefore'
    <3> SUFFICES ASSUME NEW n \in Offsets
                 PROVE  (client'.stage = "part" /\ client'.index <= n) \/ \E x \in own' : x.n = n
      BY DEF SentBefore, At
    <3>1. client.index \in Offsets
      BY <1>1, PartIsGood
    <3>2. CASE n < client.index
      <4>1. PICK x \in own : x.n = n
        BY <2>5, <3>1, <3>2 DEF SentBefore, Offsets
      <4> QED
        BY <2>1, <4>1
    <3>3. CASE n = client.index
      BY <2>1, <2>3, <3>3
    <3>4. CASE n > client.index
      BY <2>2, <3>1, <3>4, Constants DEF Offsets
    <3> QED
      BY <3>1, <3>2, <3>3, <3>4 DEF Offsets
  <2>8. Confirmed'
    BY <2>2, <1>1, Constants DEF Confirmed, At, Offsets
  <2>9. Kept'
    BY <2>1, <2>2, <2>4, <2>5 DEF Kept, MayWrite, Processed
  <2> QED
    BY <2>6, <2>7, <2>8, <2>9 DEF WriteInv
<1> QED
  BY <1>2, <1>3

LEMMA ConfirmPartWrite ==
  ASSUME TypeInv, WriteInv, ConfirmPart
  PROVE  WriteInv'
<1>1. At("confirm") /\ Processed(Receipt(client.index)) /\ UNCHANGED <<chain, own>>
  BY DEF ConfirmPart
<1>2. /\ client'.tx = client.tx
      /\ client.index + 1 = Parts => client'.stage = "written"
      /\ client.index + 1 # Parts => client'.stage = "confirm" /\ client'.index = client.index + 1
  BY <1>1 DEF ConfirmPart, TypeInv, TypeOK, At
<1>3. OwnAreParts /\ SentBefore /\ Confirmed /\ Kept
  BY <1>1 DEF WriteInv, Writing, At
<1>4. client.index \in Offsets
  BY <1>1 DEF TypeInv, ClientOK, At
<1>5. \E m \in own : m.n = client.index /\ Processed(m)
  <2>1. \E m \in own : m.n = client.index
    BY <1>1, <1>3, <1>4 DEF SentBefore, At
  <2>2. Receipt(client.index) \in own /\ Receipt(client.index).n = client.index
    BY <2>1 DEF Receipt
  <2> QED
    BY <1>1, <2>2
<1>6. \A m : Processed(m)' <=> Processed(m)
  BY <1>1 DEF chain, Processed
<1>7. OwnAreParts' /\ Kept'
  BY <1>1, <1>2, <1>3, <1>6 DEF OwnAreParts, Kept, MayWrite, chain
<1>8. SentBefore'
  BY <1>1, <1>3 DEF SentBefore, At
<1>9. Confirmed'
  <2> SUFFICES ASSUME NEW n \in Offsets,
                      client'.stage = "written" \/ (client'.stage = "confirm" /\ n < client'.index)
               PROVE  \E m \in own : m.n = n /\ Processed(m)
    BY <1>1, <1>6 DEF Confirmed, At
  <2>1. n = client.index \/ n < client.index
    BY <1>2, <1>4, Constants DEF Offsets
  <2> QED
    BY <1>1, <1>3, <1>5, <2>1 DEF Confirmed
<1> QED
  BY <1>7, <1>8, <1>9 DEF WriteInv

LEMMA CallWrite ==
  ASSUME TypeInv, NEW stage \in {"part", "step", "whole"}, NEW method, NEW tx, Call(stage, method, tx)
  PROVE  WriteInv'
<1>1. client'.stage = stage /\ client'.index = 0 /\ own' = {}
  BY DEF Call, Idle
<1> QED
  BY <1>1 DEF WriteInv, Writing, OwnAreParts, SentBefore, Confirmed, Kept, At, Offsets

LEMMA ClientStepWrite ==
  ASSUME TypeInv, WriteInv, ClientStep
  PROVE  WriteInv'
<1>1. CASE SendPart
  BY <1>1, SendPartWrite
<1>2. CASE ConfirmPart
  BY <1>2, ConfirmPartWrite
<1>3. CASE SendStep \/ SendWhole \/ CheckStep \/ ReturnWhole \/ GiveUp
  <2>1. client'.stage \notin {"part", "confirm", "written"}
    BY <1>3 DEF SendStep, SendWhole, Send, CheckStep, ReturnWhole, GiveUp, TypeInv, TypeOK
  <2> QED
    BY <2>1 DEF WriteInv, Writing
<1> QED
  BY <1>1, <1>2, <1>3 DEF ClientStep

LEMMA TestStepWrite ==
  ASSUME TypeInv, WriteInv, TestStep
  PROVE  WriteInv'
<1>1. \E stage \in {"part", "step", "whole"} : \E method, tx : Call(stage, method, tx)
  BY DEF TestStep, Write, StepsFromInstruction, WholeFromInstruction, Cancel, StepsFromAccount,
         WholeFromAccount, CreateHolder
<1> QED
  BY <1>1, CallWrite

LEMMA NextWrite ==
  ASSUME TypeInv, WriteInv, [Next]_vars
  PROVE  WriteInv'
<1>1. CASE NetworkStep
  <2>1. PICK m \in flight : Land(m) \/ Lose(m)
    BY <1>1 DEF NetworkStep
  <2>2. CASE Lose(m)
    BY <2>2 DEF Lose, WriteInv, Writing, OwnAreParts, SentBefore, Confirmed, Kept, MayWrite, Processed, At
  <2> QED
    BY <2>1, <2>2, LandWrite
<1>2. CASE NewBlock \/ UNCHANGED vars
  BY <1>2 DEF NewBlock, chain, vars, WriteInv, Writing, OwnAreParts, SentBefore, Confirmed, Kept, MayWrite,
              Processed, At
<1> QED
  BY <1>1, <1>2, ClientStepWrite, TestStepWrite DEF Next

LEMMA WriteIsHeld ==
  ASSUME TypeInv, WriteInv, At("written"), ~disturbed
  PROVE  Holds(client.tx)
<1>1. Confirmed /\ Kept
  BY DEF WriteInv, Writing, At
<1>2. \A n \in Offsets : holder.tag = "holder" /\ holder.tx = client.tx /\ n \in holder.parts
  BY <1>1 DEF Confirmed, Kept
<1>3. 0 \in Offsets /\ holder.parts \subseteq Offsets
  BY Constants DEF Offsets, TypeInv, TypeOK
<1> QED
  BY <1>2, <1>3 DEF Holds

\* When write_transaction_to_holder_account returns, the account holds every
\* part of the transaction, whatever its length and in whatever order the parts
\* were processed, unless a message of an earlier call came in between.
THEOREM WriteIsWhole == Spec => []WriteReturnsWhole
<1>1. Init => TypeInv /\ WriteInv
  BY InitTypes DEF Init, Idle, WriteInv, Writing
<1>2. TypeInv /\ WriteInv /\ [Next]_vars => (TypeInv /\ WriteInv)'
  BY NextTypes, NextWrite
<1>3. TypeInv /\ WriteInv => WriteReturnsWhole
  BY WriteIsHeld DEF WriteReturnsWhole
<1> QED
  BY <1>1, <1>2, <1>3, PTL DEF Spec

-----------------------------------------------------------------------------
(***************************************************************************)
(* The methods that execute step by step: how far the EVM is with the      *)
(* transaction of the call, and what is known of the message it waits for. *)
(***************************************************************************)
InFlightIsNew == \A m \in flight : ~Processed(m)

\* The test signs a new transaction for every call that writes or executes one.
UsedOnly ==
    /\ \A m \in flight : m.tx \in used \cup {None}
    /\ holder.tx \in used \cup {None}
    /\ client.tx \in used \cup {None}
    /\ client.written \in used \cup {None}
    /\ \A t \in Txs \ used : ran[t] = 0

NotRunYet ==
    /\ At("written") => client.written = client.tx
    /\ Writing /\ ~disturbed => ran[client.tx] = 0

Progress(k) ==
    /\ client.tx \in Txs /\ ran[client.tx] = k
    /\ k = 0 => IF client.method = "instruction" THEN holder.tx # client.tx ELSE Holds(client.tx)
    /\ 0 < k /\ k < Iterations =>
         holder = [tag |-> "active", tx |-> client.tx, parts |-> {}, left |-> Iterations - k]
    /\ k = Iterations => holder = Finalized(client.tx)

StepResult(result) == IF client.index = Iterations THEN result \in {"exit_status", "ExitError"}
                                                   ELSE result = "ok"

Waiting ==
    /\ client.index \in 1..Iterations
    /\ client.message \in own /\ client.message.kind = client.method
    /\ client.method = "instruction" => client.message.tx = client.tx
    /\ own \cap flight \subseteq {client.message}
    /\ ~Processed(client.message) => Progress(client.index - 1) /\ ~Fails(client.message)
    /\ \A p \in processed :
         p.message = client.message => Progress(client.index) /\ StepResult(p.result)

Steps ==
    /\ At("executed") => client.method \in Methods
    /\ client.method \in Methods /\ ~disturbed =>
         /\ At("step") => client.index < Iterations /\ Progress(client.index) /\ own \cap flight = {}
         /\ At("wait") => Waiting
         /\ At("executed") => client.index = Iterations /\ Progress(client.index)
                              /\ own \cap flight = {}

StepInv == InFlightIsNew /\ UsedOnly /\ NotRunYet /\ Steps

LEMMA Waits ==
  ASSUME UNCHANGED holder
  PROVE  \A m : (Fails(m)' <=> Fails(m)) /\ (Begins(m)' <=> Begins(m))
BY DEF Fails, Begins, Continues, Subject, Holds, MayWrite, ExecutesTx

LEMMA ProcessedStays ==
  ASSUME UNCHANGED processed
  PROVE  \A m : Processed(m)' <=> Processed(m)
BY DEF Processed

\* The three ways to send: what is sent, and the call that goes on.
LEMMA Sends ==
  ASSUME TypeInv, SendPart \/ SendStep \/ SendWhole
  PROVE  \E m, next :
           /\ m \in Good /\ Send(m, next)
           /\ m.tx \in {client.tx, None} /\ m.kind \in {"write", client.method}
           /\ next.tx = client.tx /\ next.method = client.method /\ next.written = client.written
           /\ next.stage \in {"part", "confirm", "wait"}
<1>1. CASE SendPart
  <2> DEFINE m == Message("write", client.tx, client.index)
             last == client.index + 1 = Parts
             next == [client EXCEPT !.message = m, !.index = IF last THEN 0 ELSE @ + 1,
                                    !.stage = IF last THEN "confirm" ELSE "part"]
  <2>1. At("part") /\ Send(m, next)
    BY <1>1 DEF SendPart
  <2>2. m \in Good
    BY <2>1, PartIsGood
  <2>3. m.tx = client.tx /\ m.kind = "write"
    BY DEF Message
  <2> HIDE DEF m, last
  <2>4. /\ next.tx = client.tx /\ next.method = client.method /\ next.written = client.written
        /\ next.stage \in {"part", "confirm", "wait"}
    BY DEF TypeInv, TypeOK
  <2> HIDE DEF next
  <2> QED
    BY <2>1, <2>2, <2>3, <2>4
<1>2. CASE SendStep
  <2> DEFINE tx == IF client.method = "instruction" THEN client.tx ELSE None
             m == Message(client.method, tx, client.index)
             next == [client EXCEPT !.stage = "wait", !.message = m, !.index = @ + 1]
  <2>1. At("step") /\ Send(m, next)
    BY <1>2 DEF SendStep
  <2>2. client.method \in Methods /\ client.index \in Nat
    BY <2>1 DEF TypeInv, TypeOK, ClientOK
  <2>3. tx \in Txs \cup {None} /\ (client.method = "instruction" => tx \in Txs)
    BY <2>1 DEF TypeInv, TypeOK, ClientOK, At
  <2>4. client.method \in Kinds /\ client.method \notin {"write", "wholeInstruction", "cancel"}
    BY <2>2, Constants DEF Kinds, Methods
  <2>5. tx \in {client.tx, None}
    OBVIOUS
  <2> HIDE DEF tx
  <2>6. m \in Good /\ m.tx \in {client.tx, None} /\ m.kind = client.method
    BY <2>2, <2>3, <2>4, <2>5, MessageIsGood DEF Message
  <2> HIDE DEF m
  <2>7. /\ next.tx = client.tx /\ next.method = client.method /\ next.written = client.written
        /\ next.stage = "wait"
    BY DEF TypeInv, TypeOK
  <2> HIDE DEF next
  <2> QED
    BY <2>1, <2>6, <2>7
<1>3. CASE SendWhole
  <2> DEFINE tx == IF client.method = "wholeAccount" THEN None ELSE client.tx
             m == Message(client.method, tx, 0)
             next == [client EXCEPT !.stage = "wait", !.message = m]
  <2>1. At("whole") /\ Send(m, next)
    BY <1>3 DEF SendWhole
  <2>2. client.method \in {"create", "cancel", "wholeAccount", "wholeInstruction"}
    BY <2>1 DEF TypeInv, ClientOK
  <2>3. tx \in Txs \cup {None} /\ (client.method \in {"wholeInstruction", "cancel"} => tx \in Txs)
    BY <2>1 DEF TypeInv, TypeOK, ClientOK, At
  <2>4. client.method \in Kinds /\ client.method \notin {"write", "instruction"}
    BY <2>2 DEF Kinds
  <2>5. tx \in {client.tx, None}
    OBVIOUS
  <2> HIDE DEF tx
  <2>6. m \in Good /\ m.tx \in {client.tx, None} /\ m.kind = client.method
    BY <2>3, <2>4, <2>5, MessageIsGood DEF Message
  <2> HIDE DEF m
  <2>7. /\ next.tx = client.tx /\ next.method = client.method /\ next.written = client.written
        /\ next.stage = "wait"
    BY DEF TypeInv, TypeOK
  <2> HIDE DEF next
  <2> QED
    BY <2>1, <2>6, <2>7
<1> QED
  BY <1>1, <1>2, <1>3

\* The other steps of a call leave the account and its messages alone.
LEMMA Looks ==
  ASSUME TypeInv, ConfirmPart \/ CheckStep \/ ReturnWhole \/ GiveUp
  PROVE  /\ UNCHANGED <<chain, used, own>>
         /\ client'.tx = client.tx /\ client'.method = client.method
         /\ client'.message = client.message
         /\ client'.stage \in {"written", "confirm", "executed", "step", "sent", "raised"}
         /\ client'.written \in {client.written, client.tx}
         /\ client'.stage = "written" => client'.written = client.tx
<1>1. UNCHANGED <<chain, used, own>>
  BY DEF ConfirmPart, CheckStep, ReturnWhole, GiveUp
<1>2. CASE ConfirmPart
  BY <1>1, <1>2 DEF ConfirmPart, TypeInv, TypeOK, At
<1>3. CASE CheckStep \/ ReturnWhole \/ GiveUp
  <2>1. \E stage \in {"executed", "step", "sent", "raised"} : client' = [client EXCEPT !.stage = stage]
    BY <1>3 DEF CheckStep, ReturnWhole, GiveUp
  <2> QED
    BY <1>1, <2>1 DEF TypeInv, TypeOK
<1> QED
  BY <1>2, <1>3

\* A call begins with nothing sent.
LEMMA Calling ==
  ASSUME NEW stage, NEW method, NEW tx, Call(stage, method, tx)
  PROVE  /\ client'.stage = stage /\ client'.method = method /\ client'.tx = tx
         /\ client'.index = 0 /\ client'.written = client.written
         /\ own' = {} /\ (Resting \/ method = "cancel")
         /\ disturbed' = (disturbed /\ method \in FromAccount \cup {"wholeAccount"})
         /\ UNCHANGED <<holder, flight, processed, block, ran, trouble>>
BY DEF Call, Idle

\* Each call has its method; one that executes an account has a written transaction.
LEMMA TestCalls ==
  ASSUME TestStep
  PROVE  \E stage, method, tx :
           /\ Call(stage, method, tx)
           /\ \/ /\ stage = "part" /\ method = "write"
              \/ /\ stage = "step" /\ method = "instruction"
              \/ /\ stage = "whole" /\ method = "wholeInstruction"
              \/ stage = "whole" /\ method \in {"create", "cancel", "wholeAccount"}
              \/ stage = "step" /\ method \in FromAccount
           /\ IF method \in {"write", "instruction", "wholeInstruction"}
              THEN tx \in Txs /\ tx \notin used /\ used' = used \cup {tx}
              ELSE used' = used
           /\ method = "create" => tx = None
           /\ method = "cancel" => /\ tx = client.tx /\ At("step")
                                  /\ client.method = "instruction" /\ client.index = 1
           /\ method \in FromAccount \cup {"wholeAccount"} => At("written") /\ tx = client.written
<1>1. CASE \E tx \in Txs : Write(tx)
  BY <1>1, Constants DEF Write
<1>2. CASE \E tx \in Txs : StepsFromInstruction(tx)
  BY <1>2, Constants DEF StepsFromInstruction
<1>3. CASE \E tx \in Txs : WholeFromInstruction(tx)
  BY <1>3, Constants DEF WholeFromInstruction
<1>4. CASE \E tx \in Txs : Cancel(tx)
  BY <1>4, Constants DEF Cancel
<1>5. CASE \E method \in FromAccount : StepsFromAccount(method)
  BY <1>5, Constants DEF StepsFromAccount
<1>6. CASE WholeFromAccount
  BY <1>6, Constants DEF WholeFromAccount
<1>7. CASE CreateHolder
  BY <1>7, Constants DEF CreateHolder
<1> QED
  BY <1>1, <1>2, <1>3, <1>4, <1>5, <1>6, <1>7 DEF TestStep

\* What a message does to the account and to the steps that ran.
LEMMA Lands ==
  ASSUME TypeInv, NEW m \in flight, Land(m)
  PROVE  /\ m \in Good /\ UNCHANGED <<block, client, used, own, trouble>>
         /\ holder'.tx \in {holder.tx, m.tx, None}
         /\ \/ ran' = ran
            \/ /\ ExecutesTx(m) /\ ran' = [ran EXCEPT ![Subject(m)] = @ + 1]
               /\ Subject(m) \in Txs /\ Subject(m) \in {holder.tx, m.tx}
         /\ ~ExecutesTx(m) => ran' = ran
<1>1. m \in Good /\ UNCHANGED <<block, client, used, own, trouble>>
  BY DEF Land, TypeInv
<1>2. CASE ~ExecutesTx(m) \/ Fails(m)
  <2>1. /\ ran' = ran
        /\ holder' \in {holder, Created, Written(m), Finalized(m.tx)}
    BY <1>2 DEF Land
  <2> QED
    BY <1>1, <2>1 DEF Created, Written, Finalized
<1>3. CASE ExecutesTx(m) /\ ~Fails(m)
  <2>1. holder' = Executed(m) /\ ran' = [ran EXCEPT ![Subject(m)] = @ + 1]
    BY <1>3 DEF Land, ExecutesTx
  <2>2. Subject(m) \in Txs
    BY <1>1, <1>3, SubjectIsTx DEF Fails
  <2>3. Subject(m) \in {holder.tx, m.tx} /\ Executed(m).tx = Subject(m)
    BY DEF Subject, Executed, Finalized
  <2> QED
    BY <1>1, <1>3, <2>1, <2>2, <2>3
<1> QED
  BY <1>2, <1>3

-----------------------------------------------------------------------------
LEMMA NextInFlight ==
  ASSUME TypeInv, InFlightIsNew, [Next]_vars
  PROVE  InFlightIsNew'
<1>1. CASE TestStep
  BY <1>1, TestCalls, Calling, ProcessedStays DEF InFlightIsNew
<1>2. CASE SendPart \/ SendStep \/ SendWhole
  <2>1. PICK m, next : m \in Good /\ Send(m, next)
    BY <1>2, Sends
  <2>2. UNCHANGED processed /\ (flight' = flight \/ (flight' = flight \cup {m} /\ ~Processed(m)))
    BY <2>1 DEF Send, Refused
  <2> QED
    BY <2>2, ProcessedStays DEF InFlightIsNew
<1>3. CASE ConfirmPart \/ CheckStep \/ ReturnWhole \/ GiveUp
  BY <1>3, Looks, ProcessedStays DEF InFlightIsNew, chain
<1>4. CASE NetworkStep
  <2>1. PICK m \in flight : Land(m) \/ Lose(m)
    BY <1>4 DEF NetworkStep
  <2>2. CASE Land(m)
    <3>1. PICK result : Process(m, result)
      BY <2>2 DEF Land
    <3>2. flight' = flight \ {m}
      BY <3>1 DEF Process
    <3> QED
      BY <3>1, <3>2, ProcessedGrows DEF InFlightIsNew
  <2>3. CASE Lose(m)
    BY <2>3, ProcessedStays DEF Lose, InFlightIsNew
  <2> QED
    BY <2>1, <2>2, <2>3
<1>5. CASE NewBlock \/ UNCHANGED vars
  BY <1>5, ProcessedStays DEF NewBlock, chain, vars, InFlightIsNew
<1> QED
  BY <1>1, <1>2, <1>3, <1>4, <1>5 DEF Next, ClientStep

LEMMA NextUsed ==
  ASSUME TypeInv, UsedOnly, [Next]_vars
  PROVE  UsedOnly'
<1>1. CASE TestStep
  <2>1. PICK stage, method, tx :
           /\ Call(stage, method, tx)
           /\ IF method \in {"write", "instruction", "wholeInstruction"}
              THEN tx \in Txs /\ used' = used \cup {tx}
              ELSE used' = used
           /\ method = "create" => tx = None
           /\ method = "cancel" => tx = client.tx
           /\ method \in FromAccount \cup {"wholeAccount"} => tx = client.written
           /\ method \in {"write", "instruction", "wholeInstruction", "create", "cancel", "wholeAccount"}
                \cup FromAccount
    BY <1>1, TestCalls, Constants
  <2>2. used \subseteq used' /\ tx \in used' \cup {None}
    BY <2>1, Constants DEF UsedOnly
  <2>3. /\ client'.tx = tx /\ client'.written = client.written
        /\ UNCHANGED <<holder, flight, ran>>
    BY <2>1, Calling
  <2> QED
    BY <2>2, <2>3 DEF UsedOnly
<1>2. CASE SendPart \/ SendStep \/ SendWhole
  <2>1. PICK m, next : /\ m \in Good /\ Send(m, next)
                       /\ m.tx \in {client.tx, None}
                       /\ next.tx = client.tx /\ next.written = client.written
    BY <1>2, Sends
  <2>2. /\ UNCHANGED <<holder, used, ran>> /\ flight' \subseteq flight \cup {m}
        /\ client'.tx = client.tx /\ client'.written = client.written
    <3>1. CASE Refused(m)
      BY <2>1, <3>1 DEF Send, TypeInv, TypeOK
    <3>2. CASE ~Refused(m)
      BY <2>1, <3>2 DEF Send
    <3> QED
      BY <3>1, <3>2
  <2> QED
    BY <2>1, <2>2 DEF UsedOnly
<1>3. CASE ConfirmPart \/ CheckStep \/ ReturnWhole \/ GiveUp
  <2>1. /\ UNCHANGED <<holder, flight, ran, used>> /\ client'.tx = client.tx
        /\ client'.written \in {client.written, client.tx}
    BY <1>3, Looks DEF chain
  <2> QED
    BY <2>1 DEF UsedOnly
<1>4. CASE NetworkStep
  <2>1. PICK m \in flight : Land(m) \/ Lose(m)
    BY <1>4 DEF NetworkStep
  <2>2. CASE Land(m)
    <3>1. /\ flight' \subseteq flight /\ UNCHANGED <<client, used>>
          /\ holder'.tx \in {holder.tx, m.tx, None}
      BY <2>2, Lands DEF Land, Process
    <3>2. \A t \in Txs \ used' : ran'[t] = 0
      <4>1. CASE ran' = ran
        BY <3>1, <4>1 DEF UsedOnly
      <4>2. CASE /\ ran' = [ran EXCEPT ![Subject(m)] = @ + 1]
                 /\ Subject(m) \in Txs /\ Subject(m) \in {holder.tx, m.tx}
        BY <3>1, <4>2, Constants DEF UsedOnly, TypeInv, TypeOK
      <4> QED
        BY <2>2, <4>1, <4>2, Lands
    <3> QED
      BY <3>1, <3>2 DEF UsedOnly
  <2>3. CASE Lose(m)
    BY <2>3 DEF Lose, UsedOnly
  <2> QED
    BY <2>1, <2>2, <2>3
<1>5. CASE NewBlock \/ UNCHANGED vars
  BY <1>5 DEF NewBlock, chain, vars, UsedOnly
<1> QED
  BY <1>1, <1>2, <1>3, <1>4, <1>5 DEF Next, ClientStep

LEMMA NextNotRun ==
  ASSUME TypeInv, WriteInv, UsedOnly, NotRunYet, [Next]_vars
  PROVE  NotRunYet'
<1>1. CASE TestStep
  <2>1. PICK stage, method, tx :
           /\ Call(stage, method, tx)
           /\ stage \in {"part", "step", "whole"}
           /\ stage = "part" => tx \in Txs /\ tx \notin used
    BY <1>1, TestCalls, Constants
  <2>2. client'.stage = stage /\ client'.tx = tx /\ ran' = ran
    BY <2>1, Calling
  <2> QED
    BY <2>1, <2>2 DEF NotRunYet, Writing, At, UsedOnly
<1>2. CASE SendPart \/ SendStep \/ SendWhole
  <2>1. PICK m, next : /\ m \in Good /\ Send(m, next)
                       /\ next.tx = client.tx
                       /\ next.stage \in {"part", "confirm", "wait"}
    BY <1>2, Sends
  <2>2. UNCHANGED <<ran, disturbed>>
    BY <2>1 DEF Send
  <2>3. CASE Refused(m)
    BY <2>1, <2>3 DEF Send, TypeInv, TypeOK, NotRunYet, Writing, At
  <2>4. CASE ~Refused(m)
    <3>1. client'.tx = client.tx /\ client'.stage \in {"part", "confirm", "wait"}
      BY <2>1, <2>4 DEF Send
    <3>2. client'.stage \in {"part", "confirm"} => Writing
      BY <1>2, <2>1, <2>4 DEF SendPart, SendStep, SendWhole, Send, TypeInv, TypeOK, Writing, At
    <3> QED
      BY <2>2, <3>1, <3>2 DEF NotRunYet, Writing, At
  <2> QED
    BY <2>3, <2>4
<1>3. CASE ConfirmPart
  <2>1. /\ UNCHANGED <<ran, disturbed>> /\ client'.tx = client.tx
        /\ client'.stage = "written" => client'.written = client.tx
        /\ client.stage = "confirm"
    BY <1>3, Looks DEF chain, ConfirmPart, At
  <2> QED
    BY <2>1 DEF NotRunYet, Writing, At
<1>4. CASE CheckStep \/ ReturnWhole \/ GiveUp
  <2>1. client'.stage \notin {"part", "confirm", "written"}
    BY <1>4 DEF CheckStep, ReturnWhole, GiveUp, TypeInv, TypeOK
  <2> QED
    BY <2>1 DEF NotRunYet, Writing, At
<1>5. CASE NetworkStep
  <2>1. PICK m \in flight : Land(m) \/ Lose(m)
    BY <1>5 DEF NetworkStep
  <2>2. CASE Land(m)
    <3>1. UNCHANGED client /\ (~disturbed' => ~disturbed /\ m \in own)
      BY <2>2 DEF Land, Process
    <3>2. Writing /\ ~disturbed' => ~ExecutesTx(m)
      BY <3>1 DEF WriteInv, OwnAreParts, ExecutesTx
    <3>3. ~ExecutesTx(m) => ran' = ran
      BY <2>2, Lands
    <3> QED
      BY <3>1, <3>2, <3>3 DEF NotRunYet, Writing, At
  <2>3. CASE Lose(m)
    BY <2>3 DEF Lose, NotRunYet, Writing, At
  <2> QED
    BY <2>1, <2>2, <2>3
<1>6. CASE NewBlock \/ UNCHANGED vars
  BY <1>6 DEF NewBlock, chain, vars, NotRunYet, Writing, At
<1> QED
  BY <1>1, <1>2, <1>3, <1>4, <1>5, <1>6 DEF Next, ClientStep

-----------------------------------------------------------------------------
\* A message of the call executes the next step of its transaction, and its log
\* has the exit status after the last one only.
LEMMA StepRuns ==
  ASSUME TypeInv, NEW m \in flight, Land(m), ~Fails(m),
         client.method \in Methods, m.kind = client.method,
         client.method = "instruction" => m.tx = client.tx,
         NEW k \in Nat, k < Iterations, Progress(k)
  PROVE  /\ Progress(k + 1)'
         /\ \E result : /\ Process(m, result)
                        /\ IF k + 1 = Iterations THEN result \in {"exit_status", "ExitError"}
                           ELSE result = "ok"
<1>1. m.kind \in Methods /\ ExecutesTx(m) /\ m.kind \notin {"create", "write", "cancel", "wholeAccount"}
  BY Constants DEF Methods, ExecutesTx
<1>2. /\ holder' = Executed(m) /\ ran' = [ran EXCEPT ![Subject(m)] = @ + 1]
      /\ \E result \in (IF Executed(m).tag = "active" THEN {"ok"} ELSE {"exit_status", "ExitError"}) :
           Process(m, result)
      /\ UNCHANGED client
  BY <1>1 DEF Land
<1>3. client.tx \in Txs /\ ran[client.tx] = k /\ ran \in [Txs -> Nat]
  BY DEF Progress, TypeInv, TypeOK
<1>4. k > 0 => holder = [tag |-> "active", tx |-> client.tx, parts |-> {}, left |-> Iterations - k]
  BY DEF Progress
<1>5. k = 0 => IF client.method = "instruction" THEN holder.tx # client.tx ELSE Holds(client.tx)
  BY DEF Progress
<1>6. Subject(m) = client.tx
  <2>1. CASE m.kind = "instruction"
    BY <2>1, Constants DEF Subject
  <2>2. CASE m.kind # "instruction"
    BY <1>1, <1>4, <1>5, <2>2 DEF Subject, Methods, Holds
  <2> QED
    BY <2>1, <2>2
<1>7. Continues(m) <=> k > 0
  <2>1. CASE k > 0
    BY <1>1, <1>4, <1>6, <2>1 DEF Continues
  <2>2. CASE k = 0
    BY <1>5, <1>6, <2>2 DEF Continues, Holds
  <2> QED
    BY <2>1, <2>2
<1>8. Executed(m) = IF Iterations - k - 1 = 0 THEN Finalized(client.tx)
                    ELSE [tag |-> "active", tx |-> client.tx, parts |-> {}, left |-> Iterations - k - 1]
  <2>1. (IF Continues(m) THEN holder.left ELSE Iterations) = Iterations - k
    BY <1>4, <1>7, Constants
  <2> QED
    BY <1>1, <1>6, <2>1 DEF Executed
<1>9. ran'[client.tx] = k + 1
  BY <1>2, <1>3, <1>6
<1>10. Progress(k + 1)'
  <2>1. /\ k + 1 # 0 /\ Iterations - (k + 1) = Iterations - k - 1
        /\ Iterations - k - 1 = 0 <=> k + 1 = Iterations
    BY Constants
  <2>2. client'.tx = client.tx /\ client'.tx \in Txs /\ ran'[client'.tx] = k + 1
    BY <1>2, <1>3, <1>9
  <2>3. k + 1 < Iterations => holder' = [tag |-> "active", tx |-> client'.tx, parts |-> {},
                                         left |-> Iterations - (k + 1)]
    <3>1. k + 1 < Iterations => Iterations - k - 1 # 0
      BY Constants
    <3> QED
      BY <1>2, <1>8, <2>1, <2>2, <3>1, Zenon
  <2>4. k + 1 = Iterations => holder' = Finalized(client'.tx)
    BY <1>2, <1>8, <2>1, <2>2
  <2> QED
    BY <2>1, <2>2, <2>3, <2>4 DEF Progress, Finalized
<1>11. Executed(m).tag = "active" <=> k + 1 # Iterations
  BY <1>8, Constants DEF Finalized
<1> QED
  BY <1>2, <1>10, <1>11

LEMMA LandSteps ==
  ASSUME TypeInv, StepInv, NEW m \in flight, Land(m)
  PROVE  Steps'
<1>1. UNCHANGED <<client, own>> /\ (~disturbed' => ~disturbed /\ m \in own)
  BY DEF Land, Process
<1>2. Steps /\ InFlightIsNew
  BY DEF StepInv
<1> SUFFICES ASSUME client.method \in Methods, ~disturbed, m \in own
             PROVE  ~At("step") /\ ~At("executed") /\ (At("wait") => Waiting')
  BY <1>1, <1>2 DEF Steps, At
<1>3. ~At("step") /\ ~At("executed")
  BY <1>2 DEF Steps
<1>4. ASSUME At("wait") PROVE Waiting'
  <2>1. /\ client.index \in 1..Iterations
        /\ client.message \in own /\ client.message.kind = client.method
        /\ client.method = "instruction" => client.message.tx = client.tx
        /\ own \cap flight \subseteq {client.message}
        /\ ~Processed(client.message) => Progress(client.index - 1) /\ ~Fails(client.message)
    BY <1>2, <1>4 DEF Steps, Waiting
  <2>2. client.message = m
    BY <2>1
  <2>3. ~Processed(m)
    BY <1>2 DEF InFlightIsNew
  <2> PICK k \in Nat : k = client.index - 1 /\ k < Iterations
    BY <2>1, Constants
  <2>4. /\ Progress(k + 1)'
        /\ \E result : /\ Process(m, result)
                       /\ IF k + 1 = Iterations THEN result \in {"exit_status", "ExitError"}
                          ELSE result = "ok"
    BY <2>1, <2>2, <2>3, StepRuns
  <2>5. k + 1 = client.index
    BY <2>1
  <2>6. PICK result : Process(m, result) /\ StepResult(result)
    BY <2>4, <2>5 DEF StepResult
  <2>7. Progress(client.index)'
    BY <1>1, <2>4, <2>5
  <2>8. /\ Processed(m)' /\ flight' \subseteq flight
        /\ \A p \in processed' : p.message = m => p.result = result
    <3> DEFINE r == [message |-> m, result |-> result]
    <3>1. processed' = processed \cup {r} /\ flight' \subseteq flight
      BY <2>6 DEF Process
    <3>2. r.message = m /\ r.result = result
      OBVIOUS
    <3> HIDE DEF r
    <3>3. \A p \in processed : p.message # m
      BY <2>3 DEF Processed
    <3>4. Processed(m)'
      BY <3>1, <3>2 DEF Processed
    <3> QED
      BY <3>1, <3>2, <3>3, <3>4
  <2>9. StepResult(result)'
    BY <1>1, <2>6 DEF StepResult
  <2>10. \A p \in processed' : p.message = m => StepResult(p.result)'
    BY <2>8, <2>9
  <2> QED
    BY <1>1, <2>1, <2>2, <2>7, <2>8, <2>10 DEF Waiting
<1> QED
  BY <1>3, <1>4

LEMMA CallSteps ==
  ASSUME TypeInv, WriteInv, StepInv, TestStep
  PROVE  Steps'
<1>1. PICK stage, method, tx :
         /\ Call(stage, method, tx)
         /\ stage \in {"part", "step", "whole"}
         /\ stage = "step" => method \in Methods
         /\ method = "instruction" => tx \in Txs /\ tx \notin used
         /\ stage = "step" /\ method # "instruction" => At("written") /\ tx = client.written
  BY TestCalls, Constants DEF Methods
<1>2. /\ client'.stage = stage /\ client'.method = method /\ client'.tx = tx /\ client'.index = 0
      /\ own' = {} /\ UNCHANGED <<holder, ran>>
      /\ disturbed' = (disturbed /\ method \in FromAccount \cup {"wholeAccount"})
  BY <1>1, Calling
<1>3. CASE stage # "step"
  BY <1>1, <1>2, <1>3 DEF Steps, At
<1>4. CASE stage = "step"
  <2> SUFFICES ASSUME ~disturbed' PROVE Progress(0)'
    BY <1>1, <1>2, <1>4, Constants DEF Steps, At
  <2>1. CASE method = "instruction"
    <3>1. ran[tx] = 0 /\ holder.tx # tx
      BY <1>1, <2>1, Constants DEF StepInv, UsedOnly
    <3> QED
      BY <1>1, <1>2, <2>1, <3>1, Constants DEF Progress
  <2>2. CASE method # "instruction"
    <3>1. ~disturbed /\ At("written") /\ tx = client.tx /\ tx \in Txs
      BY <1>1, <1>2, <1>4, <2>2, Constants DEF Methods, StepInv, NotRunYet, TypeInv, ClientOK
    <3>2. ran[tx] = 0
      BY <3>1 DEF StepInv, NotRunYet, Writing, At
    <3>3. Holds(tx)
      BY <3>1, WriteIsHeld
    <3> QED
      BY <1>1, <1>2, <2>2, <3>1, <3>2, <3>3, Constants DEF Progress, Holds
  <2> QED
    BY <2>1, <2>2
<1> QED
  BY <1>3, <1>4

LEMMA SendStepSteps ==
  ASSUME TypeInv, StepInv, SendStep
  PROVE  Steps'
<1> DEFINE m == Message(client.method, IF client.method = "instruction" THEN client.tx ELSE None,
                        client.index)
           next == [client EXCEPT !.stage = "wait", !.message = m, !.index = @ + 1]
<1>1. At("step") /\ Send(m, next) /\ client.method \in Methods
  BY DEF SendStep, TypeInv, ClientOK
<1>2. UNCHANGED <<holder, processed, ran, disturbed>>
  BY <1>1 DEF Send
<1>3. CASE Refused(m)
  <2>1. client'.stage = "raised"
    BY <1>1, <1>3 DEF Send, TypeInv, TypeOK
  <2> QED
    BY <2>1 DEF Steps, At
<1>4. CASE ~Refused(m)
  <2>1. client' = next /\ flight' = flight \cup {m} /\ own' = own \cup {m} /\ ~Processed(m) /\ ~Fails(m)
    BY <1>1, <1>4 DEF Send, Refused
  <2>2. m.kind = client.method /\ (client.method = "instruction" => m.tx = client.tx)
    BY DEF Message
  <2> HIDE DEF m
  <2> PICK c : c = m
    OBVIOUS
  <2>3. /\ client'.stage = "wait" /\ client'.method = client.method /\ client'.tx = client.tx
        /\ client'.message = c /\ client'.index = client.index + 1 /\ client.index \in Nat
    BY <2>1 DEF TypeInv, TypeOK
  <2> HIDE DEF next
  <2> SUFFICES ASSUME ~disturbed PROVE Waiting'
    BY <1>2, <2>3 DEF Steps, At
  <2>4. client.index < Iterations /\ Progress(client.index) /\ own \cap flight = {}
    BY <1>1 DEF StepInv, Steps
  <2>5. PICK k : k = client.index
    OBVIOUS
  <2>6. Progress(k)' /\ client'.index - 1 = k
    <3>1. Progress(k)
      BY <2>4, <2>5
    <3>2. Progress(k)'
      BY <1>2, <2>3, <3>1 DEF Progress, Holds
    <3> QED
      BY <2>3, <2>5, <3>2
  <2>7. ~Fails(c)' /\ ~Processed(c)'
    BY <1>2, <2>1, Waits, ProcessedStays
  <2>8. Progress(client.index - 1)'
    BY <2>6
  <2>9. \A p \in processed' : p.message # c
    BY <2>7 DEF Processed
  <2>10. client'.index \in 1..Iterations
    BY <2>3, <2>4, Constants
  <2>11. own' \cap flight' \subseteq {c} /\ c \in own'
    BY <2>1, <2>4
  <2>12. /\ c.kind = client'.method
         /\ client'.method = "instruction" => c.tx = client'.tx
    BY <2>2, <2>3
  <2> QED
    BY <2>3, <2>7, <2>8, <2>9, <2>10, <2>11, <2>12 DEF Waiting
<1> QED
  BY <1>3, <1>4

LEMMA CheckSteps ==
  ASSUME TypeInv, StepInv, CheckStep
  PROVE  Steps'
<1>1. /\ At("wait") /\ client.method \in Methods /\ Processed(client.message)
      /\ UNCHANGED <<holder, flight, ran, own, disturbed>>
  BY DEF CheckStep, chain
<1>2. /\ client'.stage = CASE ResultOf(client.message) = "exit_status" -> "executed"
                           [] ResultOf(client.message) = "ok" -> "step"
                           [] OTHER -> "raised"
      /\ client'.tx = client.tx /\ client'.method = client.method /\ client'.index = client.index
  BY DEF CheckStep, TypeInv, TypeOK
<1> SUFFICES ASSUME ~disturbed PROVE Steps'
  BY <1>1, <1>2 DEF Steps
<1>3. Waiting /\ InFlightIsNew
  BY <1>1 DEF StepInv, Steps
<1>4. Progress(client.index) /\ StepResult(ResultOf(client.message)) /\ client.index \in 1..Iterations
  <2>1. PICK p \in processed : p.message = client.message /\ p.result = ResultOf(client.message)
    BY <1>1 DEF Processed, ResultOf
  <2> QED
    BY <1>3, <2>1 DEF Waiting
<1>5. own \cap flight = {}
  BY <1>1, <1>3 DEF Waiting, InFlightIsNew
<1>6. Progress(client.index)'
  BY <1>1, <1>2, <1>4 DEF Progress, Holds
<1>7. /\ client'.stage = "executed" => client.index = Iterations
      /\ client'.stage = "step" => client.index # Iterations
  BY <1>2, <1>4 DEF StepResult
<1>8. client'.stage = "step" => client.index < Iterations
  BY <1>4, <1>7, Constants
<1>9. client'.stage # "wait"
  BY <1>2
<1> QED
  BY <1>1, <1>2, <1>5, <1>6, <1>7, <1>8, <1>9 DEF Steps, At

LEMMA NextSteps ==
  ASSUME TypeInv, WriteInv, StepInv, [Next]_vars
  PROVE  Steps'
<1>1. CASE SendPart \/ SendWhole
  <2>1. PICK m, next : /\ m \in Good /\ Send(m, next) /\ next.method = client.method
                       /\ next.stage \in {"part", "confirm", "wait"}
    BY <1>1, Sends
  <2>2. client'.stage \in {"part", "confirm", "wait", "raised"} /\ client'.method = client.method
    <3>1. CASE Refused(m)
      BY <2>1, <3>1 DEF Send, TypeInv, TypeOK
    <3>2. CASE ~Refused(m)
      BY <2>1, <3>2 DEF Send
    <3> QED
      BY <3>1, <3>2
  <2>3. client'.stage = "wait" => SendWhole
    BY <1>1, Constants DEF SendPart, Send, TypeInv, TypeOK
  <2>4. SendWhole => client.method \notin Methods
    BY Constants DEF SendWhole, TypeInv, ClientOK, Methods
  <2> QED
    BY <2>2, <2>3, <2>4 DEF Steps, At
<1>2. CASE ConfirmPart \/ ReturnWhole \/ GiveUp
  <2>1. client'.stage \notin {"step", "wait", "executed"}
    BY <1>2 DEF ConfirmPart, ReturnWhole, GiveUp, TypeInv, TypeOK, At
  <2> QED
    BY <2>1 DEF Steps, At
<1>3. CASE NetworkStep
  <2>1. PICK m \in flight : Land(m) \/ Lose(m)
    BY <1>3 DEF NetworkStep
  <2>2. CASE Lose(m)
    <3>1. UNCHANGED <<holder, processed, client, ran, own, disturbed>> /\ flight' \subseteq flight
      BY <2>2 DEF Lose
    <3> QED
      BY <3>1, Waits, ProcessedStays DEF StepInv, Steps, Waiting, StepResult, Progress, Holds, At
  <2> QED
    BY <2>1, <2>2, LandSteps
<1>4. CASE NewBlock \/ UNCHANGED vars
  <2>1. UNCHANGED <<holder, flight, processed, client, ran, own, disturbed>>
    BY <1>4 DEF NewBlock, chain, vars
  <2> QED
    BY <2>1, Waits, ProcessedStays DEF StepInv, Steps, Waiting, StepResult, Progress, Holds, At
<1> QED
  BY <1>1, <1>2, <1>3, <1>4, CallSteps, SendStepSteps, CheckSteps DEF Next, ClientStep

LEMMA InitSteps == Init => StepInv
<1> SUFFICES ASSUME Init PROVE StepInv
  OBVIOUS
<1>1. InFlightIsNew
  BY DEF Init, InFlightIsNew
<1>2. UsedOnly
  BY DEF Init, Idle, UsedOnly
<1> QED
  BY <1>1, <1>2 DEF Init, Idle, StepInv, NotRunYet, Steps, Writing, At

LEMMA NextStepInv ==
  ASSUME TypeInv, WriteInv, StepInv, [Next]_vars
  PROVE  StepInv'
BY NextInFlight, NextUsed, NextNotRun, NextSteps DEF StepInv

\* When a method that executes step by step returns, every step of its
\* transaction ran once and the account is final, for any number of steps, blocks
\* and transactions, unless a message of an earlier call came in between
\* (execute_transaction_steps_from_account and its siblings).
THEOREM StepsAreExecuted == Spec => []ReturnsExecuted
<1>1. Init => TypeInv /\ WriteInv /\ StepInv
  BY InitTypes, InitSteps DEF Init, Idle, WriteInv, Writing
<1>2. TypeInv /\ WriteInv /\ StepInv /\ [Next]_vars => (TypeInv /\ WriteInv /\ StepInv)'
  BY NextTypes, NextWrite, NextStepInv
<1>3. StepInv => ReturnsExecuted
  BY DEF StepInv, Steps, Progress, ReturnsExecuted
<1> QED
  BY <1>1, <1>2, <1>3, PTL DEF Spec

-----------------------------------------------------------------------------
(***************************************************************************)
(* Why a call raises: as long as no confirmation timed out, nothing that   *)
(* an earlier call sent is still on its way.                               *)
(***************************************************************************)
Whole == {"create", "cancel", "wholeAccount", "wholeInstruction"}

\* No message of the call is sent twice.
OwnDiffer ==
    /\ client.stage \in {"part", "step"} \/ (At("wait") /\ client.method \in Methods) =>
         \A m \in own : m.n < client.index
    /\ Writing => \A m1, m2 \in own : m1.n = m2.n => m1 = m2
    /\ At("whole") => own = {}

Quiet ==
    /\ flight \subseteq own /\ ~disturbed
    /\ Resting \/ client.stage \in {"step", "whole"} => flight = {}
    /\ At("wait") => flight \subseteq {client.message}

\* The account has a transaction that a step has begun.
Begun(tx) == holder.tag = "active" /\ holder.tx = tx

\* The account is ready for the call, and is so again afterwards.
AccountReady ==
    /\ At("idle") => holder.tag = "none"
    /\ Resting /\ ~At("idle") /\ ~(At("raised") /\ client.method = "create") => MayWrite
    /\ Writing => MayWrite
    /\ At("step") /\ client.index = 0 => MayWrite
    /\ At("whole") => CASE client.method = "create" -> holder.tag = "none"
                       [] client.method = "cancel" -> Begun(client.tx)
                       [] OTHER -> MayWrite
    /\ At("whole") /\ client.method = "wholeAccount" => client.tx \in Txs /\ Holds(client.tx)
    /\ At("whole") /\ client.method = "wholeInstruction" => holder.tx # client.tx

WholeWaits ==
    At("wait") /\ client.method \notin Methods =>
      /\ client.message.kind = client.method /\ client.method \in Whole
      /\ IF Processed(client.message) THEN MayWrite ELSE ~Fails(client.message)

RaisedFor ==
    At("raised") /\ client.method \notin {"create", "cancel"} =>
      \/ client.tx \in Bad
      \/ Processed(client.message) /\ ResultOf(client.message) = "ExitError"

RaiseInv == ~trouble => OwnDiffer /\ Quiet /\ AccountReady /\ WholeWaits /\ RaisedFor

LEMMA PermittedSet ==
  ASSUME NEW set,
         \A i \in set : /\ "operator" \in i.signers /\ i.signers \subseteq {"operator"}
                        /\ Needs(i.tag, "operator").signed \subseteq {"operator"}
                        /\ Needs(i.tag, "operator").changed \subseteq {"operator"} \cup i.writable
                        /\ Executes(i) => {"units", "heap"} \subseteq {x.tag : x \in set}
  PROVE  Permitted(set, "operator") /\ Signed(set, {"operator"})
<1>1. Signed(set, {"operator"})
  BY DEF Signed, Signers
<1>2. \A i \in set : "operator" \in Signers(set)
  BY DEF Signers
<1>3. \A i \in set : {"operator"} \cup i.writable \subseteq Writable(set, "operator")
  BY DEF Writable
<1> QED
  BY <1>1, <1>2, <1>3 DEF Permitted

LEMMA ExecuteIsPermitted ==
  ASSUME NEW tag \in {"0x33", "0x34", "0x35", "0x36", "0x3D"}, NEW price \in BOOLEAN
  PROVE  LET set == DefaultBudget("operator", price) \cup {MakeExecute(tag, "operator", {})}
         IN  Permitted(set, "operator") /\ Signed(set, {"operator"})
<1> DEFINE e == MakeExecute(tag, "operator", {})
           u == request_units("operator")
           h == request_heap_frame("operator")
           p == set_compute_units_price("operator")
           set == DefaultBudget("operator", price) \cup {e}
<1>1. set \subseteq {u, h, p, e} /\ u \in set /\ h \in set
  BY DEF DefaultBudget, Budget
<1>2. /\ u.tag = "units" /\ u.signers = {"operator"} /\ h.tag = "heap" /\ h.signers = {"operator"}
      /\ p.tag = "price" /\ p.signers = {"operator"}
  BY DEF request_units, request_heap_frame, set_compute_units_price, Instruction
<1>3. /\ e.tag = tag /\ e.signers = {"operator"}
      /\ {"holder", "operator", "treasury", "operatorBalance"} \cup Additional \subseteq e.writable
  BY DEF MakeExecute, Instruction
<1> HIDE DEF e, u, h, p, set
<1>4. \A x \in {u, h, p} : /\ Needs(x.tag, "operator") = [signed |-> {}, changed |-> {}]
                           /\ ~Executes(x)
  BY <1>2 DEF Needs, Executes
<1>5. Needs(e.tag, "operator") =
        [signed |-> {"operator"},
         changed |-> {"holder", "operator", "treasury", "operatorBalance"} \cup Additional]
  BY <1>3 DEF Needs
<1>6. {"units", "heap"} \subseteq {x.tag : x \in set}
  BY <1>1, <1>2
<1>7. \A i \in {u, h, p} : /\ "operator" \in i.signers /\ i.signers \subseteq {"operator"}
                           /\ Needs(i.tag, "operator").signed \subseteq {"operator"}
                           /\ Needs(i.tag, "operator").changed \subseteq {"operator"} \cup i.writable
                           /\ ~Executes(i)
  BY <1>2, <1>4
<1>8. /\ "operator" \in e.signers /\ e.signers \subseteq {"operator"}
      /\ Needs(e.tag, "operator").signed \subseteq {"operator"}
      /\ Needs(e.tag, "operator").changed \subseteq {"operator"} \cup e.writable
  BY <1>3, <1>5
<1>9. Permitted(set, "operator") /\ Signed(set, {"operator"})
  BY <1>1, <1>6, <1>7, <1>8, PermittedSet
<1> QED
  BY <1>9 DEF set, e

LEMMA AllArePermitted ==
  ASSUME NEW m, m.kind \in Kinds
  PROVE  Permitted(Instructions(m), "operator") /\ Signed(Instructions(m), {"operator"})
<1>1. CASE m.kind = "write"
  <2> DEFINE i == make_WriteHolder("operator", "holder")
  <2>1. Instructions(m) = {i}
    BY <1>1 DEF Instructions
  <2>2. i.tag = "0x26" /\ i.signers = {"operator"} /\ i.writable = {"holder"}
    BY DEF make_WriteHolder, Instruction
  <2> HIDE DEF i
  <2>3. Needs(i.tag, "operator") = [signed |-> {"operator"}, changed |-> {"holder"}] /\ ~Executes(i)
    BY <2>2 DEF Needs, Executes
  <2> QED
    BY <2>1, <2>2, <2>3, PermittedSet
<1>2. CASE m.kind = "cancel"
  <2> DEFINE i == make_Cancel("operator")
  <2>1. Instructions(m) = {i}
    BY <1>2 DEF Instructions
  <2>2. i.tag = "0x37" /\ i.signers = {"operator"} /\ {"holder", "operatorBalance"} \subseteq i.writable
    BY DEF make_Cancel, Instruction
  <2> HIDE DEF i
  <2>3. Needs(i.tag, "operator") = [signed |-> {"operator"}, changed |-> {"holder", "operatorBalance"}]
        /\ ~Executes(i)
    BY <2>2 DEF Needs, Executes
  <2> QED
    BY <2>1, <2>2, <2>3, PermittedSet
<1>3. CASE m.kind = "create"
  <2> DEFINE i == make_CreateAccountWithSeed("operator", "holder")
             j == make_CreateHolderAccount("holder", "operator")
  <2>1. Instructions(m) = {i, j}
    BY <1>3 DEF Instructions
  <2>2. /\ i.tag = "createWithSeed" /\ i.signers = {"operator"} /\ i.writable = {"operator", "holder"}
        /\ j.tag = "0x24" /\ j.signers = {"operator"} /\ j.writable = {"holder"}
    BY DEF make_CreateAccountWithSeed, make_CreateHolderAccount, Instruction
  <2> HIDE DEF i, j
  <2>3. /\ Needs(i.tag, "operator") = [signed |-> {"operator"}, changed |-> {"operator", "holder"}]
        /\ Needs(j.tag, "operator") = [signed |-> {"operator"}, changed |-> {"holder"}]
        /\ ~Executes(i) /\ ~Executes(j)
    BY <2>2 DEF Needs, Executes
  <2> QED
    BY <2>1, <2>2, <2>3, PermittedSet
<1>4. CASE m.kind \notin {"write", "cancel", "create"}
  <2>1. m.kind \in {"account", "noChainId", "instruction", "wholeAccount", "wholeInstruction"}
    BY <1>4, Constants DEF Kinds, Methods
  <2>2. \E tag \in {"0x33", "0x34", "0x35", "0x36", "0x3D"}, price \in BOOLEAN :
          Instructions(m) = DefaultBudget("operator", price) \cup {MakeExecute(tag, "operator", {})}
    BY <2>1 DEF Instructions, make_ExecuteTrxFromAccountDataIterativeOrContinue,
                make_PartialCallOrContinueFromRawEthereumTX, make_ExecuteTrxFromAccount,
                make_ExecuteTrxFromInstruction
  <2> QED
    BY <2>2, ExecuteIsPermitted
<1> QED
  BY <1>1, <1>2, <1>3, <1>4

\* As long as nothing went wrong, a message that is refused has been sent by the
\* same call, or its transaction is one of Bad, or the account is not ready.
LEMMA RefusedFor ==
  ASSUME TypeInv, NEW m \in Good, NEW next, Send(m, next), Refused(m), ~trouble', m \notin own
  PROVE  /\ ~trouble /\ Fails(m)
         /\ m.kind = "write" => ~MayWrite
         /\ m.kind = "create" => holder.tag # "none"
         /\ m.kind = "cancel" => ~(holder.tag = "active" /\ holder.tx = m.tx)
         /\ ExecutesTx(m) /\ (Begins(m) \/ Continues(m)) => Begins(m) /\ Subject(m) \in Bad
<1>1. trouble' = (trouble \/ (Processed(m) /\ m \notin own))
  BY DEF Send
<1>2. ~trouble /\ ~Processed(m)
  BY <1>1
<1>3. m.kind \in Kinds
  BY DEF Good, Messages
<1>4. Permitted(Instructions(m), "operator") /\ Signed(Instructions(m), {"operator"})
  BY <1>3, AllArePermitted
<1>5. Fails(m)
  BY <1>2, <1>4 DEF Refused
<1> QED
  BY <1>2, <1>4, <1>5 DEF Fails, ExecutesTx

LEMMA CallRaise ==
  ASSUME TypeInv, WriteInv, StepInv, RaiseInv, TestStep
  PROVE  RaiseInv'
<1>1. PICK stage, method, tx :
         /\ Call(stage, method, tx)
         /\ \/ stage = "part" /\ method = "write"
            \/ stage = "step" /\ method \in Methods
            \/ stage = "whole" /\ method \in Whole
         /\ method = "wholeInstruction" => tx \in Txs /\ tx \notin used
         /\ method = "wholeAccount" => At("written") /\ tx = client.written
         /\ method = "cancel" => /\ tx = client.tx /\ At("step")
                                /\ client.method = "instruction" /\ client.index = 1
  BY TestCalls, Constants DEF Methods, Whole
<1>2. /\ client'.stage = stage /\ client'.method = method /\ client'.tx = tx /\ client'.index = 0
      /\ own' = {} /\ (Resting \/ method = "cancel")
      /\ disturbed' = (disturbed /\ method \in FromAccount \cup {"wholeAccount"})
      /\ UNCHANGED <<holder, flight, processed, block, ran, trouble>>
  BY <1>1, Calling
<1>3. (At("idle") <=> method = "create") /\ (client.method = "create" => At("sent"))
  BY <1>1 DEF Call
<1> SUFFICES ASSUME ~trouble PROVE (OwnDiffer /\ Quiet /\ AccountReady /\ WholeWaits /\ RaisedFor)'
  BY <1>2 DEF RaiseInv
<1>4. Quiet /\ AccountReady
  BY DEF RaiseInv
<1>5. OwnDiffer'
  BY <1>2 DEF OwnDiffer
<1>6. Quiet'
  BY <1>1, <1>2, <1>4 DEF Quiet, At
<1>7. AccountReady'
  <2>0. ASSUME method = "cancel" PROVE Begun(tx)
    <3>1. Progress(1) /\ 1 < Iterations
      BY <1>1, <1>4, <2>0 DEF StepInv, Steps, Methods, Quiet
    <3> QED
      BY <1>1, <2>0, <3>1, Constants DEF Progress, Begun
  <2>1. /\ method = "create" => holder.tag = "none"
        /\ method = "cancel" => Begun(tx)
        /\ method \notin {"create", "cancel"} => MayWrite
    <3>1. CASE method \in {"create", "cancel"}
      BY <1>2, <1>3, <1>4, <2>0, <3>1 DEF AccountReady, At
    <3>2. CASE method \notin {"create", "cancel"}
      BY <1>2, <1>3, <1>4, <3>2 DEF AccountReady, At
    <3> QED
      BY <3>1, <3>2
  <2>2. ASSUME method = "wholeAccount" PROVE tx \in Txs /\ Holds(tx)
    <3>1. At("written") /\ tx = client.tx /\ tx \in Txs /\ ~disturbed
      BY <1>1, <1>4, <2>2 DEF StepInv, NotRunYet, TypeInv, ClientOK, Quiet
    <3> QED
      BY <3>1, WriteIsHeld
  <2>3. method = "wholeInstruction" => holder.tx # tx
    BY <1>1, Constants DEF StepInv, UsedOnly
  <2>4. MayWrite' = MayWrite /\ (Holds(tx)' <=> Holds(tx)) /\ (Begun(tx)' <=> Begun(tx))
    BY <1>2 DEF MayWrite, Holds, Begun
  <2>5. method \in {"create", "cancel"} => stage = "whole"
    BY <1>1, Constants DEF Methods
  <2>6. stage \in {"part", "step", "whole"}
    BY <1>1
  <2> QED
    BY <1>2, <2>1, <2>2, <2>3, <2>4, <2>5, <2>6 DEF AccountReady, Resting, Writing, At
<1>8. WholeWaits' /\ RaisedFor'
  BY <1>1, <1>2 DEF WholeWaits, RaisedFor, At
<1> QED
  BY <1>5, <1>6, <1>7, <1>8

LEMMA SendPartRaise ==
  ASSUME TypeInv, WriteInv, RaiseInv, SendPart
  PROVE  RaiseInv'
<1> DEFINE m == Message("write", client.tx, client.index)
           last == client.index + 1 = Parts
           next == [client EXCEPT !.message = m, !.index = IF last THEN 0 ELSE @ + 1,
                                  !.stage = IF last THEN "confirm" ELSE "part"]
<1>1. At("part") /\ Send(m, next) /\ m \in Good
  BY PartIsGood DEF SendPart
<1>2. m.kind = "write" /\ m.n = client.index
  BY DEF Message
<1> HIDE DEF m
<1> SUFFICES ASSUME ~trouble' PROVE RaiseInv'
  BY DEF RaiseInv
<1>3. ~trouble
  BY <1>1 DEF Send
<1>4. OwnDiffer /\ Quiet /\ AccountReady
  BY <1>3 DEF RaiseInv
<1>5. client.index \in Nat /\ \A x \in own : x.n \in Nat /\ x.n < client.index
  BY <1>1, <1>4 DEF OwnDiffer, TypeInv, TypeOK, At, Messages
<1>6. m \notin own
  BY <1>2, <1>5
<1>7. MayWrite
  BY <1>1, <1>4 DEF AccountReady, Writing, At
<1>8. ~Refused(m)
  BY <1>1, <1>2, <1>6, <1>7, RefusedFor
<1>9. client' = next /\ flight' = flight \cup {m} /\ own' = own \cup {m} /\ UNCHANGED <<holder, disturbed>>
  BY <1>1, <1>8 DEF Send
<1>10. /\ client'.index = (IF last THEN 0 ELSE client.index + 1)
       /\ client'.stage = (IF last THEN "confirm" ELSE "part")
  BY <1>9 DEF TypeInv, TypeOK
<1> HIDE DEF last, next
<1>11. OwnDiffer'
  <2>1. client'.stage = "part" => \A x \in own' : x.n < client'.index
    BY <1>2, <1>5, <1>9, <1>10
  <2>2. \A x, y \in own' : x.n = y.n => x = y
    <3> SUFFICES ASSUME NEW x \in own', NEW y \in own', x.n = y.n PROVE x = y
      OBVIOUS
    <3>1. \A a, b \in own : a.n = b.n => a = b
      BY <1>1, <1>4 DEF OwnDiffer, Writing, At
    <3>2. \A a \in own : a.n # m.n
      BY <1>2, <1>5
    <3> QED
      BY <1>9, <3>1, <3>2
  <2> QED
    BY <1>10, <2>1, <2>2 DEF OwnDiffer, At
<1>12. Quiet'
  BY <1>4, <1>9, <1>10 DEF Quiet, Resting, At
<1>13. AccountReady'
  BY <1>7, <1>9, <1>10 DEF AccountReady, Resting, At, MayWrite
<1>14. WholeWaits' /\ RaisedFor'
  BY <1>10 DEF WholeWaits, RaisedFor, At
<1> QED
  BY <1>11, <1>12, <1>13, <1>14 DEF RaiseInv

LEMMA SendStepRaise ==
  ASSUME TypeInv, StepInv, RaiseInv, SendStep
  PROVE  RaiseInv'
<1> DEFINE tx == IF client.method = "instruction" THEN client.tx ELSE None
           m == Message(client.method, tx, client.index)
           next == [client EXCEPT !.stage = "wait", !.message = m, !.index = @ + 1]
<1>1. At("step") /\ Send(m, next) /\ client.method \in Methods /\ client.index \in Nat
  BY DEF SendStep, TypeInv, TypeOK, ClientOK
<1>2. m \in Good
  <2>1. tx \in Txs \cup {None} /\ (client.method = "instruction" => tx \in Txs)
    BY <1>1 DEF TypeInv, TypeOK, ClientOK, At
  <2>2. client.method \in Kinds /\ client.method \notin {"write", "wholeInstruction", "cancel"}
    BY <1>1, Constants DEF Kinds, Methods
  <2> HIDE DEF tx
  <2> QED
    BY <1>1, <2>1, <2>2, MessageIsGood
<1>3. m.kind = client.method /\ m.n = client.index /\ (client.method = "instruction" => m.tx = client.tx)
  BY DEF Message
<1> HIDE DEF m, tx
<1> SUFFICES ASSUME ~trouble' PROVE RaiseInv'
  BY DEF RaiseInv
<1>4. ~trouble
  BY <1>1 DEF Send
<1>5. OwnDiffer /\ Quiet /\ AccountReady
  BY <1>4 DEF RaiseInv
<1>6. \A x \in own : x.n < client.index
  BY <1>1, <1>5 DEF OwnDiffer, At
<1>7. m \notin own
  BY <1>1, <1>3, <1>6
<1>8. client.index < Iterations /\ Progress(client.index) /\ flight = {} /\ ~disturbed
  BY <1>1, <1>5 DEF StepInv, Steps, Quiet, At
<1>9. UNCHANGED <<holder, disturbed, processed>>
  BY <1>1 DEF Send
<1>10. CASE Refused(m)
  <2>1. client' = [client EXCEPT !.stage = "raised", !.message = m] /\ UNCHANGED <<flight, own>>
    BY <1>1, <1>10 DEF Send
  <2>2. client'.stage = "raised" /\ client'.tx = client.tx /\ client'.method = client.method
    BY <2>1 DEF TypeInv, TypeOK
  <2>3. /\ m.kind \in Methods /\ ExecutesTx(m)
        /\ m.kind \notin {"create", "write", "cancel", "wholeAccount", "wholeInstruction"}
    BY <1>1, <1>3, Constants DEF Methods, ExecutesTx
  <2>4. Subject(m) = client.tx
    <3>1. CASE m.kind = "instruction"
      BY <1>3, <3>1, Constants DEF Subject
    <3>2. CASE m.kind # "instruction"
      BY <1>1, <1>3, <1>8, <2>3, <3>2 DEF Subject, Methods, Holds, Progress
    <3> QED
      BY <3>1, <3>2
  <2>5. CASE client.index = 0
    <3>1. MayWrite
      BY <1>1, <1>5, <2>5 DEF AccountReady
    <3>2. client.tx \in Txs
      BY <1>8 DEF Progress
    <3>3. Begins(m)
      <4>1. CASE m.kind = "instruction"
        BY <1>3, <1>8, <2>5, <3>1, <4>1 DEF Begins, Progress
      <4>2. CASE m.kind # "instruction"
        BY <1>3, <1>8, <2>3, <2>5, <3>2, <4>2, Constants DEF Begins, Progress, Holds
      <4> QED
        BY <4>1, <4>2
    <3>4. client.tx \in Bad
      BY <1>1, <1>2, <1>7, <1>10, <2>3, <2>4, <3>3, RefusedFor
    <3>5. OwnDiffer'
      BY <2>2 DEF OwnDiffer, Writing, At
    <3>6. Quiet'
      BY <1>5, <1>8, <1>9, <2>1 DEF Quiet
    <3>7. MayWrite'
      BY <1>9, <3>1 DEF MayWrite
    <3>8. AccountReady'
      BY <2>2, <3>7 DEF AccountReady, At
    <3>9. WholeWaits' /\ RaisedFor'
      BY <2>2, <3>4 DEF WholeWaits, RaisedFor, At
    <3> QED
      BY <3>5, <3>6, <3>8, <3>9 DEF RaiseInv
  <2>6. CASE client.index # 0
    <3>1. holder.tag = "active" /\ holder.tx = client.tx
      BY <1>1, <1>8, <2>6 DEF Progress
    <3>2. Continues(m) /\ ~Begins(m)
      BY <2>3, <2>4, <3>1 DEF Continues, Begins, MayWrite, Holds
    <3> QED
      BY <1>1, <1>2, <1>7, <1>10, <2>3, <3>2, RefusedFor
  <2> QED
    BY <2>5, <2>6
<1>11. CASE ~Refused(m)
  <2>1. client' = next /\ flight' = flight \cup {m} /\ own' = own \cup {m}
    BY <1>1, <1>11 DEF Send
  <2>2. /\ client'.stage = "wait" /\ client'.method = client.method /\ client'.message = m
        /\ client'.index = client.index + 1
    BY <2>1 DEF TypeInv, TypeOK
  <2> HIDE DEF next
  <2>3. \A x \in own' : x.n < client'.index
    <3>1. \A x \in own : x.n \in Nat
      BY DEF TypeInv, TypeOK, Messages
    <3> QED
      BY <1>1, <1>3, <1>6, <2>1, <2>2, <3>1
  <2>4. OwnDiffer'
    BY <2>2, <2>3 DEF OwnDiffer, Writing, At
  <2>5. Quiet'
    BY <1>8, <1>9, <2>1, <2>2 DEF Quiet, Resting, At
  <2>6. AccountReady'
    BY <2>2 DEF AccountReady, Resting, Writing, At
  <2>7. WholeWaits' /\ RaisedFor'
    BY <1>1, <2>2 DEF WholeWaits, RaisedFor, At
  <2> QED
    BY <2>4, <2>5, <2>6, <2>7 DEF RaiseInv
<1> QED
  BY <1>10, <1>11

LEMMA SendWholeRaise ==
  ASSUME TypeInv, StepInv, RaiseInv, SendWhole
  PROVE  RaiseInv'
<1> DEFINE tx == IF client.method = "wholeAccount" THEN None ELSE client.tx
           m == Message(client.method, tx, 0)
           next == [client EXCEPT !.stage = "wait", !.message = m]
<1>1. At("whole") /\ Send(m, next) /\ client.method \in Whole
  BY DEF SendWhole, TypeInv, ClientOK, Whole
<1>2. m \in Good
  <2>1. tx \in Txs \cup {None} /\ (client.method \in {"wholeInstruction", "cancel"} => tx \in Txs)
    BY <1>1 DEF TypeInv, TypeOK, ClientOK, At
  <2>2. client.method \in Kinds /\ client.method \notin {"write", "instruction"}
    BY <1>1 DEF Kinds, Whole
  <2> HIDE DEF tx
  <2> QED
    BY <2>1, <2>2, MessageIsGood
<1>3. m.kind = client.method /\ (client.method \in {"wholeInstruction", "cancel"} => m.tx = client.tx)
  BY DEF Message
<1> HIDE DEF m, tx
<1> SUFFICES ASSUME ~trouble' PROVE RaiseInv'
  BY DEF RaiseInv
<1>4. ~trouble
  BY <1>1 DEF Send
<1>5. OwnDiffer /\ Quiet /\ AccountReady
  BY <1>4 DEF RaiseInv
<1>6. own = {} /\ flight = {} /\ ~disturbed
  BY <1>1, <1>5 DEF OwnDiffer, Quiet, At
<1>7. UNCHANGED <<holder, disturbed, processed>>
  BY <1>1 DEF Send
<1>8. /\ client.method = "create" => holder.tag = "none"
      /\ client.method = "cancel" => Begun(client.tx)
      /\ client.method \notin {"create", "cancel"} => MayWrite
  BY <1>1, <1>5 DEF AccountReady
<1>9. CASE Refused(m)
  <2>1. client' = [client EXCEPT !.stage = "raised", !.message = m] /\ UNCHANGED <<flight, own>>
    BY <1>1, <1>9 DEF Send
  <2>2. client'.stage = "raised" /\ client'.tx = client.tx /\ client'.method = client.method
    BY <2>1 DEF TypeInv, TypeOK
  <2>3. client.method \notin {"create", "cancel"}
    BY <1>1, <1>2, <1>3, <1>6, <1>8, <1>9, RefusedFor DEF Begun
  <2>4. client.tx \in Bad
    <3>1. CASE client.method = "wholeAccount"
      <4>1. client.tx \in Txs /\ Holds(client.tx)
        BY <1>1, <1>5, <3>1 DEF AccountReady
      <4>2. Subject(m) = client.tx /\ Begins(m) /\ ExecutesTx(m)
        BY <1>3, <3>1, <4>1, Constants DEF Subject, Begins, ExecutesTx, Holds
      <4> QED
        BY <1>1, <1>2, <1>6, <1>9, <4>2, RefusedFor
    <3>2. CASE client.method = "wholeInstruction"
      <4>1. holder.tx # client.tx
        BY <1>1, <1>5, <3>2 DEF AccountReady
      <4>2. Subject(m) = client.tx /\ Begins(m) /\ ExecutesTx(m)
        BY <1>3, <1>8, <3>2, <4>1, Constants DEF Subject, Begins, ExecutesTx
      <4> QED
        BY <1>1, <1>2, <1>6, <1>9, <4>2, RefusedFor
    <3> QED
      BY <1>1, <2>3, <3>1, <3>2 DEF Whole
  <2>5. OwnDiffer'
    BY <2>2 DEF OwnDiffer, Writing, At
  <2>6. Quiet'
    BY <1>6, <1>7, <2>1 DEF Quiet
  <2>7. AccountReady'
    <3>1. MayWrite'
      BY <1>7, <1>8, <2>3 DEF MayWrite
    <3> QED
      BY <2>2, <3>1 DEF AccountReady, At
  <2>8. WholeWaits' /\ RaisedFor'
    BY <2>2, <2>4 DEF WholeWaits, RaisedFor, At
  <2> QED
    BY <2>5, <2>6, <2>7, <2>8 DEF RaiseInv
<1>10. CASE ~Refused(m)
  <2>1. client' = next /\ flight' = flight \cup {m} /\ own' = own \cup {m}
    BY <1>1, <1>10 DEF Send
  <2>2. client'.stage = "wait" /\ client'.method = client.method /\ client'.message = m
    BY <2>1 DEF TypeInv, TypeOK
  <2> HIDE DEF next
  <2>3. ~Fails(m) /\ ~Processed(m)
    BY <1>10 DEF Refused
  <2> PICK c : c = m
    OBVIOUS
  <2>4. ~Fails(c)' /\ ~Processed(c)'
    BY <1>7, <2>3, Waits, ProcessedStays
  <2>5. WholeWaits'
    BY <1>1, <1>3, <2>2, <2>4 DEF WholeWaits
  <2>6. client.method \notin Methods
    BY <1>1, Constants DEF Whole, Methods
  <2>7. OwnDiffer'
    BY <2>2, <2>6 DEF OwnDiffer, Writing, At
  <2>8. Quiet'
    BY <1>6, <1>7, <2>1, <2>2 DEF Quiet, Resting, At
  <2>9. AccountReady' /\ RaisedFor'
    BY <2>2 DEF AccountReady, RaisedFor, Resting, Writing, At
  <2> QED
    BY <2>5, <2>7, <2>8, <2>9 DEF RaiseInv
<1> QED
  BY <1>9, <1>10

LEMMA ConfirmRaise ==
  ASSUME TypeInv, WriteInv, WriteInv', InFlightIsNew, RaiseInv, ConfirmPart
  PROVE  RaiseInv'
<1>1. /\ At("confirm") /\ UNCHANGED <<holder, flight, processed, own, disturbed, trouble>>
      /\ client'.stage \in {"confirm", "written"}
  BY DEF ConfirmPart, chain, TypeInv, TypeOK, At
<1> SUFFICES ASSUME ~trouble PROVE (OwnDiffer /\ Quiet /\ AccountReady /\ WholeWaits /\ RaisedFor)'
  BY <1>1 DEF RaiseInv
<1>2. OwnDiffer /\ Quiet /\ AccountReady
  BY DEF RaiseInv
<1>3. OwnDiffer'
  BY <1>1, <1>2 DEF OwnDiffer, Writing, At
<1>4. client'.stage = "written" => flight = {}
  <2> SUFFICES ASSUME client'.stage = "written", NEW m \in flight PROVE FALSE
    OBVIOUS
  <2>1. m \in own /\ m \in Good /\ ~Processed(m)
    BY <1>2 DEF Quiet, TypeInv, InFlightIsNew
  <2>2. m.n \in Offsets
    BY <1>1, <2>1 DEF WriteInv, Writing, OwnAreParts, Good, At
  <2>3. \E x \in own : x.n = m.n /\ Processed(x)
    <3>1. Confirmed'
      BY DEF WriteInv, Writing, At
    <3> QED
      BY <1>1, <2>2, <3>1, ProcessedStays DEF Confirmed, At
  <2> QED
    BY <1>1, <1>2, <2>1, <2>3 DEF OwnDiffer, Writing, At
<1>5. Quiet'
  BY <1>1, <1>2, <1>4 DEF Quiet, Resting, At
<1>6. MayWrite'
  BY <1>1, <1>2 DEF AccountReady, Writing, At, MayWrite
<1>7. AccountReady' /\ WholeWaits' /\ RaisedFor'
  BY <1>1, <1>6 DEF AccountReady, WholeWaits, RaisedFor, At
<1> QED
  BY <1>3, <1>5, <1>7

LEMMA CheckRaise ==
  ASSUME TypeInv, StepInv, RaiseInv, CheckStep
  PROVE  RaiseInv'
<1>1. /\ At("wait") /\ client.method \in Methods /\ Processed(client.message)
      /\ UNCHANGED <<holder, flight, processed, own, disturbed, trouble>>
  BY DEF CheckStep, chain
<1>2. /\ client'.stage = CASE ResultOf(client.message) = "exit_status" -> "executed"
                           [] ResultOf(client.message) = "ok" -> "step"
                           [] OTHER -> "raised"
      /\ client'.method = client.method /\ client'.index = client.index
      /\ client'.message = client.message
  BY DEF CheckStep, TypeInv, TypeOK
<1> SUFFICES ASSUME ~trouble PROVE (OwnDiffer /\ Quiet /\ AccountReady /\ WholeWaits /\ RaisedFor)'
  BY <1>1 DEF RaiseInv
<1>3. OwnDiffer /\ Quiet
  BY DEF RaiseInv
<1>4. Waiting /\ InFlightIsNew
  BY <1>1, <1>3 DEF StepInv, Steps, Quiet
<1>5. Progress(client.index) /\ StepResult(ResultOf(client.message)) /\ client.index \in 1..Iterations
  <2>1. PICK p \in processed : p.message = client.message /\ p.result = ResultOf(client.message)
    BY <1>1 DEF Processed, ResultOf
  <2> QED
    BY <1>4, <2>1 DEF Waiting
<1>6. flight = {}
  BY <1>1, <1>3, <1>4 DEF Quiet, InFlightIsNew
<1>7. client'.stage \in {"executed", "raised"} => MayWrite
  BY <1>2, <1>5 DEF StepResult, Progress, Finalized, MayWrite
<1>8. client'.stage = "raised" => ResultOf(client.message) = "ExitError"
  BY <1>2, <1>5 DEF StepResult
<1>9. client'.stage \in {"executed", "step", "raised"}
  BY <1>2
<1>10. OwnDiffer'
  BY <1>1, <1>2, <1>3, <1>9 DEF OwnDiffer, Writing, At
<1>11. Quiet'
  BY <1>1, <1>3, <1>6, <1>9 DEF Quiet, At
<1>12. AccountReady'
  <2>1. client.index # 0
    BY <1>5
  <2>2. MayWrite' = MayWrite
    BY <1>1 DEF MayWrite
  <2> QED
    BY <1>2, <1>7, <1>9, <2>1, <2>2 DEF AccountReady, Resting, Writing, At
<1>13. WholeWaits' /\ RaisedFor'
  <2>1. Processed(client.message)' /\ ResultOf(client.message)' = ResultOf(client.message)
    BY <1>1, <1>2 DEF Processed, ResultOf
  <2> QED
    BY <1>8, <1>9, <2>1 DEF WholeWaits, RaisedFor, At
<1> QED
  BY <1>10, <1>11, <1>12, <1>13

LEMMA ReturnRaise ==
  ASSUME TypeInv, InFlightIsNew, RaiseInv, ReturnWhole
  PROVE  RaiseInv'
<1>1. /\ At("wait") /\ client.method \notin Methods /\ Processed(client.message)
      /\ UNCHANGED <<holder, flight, processed, own, disturbed, trouble>>
      /\ client'.stage = "sent"
  BY DEF ReturnWhole, chain, TypeInv, TypeOK
<1> SUFFICES ASSUME ~trouble PROVE (OwnDiffer /\ Quiet /\ AccountReady /\ WholeWaits /\ RaisedFor)'
  BY <1>1 DEF RaiseInv
<1>2. Quiet /\ WholeWaits
  BY DEF RaiseInv
<1>3. flight = {} /\ MayWrite
  BY <1>1, <1>2 DEF Quiet, WholeWaits, InFlightIsNew
<1>4. MayWrite'
  BY <1>1, <1>3 DEF MayWrite
<1> QED
  BY <1>1, <1>2, <1>3, <1>4 DEF OwnDiffer, Quiet, AccountReady, WholeWaits, RaisedFor, Writing, At

LEMMA LandRaise ==
  ASSUME TypeInv, WriteInv, StepInv, RaiseInv, NEW m \in flight, Land(m)
  PROVE  RaiseInv'
<1>1. UNCHANGED <<client, own, trouble>> /\ m \in Good
  BY DEF Land, TypeInv
<1> SUFFICES ASSUME ~trouble PROVE (OwnDiffer /\ Quiet /\ AccountReady /\ WholeWaits /\ RaisedFor)'
  BY <1>1 DEF RaiseInv
<1>2. OwnDiffer /\ Quiet /\ AccountReady /\ WholeWaits
  BY DEF RaiseInv
<1>3. m \in own /\ ~disturbed /\ ~Resting /\ client.stage \in {"part", "confirm", "wait"}
  <2>1. client.stage \in Stages
    BY DEF TypeInv, TypeOK
  <2> QED
    BY <1>2, <2>1 DEF Quiet, Resting, Stages
<1>4. PICK result : Process(m, result)
  BY DEF Land
<1>5. flight' = flight \ {m} /\ ~disturbed'
  BY <1>3, <1>4 DEF Process
<1>6. OwnDiffer'
  BY <1>1, <1>2 DEF OwnDiffer, Writing, At
<1>7. Quiet'
  BY <1>1, <1>2, <1>3, <1>5 DEF Quiet, Resting, At
<1>8. AccountReady'
  <2>1. ASSUME Writing PROVE MayWrite'
    <3>1. m.kind = "write" /\ MayWrite
      BY <1>2, <1>3, <2>1 DEF WriteInv, OwnAreParts, AccountReady
    <3>2. ~Fails(m)
      BY <3>1, WriteIsPermitted DEF Fails, ExecutesTx
    <3>3. holder' = Written(m)
      BY <3>1, <3>2 DEF Land, ExecutesTx
    <3> QED
      BY <3>3 DEF Written, MayWrite
  <2> QED
    BY <1>1, <1>3, <2>1 DEF AccountReady, Resting, Writing, At
<1>9. WholeWaits'
  <2> SUFFICES ASSUME At("wait"), client.method \notin Methods
               PROVE  (/\ client.message.kind = client.method /\ client.method \in Whole
                       /\ IF Processed(client.message) THEN MayWrite ELSE ~Fails(client.message))'
    BY <1>1 DEF WholeWaits, At
  <2>1. m = client.message /\ m.kind = client.method /\ client.method \in Whole
    BY <1>2 DEF Quiet, WholeWaits
  <2>2. ~Processed(m) /\ ~Fails(m)
    BY <1>2, <2>1 DEF StepInv, InFlightIsNew, WholeWaits
  <2>3. Processed(m)'
    BY <1>4, ProcessedGrows
  <2>4. MayWrite'
    <3>1. CASE m.kind = "create"
      BY <2>2, <3>1 DEF Land, ExecutesTx, Created, MayWrite
    <3>2. CASE m.kind = "cancel"
      BY <2>2, <3>2 DEF Land, ExecutesTx, Finalized, MayWrite
    <3>3. CASE m.kind \in {"wholeAccount", "wholeInstruction"}
      <4>1. holder' = Executed(m)
        BY <2>2, <3>3 DEF Land, ExecutesTx
      <4>2. m.kind \notin Methods
        BY <3>3, Constants DEF Methods
      <4> QED
        BY <4>1, <4>2 DEF Executed, Finalized, MayWrite
    <3> QED
      BY <2>1, <3>1, <3>2, <3>3 DEF Whole
  <2> QED
    BY <1>1, <2>1, <2>3, <2>4
<1>10. RaisedFor'
  BY <1>1, <1>3 DEF RaisedFor, At
<1> QED
  BY <1>6, <1>7, <1>8, <1>9, <1>10

LEMMA NextRaise ==
  ASSUME TypeInv, WriteInv, StepInv, RaiseInv, [Next]_vars
  PROVE  RaiseInv'
<1>0. InFlightIsNew /\ WriteInv'
  BY NextWrite DEF StepInv
<1>1. CASE GiveUp
  BY <1>1 DEF GiveUp, RaiseInv
<1>2. CASE NetworkStep
  <2>1. PICK m \in flight : Land(m) \/ Lose(m)
    BY <1>2 DEF NetworkStep
  <2>2. CASE Lose(m)
    <3>1. /\ UNCHANGED <<holder, processed, client, own, disturbed, trouble>>
          /\ flight' \subseteq flight
      BY <2>2 DEF Lose
    <3> SUFFICES ASSUME ~trouble PROVE (OwnDiffer /\ Quiet /\ AccountReady /\ WholeWaits /\ RaisedFor)'
      BY <3>1 DEF RaiseInv
    <3>2. OwnDiffer /\ Quiet /\ AccountReady /\ WholeWaits /\ RaisedFor
      BY DEF RaiseInv
    <3>3. Quiet'
      BY <3>1, <3>2 DEF Quiet, Resting, At
    <3>4. OwnDiffer' /\ AccountReady'
      BY <3>1, <3>2 DEF OwnDiffer, AccountReady, Resting, Writing, At, MayWrite, Holds, Begun
    <3>5. WholeWaits'
      BY <3>1, <3>2, Waits, ProcessedStays DEF WholeWaits, At, MayWrite
    <3>6. RaisedFor'
      BY <3>1, <3>2 DEF RaisedFor, At, Processed, ResultOf
    <3> QED
      BY <3>3, <3>4, <3>5, <3>6
  <2> QED
    BY <2>1, <2>2, LandRaise
<1>3. CASE NewBlock \/ UNCHANGED vars
  <2>1. UNCHANGED <<holder, processed, client, own, disturbed, trouble, flight>>
    BY <1>3 DEF NewBlock, chain, vars
  <2> SUFFICES ASSUME ~trouble PROVE (OwnDiffer /\ Quiet /\ AccountReady /\ WholeWaits /\ RaisedFor)'
    BY <2>1 DEF RaiseInv
  <2>2. OwnDiffer /\ Quiet /\ AccountReady /\ WholeWaits /\ RaisedFor
    BY DEF RaiseInv
  <2>3. OwnDiffer' /\ Quiet' /\ AccountReady'
    BY <2>1, <2>2 DEF OwnDiffer, Quiet, AccountReady, Resting, Writing, At, MayWrite, Holds, Begun
  <2>4. WholeWaits'
    BY <2>1, <2>2, Waits, ProcessedStays DEF WholeWaits, At, MayWrite
  <2>5. RaisedFor'
    BY <2>1, <2>2 DEF RaisedFor, At, Processed, ResultOf
  <2> QED
    BY <2>3, <2>4, <2>5
<1> QED
  BY <1>0, <1>1, <1>2, <1>3, CallRaise, SendPartRaise, SendStepRaise, SendWholeRaise, ConfirmRaise,
     CheckRaise, ReturnRaise DEF Next, ClientStep

LEMMA InitRaise == Init => RaiseInv
<1> SUFFICES ASSUME Init PROVE OwnDiffer /\ Quiet /\ AccountReady /\ WholeWaits /\ RaisedFor
  BY DEF RaiseInv
<1>1. client.stage = "idle" /\ own = {} /\ flight = {} /\ disturbed = FALSE /\ holder.tag = "none"
  BY DEF Init, Idle
<1> QED
  BY <1>1 DEF OwnDiffer, Quiet, AccountReady, WholeWaits, RaisedFor, Writing, At

\* A call raises only for a transaction that the EVM refuses or ends with an
\* error, after a confirmation that timed out, or when Solana takes its message
\* for one of an earlier call: with any number of steps and parts, the messages of
\* one call never have the same signature (the index of execute_transaction_steps).
THEOREM RaisesAreCaused == Spec => []RaisesHaveCause
<1>1. Init => TypeInv /\ WriteInv /\ StepInv /\ RaiseInv
  BY InitTypes, InitSteps, InitRaise DEF Init, Idle, WriteInv, Writing
<1>2. TypeInv /\ WriteInv /\ StepInv /\ RaiseInv /\ [Next]_vars
        => (TypeInv /\ WriteInv /\ StepInv /\ RaiseInv)'
  BY NextTypes, NextWrite, NextStepInv, NextRaise
<1>3. RaiseInv => RaisesHaveCause
  BY DEF RaiseInv, RaisedFor, RaisesHaveCause
<1> QED
  BY <1>1, <1>2, <1>3, PTL DEF Spec

-----------------------------------------------------------------------------
(***************************************************************************)
(* Deposits: the other calls of utils/evm_loader.py and                    *)
(* utils/solana_client.py, for any workers and calls (Deposits.tla).       *)
(***************************************************************************)
Tokens == {"NEON", "wSOL", "USDT"}

ClientRecords == [stage : {"idle", "look", "send", "confirm", "wait"},
                  call : Calls \cup {None}, index : Nat, tries : Nat]

Working(w) == clients[w].stage # "idle"

\* Every worker runs its program, each call at most once.
ClientsOK ==
    /\ clients \in [Workers -> ClientRecords]
    /\ left \in [Workers -> SUBSET Calls]
    /\ \E p \in Programs : \A w \in Workers :
         left[w] \subseteq p[w] /\ (Working(w) => clients[w].call \in p[w])

LedgerOK == /\ token \in [Keys \X Tokens -> Int]
            /\ \A p \in Keys \X Tokens : token[p] >= -1

\* A worker that waits for its balance has asked for an airdrop.
AirdropsWait == \A w \in Workers : clients[w].stage = "wait" => IsAirdrop(Step(w))

\* An operator account is there once its creation is processed, failed or not.
OperatorsAreMade ==
    \A r \in receipts : r.of.step = "operator_account" => r.of.call.key \in operators

OperatorInv == ClientsOK /\ AirdropsWait /\ OperatorsAreMade /\ OperatorIsReady

LEMMA ScriptOfCall ==
    ASSUME TestsCall, NEW c \in Calls
    PROVE  /\ c.op \in Ops /\ c.amount \in Nat \ {0} /\ c.mint \in Tokens
           /\ Len(Script(c.op)) \in {1, 2, 3}
           /\ c.op = "prepare_operator" =>
                Len(Script(c.op)) = 2 /\ Script(c.op)[2] = "operator_account"
<1>1. c.op \in Ops /\ c.amount \in Nat \ {0} /\ c.mint \in Tokens
  BY DEF TestsCall, Tokens
<1>2. Len(Script(c.op)) \in {1, 2, 3}
  BY <1>1 DEF Script, Ops
<1>3. c.op = "prepare_operator" =>
        Len(Script(c.op)) = 2 /\ Script(c.op)[2] = "operator_account"
  BY DEF Script
<1> QED
  BY <1>1, <1>2, <1>3

LEMMA CallsOfPrograms ==
    ASSUME TestsCall, NEW p \in Programs, NEW w \in Workers
    PROVE  p[w] \subseteq Calls
BY DEF TestsCall

LEMMA IdleRecord == AtRest \in ClientRecords /\ AtRest.stage = "idle"
BY DEF AtRest, ClientRecords

\* Advance changes one client, and keeps its call unless it returns.
LEMMA AdvanceFields ==
    ASSUME ClientsOK, NEW w \in Workers, Advance(w)
    PROVE  /\ clients' \in [Workers -> ClientRecords]
           /\ \A v \in Workers \ {w} : clients'[v] = clients[v]
           /\ \/ /\ clients'[w] = AtRest
                 /\ clients[w].index = Len(Script(clients[w].call.op))
                 /\ returned' = returned \cup {[by |-> w, call |-> clients[w].call]}
              \/ /\ clients'[w] = [clients[w] EXCEPT !.stage = "look",
                                       !.index = clients[w].index + 1, !.tries = 0]
                 /\ clients'[w].stage = "look" /\ clients'[w].call = clients[w].call
                 /\ clients'[w].index = clients[w].index + 1
                 /\ clients[w].index # Len(Script(clients[w].call.op))
                 /\ returned' = returned
<1>1. clients \in [Workers -> ClientRecords] /\ clients[w] \in ClientRecords
  BY DEF ClientsOK
<1>2. AtRest \in ClientRecords /\ AtRest.stage = "idle"
  BY IdleRecord
<1> DEFINE next == [clients[w] EXCEPT !.stage = "look", !.index = clients[w].index + 1, !.tries = 0]
<1>3. next \in ClientRecords
  <2> DEFINE n == clients[w].index + 1
  <2>1. n \in Nat
    BY <1>1 DEF ClientRecords
  <2> HIDE DEF n
  <2>2. [clients[w] EXCEPT !.stage = "look", !.index = n, !.tries = 0] \in ClientRecords
    BY <1>1, <2>1 DEF ClientRecords
  <2> QED
    BY <2>2 DEF n
<1>4. next.stage = "look" /\ next.call = clients[w].call /\ next.index = clients[w].index + 1
  BY <1>1 DEF ClientRecords
<1>5. CASE /\ clients[w].index = Len(Script(clients[w].call.op))
           /\ clients' = [clients EXCEPT ![w] = AtRest]
           /\ returned' = returned \cup {[by |-> w, call |-> clients[w].call]}
  BY <1>1, <1>2, <1>5
<1>6. CASE /\ clients[w].index # Len(Script(clients[w].call.op))
           /\ clients' = [clients EXCEPT ![w] = next] /\ UNCHANGED returned
  <2> HIDE DEF next
  <2>1. clients'[w] = next /\ clients' \in [Workers -> ClientRecords]
        /\ \A v \in Workers \ {w} : clients'[v] = clients[v]
    BY <1>1, <1>3, <1>6
  <2> QED
    BY <1>4, <1>6, <2>1 DEF next
<1> QED
  BY <1>1, <1>5, <1>6 DEF Advance

\* A step of a worker leaves the others alone, and the calls that are left.
LEMMA ClientStepFields ==
    ASSUME ClientsOK, NEW w \in Workers, WorkerStep(w)
    PROVE  /\ clients' \in [Workers -> ClientRecords]
           /\ \A v \in Workers \ {w} : clients'[v] = clients[v]
           /\ Working(w) /\ left' = left /\ UNCHANGED <<token, operators, receipts>>
           /\ Working(w)' => clients'[w].call = clients[w].call
<1>1. clients \in [Workers -> ClientRecords] /\ clients[w] \in ClientRecords
  BY DEF ClientsOK
<1>2. AtRest \in ClientRecords /\ AtRest.stage = "idle"
  BY IdleRecord
<1>3. Working(w) /\ left' = left /\ UNCHANGED <<token, operators, receipts>>
  BY DEF WorkerStep, Look, SendTransaction, RequestAirdrop, WaitAirdrop,
         Confirm, TimeOut, Working, ledger
<1>4. CASE Advance(w)
  BY <1>2, <1>3, <1>4, AdvanceFields DEF Working
<1>5. CASE \E cause : Raise(w, cause)
  <2>1. clients' = [clients EXCEPT ![w] = AtRest]
    BY <1>5 DEF Raise
  <2> QED
    BY <1>1, <1>2, <1>3, <2>1 DEF Working
<1>6. CASE \E stage \in {"send", "confirm", "wait"} : clients' = [clients EXCEPT ![w].stage = stage]
  <2>1. PICK stage \in {"send", "confirm", "wait"} :
          clients' = [clients EXCEPT ![w] = [clients[w] EXCEPT !.stage = stage]]
    BY <1>6
  <2>2. [clients[w] EXCEPT !.stage = stage] \in ClientRecords
    BY <1>1 DEF ClientRecords
  <2>3. [clients[w] EXCEPT !.stage = stage].call = clients[w].call
    BY <1>1 DEF ClientRecords
  <2> QED
    BY <1>1, <1>3, <2>1, <2>2, <2>3
<1>7. CASE clients' = [clients EXCEPT ![w].tries = @ + 1]
  <2> DEFINE n == clients[w].tries + 1
  <2>1. n \in Nat
    BY <1>1 DEF ClientRecords
  <2>2. clients' = [clients EXCEPT ![w] = [clients[w] EXCEPT !.tries = n]]
    BY <1>7
  <2> HIDE DEF n
  <2>3. [clients[w] EXCEPT !.tries = n] \in ClientRecords
        /\ [clients[w] EXCEPT !.tries = n].call = clients[w].call
    BY <1>1, <2>1 DEF ClientRecords
  <2> QED
    BY <1>1, <1>3, <2>2, <2>3
<1>8. \/ Advance(w)
      \/ \E cause : Raise(w, cause)
      \/ \E stage \in {"send", "confirm", "wait"} : clients' = [clients EXCEPT ![w].stage = stage]
      \/ clients' = [clients EXCEPT ![w].tries = @ + 1]
  <2>1. CASE Look(w) \/ WaitAirdrop(w)
    BY <2>1 DEF Look, WaitAirdrop
  <2>2. CASE SendTransaction(w) \/ TimeOut(w)
    BY <2>2 DEF SendTransaction, TimeOut
  <2>3. CASE RequestAirdrop(w)
    BY <2>3 DEF RequestAirdrop
  <2>4. CASE Confirm(w)
    BY <2>4 DEF Confirm
  <2> QED
    BY <2>1, <2>2, <2>3, <2>4 DEF WorkerStep
<1> QED
  BY <1>4, <1>5, <1>6, <1>7, <1>8

LEMMA StartFields ==
    ASSUME ClientsOK, NEW w \in Workers, NEW c \in left[w], Start(w, c)
    PROVE  /\ clients' \in [Workers -> ClientRecords]
           /\ \A v \in Workers \ {w} : clients'[v] = clients[v]
           /\ clients'[w].stage = "look" /\ clients'[w].call = c /\ clients'[w].index = 1
           /\ left' = [left EXCEPT ![w] = @ \ {c}] /\ ~Working(w)
           /\ UNCHANGED <<token, operators, sent, receipts, returned, raised>>
<1>1. /\ clients \in [Workers -> ClientRecords] /\ c \in Calls
      /\ clients' = [clients EXCEPT ![w] = [AtRest EXCEPT !.stage = "look", !.call = c,
                                                          !.index = 1]]
  BY DEF ClientsOK, Start
<1> DEFINE next == [AtRest EXCEPT !.stage = "look", !.call = c, !.index = 1]
<1>3. next \in ClientRecords /\ next.stage = "look" /\ next.call = c /\ next.index = 1
  BY <1>1, IdleRecord DEF ClientRecords
<1> HIDE DEF next
<1>4. clients'[w] = next /\ clients' \in [Workers -> ClientRecords]
      /\ \A v \in Workers \ {w} : clients'[v] = clients[v]
  BY <1>1, <1>3 DEF next
<1> QED
  BY <1>3, <1>4 DEF Start, Working, ledger

LEMMA StepClientsOK ==
    ASSUME TestsCall, ClientsOK, [DepositsNext]_depositVars
    PROVE  ClientsOK'
<1>p. PICK p \in Programs : \A w \in Workers :
         left[w] \subseteq p[w] /\ (Working(w) => clients[w].call \in p[w])
  BY DEF ClientsOK
<1>t. clients \in [Workers -> ClientRecords] /\ left \in [Workers -> SUBSET Calls]
  BY DEF ClientsOK
<1>1. CASE UNCHANGED <<clients, left>>
  BY <1>1 DEF ClientsOK, Working
<1>2. ASSUME NEW w \in Workers, WorkerStep(w) PROVE ClientsOK'
  <2>1. \A v \in Workers : left'[v] \subseteq p[v] /\ (Working(v)' => clients'[v].call \in p[v])
    BY <1>p, <1>2, ClientStepFields DEF Working
  <2> QED
    BY <1>t, <1>2, <2>1, ClientStepFields DEF ClientsOK
<1>3. ASSUME NEW w \in Workers, NEW c \in left[w], Start(w, c) PROVE ClientsOK'
  <2>1. left' \in [Workers -> SUBSET Calls] /\ \A v \in Workers : left'[v] \subseteq left[v]
    BY <1>t, <1>3, StartFields
  <2>2. \A v \in Workers : left'[v] \subseteq p[v] /\ (Working(v)' => clients'[v].call \in p[v])
    BY <1>p, <1>3, <2>1, StartFields DEF Working
  <2> QED
    BY <1>3, <2>1, <2>2, StartFields DEF ClientsOK
<1>4. ASSUME NEW t \in sent, Arrive(t) \/ Expire(t) PROVE UNCHANGED <<clients, left>>
  BY <1>4 DEF Arrive, Expire
<1> QED
  BY <1>1, <1>2, <1>3, <1>4 DEF DepositsNext, depositVars

LEMMA StepAirdrops ==
    ASSUME ClientsOK, AirdropsWait, [DepositsNext]_depositVars
    PROVE  AirdropsWait'
<1>1. ASSUME NEW w \in Workers, WorkerStep(w), clients'[w].stage = "wait"
      PROVE  IsAirdrop(Step(w))'
  <2>1. clients \in [Workers -> ClientRecords] /\ clients[w] \in ClientRecords
    BY DEF ClientsOK
  <2>2. ~Advance(w)
    BY <1>1, AdvanceFields, IdleRecord
  <2>3. ASSUME NEW cause, Raise(w, cause) PROVE FALSE
    BY <1>1, <2>1, <2>3, IdleRecord DEF Raise
  <2>4. ASSUME NEW stage \in {"send", "confirm"}, clients' = [clients EXCEPT ![w].stage = stage]
        PROVE  FALSE
    BY <1>1, <2>1, <2>4 DEF ClientRecords
  <2>5. CASE RequestAirdrop(w)
    <3>1. clients' = [clients EXCEPT ![w].stage = "wait"]
          \/ clients' = [clients EXCEPT ![w].tries = @ + 1]
      BY <2>3, <2>5 DEF RequestAirdrop
    <3>2. clients'[w].call = clients[w].call /\ clients'[w].index = clients[w].index
      BY <2>1, <3>1 DEF ClientRecords
    <3> QED
      BY <2>5, <3>2 DEF RequestAirdrop, Step
  <2> QED
    BY <1>1, <2>2, <2>3, <2>4, <2>5 DEF WorkerStep, Look, SendTransaction,
       WaitAirdrop, Confirm, TimeOut
<1>2. ASSUME NEW v \in Workers, clients'[v] = clients[v], clients'[v].stage = "wait"
      PROVE  IsAirdrop(Step(v))'
  BY <1>2 DEF AirdropsWait, Step
<1>3. ASSUME NEW w \in Workers, NEW c \in left[w], Start(w, c)
      PROVE  clients'[w].stage # "wait" /\ \A v \in Workers \ {w} : clients'[v] = clients[v]
  BY <1>3, StartFields
<1>4. ASSUME NEW w \in Workers, WorkerStep(w)
      PROVE  \A v \in Workers \ {w} : clients'[v] = clients[v]
  BY <1>4, ClientStepFields
<1>5. ASSUME NEW t \in sent, Arrive(t) \/ Expire(t) PROVE UNCHANGED clients
  BY <1>5 DEF Arrive, Expire
<1> SUFFICES ASSUME NEW v \in Workers, clients'[v].stage = "wait"
             PROVE  IsAirdrop(Step(v))'
  BY DEF AirdropsWait
<1> QED
  BY <1>1, <1>2, <1>3, <1>4, <1>5 DEF DepositsNext, depositVars

LEMMA StepOperators ==
    ASSUME TestsCall, OperatorInv, [DepositsNext]_depositVars
    PROVE  OperatorInv'
<1>1. ClientsOK /\ ClientsOK' /\ operators \subseteq operators'
  <2>1. operators \subseteq operators'
    <3>1. ASSUME NEW t \in sent, Arrive(t) PROVE operators \subseteq operators'
      BY <3>1 DEF Arrive, Effect, ledger
    <3> QED
      BY <3>1, ClientStepFields, StartFields DEF OperatorInv, ClientsOK, DepositsNext, depositVars, Expire,
         ledger
  <2> QED
    BY <2>1, StepClientsOK DEF OperatorInv
<1>2. OperatorsAreMade'
  <2> SUFFICES ASSUME NEW r \in receipts', r.of.step = "operator_account"
               PROVE  r.of.call.key \in operators'
    BY DEF OperatorsAreMade
  <2>1. CASE r \in receipts
    BY <1>1, <2>1 DEF OperatorInv, OperatorsAreMade
  <2>2. CASE r \notin receipts
    <3>1. PICK t \in sent : Arrive(t)
      BY <2>2, ClientStepFields, StartFields DEF OperatorInv, DepositsNext, depositVars, Expire
    <3>2. r.of = t
      BY <2>2, <3>1 DEF Arrive
    <3>3. CASE Failing(t)
      <4>1. Permitted(InstructionsOf(t), "owner")
        <5>1. InstructionsOf(t) = {make_OperatorBalanceAccount("owner", "operatorBalance")}
          BY <3>2 DEF InstructionsOf
        <5> QED
          BY <5>1 DEF Permitted, make_OperatorBalanceAccount, Instruction,
                      Needs, Signers, Writable, Executes
      <4>2. t.call.key \in operators
        BY <3>2, <3>3, <4>1 DEF Failing
      <4> QED
        BY <1>1, <3>2, <4>2
    <3>4. CASE ~Failing(t)
      BY <3>1, <3>2, <3>4 DEF Arrive, Effect
    <3> QED
      BY <3>3, <3>4
  <2> QED
    BY <2>1, <2>2
<1>3. AirdropsWait'
  BY StepAirdrops DEF OperatorInv
<1>4. OperatorIsReady'
  <2> SUFFICES ASSUME NEW r \in returned', r.call.op = "prepare_operator"
               PROVE  r.call.key \in operators'
    BY DEF OperatorIsReady
  <2>1. CASE r \in returned
    BY <1>1, <2>1 DEF OperatorInv, OperatorIsReady
  <2>2. CASE r \notin returned
    <3>1. PICK w \in Workers : WorkerStep(w)
      BY <1>1, <2>2, StartFields DEF DepositsNext, depositVars, Arrive, Expire
    <3>2. Advance(w)
      BY <2>2, <3>1 DEF WorkerStep, Look, SendTransaction, RequestAirdrop,
         WaitAirdrop, Confirm, TimeOut
    <3>3. r = [by |-> w, call |-> clients[w].call]
          /\ clients[w].index = Len(Script(clients[w].call.op))
      BY <1>1, <2>2, <3>2, AdvanceFields
    <3>4. clients[w].call \in Calls
      BY <1>1, <3>1, ClientStepFields, CallsOfPrograms DEF ClientsOK
    <3>5. Step(w) = "operator_account" /\ ~IsAirdrop(Step(w))
      BY <3>3, <3>4, ScriptOfCall DEF Step, IsAirdrop
    <3>6. CASE Look(w)
      <4>1. Unneeded(Step(w), clients[w].call)
        <5>1. CASE clients' = [clients EXCEPT ![w].stage = "send"] /\ UNCHANGED returned
          BY <2>2, <5>1
        <5> QED
          BY <3>6, <5>1 DEF Look
      <4> QED
        BY <1>1, <3>3, <3>5, <4>1 DEF Unneeded
    <3>7. CASE Confirm(w)
      <4>1. PICK q \in receipts : q.of = Sent(w)
        BY <3>7 DEF Confirm
      <4>2. q.of.step = "operator_account" /\ q.of.call = clients[w].call
        BY <3>5, <4>1 DEF Sent, Transaction
      <4> QED
        BY <1>1, <3>3, <4>1, <4>2 DEF OperatorInv, OperatorsAreMade
    <3>8. CASE WaitAirdrop(w)
      BY <3>5, <3>8 DEF WaitAirdrop, OperatorInv, AirdropsWait
    <3>9. CASE SendTransaction(w)
      BY <2>2, <3>5, <3>9 DEF SendTransaction, Awaited
    <3> QED
      BY <2>2, <3>1, <3>6, <3>7, <3>8, <3>9 DEF WorkerStep, RequestAirdrop, TimeOut
  <2> QED
    BY <2>1, <2>2
<1> QED
  BY <1>1, <1>2, <1>3, <1>4 DEF OperatorInv

LEMMA InitClients == TestsCall /\ DepositsInit => ClientsOK /\ \A w \in Workers : ~Working(w)
<1> SUFFICES ASSUME TestsCall, DepositsInit PROVE ClientsOK /\ \A w \in Workers : ~Working(w)
  OBVIOUS
<1>1. AtRest \in ClientRecords /\ AtRest.stage = "idle"
  BY IdleRecord
<1>2. clients = [w \in Workers |-> AtRest] /\ left \in Programs
  BY DEF DepositsInit
<1>3. left \in [Workers -> SUBSET Calls]
  BY <1>2 DEF TestsCall
<1> QED
  BY <1>1, <1>2, <1>3 DEF ClientsOK, Working

LEMMA InitOperators == TestsCall /\ DepositsInit => OperatorInv
<1> SUFFICES ASSUME TestsCall, DepositsInit PROVE OperatorInv
  OBVIOUS
<1>1. ClientsOK /\ \A w \in Workers : ~Working(w)
  BY InitClients
<1>2. receipts = {} /\ returned = {}
  BY DEF DepositsInit
<1> QED
  BY <1>1, <1>2 DEF OperatorInv, AirdropsWait, Working, OperatorsAreMade, OperatorIsReady

(***************************************************************************)
(* Whoever else prepares the same key, and whatever is lost or late, a     *)
(* prepare_operator that returns leaves an operator balance account        *)
(* (neon_evm/conftest.py: prepare_operator).                               *)
(***************************************************************************)
THEOREM OperatorsAreReady == DepositsSpec => []OperatorIsReady
<1> USE CallsAreCalls
<1>1. OperatorInv => OperatorIsReady
  BY DEF OperatorInv
<1>2. DepositsInit => OperatorInv
  BY InitOperators
<1>3. OperatorInv /\ [DepositsNext]_depositVars => OperatorInv'
  BY StepOperators
<1> QED
  BY <1>1, <1>2, <1>3, PTL DEF DepositsSpec

-----------------------------------------------------------------------------
(***************************************************************************)
(* Tokens that were put on Solana by a deposit in more than one step are   *)
(* those of a worker that still has to deposit them: its transactions are  *)
(* processed one after the other, and nobody else uses the key.            *)
(***************************************************************************)
LongCall(w) == Working(w) /\ clients[w].call.op \in LongDeposits

\* The step after which there are tokens.
PutStep(op) == IF op = "deposit_wrapped_sol" THEN "wrap" ELSE "mint"

TokenSteps == {"token_account", "wrap", "mint", "sent_token"}

Place(step) == IF step = "token_account" THEN 1 ELSE IF step = "sent_token" THEN 3 ELSE 2

IsCurrent(t) == Working(t.worker) /\ clients[t.worker].call = t.call

Done(t) == \E r \in receipts : r.of = t /\ r.ok

\* The worker has put tokens there, and not deposited them.
Carries(w) ==
    /\ LongCall(w)
    /\ Done(Transaction(w, clients[w].call, PutStep(clients[w].call.op)))
    /\ ~Done(Transaction(w, clients[w].call, "sent_token"))

CallsOnce ==
    \A w \in Workers : Working(w) => /\ clients[w].index \in 1..Len(Script(clients[w].call.op))
                                     /\ clients[w].call \notin left[w]

\* A transaction that was sent, of which call, and how far this one is.
SentOK(t) ==
    /\ t = Transaction(t.worker, t.call, t.step)
    /\ t.worker \in Workers /\ t.call \in Calls /\ t.call \notin left[t.worker]
    /\ t.call.op \notin LongDeposits => t.step \notin TokenSteps
    /\ t.call.op \in LongDeposits =>
         t.step \in {"token_account", PutStep(t.call.op), "sent_token"}
    /\ t.call.op \in LongDeposits /\ IsCurrent(t) =>
         LET i == clients[t.worker].index
         IN  Place(t.step) <= i /\ (Place(t.step) = i => clients[t.worker].stage = "confirm")

AllSentOK == (\A t \in sent : SentOK(t)) /\ (\A r \in receipts : SentOK(r.of))

ProcessedOnce ==
    \A t \in sent, r \in receipts : t.call.op \in LongDeposits => r.of # t

FailedFor(k, m) == \E r \in raised : r.call.key = k /\ r.call.mint = m

\* The worker waits for it, or has minted and deposits.
InPlace(t) ==
    LET i == clients[t.worker].index
    IN  Place(t.step) = i \/ (t.step = "mint" /\ i = 3)

\* What is still on its way has its call at work, or a call has raised.
LateHasRaised ==
    \A t \in sent : t.call.op \in LongDeposits =>
      (IsCurrent(t) /\ InPlace(t)) \/ FailedFor(t.call.key, t.call.mint)

\* A deposit takes what its call put there.
TakenWasPut ==
    \A w \in Workers : LET c == clients[w].call IN
      LongCall(w) /\ ~FailedFor(c.key, c.mint) /\ Done(Transaction(w, c, "sent_token"))
        => Done(Transaction(w, c, PutStep(c.op)))

CarriesTo(w, k, m) == Carries(w) /\ clients[w].call.key = k /\ clients[w].call.mint = m

TokensAreCarried ==
    \A k \in Keys, m \in Tokens : ~FailedFor(k, m) =>
      /\ \A w \in Workers : CarriesTo(w, k, m) => token[<<k, m>>] = clients[w].call.amount
      /\ (\A w \in Workers : ~CarriesTo(w, k, m)) => token[<<k, m>>] <= 0

TokenInv == /\ ClientsOK /\ AirdropsWait /\ LedgerOK /\ CallsOnce /\ AllSentOK
            /\ ProcessedOnce /\ LateHasRaised /\ TakenWasPut /\ TokensAreCarried

LEMMA LongScript ==
    ASSUME TestsCall, NEW c \in Calls
    PROVE  /\ c.op \in LongDeposits =>
                /\ Len(Script(c.op)) = 3
                /\ Script(c.op)[1] = "token_account"
                /\ Script(c.op)[2] = PutStep(c.op)
                /\ Script(c.op)[3] = "sent_token"
           /\ c.op \notin LongDeposits =>
                \A i \in 1..Len(Script(c.op)) : Script(c.op)[i] \notin TokenSteps
<1>1. ASSUME c.op = "deposit_wrapped_sol"
      PROVE  Script(c.op) = <<"token_account", "wrap", "sent_token">> /\ PutStep(c.op) = "wrap"
  BY <1>1 DEF Script, PutStep
<1>2. ASSUME c.op = "deposit_neon_like"
      PROVE  Script(c.op) = <<"token_account", "mint", "sent_token">> /\ PutStep(c.op) = "mint"
  BY <1>2 DEF Script, PutStep
<1>3. c.op \in LongDeposits =>
        /\ Len(Script(c.op)) = 3
        /\ Script(c.op)[1] = "token_account"
        /\ Script(c.op)[2] = PutStep(c.op)
        /\ Script(c.op)[3] = "sent_token"
  BY <1>1, <1>2 DEF LongDeposits
<1>4. c.op \notin LongDeposits =>
        Script(c.op) \in {<<"airdrop">>, <<"send_sol">>, <<"deposit_neon">>,
                          <<"airdrop_empty", "balance_account">>,
                          <<"airdrop", "operator_account">>}
  BY ScriptOfCall DEF LongDeposits, Ops, Script
<1>5. \A s \in {<<"airdrop">>, <<"send_sol">>, <<"deposit_neon">>,
                <<"airdrop_empty", "balance_account">>, <<"airdrop", "operator_account">>} :
        \A i \in 1..Len(s) : s[i] \notin TokenSteps
  BY DEF TokenSteps
<1> QED
  BY <1>3, <1>4, <1>5

\* Two workers with the same key are one.
LEMMA KeysAreOwn ==
    ASSUME TestsCall, ClientsOK, NEW v \in Workers, NEW w \in Workers,
           LongCall(v), LongCall(w), clients[v].call.key = clients[w].call.key
    PROVE  v = w
<1>1. PICK p \in Programs : \A u \in Workers : Working(u) => clients[u].call \in p[u]
  BY DEF ClientsOK
<1>2. clients[v].call \in p[v] /\ clients[w].call \in p[w]
  BY <1>1 DEF LongCall
<1> QED
  BY <1>2 DEF TestsCall, LongCall

\* The ways a worker goes on.
LEMMA ClientMoves ==
    ASSUME ClientsOK, NEW w \in Workers, WorkerStep(w)
    PROVE  \/ /\ Advance(w) /\ sent' = sent /\ raised' = raised
              /\ \/ clients[w].stage = "look" /\ Unneeded(Step(w), clients[w].call)
                 \/ clients[w].stage = "wait"
                 \/ /\ clients[w].stage = "confirm"
                    /\ \E r \in receipts : r.of = Sent(w) /\ (Checked(Step(w)) => r.ok)
           \/ /\ clients'[w] = AtRest /\ sent' = sent /\ raised \subseteq raised'
              /\ \E r \in raised' : r.call = clients[w].call
           \/ /\ clients'[w].index = clients[w].index /\ clients'[w].call = clients[w].call
              /\ raised' = raised
              /\ \/ /\ sent' = sent /\ clients[w].stage \in {"look", "send"}
                    /\ clients'[w].stage = "send"
                 \/ /\ sent' = sent \cup {Sent(w)} /\ clients[w].stage = "send"
                    /\ clients'[w].stage = IF IsAirdrop(Step(w)) THEN "wait" ELSE "confirm"
           \/ /\ Advance(w) /\ sent' = sent \cup {Sent(w)} /\ raised' = raised
              /\ clients[w].stage = "send" /\ Step(w) = "mint"
<1>1. clients \in [Workers -> ClientRecords] /\ clients[w] \in ClientRecords
  BY DEF ClientsOK
<1>2. ASSUME NEW stage, clients' = [clients EXCEPT ![w].stage = stage]
      PROVE  clients'[w].stage = stage /\ clients'[w].index = clients[w].index
             /\ clients'[w].call = clients[w].call
  BY <1>1, <1>2 DEF ClientRecords
<1>3. ASSUME NEW n, clients' = [clients EXCEPT ![w].tries = n]
      PROVE  clients'[w].stage = clients[w].stage /\ clients'[w].index = clients[w].index
             /\ clients'[w].call = clients[w].call
  BY <1>1, <1>3 DEF ClientRecords
<1> DEFINE Fell == /\ clients'[w] = AtRest /\ raised \subseteq raised'
                   /\ \E r \in raised' : r.call = clients[w].call
<1>4. ASSUME NEW cause, Raise(w, cause) PROVE Fell
  <2> DEFINE r == [by |-> w, call |-> clients[w].call, step |-> Step(w), cause |-> cause]
  <2>1. r.call = clients[w].call
    OBVIOUS
  <2>2. raised' = raised \cup {r}
    BY <1>4 DEF Raise
  <2>3. clients'[w] = AtRest
    BY <1>1, <1>4 DEF Raise
  <2> HIDE DEF r
  <2> QED
    BY <2>1, <2>2, <2>3
<1> HIDE DEF Fell
<1>5. CASE Look(w)
  BY <1>2, <1>5 DEF Look
<1>6. CASE SendTransaction(w)
  <2>1. CASE Raise(w, "preflight") /\ UNCHANGED sent
    BY <1>4, <2>1 DEF Fell
  <2>2. CASE /\ clients' = [clients EXCEPT ![w].stage = "confirm"]
             /\ sent' = sent \cup {Sent(w)} /\ UNCHANGED raised
    BY <1>2, <1>6, <2>2 DEF SendTransaction
  <2>3. CASE /\ Advance(w) /\ ~Awaited(Step(w))
             /\ sent' = sent \cup {Sent(w)} /\ UNCHANGED raised
    BY <1>6, <2>3 DEF SendTransaction, Awaited
  <2> QED
    BY <1>6, <2>1, <2>2, <2>3 DEF SendTransaction
<1>7. CASE RequestAirdrop(w)
  <2>1. CASE /\ clients' = [clients EXCEPT ![w].stage = "wait"]
             /\ sent' = sent \cup {Sent(w)} /\ UNCHANGED raised
    BY <1>2, <1>7, <2>1 DEF RequestAirdrop
  <2>2. CASE Raise(w, "refused") /\ UNCHANGED sent
    BY <1>4, <2>2 DEF Fell
  <2>3. CASE clients' = [clients EXCEPT ![w].tries = @ + 1] /\ UNCHANGED <<raised, sent>>
    <3>1. \E n : clients' = [clients EXCEPT ![w].tries = n]
      BY <2>3
    <3> QED
      BY <1>3, <1>7, <2>3, <3>1 DEF RequestAirdrop
  <2> QED
    BY <1>7, <2>1, <2>2, <2>3 DEF RequestAirdrop
<1>8. CASE WaitAirdrop(w)
  BY <1>8 DEF WaitAirdrop
<1>9. CASE Confirm(w)
  <2>1. PICK r \in receipts :
          /\ r.of = Sent(w)
          /\ IF Checked(Step(w)) /\ ~r.ok
             THEN Raise(w, "status") /\ UNCHANGED returned
             ELSE Advance(w) /\ UNCHANGED raised
    BY <1>9 DEF Confirm
  <2> QED
    BY <1>4, <1>9, <2>1 DEF Confirm, Fell
<1>10. CASE TimeOut(w)
  BY <1>4, <1>10 DEF TimeOut, Fell
<1> QED
  BY <1>5, <1>6, <1>7, <1>8, <1>9, <1>10 DEF WorkerStep

\* When a worker goes on to the next step, or returns, nothing of the call is on its way.
LEMMA Drained ==
    ASSUME TestsCall, TokenInv, NEW w \in Workers, WorkerStep(w), Advance(w),
           sent' = sent, raised' = raised, LongCall(w),
           \/ clients[w].stage = "look" /\ Unneeded(Step(w), clients[w].call)
           \/ clients[w].stage = "wait"
           \/ /\ clients[w].stage = "confirm"
              /\ \E r \in receipts : r.of = Sent(w) /\ (Checked(Step(w)) => r.ok)
    PROVE  /\ \A t \in sent : t.worker = w => ~(IsCurrent(t) /\ Place(t.step) = clients[w].index)
           /\ clients[w].index = 3 =>
                ~Carries(w) /\ Done(Transaction(w, clients[w].call, "sent_token"))
<1> DEFINE c == clients[w].call
           i == clients[w].index
<1>1. /\ c \in Calls /\ c.op \in LongDeposits /\ i \in 1..3
      /\ i = 1 => Step(w) = "token_account"
      /\ i = 2 => Step(w) = PutStep(c.op)
      /\ i = 3 => Step(w) = "sent_token"
  <2>1. c \in Calls /\ c.op \in LongDeposits
    BY CallsOfPrograms DEF TokenInv, ClientsOK, LongCall
  <2>2. i \in 1..3
    BY <2>1, LongScript DEF TokenInv, CallsOnce, LongCall
  <2> QED
    BY <2>1, <2>2, LongScript DEF Step
<1>2. PutStep(c.op) \in {"wrap", "mint"}
  BY DEF PutStep
<1>3. Place(Step(w)) = i /\ ~IsAirdrop(Step(w))
  BY <1>1, <1>2 DEF Place, IsAirdrop
<1>4. clients[w].stage # "wait"
  BY <1>3 DEF TokenInv, AirdropsWait
<1>5. ASSUME NEW t \in sent, t.worker = w, IsCurrent(t), Place(t.step) = i PROVE FALSE
  <2>1. SentOK(t) /\ t.call = c
    BY <1>5 DEF TokenInv, AllSentOK, IsCurrent
  <2>2. clients[w].stage = "confirm"
    BY <1>1, <1>5, <2>1 DEF SentOK
  <2>3. PICK r \in receipts : r.of = Sent(w)
    BY <2>2
  <2>4. t.step = Step(w)
    BY <1>1, <1>2, <1>5, <2>1 DEF SentOK, Place
  <2>5. t = Sent(w)
    BY <1>5, <2>1, <2>4 DEF SentOK, Sent
  <2> QED
    BY <1>1, <2>1, <2>3, <2>5 DEF TokenInv, ProcessedOnce
<1>6. ASSUME i = 3 PROVE ~Carries(w) /\ Done(Transaction(w, c, "sent_token"))
  <2>1. Step(w) = "sent_token" /\ Checked(Step(w))
    BY <1>1, <1>6 DEF Checked
  <2>2. ~Unneeded(Step(w), c)
    BY <2>1 DEF Unneeded
  <2>3. PICK r \in receipts : r.of = Sent(w) /\ r.ok
    BY <1>4, <2>1, <2>2
  <2>4. Done(Transaction(w, c, "sent_token"))
    BY <2>1, <2>3 DEF Done, Sent
  <2> QED
    BY <2>4 DEF Carries
<1> QED
  BY <1>5, <1>6

LEMMA CarriersStay ==
    ASSUME TokensAreCarried, UNCHANGED <<token, raised>>,
           \A v \in Workers : \A k, m : CarriesTo(v, k, m)' <=> CarriesTo(v, k, m),
           \A v \in Workers : Carries(v)' => clients'[v].call = clients[v].call
    PROVE  TokensAreCarried'
<1> SUFFICES ASSUME NEW k \in Keys, NEW m \in Tokens, ~FailedFor(k, m)'
             PROVE  /\ \A v \in Workers : CarriesTo(v, k, m)' =>
                         token[<<k, m>>] = clients'[v].call.amount
                    /\ (\A v \in Workers : ~CarriesTo(v, k, m)') => token[<<k, m>>] <= 0
  BY DEF TokensAreCarried
<1>1. ~FailedFor(k, m)
  BY DEF FailedFor
<1>2. /\ \A v \in Workers : CarriesTo(v, k, m) => token[<<k, m>>] = clients[v].call.amount
      /\ (\A v \in Workers : ~CarriesTo(v, k, m)) => token[<<k, m>>] <= 0
  BY <1>1 DEF TokensAreCarried
<1>3. \A v \in Workers : CarriesTo(v, k, m)' =>
        CarriesTo(v, k, m) /\ clients'[v].call = clients[v].call
  BY DEF CarriesTo
<1> QED
  BY <1>2, <1>3

\* What a step of a client, or the start of a call, must not change for the other invariants.
LEMMA ClientKeepsTokens ==
    ASSUME TestsCall, TokenInv, NEW w \in Workers, WorkerStep(w), ClientsOK',
           AirdropsWait'
    PROVE  TokenInv'
<1> DEFINE c == clients[w].call
           i == clients[w].index
<1>1. /\ \A v \in Workers \ {w} : clients'[v] = clients[v]
      /\ Working(w) /\ left' = left /\ UNCHANGED <<token, receipts>>
      /\ Working(w)' => clients'[w].call = c
      /\ ClientsOK
  BY ClientStepFields DEF TokenInv
<1>2. /\ c \in Calls /\ i \in 1..Len(Script(c.op)) /\ c \notin left[w]
      /\ Len(Script(c.op)) \in {1, 2, 3}
  BY <1>1, CallsOfPrograms, ScriptOfCall DEF TokenInv, ClientsOK, CallsOnce
<1>l. LedgerOK'
  BY <1>1 DEF TokenInv, LedgerOK
<1>o. \A v \in Workers \ {w} : (Working(v)' <=> Working(v)) /\ (Carries(v)' <=> Carries(v))
  BY <1>1 DEF Working, Carries, LongCall, Done
<1>f. \A t : t.worker \in Workers \ {w} =>
        (IsCurrent(t)' <=> IsCurrent(t)) /\ clients'[t.worker] = clients[t.worker]
  BY <1>1 DEF IsCurrent, Working
<1>d. \A t : Done(t)' <=> Done(t)
  BY <1>1 DEF Done
<1>s. \A t \in sent : SentOK(t) /\ t.worker \in Workers
  BY DEF TokenInv, AllSentOK, SentOK
<1>g. \A r \in receipts : SentOK(r.of) /\ r.of.worker \in Workers
  BY DEF TokenInv, AllSentOK, SentOK
<1>r. raised \subseteq raised'
  BY ClientMoves DEF TokenInv
<1>t. TakenWasPut'
  <2> SUFFICES ASSUME NEW v \in Workers, NEW d, d = clients'[v].call, LongCall(v)',
                      ~FailedFor(d.key, d.mint)', Done(Transaction(v, d, "sent_token"))'
               PROVE  Done(Transaction(v, d, PutStep(d.op)))'
    BY DEF TakenWasPut, FailedFor, Done
  <2>1. d = clients[v].call /\ LongCall(v)
    BY <1>1 DEF LongCall, Working
  <2>2. ~FailedFor(d.key, d.mint)
    BY <1>r DEF FailedFor
  <2>3. Done(Transaction(v, d, "sent_token"))
    BY <1>d
  <2>4. Done(Transaction(v, d, PutStep(d.op)))
    BY <2>1, <2>2, <2>3 DEF TokenInv, TakenWasPut
  <2> QED
    BY <1>d, <2>4
\* The call goes on, or ends.
<1>3. CASE /\ Advance(w) /\ sent' = sent /\ raised' = raised
           /\ \/ clients[w].stage = "look" /\ Unneeded(Step(w), clients[w].call)
              \/ clients[w].stage = "wait"
              \/ /\ clients[w].stage = "confirm"
                 /\ \E r \in receipts : r.of = Sent(w) /\ (Checked(Step(w)) => r.ok)
  <2>1. \/ ~Working(w)' /\ i = Len(Script(c.op))
        \/ /\ Working(w)' /\ clients'[w].stage = "look" /\ clients'[w].call = c
           /\ clients'[w].index = i + 1 /\ i # Len(Script(c.op))
    BY <1>1, <1>3, AdvanceFields, IdleRecord DEF Working
  <2>2. CallsOnce'
    BY <1>1, <1>2, <1>o, <2>1 DEF TokenInv, CallsOnce
  <2>3. ASSUME NEW t, SentOK(t) PROVE SentOK(t)'
    <3>1. CASE t.worker # w
      BY <1>1, <1>f, <2>3, <3>1 DEF SentOK
    <3>2. CASE t.worker = w
      <4>1. t.call.op \in LongDeposits /\ IsCurrent(t)' =>
              /\ IsCurrent(t) /\ clients'[w].index = i + 1
        BY <1>1, <2>1, <3>2 DEF IsCurrent
      <4>2. t.call.op \in LongDeposits /\ IsCurrent(t)' =>
              Place(t.step) <= i + 1 /\ Place(t.step) # i + 1
        BY <1>2, <2>3, <3>2, <4>1 DEF SentOK, Place
      <4> QED
        BY <1>1, <2>3, <3>2, <4>1, <4>2 DEF SentOK
    <3> QED
      BY <3>1, <3>2
  <2>4. AllSentOK' /\ ProcessedOnce'
    BY <1>1, <1>3, <2>3 DEF TokenInv, AllSentOK, ProcessedOnce
  <2>5. LateHasRaised'
    <3> SUFFICES ASSUME NEW t \in sent, t.call.op \in LongDeposits,
                        ~FailedFor(t.call.key, t.call.mint)
                 PROVE  IsCurrent(t)' /\ InPlace(t)'
      BY <1>3 DEF LateHasRaised, FailedFor, InPlace
    <3>1. IsCurrent(t) /\ InPlace(t)
      BY DEF TokenInv, LateHasRaised, InPlace
    <3>2. t.worker # w
      <4>1. ASSUME t.worker = w PROVE FALSE
        <5>1. LongCall(w) /\ t.call = c
          BY <1>1, <3>1, <4>1 DEF LongCall, IsCurrent
        <5>2. t.step = "mint" /\ i = 3
          BY <1>3, <3>1, <4>1, <5>1, Drained DEF InPlace
        <5>3. t = Transaction(w, c, PutStep(c.op))
          <6>1. SentOK(t)
            BY <1>s
          <6> QED
            BY <4>1, <5>1, <5>2, <6>1 DEF SentOK, LongCall
        <5>4. Done(Transaction(w, c, "sent_token"))
          BY <1>3, <5>1, <5>2, Drained
        <5>5. Done(t)
          BY <5>1, <5>3, <5>4 DEF TokenInv, TakenWasPut
        <5> QED
          BY <5>1, <5>5 DEF TokenInv, ProcessedOnce, Done
      <4> QED
        BY <4>1
    <3> QED
      BY <1>f, <1>s, <3>1, <3>2 DEF InPlace
  <2>6. Carries(w)' <=> Carries(w)
    <3>1. CASE ~LongCall(w)
      BY <1>1, <3>1 DEF Carries, LongCall
    <3>2. CASE LongCall(w)
      <4>1. Len(Script(c.op)) = 3
        BY <1>2, <3>2, LongScript DEF LongCall
      <4>2. i = 3 => ~Carries(w)
        BY <1>3, <3>2, Drained
      <4> QED
        BY <1>1, <1>d, <2>1, <4>1, <4>2 DEF Carries, LongCall
    <3> QED
      BY <3>1, <3>2
  <2>7. \A v \in Workers : \A k, m : CarriesTo(v, k, m)' <=> CarriesTo(v, k, m)
    BY <1>1, <1>o, <2>6 DEF CarriesTo, Carries, LongCall
  <2>8. \A v \in Workers : Carries(v)' => clients'[v].call = clients[v].call
    BY <1>1 DEF Carries, LongCall
  <2>9. TokensAreCarried'
    BY <1>1, <1>3, <2>7, <2>8, CarriersStay DEF TokenInv
  <2> QED
    BY <1>l, <1>t, <2>2, <2>4, <2>5, <2>9 DEF TokenInv
\* The call raises.
<1>4. CASE /\ clients'[w] = AtRest /\ sent' = sent /\ raised \subseteq raised'
           /\ \E r \in raised' : r.call = clients[w].call
  <2>1. ~Working(w)'
    BY <1>4, IdleRecord DEF Working
  <2>2. CallsOnce'
    BY <1>1, <1>o, <2>1 DEF TokenInv, CallsOnce
  <2>3. ASSUME NEW t, SentOK(t) PROVE SentOK(t)'
    <3>1. CASE t.worker # w
      BY <1>1, <1>f, <2>3, <3>1 DEF SentOK
    <3>2. CASE t.worker = w
      BY <1>1, <2>1, <2>3, <3>2 DEF SentOK, IsCurrent
    <3> QED
      BY <3>1, <3>2
  <2>4. AllSentOK' /\ ProcessedOnce'
    BY <1>1, <1>4, <2>3 DEF TokenInv, AllSentOK, ProcessedOnce
  <2>5. LateHasRaised'
    <3> SUFFICES ASSUME NEW t \in sent, t.call.op \in LongDeposits,
                        ~FailedFor(t.call.key, t.call.mint)'
                 PROVE  IsCurrent(t)' /\ InPlace(t)'
      BY <1>4 DEF LateHasRaised, InPlace
    <3>1. IsCurrent(t) /\ InPlace(t)
      BY <1>4 DEF TokenInv, LateHasRaised, InPlace, FailedFor
    <3>2. t.worker # w
      BY <1>4, <3>1 DEF IsCurrent, FailedFor
    <3> QED
      BY <1>f, <1>s, <3>1, <3>2 DEF InPlace
  <2>6. TokensAreCarried'
    <3> SUFFICES ASSUME NEW k \in Keys, NEW m \in Tokens, ~FailedFor(k, m)'
                 PROVE  /\ \A v \in Workers : CarriesTo(v, k, m)' =>
                             token[<<k, m>>] = clients'[v].call.amount
                        /\ (\A v \in Workers : ~CarriesTo(v, k, m)') => token[<<k, m>>] <= 0
      BY <1>1 DEF TokensAreCarried
    <3>1. ~FailedFor(k, m) /\ ~(c.key = k /\ c.mint = m)
      BY <1>4 DEF FailedFor
    <3>2. ~CarriesTo(w, k, m)' /\ ~CarriesTo(w, k, m)
      BY <2>1, <3>1 DEF CarriesTo, Carries, LongCall
    <3>3. \A v \in Workers \ {w} : CarriesTo(v, k, m)' <=> CarriesTo(v, k, m)
      BY <1>1, <1>o DEF CarriesTo
    <3> QED
      BY <1>1, <3>1, <3>2, <3>3 DEF TokenInv, TokensAreCarried
  <2> QED
    BY <1>l, <1>t, <2>2, <2>4, <2>5, <2>6 DEF TokenInv
\* A step of the call is to be sent, or was sent.
<1>5. CASE /\ clients'[w].index = clients[w].index /\ clients'[w].call = clients[w].call
           /\ raised' = raised
           /\ \/ /\ sent' = sent /\ clients[w].stage \in {"look", "send"}
                 /\ clients'[w].stage = "send"
              \/ /\ sent' = sent \cup {Sent(w)} /\ clients[w].stage = "send"
                 /\ clients'[w].stage = IF IsAirdrop(Step(w)) THEN "wait" ELSE "confirm"
  <2>1. /\ Working(w)' /\ \A t : IsCurrent(t) /\ t.worker = w => IsCurrent(t)'
        /\ \A t : IsCurrent(t)' /\ t.worker = w => IsCurrent(t)
    BY <1>1, <1>5 DEF Working, IsCurrent
  <2>2. CallsOnce'
    BY <1>1, <1>5, <1>o, <2>1 DEF TokenInv, CallsOnce
  <2>3. ASSUME NEW t, SentOK(t) PROVE SentOK(t)'
    <3>1. CASE t.worker # w
      BY <1>1, <1>f, <2>3, <3>1 DEF SentOK
    <3>2. CASE t.worker = w
      <4>1. t.call.op \in LongDeposits /\ IsCurrent(t) =>
              Place(t.step) <= i /\ Place(t.step) # i
        BY <1>5, <2>3, <3>2 DEF SentOK
      <4> QED
        BY <1>1, <1>5, <2>1, <2>3, <3>2, <4>1 DEF SentOK
    <3> QED
      BY <3>1, <3>2
  <2>p. PICK new : new = Sent(w)
    OBVIOUS
  <2>4. new.worker = w /\ new.call = c /\ new.step = Step(w)
        /\ new = Transaction(new.worker, new.call, new.step)
    BY <2>p DEF Sent, Transaction
  <2>5. ASSUME c.op \in LongDeposits
        PROVE  /\ new.step \in {"token_account", PutStep(c.op), "sent_token"}
               /\ Place(new.step) = i /\ ~IsAirdrop(Step(w))
    <3>1. PutStep(c.op) \in {"wrap", "mint"} /\ i \in 1..3
      BY <1>2, <2>5, LongScript DEF PutStep
    <3>2. /\ i = 1 => new.step = "token_account"
          /\ i = 2 => new.step = PutStep(c.op)
          /\ i = 3 => new.step = "sent_token"
      BY <1>2, <2>4, <2>5, LongScript DEF Step
    <3> QED
      BY <2>4, <3>1, <3>2 DEF Place, IsAirdrop
  <2>6. ASSUME sent' # sent
        PROVE  SentOK(new)' /\ (c.op \in LongDeposits => \A r \in receipts : r.of # new)
    <3>1. clients[w].stage = "send" /\ sent' = sent \cup {new}
          /\ clients'[w].stage = IF IsAirdrop(Step(w)) THEN "wait" ELSE "confirm"
      BY <1>5, <2>6, <2>p
    <3>2. c.op \notin LongDeposits => new.step \notin TokenSteps
      BY <1>2, <2>4, LongScript DEF Step
    <3>3. c.op \in LongDeposits => Place(new.step) = i /\ clients'[w].stage = "confirm"
      BY <2>5, <3>1
    <3>4. SentOK(new)'
      <4>1. new.worker \in Workers /\ new.call \in Calls /\ new.call \notin left'[new.worker]
        BY <1>1, <1>2, <2>4
      <4>2. c.op \in LongDeposits =>
              Place(new.step) <= clients'[w].index /\ clients'[w].stage = "confirm"
        BY <1>2, <1>5, <3>3
      <4> QED
        BY <2>4, <2>5, <3>2, <4>1, <4>2 DEF SentOK
    <3>5. ASSUME c.op \in LongDeposits, NEW r \in receipts, r.of = new PROVE FALSE
      <4>1. SentOK(new) /\ IsCurrent(new)
        BY <1>1, <1>g, <2>4, <3>5 DEF IsCurrent
      <4> QED
        BY <2>4, <2>5, <3>1, <3>5, <4>1 DEF SentOK
    <3> QED
      BY <3>4, <3>5
  <2>7. sent' \subseteq sent \cup {new}
    BY <1>5, <2>p
  <2>8. AllSentOK' /\ ProcessedOnce'
    <3>1. \A t \in sent' : SentOK(t)'
      BY <1>s, <2>3, <2>6, <2>7
    <3>2. \A r \in receipts' : SentOK(r.of)'
      BY <1>1, <1>g, <2>3
    <3>3. ProcessedOnce'
      BY <1>1, <2>4, <2>6, <2>7 DEF TokenInv, ProcessedOnce
    <3> QED
      BY <3>1, <3>2, <3>3 DEF AllSentOK
  <2>9. LateHasRaised'
    <3> SUFFICES ASSUME NEW t \in sent', t.call.op \in LongDeposits,
                        ~FailedFor(t.call.key, t.call.mint)
                 PROVE  IsCurrent(t)' /\ InPlace(t)'
      BY <1>5 DEF LateHasRaised, FailedFor, InPlace
    <3>1. CASE t \in sent
      <4>1. IsCurrent(t) /\ InPlace(t)
        BY <3>1 DEF TokenInv, LateHasRaised, InPlace
      <4> QED
        BY <1>5, <1>f, <1>s, <2>1, <3>1, <4>1 DEF InPlace
    <3>2. CASE t = new
      BY <1>1, <1>5, <2>1, <2>4, <2>5, <3>2 DEF IsCurrent, InPlace
    <3> QED
      BY <2>7, <3>1, <3>2
  <2>10. \A v \in Workers : \A k, m : CarriesTo(v, k, m)' <=> CarriesTo(v, k, m)
    <3>1. Carries(w)' <=> Carries(w)
      BY <1>1, <1>5, <1>d, <2>1 DEF Carries, LongCall
    <3> QED
      BY <1>1, <1>5, <1>o, <3>1 DEF CarriesTo
  <2>11. TokensAreCarried'
    <3>1. \A v \in Workers : clients'[v].call = clients[v].call
      BY <1>1, <1>5
    <3> QED
      BY <1>1, <1>5, <2>10, <3>1, CarriersStay DEF TokenInv
  <2> QED
    BY <1>l, <1>t, <2>2, <2>8, <2>9, <2>11 DEF TokenInv
\* The tokens are minted: the call goes on, and does not wait for them.
<1>6. CASE /\ Advance(w) /\ sent' = sent \cup {Sent(w)} /\ raised' = raised
           /\ clients[w].stage = "send" /\ Step(w) = "mint"
  <2>p. PICK new : new = Sent(w)
    OBVIOUS
  <2>1. /\ c.op \in LongDeposits /\ i = 2 /\ Len(Script(c.op)) = 3
        /\ PutStep(c.op) = "mint"
    <3>1. c.op \in LongDeposits
      BY <1>2, <1>6, LongScript DEF Step, TokenSteps
    <3> QED
      BY <1>2, <1>6, <3>1, LongScript DEF Step, PutStep
  <2>2. /\ new.worker = w /\ new.call = c /\ new.step = "mint" /\ Place(new.step) = 2
        /\ new = Transaction(new.worker, new.call, new.step)
    BY <1>6, <2>p DEF Sent, Transaction, Place
  <2>3. /\ Working(w)' /\ clients'[w].stage = "look" /\ clients'[w].call = c
        /\ clients'[w].index = 3
    <3>1. \/ ~Working(w)' /\ i = Len(Script(c.op))
          \/ /\ Working(w)' /\ clients'[w].stage = "look" /\ clients'[w].call = c
             /\ clients'[w].index = i + 1
      BY <1>1, <1>6, AdvanceFields, IdleRecord DEF Working
    <3> QED
      BY <2>1, <3>1
  <2>4. CallsOnce'
    BY <1>1, <1>2, <1>o, <2>1, <2>3 DEF TokenInv, CallsOnce
  <2>5. ASSUME NEW t, SentOK(t) PROVE SentOK(t)'
    <3>1. CASE t.worker # w
      BY <1>1, <1>f, <2>5, <3>1 DEF SentOK
    <3>2. CASE t.worker = w
      <4>1. IsCurrent(t)' => IsCurrent(t)
        BY <1>1, <2>3, <3>2 DEF IsCurrent
      <4>2. t.call.op \in LongDeposits /\ IsCurrent(t)' => Place(t.step) <= 2
        BY <2>1, <2>5, <3>2, <4>1 DEF SentOK
      <4>3. Place(t.step) <= 2 => Place(t.step) <= 3 /\ Place(t.step) # 3
        BY DEF Place
      <4> QED
        BY <1>1, <2>3, <2>5, <3>2, <4>2, <4>3 DEF SentOK
    <3> QED
      BY <3>1, <3>2
  <2>6. SentOK(new)'
    BY <1>1, <1>2, <2>1, <2>2, <2>3 DEF SentOK
  <2>7. ASSUME NEW r \in receipts, r.of = new PROVE FALSE
    <3>1. SentOK(new) /\ IsCurrent(new)
      BY <1>1, <1>g, <2>2, <2>7 DEF IsCurrent
    <3> QED
      BY <1>6, <2>1, <2>2, <3>1 DEF SentOK
  <2>8. AllSentOK' /\ ProcessedOnce'
    <3>1. \A t \in sent' : SentOK(t)'
      BY <1>6, <1>s, <2>5, <2>6, <2>p
    <3>2. \A r \in receipts' : SentOK(r.of)'
      BY <1>1, <1>g, <2>5
    <3>3. ProcessedOnce'
      BY <1>1, <1>6, <2>7, <2>p DEF TokenInv, ProcessedOnce
    <3> QED
      BY <3>1, <3>2, <3>3 DEF AllSentOK
  <2>9. LateHasRaised'
    <3> SUFFICES ASSUME NEW t \in sent', t.call.op \in LongDeposits,
                        ~FailedFor(t.call.key, t.call.mint)
                 PROVE  IsCurrent(t)' /\ InPlace(t)'
      BY <1>6 DEF LateHasRaised, FailedFor, InPlace
    <3>1. CASE t \in sent
      <4>1. IsCurrent(t) /\ InPlace(t) /\ SentOK(t)
        BY <1>s, <3>1 DEF TokenInv, LateHasRaised
      <4>2. t.worker # w
        BY <1>6, <2>1, <4>1 DEF SentOK, InPlace
      <4> QED
        BY <1>f, <1>s, <3>1, <4>1, <4>2 DEF InPlace
    <3>2. CASE t = new
      BY <2>2, <2>3, <3>2 DEF IsCurrent, InPlace, Working
    <3> QED
      BY <1>6, <2>p, <3>1, <3>2
  <2>10. \A v \in Workers : \A k, m : CarriesTo(v, k, m)' <=> CarriesTo(v, k, m)
    <3>1. Carries(w)' <=> Carries(w)
      BY <1>1, <1>d, <2>3 DEF Carries, LongCall
    <3> QED
      BY <1>1, <1>o, <2>3, <3>1 DEF CarriesTo
  <2>11. TokensAreCarried'
    <3>1. \A v \in Workers : clients'[v].call = clients[v].call
      BY <1>1, <2>3
    <3> QED
      BY <1>1, <1>6, <2>10, <3>1, CarriersStay DEF TokenInv
  <2> QED
    BY <1>l, <1>t, <2>4, <2>8, <2>9, <2>11 DEF TokenInv
<1> QED
  BY <1>1, <1>3, <1>4, <1>5, <1>6, ClientMoves

\* What a transaction that is processed does to the tokens.
LEMMA LandFields ==
    ASSUME TestsCall, LedgerOK, NEW t \in sent, SentOK(t), Arrive(t)
    PROVE  LET at == <<t.call.key, t.call.mint>>
               n  == t.call.amount
           IN  /\ at \in Keys \X Tokens /\ n \in Nat \ {0}
               /\ receipts' = receipts \cup {[of |-> t, ok |-> ~Failing(t)]}
               /\ sent' = sent \ {t} /\ UNCHANGED <<clients, left, returned, raised>>
               /\ LedgerOK'
               /\ \A p \in Keys \X Tokens : p # at => token'[p] = token[p]
               /\ Failing(t) => token' = token
               /\ ~Failing(t) =>
                    /\ t.step = "token_account" => token[at] = -1 /\ token'[at] = 0
                    /\ t.step \in {"wrap", "mint"} => token[at] >= 0 /\ token'[at] = token[at] + n
                    /\ t.step = "sent_token" => token[at] >= n /\ token'[at] = token[at] - n
                    /\ t.step \notin TokenSteps =>
                         token'[at] = token[at] \/ (token[at] = -1 /\ token'[at] = 0)
<1> DEFINE at == <<t.call.key, t.call.mint>>
           n  == t.call.amount
<1>1. at \in Keys \X Tokens /\ n \in Nat \ {0}
  BY ScriptOfCall DEF SentOK, Keys
<1>2. /\ receipts' = receipts \cup {[of |-> t, ok |-> ~Failing(t)]}
      /\ sent' = sent \ {t} /\ UNCHANGED <<clients, left, returned, raised>>
  <2>1. CASE Failing(t)
    BY <2>1 DEF Arrive
  <2>2. CASE ~Failing(t)
    BY <2>2 DEF Arrive
  <2> QED
    BY <2>1, <2>2
<1>3. token \in [Keys \X Tokens -> Int] /\ token[at] \in Int /\ token[at] >= -1
  BY <1>1 DEF LedgerOK
<1>4. ASSUME Failing(t) PROVE token' = token /\ LedgerOK'
  BY <1>4 DEF Arrive, ledger, LedgerOK
<1>5. ASSUME ~Failing(t), t.step = "token_account"
      PROVE  token[at] = -1 /\ token' = [token EXCEPT ![at] = 0]
  BY <1>5 DEF Arrive, Effect, Failing
<1>6. ASSUME ~Failing(t), t.step \in {"wrap", "mint"}
      PROVE  token[at] # -1 /\ token' = [token EXCEPT ![at] = token[at] + n]
  <2>1. token[at] # -1
    BY <1>6 DEF Failing
  <2>2. t.step = "wrap" => Synced(t)
    BY DEF Synced, InstructionsOf, make_wSOL, make_SyncNative, Instruction
  <2>3. t.step # "token_account"
    BY <1>6
  <2> QED
    BY <1>6, <2>1, <2>2, <2>3 DEF Arrive, Effect
<1>7. ASSUME ~Failing(t), t.step = "sent_token"
      PROVE  token[at] # -1 /\ ~(token[at] < n) /\ token' = [token EXCEPT ![at] = token[at] - n]
  <2>1. token[at] # -1 /\ ~(token[at] < n)
    BY <1>7 DEF Failing
  <2> QED
    BY <1>7, <2>1 DEF Arrive, Effect
<1>8. ASSUME ~Failing(t), t.step = "deposit_neon"
      PROVE  token' = [token EXCEPT ![at] = Amount(at) + n - n]
  BY <1>8 DEF Arrive, Effect, Minted
<1>9. ASSUME ~Failing(t), t.step \notin TokenSteps, t.step # "deposit_neon"
      PROVE  token' = token
  BY <1>9 DEF Arrive, Effect, TokenSteps
<1>10. Amount(at) = IF token[at] = -1 THEN 0 ELSE token[at]
  BY DEF Amount
<1> HIDE DEF at, n
<1>11. ASSUME NEW x \in Int, x >= -1, token' = [token EXCEPT ![at] = x]
       PROVE  /\ LedgerOK' /\ token'[at] = x
              /\ \A p \in Keys \X Tokens : p # at => token'[p] = token[p]
  BY <1>1, <1>3, <1>11 DEF LedgerOK
<1>12. CASE Failing(t)
  BY <1>1, <1>2, <1>4, <1>12 DEF at, n
<1>13. CASE ~Failing(t) /\ t.step = "token_account"
  <2>1. LedgerOK' /\ token[at] = -1 /\ token'[at] = 0
        /\ \A p \in Keys \X Tokens : p # at => token'[p] = token[p]
    BY <1>5, <1>11, <1>13
  <2> QED
    BY <1>1, <1>2, <1>13, <2>1 DEF at, n, TokenSteps
<1>14. CASE ~Failing(t) /\ t.step \in {"wrap", "mint"}
  <2>1. token[at] >= 0 /\ token[at] + n \in Int /\ token[at] + n >= -1
    BY <1>1, <1>3, <1>6, <1>14
  <2>2. LedgerOK' /\ token'[at] = token[at] + n
        /\ \A p \in Keys \X Tokens : p # at => token'[p] = token[p]
    BY <1>6, <1>11, <1>14, <2>1
  <2> QED
    BY <1>1, <1>2, <1>14, <2>1, <2>2 DEF at, n, TokenSteps
<1>15. CASE ~Failing(t) /\ t.step = "sent_token"
  <2>1. token[at] >= n /\ token[at] - n \in Int /\ token[at] - n >= -1
    BY <1>1, <1>3, <1>7, <1>15
  <2>2. LedgerOK' /\ token'[at] = token[at] - n
        /\ \A p \in Keys \X Tokens : p # at => token'[p] = token[p]
    BY <1>7, <1>11, <1>15, <2>1
  <2> QED
    BY <1>1, <1>2, <1>15, <2>1, <2>2 DEF at, n, TokenSteps
<1>16. CASE ~Failing(t) /\ t.step = "deposit_neon"
  <2>1. Amount(at) + n - n \in Int /\ Amount(at) + n - n >= -1
        /\ (Amount(at) + n - n = token[at]
            \/ (token[at] = -1 /\ Amount(at) + n - n = 0))
    BY <1>1, <1>3, <1>10
  <2>2. LedgerOK' /\ token'[at] = Amount(at) + n - n
        /\ \A p \in Keys \X Tokens : p # at => token'[p] = token[p]
    BY <1>8, <1>11, <1>16, <2>1
  <2> QED
    BY <1>1, <1>2, <1>16, <2>1, <2>2 DEF at, n, TokenSteps
<1>17. CASE ~Failing(t) /\ t.step \notin TokenSteps /\ t.step # "deposit_neon"
  <2>1. token' = token /\ LedgerOK'
    BY <1>9, <1>17 DEF LedgerOK
  <2> QED
    BY <1>1, <1>2, <1>17, <2>1 DEF at, n, TokenSteps
<1> QED
  BY <1>12, <1>13, <1>14, <1>15, <1>16, <1>17 DEF TokenSteps

\* A call that starts has sent nothing, and leaves the ledger alone.
LEMMA StartKeepsTokens ==
    ASSUME TestsCall, TokenInv, NEW w \in Workers, NEW c \in left[w], Start(w, c),
           ClientsOK', AirdropsWait'
    PROVE  TokenInv'
<1>1. /\ \A v \in Workers \ {w} : clients'[v] = clients[v]
      /\ clients'[w].stage = "look" /\ clients'[w].call = c /\ clients'[w].index = 1
      /\ left' = [left EXCEPT ![w] = @ \ {c}] /\ ~Working(w)
      /\ UNCHANGED <<token, sent, receipts, raised>> /\ ClientsOK
  BY StartFields DEF TokenInv
<1>2. /\ c \in Calls /\ left \in [Workers -> SUBSET Calls]
      /\ \A v \in Workers : left'[v] \subseteq left[v]
      /\ c \notin left'[w]
  BY <1>1 DEF ClientsOK
<1>3. CallsOnce'
  <2>1. 1 \in 1..Len(Script(c.op))
    <3> DEFINE n == Len(Script(c.op))
    <3>1. n \in {1, 2, 3}
      BY <1>2, ScriptOfCall
    <3> HIDE DEF n
    <3>2. 1 \in 1..n
      BY <3>1
    <3> QED
      BY <3>2 DEF n
  <2> QED
    BY <1>1, <1>2, <2>1 DEF TokenInv, CallsOnce, Working
\* Nothing was sent of the call.
<1>4. ASSUME NEW t, SentOK(t)
      PROVE  /\ t.worker \in Workers /\ (t.worker = w => t.call # c)
             /\ SentOK(t)' /\ (IsCurrent(t)' <=> IsCurrent(t))
             /\ IsCurrent(t) => t.worker # w
  <2>1. t.worker \in Workers /\ t.call \notin left[t.worker] /\ (t.worker = w => t.call # c)
    BY <1>4 DEF SentOK
  <2>2. (IsCurrent(t)' <=> IsCurrent(t)) /\ (IsCurrent(t) => t.worker # w)
    BY <1>1, <2>1 DEF IsCurrent, Working
  <2> QED
    BY <1>1, <1>2, <1>4, <2>1, <2>2 DEF SentOK
<1>5. AllSentOK' /\ ProcessedOnce'
  BY <1>1, <1>4 DEF TokenInv, AllSentOK, ProcessedOnce
<1>6. LateHasRaised'
  BY <1>1, <1>4 DEF TokenInv, AllSentOK, LateHasRaised, InPlace, FailedFor
<1>7. ~Carries(w) /\ ~Carries(w)' /\ ~(Done(Transaction(w, c, "sent_token"))')
  <2>1. ASSUME NEW t, t.worker = w, t.call = c PROVE ~Done(t)'
    BY <1>1, <1>4, <2>1 DEF TokenInv, AllSentOK, Done
  <2> DEFINE put == Transaction(w, c, PutStep(c.op))
             take == Transaction(w, c, "sent_token")
  <2>2. put.worker = w /\ put.call = c /\ take.worker = w /\ take.call = c
    BY DEF Transaction
  <2> HIDE DEF put, take
  <2>3. ~(Done(put)') /\ ~(Done(take)')
    BY <2>1, <2>2
  <2> QED
    BY <1>1, <2>3 DEF Carries, LongCall, Done, put, take
<1>8. \A v \in Workers : \A k, m : CarriesTo(v, k, m)' <=> CarriesTo(v, k, m)
  <2>1. \A v \in Workers \ {w} : Carries(v)' <=> Carries(v)
    BY <1>1 DEF Carries, LongCall, Working, Done
  <2> QED
    BY <1>1, <1>7, <2>1 DEF CarriesTo
<1>9. TokensAreCarried'
  BY <1>1, <1>7, <1>8, CarriersStay DEF TokenInv
<1>10. TakenWasPut'
  <2>1. ASSUME NEW v \in Workers \ {w}
        PROVE  clients'[v] = clients[v] /\ (LongCall(v)' <=> LongCall(v))
    BY <1>1 DEF LongCall, Working
  <2> QED
    BY <1>1, <1>7, <2>1 DEF TokenInv, TakenWasPut, FailedFor, Done
<1> QED
  BY <1>1, <1>3, <1>5, <1>6, <1>9, <1>10 DEF TokenInv, LedgerOK

LEMMA LoseKeepsTokens ==
    ASSUME TokenInv, NEW t \in sent, Expire(t), ClientsOK', AirdropsWait'
    PROVE  TokenInv'
<1>1. sent' \subseteq sent /\ UNCHANGED <<token, receipts, clients, left, raised>>
  BY DEF Expire, ledger
<1>2. CallsOnce' /\ LedgerOK'
  BY <1>1 DEF TokenInv, CallsOnce, LedgerOK, Working
<1>3. \A s : SentOK(s)' <=> SentOK(s)
  BY <1>1 DEF SentOK, IsCurrent, Working
<1>4. AllSentOK' /\ ProcessedOnce'
  BY <1>1, <1>3 DEF TokenInv, AllSentOK, ProcessedOnce
<1>5. LateHasRaised' /\ TakenWasPut'
  BY <1>1 DEF TokenInv, LateHasRaised, IsCurrent, Working, InPlace, FailedFor,
              TakenWasPut, LongCall, Done
<1>6. \A v \in Workers : Carries(v)' <=> Carries(v)
  BY <1>1 DEF Carries, LongCall, Working, Done
<1>7. TokensAreCarried'
  BY <1>1, <1>6, CarriersStay DEF TokenInv, CarriesTo
<1> QED
  BY <1>2, <1>4, <1>5, <1>7 DEF TokenInv

\* The ledger, and what the workers carry, when a transaction is processed.
LEMMA LandCarries ==
    ASSUME TestsCall, TokenInv, NEW t \in sent, Arrive(t), NEW v \in Workers
    PROVE  /\ Carries(v)' => clients'[v].call = clients[v].call
           /\ IF /\ ~Failing(t) /\ LongCall(v) /\ t.worker = v /\ t.call = clients[v].call
                 /\ t.step # "token_account"
              THEN /\ t.step = PutStep(t.call.op) => (Carries(v)' <=> ~Done(Transaction(v, t.call, "sent_token")))
                   /\ t.step = "sent_token" => ~Carries(v)'
              ELSE Carries(v)' <=> Carries(v)
<1>p. PICK c, put, take :
        /\ c = clients[v].call
        /\ put = Transaction(v, c, PutStep(c.op))
        /\ take = Transaction(v, c, "sent_token")
  OBVIOUS
<1>1. SentOK(t) /\ LedgerOK
  BY DEF TokenInv, AllSentOK
<1>2. receipts' = receipts \cup {[of |-> t, ok |-> ~Failing(t)]} /\ UNCHANGED clients
  BY <1>1, LandFields
<1>3. \A s : Done(s)' <=> Done(s) \/ (s = t /\ ~Failing(t))
  <2>1. PICK ok \in BOOLEAN : ok = ~Failing(t)
    BY DEF Failing
  <2>2. PICK r : r = [of |-> t, ok |-> ok]
    OBVIOUS
  <2>3. r.of = t /\ (r.ok <=> ~Failing(t))
    BY <2>1, <2>2
  <2>4. receipts' = receipts \cup {r}
    BY <1>2, <2>1, <2>2
  <2> QED
    BY <2>3, <2>4 DEF Done
<1>4. /\ put.worker = v /\ put.call = c /\ put.step = PutStep(c.op)
      /\ take.worker = v /\ take.call = c /\ take.step = "sent_token"
      /\ PutStep(c.op) \in {"wrap", "mint"}
  BY <1>p DEF Transaction, PutStep
<1>5. /\ Carries(v) <=> LongCall(v) /\ Done(put) /\ ~Done(take)
      /\ Carries(v)' <=> LongCall(v) /\ Done(put)' /\ ~(Done(take)')
  BY <1>2, <1>p DEF Carries, LongCall, Working, Done
<1>6. t = Transaction(t.worker, t.call, t.step)
  BY <1>1 DEF SentOK
<1>7. LongCall(v) /\ t.call = c => t.step \in {"token_account", PutStep(c.op), "sent_token"}
  BY <1>1, <1>p DEF SentOK, LongCall
<1>8. CASE /\ ~Failing(t) /\ LongCall(v) /\ t.worker = v /\ t.call = c
           /\ t.step # "token_account"
  <2>1. t.step = PutStep(c.op) => t = put
    BY <1>6, <1>8, <1>p
  <2>2. t.step = "sent_token" => t = take
    BY <1>6, <1>8, <1>p
  <2>3. put # take
    BY <1>4
  <2>4. t.step = PutStep(c.op) => (Carries(v)' <=> ~Done(take))
    BY <1>3, <1>5, <1>8, <2>1, <2>3
  <2>5. t.step = "sent_token" => ~(Carries(v)')
    BY <1>3, <1>5, <1>8, <2>2
  <2> QED
    BY <1>2, <1>8, <1>p, <2>4, <2>5
<1>9. CASE ~(/\ ~Failing(t) /\ LongCall(v) /\ t.worker = v /\ t.call = c
             /\ t.step # "token_account")
  <2>1. ASSUME LongCall(v), ~Failing(t) PROVE t # put /\ t # take
    BY <1>4, <1>9, <2>1
  <2>2. Carries(v)' <=> Carries(v)
    BY <1>3, <1>5, <2>1
  <2> QED
    BY <1>2, <1>9, <1>p, <2>2
<1> QED
  BY <1>8, <1>9

\* What a deposit puts into its token account it takes out again.
LEMMA LandKeepsTokens ==
    ASSUME TestsCall, TokenInv, NEW t \in sent, Arrive(t), ClientsOK', AirdropsWait'
    PROVE  TokenInv'
<1> DEFINE at == <<t.call.key, t.call.mint>>
           n == t.call.amount
           w == t.worker
           long == t.call.op \in LongDeposits
<1>1. SentOK(t) /\ LedgerOK /\ ClientsOK
  BY DEF TokenInv, AllSentOK
<1>2. /\ receipts' = receipts \cup {[of |-> t, ok |-> ~Failing(t)]}
      /\ sent' = sent \ {t} /\ UNCHANGED <<clients, left, raised>> /\ LedgerOK'
  BY <1>1, LandFields
<1>3. CallsOnce'
  BY <1>2 DEF TokenInv, CallsOnce, Working
<1>4. \A s : (SentOK(s)' <=> SentOK(s)) /\ (IsCurrent(s)' <=> IsCurrent(s))
  BY <1>2 DEF SentOK, IsCurrent, Working
<1>5. AllSentOK' /\ ProcessedOnce'
  BY <1>1, <1>2, <1>4 DEF TokenInv, AllSentOK, ProcessedOnce
<1>6. LateHasRaised'
  BY <1>2, <1>4 DEF TokenInv, LateHasRaised, InPlace, FailedFor
<1>7. TokensAreCarried'
  <2> SUFFICES ASSUME NEW k \in Keys, NEW m \in Tokens, ~FailedFor(k, m)'
               PROVE  /\ \A v \in Workers : CarriesTo(v, k, m)' =>
                           token'[<<k, m>>] = clients'[v].call.amount
                      /\ (\A v \in Workers : ~CarriesTo(v, k, m)') => token'[<<k, m>>] <= 0
    BY DEF TokensAreCarried
  <2>1. /\ ~FailedFor(k, m)
        /\ \A v \in Workers : CarriesTo(v, k, m) => token[<<k, m>>] = clients[v].call.amount
        /\ (\A v \in Workers : ~CarriesTo(v, k, m)) => token[<<k, m>>] <= 0
    BY <1>2 DEF TokenInv, TokensAreCarried, FailedFor
  <2>2. <<k, m>> \in Keys \X Tokens /\ token[<<k, m>>] \in Int /\ token[<<k, m>>] >= -1
        /\ at \in Keys \X Tokens /\ n \in Nat \ {0} /\ w \in Workers
    BY <1>1, LandFields DEF LedgerOK, SentOK
  <2>3. \A v \in Workers : CarriesTo(v, k, m)' <=>
          Carries(v)' /\ clients[v].call.key = k /\ clients[v].call.mint = m
    BY <1>2 DEF CarriesTo
  <2>s. CASE /\ token'[<<k, m>>] = token[<<k, m>>]
             /\ \A v \in Workers : CarriesTo(v, k, m)' <=> CarriesTo(v, k, m)
    BY <1>2, <2>1, <2>s
  <2>4. CASE Failing(t)
    <3>1. token' = token /\ \A v \in Workers : Carries(v)' <=> Carries(v)
      BY <1>1, <2>4, LandFields, LandCarries
    <3> QED
      BY <2>3, <2>s, <3>1 DEF CarriesTo
  <2>5. CASE ~(t.call.key = k /\ t.call.mint = m)
    <3>1. token'[<<k, m>>] = token[<<k, m>>]
      BY <1>1, <2>2, <2>5, LandFields
    <3>2. ASSUME NEW v \in Workers PROVE CarriesTo(v, k, m)' <=> CarriesTo(v, k, m)
      <4>1. CASE t.call = clients[v].call
        BY <2>3, <2>5, <4>1 DEF CarriesTo
      <4>2. CASE t.call # clients[v].call
        <5>1. Carries(v)' <=> Carries(v)
          BY <4>2, LandCarries
        <5> QED
          BY <2>3, <5>1 DEF CarriesTo
      <4> QED
        BY <4>1, <4>2
    <3> QED
      BY <2>s, <3>1, <3>2
  <2>6. CASE ~Failing(t) /\ ~long /\ at = <<k, m>>
    <3>1. t.step \notin TokenSteps
      BY <1>1, <2>6 DEF SentOK
    <3>2. token'[<<k, m>>] = token[<<k, m>>] \/ (token[<<k, m>>] = -1 /\ token'[<<k, m>>] = 0)
      BY <1>1, <2>6, <3>1, LandFields
    <3>3. ASSUME NEW v \in Workers PROVE Carries(v)' <=> Carries(v)
      <4>1. LongCall(v) => t.call # clients[v].call
        BY <2>6 DEF LongCall
      <4> QED
        BY <4>1, LandCarries
    <3>4. \A v \in Workers : CarriesTo(v, k, m)' <=> CarriesTo(v, k, m)
      BY <2>3, <3>3 DEF CarriesTo
    <3>5. \A v \in Workers : CarriesTo(v, k, m) => clients[v].call.amount \in Nat \ {0}
      <4>1. \A v \in Workers : CarriesTo(v, k, m) => clients[v].call \in Calls
        BY <1>1, CallsOfPrograms DEF CarriesTo, Carries, LongCall, ClientsOK
      <4> QED
        BY <4>1, ScriptOfCall
    <3>6. CASE token[<<k, m>>] = -1 /\ token'[<<k, m>>] = 0
      <4>1. \A v \in Workers : ~CarriesTo(v, k, m)
        BY <2>1, <3>5, <3>6
      <4> QED
        BY <3>4, <3>6, <4>1
    <3> QED
      BY <2>s, <3>2, <3>4, <3>6
  <2>7. CASE ~Failing(t) /\ long /\ at = <<k, m>>
    <3>1. IsCurrent(t)
      BY <2>1, <2>7 DEF TokenInv, LateHasRaised
    <3>2. LongCall(w) /\ clients[w].call = t.call
      BY <2>7, <3>1 DEF LongCall, IsCurrent
    <3>3. \A v \in Workers \ {w} : ~CarriesTo(v, k, m)
      BY <1>1, <2>2, <2>7, <3>2, KeysAreOwn DEF CarriesTo, Carries
    <3>4. \A v \in Workers \ {w} : ~CarriesTo(v, k, m)'
      <4>1. ASSUME NEW v \in Workers \ {w} PROVE Carries(v)' <=> Carries(v)
        BY <4>1, LandCarries
      <4> QED
        BY <2>3, <3>3, <4>1 DEF CarriesTo
    <3>5. CarriesTo(w, k, m) <=> Carries(w)
      BY <2>7, <3>2 DEF CarriesTo
    <3>6. CarriesTo(w, k, m)' <=> Carries(w)'
      BY <2>2, <2>3, <2>7, <3>2
    <3>7. Carries(w) => token[<<k, m>>] = n
      BY <2>1, <2>2, <3>2, <3>5
    <3>8. ~Carries(w) => token[<<k, m>>] <= 0
      BY <2>1, <2>2, <3>3, <3>5
    <3>9. ASSUME \/ Carries(w)' /\ token'[<<k, m>>] = n
                 \/ ~(Carries(w)') /\ token'[<<k, m>>] <= 0
          PROVE  /\ \A v \in Workers : CarriesTo(v, k, m)' =>
                           token'[<<k, m>>] = clients'[v].call.amount
                 /\ (\A v \in Workers : ~CarriesTo(v, k, m)') => token'[<<k, m>>] <= 0
      BY <1>2, <2>2, <3>2, <3>4, <3>6, <3>9
    \* The account is made: there is none, and nobody carries.
    <3>10. CASE t.step = "token_account"
      <4>1. token[<<k, m>>] = -1 /\ token'[<<k, m>>] = 0
        BY <1>1, <2>7, <3>10, LandFields
      <4>2. Carries(w)' <=> Carries(w)
        BY <2>2, <3>10, LandCarries
      <4> QED
        BY <2>2, <3>7, <3>9, <4>1, <4>2
    \* The tokens are put there: they were not, and the deposit was not sent.
    <3>11. CASE t.step = PutStep(t.call.op)
      <4>1. t.step \in {"wrap", "mint"} /\ t.step \notin {"token_account", "sent_token"}
        BY <3>11 DEF PutStep
      <4>2. t = Transaction(w, t.call, t.step)
        BY <1>1 DEF SentOK
      <4>3. ~Done(t)
        BY <2>7 DEF TokenInv, ProcessedOnce, Done
      <4>4. ~Carries(w)
        BY <3>2, <3>11, <4>2, <4>3 DEF Carries
      <4>5. ~Done(Transaction(w, t.call, "sent_token"))
        BY <2>1, <2>2, <2>7, <3>2, <3>11, <4>2, <4>3 DEF TokenInv, TakenWasPut
      <4>6. Carries(w)'
        BY <2>2, <2>7, <3>2, <3>11, <4>1, <4>5, LandCarries
      <4>7. token[<<k, m>>] >= 0 /\ token'[<<k, m>>] = token[<<k, m>>] + n
        BY <1>1, <2>7, <4>1, LandFields
      <4>8. token'[<<k, m>>] = n
        BY <2>2, <3>8, <4>4, <4>7
      <4> QED
        BY <3>9, <4>6, <4>8
    \* They are deposited: nobody else has taken them.
    <3>12. CASE t.step = "sent_token"
      <4>1. token[<<k, m>>] >= n /\ token'[<<k, m>>] = token[<<k, m>>] - n
        BY <1>1, <2>7, <3>12, LandFields
      <4>2. Carries(w)
        BY <2>2, <3>8, <4>1
      <4>3. token'[<<k, m>>] = 0
        BY <2>2, <3>7, <4>1, <4>2
      <4>4. ~(Carries(w)')
        BY <2>2, <2>7, <3>2, <3>12, LandCarries
      <4> QED
        BY <3>9, <4>3, <4>4
    <3>13. t.step \in {"token_account", PutStep(t.call.op), "sent_token"}
      BY <1>1, <2>7 DEF SentOK
    <3> QED
      BY <3>10, <3>11, <3>12, <3>13
  <2> QED
    BY <2>4, <2>5, <2>6, <2>7
\* It takes tokens of this call: nobody else has any.
<1>8. TakenWasPut'
  <2> SUFFICES ASSUME NEW v \in Workers, NEW c, c = clients[v].call, LongCall(v),
                      ~FailedFor(c.key, c.mint), Done(Transaction(v, c, "sent_token"))'
               PROVE  Done(Transaction(v, c, PutStep(c.op)))'
    BY <1>2 DEF TakenWasPut, LongCall, Working, FailedFor
  <2>1. \A s : Done(s) => Done(s)'
    BY <1>2 DEF Done
  <2>2. CASE Done(Transaction(v, c, "sent_token"))
    BY <2>1, <2>2 DEF TokenInv, TakenWasPut
  <2>3. CASE ~Done(Transaction(v, c, "sent_token"))
    <3>1. t = Transaction(v, c, "sent_token") /\ ~Failing(t)
      <4>1. PICK ok \in BOOLEAN : ok = ~Failing(t)
        BY DEF Failing
      <4>2. PICK r : r = [of |-> t, ok |-> ok]
        OBVIOUS
      <4>3. r.of = t /\ (r.ok <=> ~Failing(t)) /\ receipts' = receipts \cup {r}
        BY <1>2, <4>1, <4>2
      <4> QED
        BY <2>3, <4>3 DEF Done
    <3>2. w = v /\ t.call = c /\ t.step = "sent_token"
      BY <3>1 DEF Transaction
    <3>3. token[at] >= n /\ n \in Nat \ {0} /\ at \in Keys \X Tokens /\ token[at] \in Int
      BY <1>1, <3>1, <3>2, LandFields DEF LedgerOK
    <3>4. PICK u \in Workers : CarriesTo(u, c.key, c.mint)
      <4>1. ~(token[<<c.key, c.mint>>] <= 0) /\ c.key \in Keys /\ c.mint \in Tokens
        BY <3>2, <3>3
      <4> QED
        BY <4>1 DEF TokenInv, TokensAreCarried
    <3>5. u = v
      BY <1>1, <3>4, KeysAreOwn DEF CarriesTo, Carries
    <3> QED
      BY <2>1, <3>4, <3>5 DEF CarriesTo, Carries
  <2> QED
    BY <2>2, <2>3
<1> QED
  BY <1>2, <1>3, <1>5, <1>6, <1>7, <1>8 DEF TokenInv

LEMMA StepTokens ==
    ASSUME TestsCall, TokenInv, [DepositsNext]_depositVars
    PROVE  TokenInv'
<1>1. ClientsOK' /\ AirdropsWait'
  BY StepClientsOK, StepAirdrops DEF TokenInv
<1>2. ASSUME NEW w \in Workers, WorkerStep(w) PROVE TokenInv'
  BY <1>1, <1>2, ClientKeepsTokens
<1>3. ASSUME NEW w \in Workers, NEW c \in left[w], Start(w, c) PROVE TokenInv'
  BY <1>1, <1>3, StartKeepsTokens
<1>4. ASSUME NEW t \in sent, Arrive(t) \/ Expire(t) PROVE TokenInv'
  BY <1>1, <1>4, LandKeepsTokens, LoseKeepsTokens
<1>5. CASE UNCHANGED depositVars
  <2>1. UNCHANGED <<token, sent, receipts, clients, left, raised>>
    BY <1>5 DEF depositVars, ledger
  <2>2. CallsOnce' /\ LedgerOK'
    BY <2>1 DEF TokenInv, CallsOnce, LedgerOK, Working
  <2>3. \A s : (SentOK(s)' <=> SentOK(s)) /\ (IsCurrent(s)' <=> IsCurrent(s))
    BY <2>1 DEF SentOK, IsCurrent, Working
  <2>4. AllSentOK' /\ ProcessedOnce' /\ LateHasRaised'
    BY <2>1, <2>3 DEF TokenInv, AllSentOK, ProcessedOnce, LateHasRaised, InPlace, FailedFor
  <2>5. TakenWasPut' /\ \A v \in Workers : Carries(v)' <=> Carries(v)
    BY <2>1 DEF TokenInv, TakenWasPut, FailedFor, Carries, LongCall, Working, Done
  <2>6. TokensAreCarried'
    BY <2>1, <2>5, CarriersStay DEF TokenInv, CarriesTo
  <2> QED
    BY <1>1, <2>2, <2>4, <2>5, <2>6 DEF TokenInv
<1> QED
  BY <1>2, <1>3, <1>4, <1>5 DEF DepositsNext

LEMMA InitTokens == TestsCall /\ DepositsInit => TokenInv
<1> SUFFICES ASSUME TestsCall, DepositsInit PROVE TokenInv
  OBVIOUS
<1>1. ClientsOK /\ \A w \in Workers : ~Working(w)
  BY InitClients
<1>2. sent = {} /\ receipts = {} /\ token = [p \in Keys \X Tokens |-> -1]
  BY DEF DepositsInit, Tokens
<1>3. LedgerOK
  BY <1>2 DEF LedgerOK
<1>4. AirdropsWait /\ CallsOnce
  BY <1>1 DEF AirdropsWait, CallsOnce, Working
<1>5. AllSentOK /\ ProcessedOnce /\ LateHasRaised
  BY <1>2 DEF AllSentOK, ProcessedOnce, LateHasRaised
<1>7. TakenWasPut
  BY <1>1 DEF TakenWasPut, LongCall
<1>6. TokensAreCarried
  <2>1. \A k \in Keys, m \in Tokens : token[<<k, m>>] <= 0
    BY <1>2
  <2>2. \A w \in Workers : ~Carries(w)
    BY <1>1 DEF Carries, LongCall
  <2> QED
    BY <2>1, <2>2 DEF TokensAreCarried, CarriesTo
<1> QED
  BY <1>1, <1>3, <1>4, <1>5, <1>6, <1>7 DEF TokenInv

(***************************************************************************)
(* Tokens that stay on Solana are those of a call that raised, or is still *)
(* at it, whatever is lost or late, and whoever else uses the chain        *)
(* (evm_loader.py: deposit_wrapped_sol_from_solana_to_neon,                *)
(* deposit_neon_like_tokens_from_solana_to_neon).                          *)
(***************************************************************************)
THEOREM NothingIsLeftBehind == DepositsSpec => []NothingStaysBehind
<1> USE CallsAreCalls
<1>1. TokenInv => NothingStaysBehind
  <2> SUFFICES ASSUME TokenInv, NEW k \in Keys, NEW m \in {"wSOL", "USDT"},
                      Amount(<<k, m>>) > 0, ~FailedFor(k, m)
               PROVE  \E w \in Workers : clients[w].stage # "idle" /\ clients[w].call.key = k
    BY DEF NothingStaysBehind, FailedFor
  <2>1. m \in Tokens /\ token[<<k, m>>] \in Int
    BY DEF TokenInv, LedgerOK, Tokens
  <2>2. token[<<k, m>>] > 0
    BY <2>1 DEF Amount
  <2>3. PICK w \in Workers : CarriesTo(w, k, m)
    BY <2>1, <2>2 DEF TokenInv, TokensAreCarried
  <2> QED
    BY <2>3 DEF CarriesTo, Carries, LongCall, Working
<1>2. DepositsInit => TokenInv
  BY InitTokens
<1>3. TokenInv /\ [DepositsNext]_depositVars => TokenInv'
  BY StepTokens
<1> QED
  BY <1>1, <1>2, <1>3, PTL DEF DepositsSpec

-----------------------------------------------------------------------------
(***************************************************************************)
(* Sums over finite sets: of the subsets that lack a property, one is      *)
(* least.                                                                  *)
(***************************************************************************)
LEMMA LeastSubset ==
    ASSUME NEW S, IsFiniteSet(S), NEW Lacking \in SUBSET (SUBSET S), Lacking # {}
    PROVE  \E T \in Lacking : \A U \in Lacking : U \subseteq T => U = T
<1>1. FiniteSubsetsOf(S) = SUBSET S
  BY FS_FiniteSubsetsOfFinite
<1>2. IsWellFoundedOn(StrictSubsetOrdering(S), SUBSET S)
  BY <1>1, FS_StrictSubsetOrderingWellFounded
<1>3. PICK T \in Lacking : \A U \in Lacking : ~(<<U, T>> \in StrictSubsetOrdering(S))
  BY <1>2, WFMin
<1> QED
  BY <1>3 DEF StrictSubsetOrdering

First(S) == CHOOSE x \in S : TRUE

\* The function that MapThenFoldSet chooses.
Summing(S, g) ==
    g = [s \in SUBSET S |-> IF s = {} THEN 0 ELSE First(s).call.amount + g[s \ {First(s)}]]

LEMMA TotalIsChosen == ASSUME NEW S PROVE Total(S) = (CHOOSE g : Summing(S, g))[S]
BY DEF Total, MapThenSumSet, MapThenFoldSet, Summing, First

LEMMA FirstIsElement == ASSUME NEW S, S # {} PROVE First(S) \in S
BY DEF First

LEMMA SummingStep ==
    ASSUME NEW S, NEW g, Summing(S, g), NEW T \in SUBSET S
    PROVE  g[T] = IF T = {} THEN 0 ELSE First(T).call.amount + g[T \ {First(T)}]
BY DEF Summing

LEMMA SummingIsUnique ==
    ASSUME NEW S, NEW T, IsFiniteSet(S), NEW g, NEW h, Summing(S, g), Summing(T, h),
           S \subseteq T
    PROVE  g[S] = h[S]
<1> DEFINE Lacking == {U \in SUBSET S : g[U] # h[U]}
<1>1. SUFFICES ASSUME Lacking # {} PROVE FALSE
  OBVIOUS
<1>2. PICK U \in Lacking : \A V \in Lacking : V \subseteq U => V = U
  <2>1. Lacking \in SUBSET (SUBSET S)
    OBVIOUS
  <2> HIDE DEF Lacking
  <2> QED
    BY <1>1, <2>1, LeastSubset
<1> DEFINE V == U \ {First(U)}
<1>3. U \in SUBSET S /\ U \in SUBSET T /\ g[U] # h[U]
  OBVIOUS
<1>4. /\ g[U] = IF U = {} THEN 0 ELSE First(U).call.amount + g[V]
      /\ h[U] = IF U = {} THEN 0 ELSE First(U).call.amount + h[V]
  BY <1>3, SummingStep
<1>5. CASE U = {}
  BY <1>3, <1>4, <1>5
<1>6. CASE U # {}
  <2>1. V \subseteq U /\ V # U /\ V \in SUBSET S
    BY <1>3, <1>6, FirstIsElement
  <2>2. g[V] = h[V]
    BY <1>2, <2>1
  <2> QED
    BY <1>3, <1>4, <1>6, <2>2
<1> QED
  BY <1>5, <1>6

LEMMA SummingExists ==
    ASSUME NEW S, IsFiniteSet(S)
    PROVE  \E g : Summing(S, g)
<1> DEFINE Lacking == {U \in SUBSET S : ~ \E g : Summing(U, g)}
<1>1. SUFFICES ASSUME Lacking # {} PROVE FALSE
  OBVIOUS
<1>2. PICK T \in Lacking : \A V \in Lacking : V \subseteq T => V = T
  <2>1. Lacking \in SUBSET (SUBSET S)
    OBVIOUS
  <2> HIDE DEF Lacking
  <2> QED
    BY <1>1, <2>1, LeastSubset
<1> DEFINE H(U) == CHOOSE g : Summing(U, g)
           N(U) == First(U).call.amount + H(U \ {First(U)})[U \ {First(U)}]
           G == [U \in SUBSET T |-> IF U = {} THEN 0 ELSE N(U)]
<1>3. ASSUME NEW U \in SUBSET T, U # T PROVE Summing(U, H(U)) /\ IsFiniteSet(U)
  <2>1. U \in SUBSET S /\ ~(U \in Lacking)
    BY <1>2, <1>3
  <2> QED
    BY <2>1, FS_Subset
<1>4. ASSUME NEW U \in SUBSET T, U # T PROVE G[U] = H(U)[U]
  <2> DEFINE V == U \ {First(U)}
  <2>1. Summing(U, H(U)) /\ IsFiniteSet(U)
    BY <1>3, <1>4
  <2>2. H(U)[U] = IF U = {} THEN 0 ELSE First(U).call.amount + H(U)[V]
    BY <2>1, SummingStep
  <2>3. ASSUME U # {} PROVE H(V)[V] = H(U)[V]
    <3>1. V \subseteq U /\ V \in SUBSET T /\ V # T
      BY <1>4, <2>3, FirstIsElement
    <3>2. Summing(V, H(V)) /\ IsFiniteSet(V)
      BY <1>3, <3>1
    <3> HIDE DEF H, V
    <3> QED
      BY <2>1, <3>1, <3>2, SummingIsUnique
  <2> HIDE DEF H
  <2> QED
    BY <2>2, <2>3
<1>5. ASSUME NEW U \in SUBSET T, U # {}
      PROVE  G[U] = First(U).call.amount + G[U \ {First(U)}]
  <2> DEFINE V == U \ {First(U)}
  <2>1. V \in SUBSET T /\ V # T
    BY <1>5, FirstIsElement
  <2>2. G[V] = H(V)[V]
    BY <1>4, <2>1
  <2> HIDE DEF H
  <2> QED
    BY <1>5, <2>2
<1>6. Summing(T, G)
  <2>1. G = [U \in SUBSET T |-> IF U = {} THEN 0 ELSE First(U).call.amount + G[U \ {First(U)}]]
    <3>1. \A U \in SUBSET T :
            G[U] = IF U = {} THEN 0 ELSE First(U).call.amount + G[U \ {First(U)}]
      <4>1. G[{}] = 0
        OBVIOUS
      <4> HIDE DEF G
      <4> QED
        BY <1>5, <4>1
    <3>2. G = [U \in SUBSET T |-> G[U]]
      OBVIOUS
    <3> HIDE DEF G
    <3> QED
      BY <3>1, <3>2
  <2> HIDE DEF G
  <2> QED
    BY <2>1 DEF Summing
<1> QED
  BY <1>2, <1>6

LEMMA TotalStep ==
    ASSUME NEW S, IsFiniteSet(S), S # {}
    PROVE  Total(S) = First(S).call.amount + Total(S \ {First(S)})
<1> DEFINE T == S \ {First(S)}
           H(U) == CHOOSE g : Summing(U, g)
<1>1. T \subseteq S /\ IsFiniteSet(T)
  BY FS_Subset
<1>2. Summing(S, H(S)) /\ Summing(T, H(T))
  BY <1>1, SummingExists
<1>3. Total(S) = H(S)[S] /\ Total(T) = H(T)[T]
  BY TotalIsChosen
<1> HIDE DEF H, T
<1>4. H(T)[T] = H(S)[T]
  BY <1>1, <1>2, SummingIsUnique
<1>5. H(S)[S] = First(S).call.amount + H(S)[T]
  BY <1>2, SummingStep DEF T
<1> QED
  BY <1>3, <1>4, <1>5 DEF T

LEMMA TotalOfNone == Total({}) = 0
<1>1. PICK g : Summing({}, g)
  BY SummingExists, FS_EmptySet
<1>2. Summing({}, CHOOSE h : Summing({}, h))
  BY <1>1
<1> QED
  BY <1>2, TotalIsChosen, SummingStep

\* What is summed up.
Amounts(S) == IsFiniteSet(S) /\ \A r \in S : r.call.amount \in Nat

\* It does not matter which one is taken first.
LEMMA TotalWithout ==
    ASSUME NEW S, Amounts(S)
    PROVE  Total(S) \in Nat /\ \A x \in S : Total(S) = x.call.amount + Total(S \ {x})
<1> DEFINE Takes(U) == Total(U) \in Nat /\ \A x \in U : Total(U) = x.call.amount + Total(U \ {x})
           Lacking == {U \in SUBSET S : ~Takes(U)}
<1>1. SUFFICES ASSUME Lacking # {} PROVE FALSE
  OBVIOUS
<1>2. PICK T \in Lacking : \A V \in Lacking : V \subseteq T => V = T
  <2>1. Lacking \in SUBSET (SUBSET S) /\ IsFiniteSet(S)
    BY DEF Amounts
  <2> HIDE DEF Lacking
  <2> QED
    BY <1>1, <2>1, LeastSubset
<1>3. IsFiniteSet(T) /\ T \subseteq S /\ \A r \in T : r.call.amount \in Nat
  BY FS_Subset DEF Amounts
<1>4. ASSUME NEW x \in T PROVE Takes(T \ {x})
  <2>1. T \ {x} \in SUBSET S /\ T \ {x} \subseteq T /\ T \ {x} # T
    BY <1>3
  <2> HIDE DEF Takes
  <2> QED
    BY <1>2, <2>1
<1>5. CASE T = {}
  BY <1>2, <1>5, TotalOfNone
<1>6. CASE T # {}
  <2> DEFINE c == First(T)
  <2>1. c \in T /\ Total(T) = c.call.amount + Total(T \ {c})
    BY <1>3, <1>6, FirstIsElement, TotalStep
  <2> HIDE DEF c
  <2>2. Total(T \ {c}) \in Nat
    BY <1>4, <2>1
  <2>3. Total(T) \in Nat
    BY <1>3, <2>1, <2>2
  <2>4. ASSUME NEW x \in T, x # c PROVE Total(T) = x.call.amount + Total(T \ {x})
    <3> DEFINE U == T \ {c, x}
    <3>1. (T \ {c}) \ {x} = U /\ (T \ {x}) \ {c} = U /\ x \in T \ {c} /\ c \in T \ {x}
      BY <2>1, <2>4
    <3>2. Total(T \ {c}) = x.call.amount + Total(U)
      BY <1>4, <2>1, <3>1
    <3>3. Total(T \ {x}) = c.call.amount + Total(U) /\ Total(T \ {x}) \in Nat
      BY <1>4, <3>1
    <3>4. Total(U) \in Nat
      <4>1. U \in SUBSET S /\ U \subseteq T /\ U # T
        BY <1>3, <2>1
      <4> HIDE DEF U
      <4>2. Takes(U)
        BY <1>2, <4>1
      <4> QED
        BY <4>2
    <3> HIDE DEF U
    <3> QED
      BY <1>3, <2>1, <3>2, <3>3, <3>4
  <2>5. Takes(T)
    BY <2>1, <2>3, <2>4
  <2> QED
    BY <1>2, <2>5
<1> QED
  BY <1>5, <1>6

LEMMA TotalWith ==
    ASSUME NEW S, NEW x, Amounts(S), x.call.amount \in Nat, x \notin S
    PROVE  Amounts(S \cup {x}) /\ Total(S \cup {x}) = Total(S) + x.call.amount
<1>1. Amounts(S \cup {x})
  BY FS_AddElement DEF Amounts
<1>2. (S \cup {x}) \ {x} = S
  OBVIOUS
<1>3. Total(S \cup {x}) = x.call.amount + Total(S)
  BY <1>1, <1>2, TotalWithout
<1> QED
  BY <1>1, <1>3, TotalWithout

\* Every call of S is among those of A, B or C.
Same(p, r) == p.by = r.by /\ p.call = r.call
Covered(S, A, B, C) == \A p \in S : \E r \in A \cup B \cup C : Same(p, r)
Distinct(S) == \A p, q \in S : Same(p, q) => p = q

LEMMA TotalIsCovered ==
    ASSUME NEW S, NEW A, NEW B, NEW C, Amounts(S), Amounts(A), Amounts(B), Amounts(C),
           Distinct(S), Covered(S, A, B, C)
    PROVE  Total(S) <= Total(A) + Total(B) + Total(C)
<1> DEFINE Sum(X, Y, Z) == Total(X) + Total(Y) + Total(Z)
           Lacking == {T \in SUBSET S : \E X \in SUBSET A, Y \in SUBSET B, Z \in SUBSET C :
                     Covered(T, X, Y, Z) /\ ~(Total(T) <= Sum(X, Y, Z))}
<1>1. SUFFICES ASSUME Lacking # {} PROVE FALSE
  OBVIOUS
<1>2. PICK T \in Lacking : \A V \in Lacking : V \subseteq T => V = T
  <2>1. Lacking \in SUBSET (SUBSET S) /\ IsFiniteSet(S)
    BY DEF Amounts
  <2> HIDE DEF Lacking
  <2> QED
    BY <1>1, <2>1, LeastSubset
<1>3. PICK X \in SUBSET A, Y \in SUBSET B, Z \in SUBSET C :
        Covered(T, X, Y, Z) /\ ~(Total(T) <= Sum(X, Y, Z))
  OBVIOUS
<1>4. Amounts(T) /\ Amounts(X) /\ Amounts(Y) /\ Amounts(Z) /\ T \subseteq S
  BY FS_Subset DEF Amounts
<1>5. Total(T) \in Nat /\ Total(X) \in Nat /\ Total(Y) \in Nat /\ Total(Z) \in Nat
  BY <1>4, TotalWithout
<1>6. CASE T = {}
  BY <1>3, <1>5, <1>6, TotalOfNone
<1>7. CASE T # {}
  <2>1. PICK p \in T : TRUE
    BY <1>7
  <2>2. PICK r \in X \cup Y \cup Z : Same(p, r)
    BY <1>3 DEF Covered
  <2> DEFINE U == T \ {p}
  <2>3. Total(T) = p.call.amount + Total(U) /\ p.call.amount \in Nat
        /\ p.call.amount = r.call.amount
    BY <1>4, <2>2, TotalWithout DEF Amounts, Same
  <2>4. \A q \in U : ~Same(q, r)
    BY <1>4, <2>2 DEF Same, Distinct
  <2>5. U \in SUBSET S /\ U \subseteq T /\ U # T /\ Amounts(U)
    BY <1>4, FS_Subset DEF Amounts
  <2>6. Total(U) \in Nat
    BY <2>5, TotalWithout
  <2>7. ASSUME NEW K \in SUBSET A, NEW L \in SUBSET B, NEW M \in SUBSET C, Covered(U, K, L, M)
        PROVE  Total(U) <= Sum(K, L, M)
    <3> HIDE DEF Sum, U
    <3>1. U \notin Lacking
      BY <1>2, <2>5
    <3> QED
      BY <2>5, <2>7, <3>1
  <2>8. ASSUME NEW K, Amounts(K), r \in K
        PROVE  Total(K) = r.call.amount + Total(K \ {r}) /\ Total(K \ {r}) \in Nat
    <3>1. Amounts(K \ {r})
      BY <2>8, FS_Subset DEF Amounts
    <3> QED
      BY <2>8, <3>1, TotalWithout
  <2>9. \A q \in U : \E s \in X \cup Y \cup Z : s # r /\ Same(q, s)
    BY <1>3, <2>4 DEF Covered
  <2>10. CASE r \in X
    <3>1. Covered(U, X \ {r}, Y, Z)
      BY <2>9 DEF Covered
    <3>2. Total(U) <= Sum(X \ {r}, Y, Z)
      BY <2>7, <3>1
    <3> QED
      BY <1>3, <1>4, <1>5, <2>3, <2>6, <2>8, <2>10, <3>2
  <2>11. CASE r \in Y
    <3>1. Covered(U, X, Y \ {r}, Z)
      BY <2>9 DEF Covered
    <3>2. Total(U) <= Sum(X, Y \ {r}, Z)
      BY <2>7, <3>1
    <3> QED
      BY <1>3, <1>4, <1>5, <2>3, <2>6, <2>8, <2>11, <3>2
  <2>12. CASE r \in Z
    <3>1. Covered(U, X, Y, Z \ {r})
      BY <2>9 DEF Covered
    <3>2. Total(U) <= Sum(X, Y, Z \ {r})
      BY <2>7, <3>1
    <3> QED
      BY <1>3, <1>4, <1>5, <2>3, <2>6, <2>8, <2>12, <3>2
  <2> QED
    BY <2>2, <2>10, <2>11, <2>12
<1> QED
  BY <1>6, <1>7
-----------------------------------------------------------------------------
(***************************************************************************)
(* Deposits arrive once: what has arrived on a Neon account is the sum of  *)
(* the calls whose last transaction was processed.                         *)
(***************************************************************************)
DepositOps == {"deposit_neon", "deposit_wrapped_sol", "deposit_neon_like"}

LastStep(op) == IF op = "deposit_neon" THEN "deposit_neon" ELSE "sent_token"

CallRecords == [by : Workers, call : Calls]

ArrivedOf(p) == Done(Transaction(p.by, p.call, LastStep(p.call.op)))

Landed(e, m) == {p \in Deposits(CallRecords, e, m) : ArrivedOf(p)}

Has(e, m) == IF balance[e, m] = -1 THEN 0 ELSE balance[e, m]

Busy == {[by |-> w, call |-> clients[w].call] : w \in {v \in Workers : clients[v].stage # "idle"}}

\* Sums are of finite sets: only so many calls have been made.
FinitelyMany ==
    /\ IsFiniteSet(Busy) /\ IsFiniteSet(returned) /\ IsFiniteSet(raised)
    /\ \A e \in Ethers, m \in Tokens : IsFiniteSet(Landed(e, m))

HistoryOK ==
    /\ returned \subseteq CallRecords
    /\ \A r \in raised : r.by \in Workers /\ r.call \in Calls

BalanceOK ==
    /\ balance \in [Ethers \X Tokens -> Int]
    /\ \A p \in Ethers \X Tokens : balance[p] >= -1

\* The call of a transaction is known: it is at work, or has ended.
Known(t) ==
    \/ IsCurrent(t)
    \/ [by |-> t.worker, call |-> t.call] \in returned
    \/ \E r \in raised : r.by = t.worker /\ r.call = t.call

\* deposit_neon sends its transaction once, and it does not fail.
SingleOK(t) ==
    /\ t.step = "deposit_neon" <=> t.call.op = "deposit_neon"
    /\ t.step = "deposit_neon" => /\ Permitted(InstructionsOf(t), "owner")
                                  /\ IsCurrent(t) => clients[t.worker].stage = "confirm"

AllKnown == \A t \in sent \cup {r.of : r \in receipts} : Known(t) /\ SingleOK(t)

SingleOnce == \A t \in sent, r \in receipts : t.step = "deposit_neon" => r.of # t

SingleLands == \A r \in receipts : r.of.step = "deposit_neon" => r.ok

ReturnedHasArrived == \A r \in returned : r.call.op \in DepositOps => ArrivedOf(r)

BalanceIsSum == \A e \in Ethers, m \in Tokens : Has(e, m) = Total(Landed(e, m))

DepositInv == /\ FinitelyMany /\ HistoryOK /\ BalanceOK /\ AllKnown /\ SingleOnce /\ SingleLands
              /\ ReturnedHasArrived /\ BalanceIsSum

LEMMA LastOfScript ==
    ASSUME TestsCall, NEW c \in Calls
    PROVE  /\ c.op \in DepositOps =>
                /\ Script(c.op)[Len(Script(c.op))] = LastStep(c.op)
                /\ LastStep(c.op) \in {"sent_token", "deposit_neon"}
           /\ c.op = "deposit_neon" => Len(Script(c.op)) = 1
           /\ \A i \in 1..Len(Script(c.op)) :
                Script(c.op)[i] = "deposit_neon" <=> c.op = "deposit_neon"
<1>1. c.op \in Ops
  BY ScriptOfCall
<1>2. Script("deposit_neon") = <<"deposit_neon">>
  BY DEF Script
<1>3. c.op # "deposit_neon" =>
        Script(c.op) \in {<<"airdrop">>, <<"send_sol">>, <<"airdrop_empty", "balance_account">>,
                          <<"airdrop", "operator_account">>,
                          <<"token_account", "wrap", "sent_token">>,
                          <<"token_account", "mint", "sent_token">>}
  BY <1>1 DEF Ops, Script
<1>4. \A s \in {<<"airdrop">>, <<"send_sol">>, <<"airdrop_empty", "balance_account">>,
                <<"airdrop", "operator_account">>,
                <<"token_account", "wrap", "sent_token">>,
                <<"token_account", "mint", "sent_token">>} :
        \A i \in 1..Len(s) : s[i] # "deposit_neon"
  OBVIOUS
<1>5. c.op \in DepositOps /\ c.op # "deposit_neon" =>
        c.op \in LongDeposits /\ LastStep(c.op) = "sent_token"
  BY DEF DepositOps, LongDeposits, LastStep
<1>6. LastStep("deposit_neon") = "deposit_neon"
  BY DEF LastStep
<1>7. c.op \in LongDeposits => Len(Script(c.op)) = 3 /\ Script(c.op)[3] = "sent_token"
  BY LongScript
<1>8. CASE c.op = "deposit_neon"
  <2>1. Len(Script(c.op)) = 1 /\ Script(c.op)[1] = "deposit_neon"
    BY <1>2, <1>8
  <2>2. \A i \in 1..Len(Script(c.op)) : Script(c.op)[i] = "deposit_neon"
    BY <2>1
  <2> QED
    BY <1>6, <1>8, <2>1, <2>2
<1>9. CASE c.op # "deposit_neon"
  BY <1>3, <1>4, <1>5, <1>7, <1>9
<1> QED
  BY <1>8, <1>9

\* A deposit's last transaction, by its step.
LEMMA LastIsDeposit ==
    ASSUME NEW t, SentOK(t), SingleOK(t)
    PROVE  /\ t.step \in {"sent_token", "deposit_neon"} =>
                t.call.op \in DepositOps /\ t.step = LastStep(t.call.op)
           /\ t.call.op \in DepositOps /\ t.step = LastStep(t.call.op) =>
                t.step \in {"sent_token", "deposit_neon"}
           /\ t.call.op \in DepositOps /\ t.step # "deposit_neon" => t.call.op \in LongDeposits
BY DEF SentOK, SingleOK, TokenSteps, LongDeposits, DepositOps, LastStep

\* What a worker's step does to the history.
LEMMA DepositMoves ==
    ASSUME ClientsOK, NEW w \in Workers, WorkerStep(w)
    PROVE  /\ UNCHANGED <<balance, receipts>>
           /\ \/ /\ Advance(w) /\ sent' = sent /\ raised' = raised
                 /\ \/ clients[w].stage = "look" /\ Unneeded(Step(w), clients[w].call)
                    \/ clients[w].stage = "wait"
                    \/ /\ clients[w].stage = "confirm"
                       /\ \E r \in receipts : r.of = Sent(w) /\ (Checked(Step(w)) => r.ok)
              \/ /\ clients'[w] = AtRest /\ sent' = sent /\ returned' = returned
                 /\ \E r : /\ raised' = raised \cup {r}
                           /\ r.by = w /\ r.call = clients[w].call
              \/ /\ clients'[w].call = clients[w].call
                 /\ raised' = raised /\ returned' = returned
                 /\ clients[w].stage \in {"look", "send"}
                 /\ \/ sent' = sent
                    \/ /\ sent' = sent \cup {Sent(w)} /\ clients[w].stage = "send"
                       /\ ~IsAirdrop(Step(w)) =>
                            /\ clients'[w].stage = "confirm"
                            /\ ~Checked(Step(w)) => ~Failing(Sent(w))
              \/ /\ Advance(w) /\ sent' = sent \cup {Sent(w)} /\ raised' = raised
                 /\ clients[w].stage = "send" /\ Step(w) = "mint"
<1>1. clients \in [Workers -> ClientRecords] /\ clients[w] \in ClientRecords
  BY DEF ClientsOK
<1>2. ASSUME NEW stage, clients' = [clients EXCEPT ![w].stage = stage]
      PROVE  clients'[w].stage = stage /\ clients'[w].call = clients[w].call
  BY <1>1, <1>2 DEF ClientRecords
<1>3. ASSUME NEW n, clients' = [clients EXCEPT ![w].tries = n]
      PROVE  clients'[w].call = clients[w].call
  BY <1>1, <1>3 DEF ClientRecords
<1> DEFINE Fell == /\ clients'[w] = AtRest
                   /\ \E r : raised' = raised \cup {r} /\ r.by = w /\ r.call = clients[w].call
<1>4. ASSUME NEW cause, Raise(w, cause) PROVE Fell
  <2> DEFINE r == [by |-> w, call |-> clients[w].call, step |-> Step(w), cause |-> cause]
  <2>1. r.by = w /\ r.call = clients[w].call
    OBVIOUS
  <2>2. raised' = raised \cup {r}
    BY <1>4 DEF Raise
  <2>3. clients'[w] = AtRest
    BY <1>1, <1>4 DEF Raise
  <2> HIDE DEF r
  <2> QED
    BY <2>1, <2>2, <2>3
<1> HIDE DEF Fell
<1>5. UNCHANGED <<balance, receipts>>
  BY DEF WorkerStep, Look, SendTransaction, RequestAirdrop, WaitAirdrop,
         Confirm, TimeOut, ledger
<1>6. CASE Look(w)
  BY <1>2, <1>5, <1>6 DEF Look
<1>7. CASE SendTransaction(w)
  <2>1. CASE Raise(w, "preflight") /\ UNCHANGED <<sent, returned>>
    BY <1>4, <1>5, <2>1 DEF Fell
  <2>2. CASE /\ clients' = [clients EXCEPT ![w].stage = "confirm"] /\ UNCHANGED returned
             /\ sent' = sent \cup {Sent(w)} /\ UNCHANGED raised
             /\ ~Checked(Step(w)) => ~Failing(Sent(w))
    BY <1>2, <1>5, <1>7, <2>2 DEF SendTransaction
  <2>3. CASE /\ Advance(w) /\ ~Awaited(Step(w))
             /\ sent' = sent \cup {Sent(w)} /\ UNCHANGED raised
    BY <1>5, <1>7, <2>3 DEF SendTransaction, Awaited
  <2> QED
    BY <1>7, <2>1, <2>2, <2>3 DEF SendTransaction
<1>8. CASE RequestAirdrop(w)
  <2>1. CASE /\ clients' = [clients EXCEPT ![w].stage = "wait"]
             /\ sent' = sent \cup {Sent(w)} /\ UNCHANGED raised
    BY <1>2, <1>5, <1>8, <2>1 DEF RequestAirdrop
  <2>2. CASE Raise(w, "refused") /\ UNCHANGED sent
    BY <1>4, <1>5, <1>8, <2>2 DEF Fell, RequestAirdrop
  <2>3. CASE clients' = [clients EXCEPT ![w].tries = @ + 1] /\ UNCHANGED <<raised, sent>>
    <3>1. \E n : clients' = [clients EXCEPT ![w].tries = n]
      BY <2>3
    <3> QED
      BY <1>3, <1>5, <1>8, <2>3, <3>1 DEF RequestAirdrop
  <2> QED
    BY <1>8, <2>1, <2>2, <2>3 DEF RequestAirdrop
<1>9. CASE WaitAirdrop(w)
  BY <1>5, <1>9 DEF WaitAirdrop
<1>10. CASE Confirm(w)
  <2>1. PICK r \in receipts :
          /\ r.of = Sent(w)
          /\ IF Checked(Step(w)) /\ ~r.ok
             THEN Raise(w, "status") /\ UNCHANGED returned
             ELSE Advance(w) /\ UNCHANGED raised
    BY <1>10 DEF Confirm
  <2> QED
    BY <1>4, <1>5, <1>10, <2>1 DEF Confirm, Fell
<1>11. CASE TimeOut(w)
  BY <1>4, <1>5, <1>11 DEF TimeOut, Fell
<1> QED
  BY <1>6, <1>7, <1>8, <1>9, <1>10, <1>11 DEF WorkerStep

\* Nothing arrives in a step of a client.
LEMMA LandedStays ==
    ASSUME UNCHANGED receipts
    PROVE  /\ \A t : Done(t)' <=> Done(t)
           /\ \A p : ArrivedOf(p)' <=> ArrivedOf(p)
           /\ \A e, m : Landed(e, m)' = Landed(e, m)
<1>1. \A t : Done(t)' <=> Done(t)
  BY DEF Done
<1>2. \A p : ArrivedOf(p)' <=> ArrivedOf(p)
  BY <1>1 DEF ArrivedOf, Transaction
<1>3. \A e, m : Landed(e, m)' = Landed(e, m)
  BY <1>2 DEF Landed, Deposits, CallRecords, Calls
<1> QED
  BY <1>1, <1>2, <1>3

LEMMA WorkerStaysAtWork ==
    ASSUME ClientsOK, NEW w \in Workers, WorkerStep(w)
    PROVE  Advance(w) \/ (\E cause : Raise(w, cause)) \/ Working(w)'
<1>1. clients \in [Workers -> ClientRecords] /\ clients[w] \in ClientRecords
  BY DEF ClientsOK
<1>2. ASSUME NEW stage \in {"send", "confirm", "wait"}, clients' = [clients EXCEPT ![w].stage = stage]
      PROVE  Working(w)'
  BY <1>1, <1>2 DEF ClientRecords, Working
<1>3. ASSUME clients' = [clients EXCEPT ![w].tries = @ + 1], clients[w].stage = "send"
      PROVE  Working(w)'
  BY <1>1, <1>3 DEF ClientRecords, Working
<1> QED
  BY <1>2, <1>3 DEF WorkerStep, Look, SendTransaction, RequestAirdrop, WaitAirdrop, Confirm, TimeOut

LEMMA SumsStay ==
    ASSUME UNCHANGED <<balance, receipts>>, \A e \in Ethers, m \in Tokens : IsFiniteSet(Landed(e, m)),
           BalanceOK, BalanceIsSum, SingleLands
    PROVE  /\ \A e \in Ethers, m \in Tokens : IsFiniteSet(Landed(e, m)')
           /\ BalanceOK' /\ BalanceIsSum' /\ SingleLands'
<1>1. \A e, m : Landed(e, m)' = Landed(e, m)
  BY LandedStays
<1>2. BalanceOK' /\ SingleLands'
  BY DEF BalanceOK, SingleLands
<1>3. \A e, m : Has(e, m)' = Has(e, m)
  BY DEF Has
<1>4. \A e, m : Total(Landed(e, m))' = Total(Landed(e, m))
  BY <1>1
<1>5. BalanceIsSum'
  BY <1>3, <1>4 DEF BalanceIsSum
<1> QED
  BY <1>1, <1>2, <1>5

LEMMA ClientKeepsDeposits ==
    ASSUME TestsCall, TokenInv, DepositInv, NEW w \in Workers, WorkerStep(w)
    PROVE  DepositInv'
<1> DEFINE c == clients[w].call
           i == clients[w].index
           p == [by |-> w, call |-> c]
<1>1. /\ ClientsOK /\ AirdropsWait /\ AllSentOK /\ FinitelyMany /\ HistoryOK /\ BalanceOK /\ AllKnown
      /\ SingleOnce /\ SingleLands /\ ReturnedHasArrived /\ BalanceIsSum
  BY DEF TokenInv, DepositInv
<1>2. /\ UNCHANGED <<balance, receipts>>
      /\ \A v \in Workers \ {w} : clients'[v] = clients[v]
      /\ Working(w) /\ (Working(w)' => clients'[w].call = c)
  BY <1>1, ClientStepFields, DepositMoves
<1>3. c \in Calls /\ i \in 1..Len(Script(c.op)) /\ p \in CallRecords
  BY <1>1, <1>2, CallsOfPrograms DEF TokenInv, ClientsOK, CallsOnce, CallRecords
<1>4. /\ \A e \in Ethers, m \in Tokens : IsFiniteSet(Landed(e, m)')
      /\ BalanceOK' /\ BalanceIsSum' /\ SingleLands'
  BY <1>1, <1>2, SumsStay DEF FinitelyMany
\* A mint is not the end of a call.
<1>m. ASSUME Step(w) = "mint" PROVE i # Len(Script(c.op)) /\ c.op # "deposit_neon"
  <2>1. c.op \in LongDeposits
    BY <1>3, <1>m, LongScript DEF Step, TokenSteps
  <2> QED
    BY <1>3, <1>m, <2>1, LongScript DEF Step, LongDeposits
<1>5. /\ returned' \in {returned, returned \cup {p}}
      /\ \/ raised' = raised
         \/ \E r : raised' = raised \cup {r} /\ r.by = w /\ r.call = c
      /\ Working(w)' \/ p \in returned' \/ \E r \in raised' : r.by = w /\ r.call = c
  <2>1. CASE Advance(w) /\ raised' = raised
    <3>1. \/ returned' = returned \cup {p}
          \/ returned' = returned /\ clients'[w].stage = "look"
      BY <1>1, <2>1, AdvanceFields
    <3> QED
      BY <2>1, <3>1 DEF Working
  <2>2. CASE \E r : raised' = raised \cup {r} /\ r.by = w /\ r.call = c
    <3>1. PICK r : raised' = raised \cup {r} /\ r.by = w /\ r.call = c
      BY <2>2
    <3>2. returned' \in {returned, returned \cup {p}}
      BY <1>1, DepositMoves, AdvanceFields
    <3>3. \E q \in raised' : q.by = w /\ q.call = c
      BY <3>1
    <3> QED
      BY <2>2, <3>2, <3>3
  <2>3. CASE clients[w].stage \in {"look", "send"} /\ raised' = raised /\ returned' = returned
             /\ Working(w)'
    BY <2>3
  <2> QED
    <3>1. ASSUME NEW cause, Raise(w, cause)
          PROVE  \E r : raised' = raised \cup {r} /\ r.by = w /\ r.call = c
      <4>1. PICK r : r = [by |-> w, call |-> c, step |-> Step(w), cause |-> cause]
        OBVIOUS
      <4> QED
        BY <3>1, <4>1 DEF Raise
    <3>2. CASE Working(w)'
      BY <1>1, <2>1, <2>2, <2>3, <3>2, DepositMoves
    <3>3. CASE Advance(w)
      BY <1>1, <2>1, <2>2, <3>3, DepositMoves
    <3> QED
      BY <1>1, <2>2, <3>1, <3>2, <3>3, WorkerStaysAtWork
<1>6. FinitelyMany'
  <2>1. Busy' \subseteq Busy
    <3>1. \A v \in Workers : Working(v)' => Working(v) /\ clients'[v].call = clients[v].call
      BY <1>2 DEF Working
    <3> QED
      BY <3>1 DEF Busy, Working
  <2>2. IsFiniteSet(Busy')
    BY <1>1, <2>1, FS_Subset DEF FinitelyMany
  <2>3. IsFiniteSet(returned')
    <3>1. IsFiniteSet(returned \cup {p})
      BY <1>1, FS_AddElement DEF FinitelyMany
    <3> HIDE DEF p
    <3> QED
      BY <1>1, <1>5, <3>1 DEF FinitelyMany
  <2>4. IsFiniteSet(raised')
    BY <1>1, <1>5, FS_AddElement DEF FinitelyMany
  <2> QED
    BY <1>4, <2>2, <2>3, <2>4 DEF FinitelyMany
<1>7. HistoryOK'
  BY <1>1, <1>3, <1>5 DEF HistoryOK, CallRecords, Calls
<1>8. ASSUME NEW t \in sent \cup {r.of : r \in receipts}
      PROVE  Known(t)' /\ SingleOK(t)'
  <2>1. Known(t) /\ SingleOK(t) /\ SentOK(t)
    BY <1>1 DEF AllKnown, AllSentOK
  <2>2. t.worker \in Workers /\ t.call \in Calls
    BY <2>1 DEF SentOK
  <2>3. IsCurrent(t)' => IsCurrent(t)
    BY <1>2, <2>2 DEF IsCurrent, Working
  <2>4. Known(t)'
    <3>1. CASE IsCurrent(t) /\ t.worker # w
      BY <1>2, <2>2, <3>1 DEF Known, IsCurrent, Working
    <3>2. CASE IsCurrent(t) /\ t.worker = w
      BY <1>2, <1>5, <3>2 DEF Known, IsCurrent, Working
    <3>3. CASE ~IsCurrent(t)
      BY <1>5, <2>1, <3>3 DEF Known
    <3> QED
      BY <3>1, <3>2, <3>3
  <2>5. ASSUME t.step = "deposit_neon", IsCurrent(t)'
        PROVE  clients'[t.worker].stage = "confirm"
    <3>1. clients[t.worker].stage = "confirm" /\ IsCurrent(t)
      BY <2>1, <2>3, <2>5 DEF SingleOK
    <3>2. CASE t.worker # w
      BY <1>2, <2>2, <3>1, <3>2
    <3>3. CASE t.worker = w
      <4>1. t.call = c /\ c.op = "deposit_neon" /\ Working(w)'
        BY <2>1, <2>5, <3>1, <3>3 DEF IsCurrent, SingleOK
      <4>2. Len(Script(c.op)) = 1 /\ i = 1
        BY <1>3, <4>1, LastOfScript
      <4>3. ~Advance(w)
        BY <1>1, <4>1, <4>2, AdvanceFields, IdleRecord DEF Working
      <4> QED
        BY <1>1, <3>1, <3>3, <4>1, <4>3, DepositMoves, IdleRecord DEF Working
    <3> QED
      BY <3>2, <3>3
  <2>6. SingleOK(t)'
    BY <2>1, <2>5 DEF SingleOK
  <2> QED
    BY <2>4, <2>6
<1>9. ASSUME NEW t, t = Sent(w), clients[w].stage = "send", clients'[w].call = c,
             ~IsAirdrop(Step(w)) /\ Step(w) # "mint" =>
               /\ clients'[w].stage = "confirm"
               /\ ~Checked(Step(w)) => ~Failing(t)
      PROVE  Known(t)' /\ SingleOK(t)' /\ \A r \in receipts : t.step = "deposit_neon" => r.of # t
  <2>1. t.worker = w /\ t.call = c /\ t.step = Step(w)
    BY <1>9 DEF Sent, Transaction
  <2>2. Step(w) = "deposit_neon" <=> c.op = "deposit_neon"
    BY <1>3, LastOfScript DEF Step
  <2>3. ASSUME Step(w) = "deposit_neon"
        PROVE  clients'[w].stage = "confirm" /\ Permitted(InstructionsOf(t), "owner")
    <3>1. ~IsAirdrop(Step(w)) /\ ~Checked(Step(w)) /\ Step(w) # "mint"
      BY <2>3 DEF IsAirdrop, Checked
    <3> QED
      BY <1>9, <3>1 DEF Failing
  <2>4. SingleOK(t)'
    BY <2>1, <2>2, <2>3 DEF SingleOK
  <2>5. Known(t)'
    <3>1. Working(w)' \/ p \in returned' \/ \E r \in raised' : r.by = w /\ r.call = c
      BY <1>5
    <3> QED
      BY <1>9, <2>1, <3>1 DEF Known, IsCurrent
  <2>6. ASSUME NEW r \in receipts, t.step = "deposit_neon", r.of = t PROVE FALSE
    <3>1. SingleOK(t)
      BY <1>1, <2>6 DEF AllKnown
    <3> QED
      BY <1>2, <1>9, <2>1, <2>6, <3>1 DEF SingleOK, IsCurrent
  <2> QED
    BY <2>4, <2>5, <2>6
<1>10. \/ sent' = sent
       \/ \E t : /\ sent' = sent \cup {t} /\ Known(t)' /\ SingleOK(t)'
                 /\ \A r \in receipts : t.step = "deposit_neon" => r.of # t
  <2>1. CASE sent' = sent \cup {Sent(w)} /\ clients[w].stage = "send" /\ clients'[w].call = c
             /\ (~IsAirdrop(Step(w)) /\ Step(w) # "mint" =>
                   /\ clients'[w].stage = "confirm"
                   /\ ~Checked(Step(w)) => ~Failing(Sent(w)))
    <3>1. PICK t : t = Sent(w)
      OBVIOUS
    <3>2. ~Checked(Step(w)) /\ ~IsAirdrop(Step(w)) /\ Step(w) # "mint" => ~Failing(t)
      BY <2>1, <3>1
    <3> QED
      BY <1>9, <2>1, <3>1, <3>2
  <2>2. CASE /\ Advance(w) /\ sent' = sent \cup {Sent(w)} /\ raised' = raised
             /\ clients[w].stage = "send" /\ Step(w) = "mint"
    <3>1. clients'[w].call = c
      BY <1>1, <1>m, <2>2, AdvanceFields
    <3> QED
      BY <2>1, <2>2, <3>1
  <2> QED
    BY <1>1, <2>1, <2>2, DepositMoves
<1>11. AllKnown'
  BY <1>2, <1>8, <1>10 DEF AllKnown
<1>12. SingleOnce'
  BY <1>1, <1>2, <1>10 DEF SingleOnce
<1>13. ReturnedHasArrived'
  <2>1. \A q : ArrivedOf(q)' <=> ArrivedOf(q)
    BY <1>2, LandedStays
  <2>2. ASSUME Advance(w), i = Len(Script(c.op)), c.op \in DepositOps,
               \/ clients[w].stage = "look" /\ Unneeded(Step(w), c)
               \/ clients[w].stage = "wait"
               \/ /\ clients[w].stage = "confirm"
                  /\ \E r \in receipts : r.of = Sent(w) /\ (Checked(Step(w)) => r.ok)
        PROVE  ArrivedOf(p)
    <3>1. Step(w) = LastStep(c.op) /\ Step(w) \in {"sent_token", "deposit_neon"}
      BY <1>3, <2>2, LastOfScript DEF Step
    <3>2. ~Unneeded(Step(w), c) /\ ~IsAirdrop(Step(w))
      BY <3>1 DEF Unneeded, IsAirdrop
    <3>3. PICK r \in receipts : r.of = Sent(w) /\ (Checked(Step(w)) => r.ok)
      BY <1>1, <2>2, <3>2 DEF AirdropsWait
    <3>4. r.of.step = Step(w)
      BY <3>3 DEF Sent, Transaction
    <3>5. r.ok
      BY <1>1, <3>1, <3>3, <3>4 DEF Checked, SingleLands
    <3>6. Done(Transaction(w, c, LastStep(c.op)))
      BY <3>1, <3>3, <3>5 DEF Done, Sent
    <3> QED
      BY <3>6 DEF ArrivedOf
  <2>3. returned' = returned \/ (returned' = returned \cup {p} /\ (c.op \in DepositOps => ArrivedOf(p)))
    BY <1>1, <1>m, <2>2, DepositMoves, AdvanceFields
  <2>4. p.call = c
    OBVIOUS
  <2> HIDE DEF p
  <2> QED
    BY <1>1, <2>1, <2>3, <2>4 DEF ReturnedHasArrived
<1> QED
  BY <1>4, <1>6, <1>7, <1>11, <1>12, <1>13 DEF DepositInv

LEMMA StartKeepsDeposits ==
    ASSUME TestsCall, TokenInv, DepositInv, NEW w \in Workers, NEW c \in left[w], Start(w, c)
    PROVE  DepositInv'
<1> DEFINE p == [by |-> w, call |-> c]
<1>1. /\ ClientsOK /\ AllSentOK /\ FinitelyMany /\ HistoryOK /\ BalanceOK /\ AllKnown
      /\ SingleOnce /\ SingleLands /\ ReturnedHasArrived /\ BalanceIsSum
  BY DEF TokenInv, DepositInv
<1>2. /\ UNCHANGED <<balance, receipts, sent, returned, raised>> /\ ~Working(w)
      /\ \A v \in Workers \ {w} : clients'[v] = clients[v]
      /\ clients'[w].call = c
  BY <1>1 DEF Start, ledger, Working, ClientsOK, AtRest
<1>3. /\ \A e \in Ethers, m \in Tokens : IsFiniteSet(Landed(e, m)')
      /\ BalanceOK' /\ BalanceIsSum' /\ SingleLands'
  BY <1>1, <1>2, SumsStay DEF FinitelyMany
<1>4. FinitelyMany'
  <2>1. Busy' \subseteq Busy \cup {p}
    BY <1>2 DEF Busy
  <2>2. IsFiniteSet(Busy \cup {p})
    BY <1>1, FS_AddElement DEF FinitelyMany
  <2>3. IsFiniteSet(Busy')
    BY <2>1, <2>2, FS_Subset
  <2> QED
    BY <1>1, <1>2, <1>3, <2>3 DEF FinitelyMany
<1>5. HistoryOK' /\ SingleOnce'
  BY <1>1, <1>2 DEF HistoryOK, SingleOnce, CallRecords, Calls
<1>6. ASSUME NEW t \in sent \cup {r.of : r \in receipts}
      PROVE  Known(t)' /\ SingleOK(t)'
  <2>1. Known(t) /\ SingleOK(t) /\ SentOK(t)
    BY <1>1 DEF AllKnown, AllSentOK
  <2>2. t.worker \in Workers /\ t.call \notin left[t.worker]
    BY <2>1 DEF SentOK
  <2>3. IsCurrent(t)' <=> IsCurrent(t) /\ t.worker # w
    BY <1>2, <2>2 DEF IsCurrent, Working
  <2>4. IsCurrent(t) => t.worker # w
    BY <1>2 DEF IsCurrent
  <2>5. Known(t)'
    BY <1>2, <2>1, <2>3, <2>4 DEF Known
  <2>6. SingleOK(t)'
    BY <1>2, <2>1, <2>2, <2>3 DEF SingleOK
  <2> QED
    BY <2>5, <2>6
<1>7. AllKnown'
  BY <1>2, <1>6 DEF AllKnown
<1>8. ReturnedHasArrived'
  <2>1. \A q : ArrivedOf(q)' <=> ArrivedOf(q)
    BY <1>2, LandedStays
  <2> QED
    BY <1>1, <1>2, <2>1 DEF ReturnedHasArrived
<1> QED
  BY <1>3, <1>4, <1>5, <1>7, <1>8 DEF DepositInv

\* Whoever is at work or has ended stays so while Solana does something.
LEMMA ChainKeepsHistory ==
    ASSUME FinitelyMany, HistoryOK, AllKnown, UNCHANGED <<clients, returned, raised>>
    PROVE  /\ IsFiniteSet(Busy') /\ IsFiniteSet(returned') /\ IsFiniteSet(raised')
           /\ HistoryOK'
           /\ \A t \in sent \cup {r.of : r \in receipts} : Known(t)' /\ SingleOK(t)'
<1>1. Busy' = Busy
  BY DEF Busy
<1>2. IsFiniteSet(Busy') /\ IsFiniteSet(returned') /\ IsFiniteSet(raised')
  BY <1>1 DEF FinitelyMany
<1>3. HistoryOK'
  BY DEF HistoryOK, CallRecords, Calls
<1>4. \A t : IsCurrent(t)' <=> IsCurrent(t)
  BY DEF IsCurrent, Working
<1>5. \A t : (Known(t)' <=> Known(t)) /\ (SingleOK(t)' <=> SingleOK(t))
  BY <1>4 DEF Known, SingleOK
<1> QED
  BY <1>2, <1>3, <1>5 DEF AllKnown

LEMMA LoseKeepsDeposits ==
    ASSUME DepositInv, NEW t \in sent, Expire(t)
    PROVE  DepositInv'
<1>1. /\ FinitelyMany /\ HistoryOK /\ BalanceOK /\ AllKnown
      /\ SingleOnce /\ SingleLands /\ ReturnedHasArrived /\ BalanceIsSum
  BY DEF DepositInv
<1>2. sent' \subseteq sent /\ UNCHANGED <<balance, receipts, clients, returned, raised>>
  BY DEF Expire, ledger
<1>3. /\ \A e \in Ethers, m \in Tokens : IsFiniteSet(Landed(e, m)')
      /\ BalanceOK' /\ BalanceIsSum' /\ SingleLands'
  BY <1>1, <1>2, SumsStay DEF FinitelyMany
<1>4. /\ IsFiniteSet(Busy') /\ IsFiniteSet(returned') /\ IsFiniteSet(raised') /\ HistoryOK'
      /\ \A s \in sent \cup {r.of : r \in receipts} : Known(s)' /\ SingleOK(s)'
  BY <1>1, <1>2, ChainKeepsHistory
<1>5. FinitelyMany' /\ AllKnown' /\ SingleOnce'
  BY <1>1, <1>2, <1>3, <1>4 DEF FinitelyMany, AllKnown, SingleOnce
<1>6. ReturnedHasArrived'
  <2>1. \A q : ArrivedOf(q)' <=> ArrivedOf(q)
    BY <1>2, LandedStays
  <2> QED
    BY <1>1, <1>2, <2>1 DEF ReturnedHasArrived
<1> QED
  BY <1>3, <1>4, <1>5, <1>6 DEF DepositInv

\* The last transaction of a deposit, and no other, changes what an account has.
LEMMA LandBalance ==
    ASSUME TestsCall, BalanceOK, NEW t \in sent, SentOK(t), Arrive(t)
    PROVE  LET at == <<t.call.to, t.call.mint>>
               last == ~Failing(t) /\ t.step \in {"sent_token", "deposit_neon"}
           IN  /\ at \in Ethers \X Tokens /\ BalanceOK'
               /\ last => Has(t.call.to, t.call.mint)' = Has(t.call.to, t.call.mint) + t.call.amount
               /\ \A e \in Ethers, m \in Tokens :
                    ~last \/ <<e, m>> # at => Has(e, m)' = Has(e, m)
<1> DEFINE at == <<t.call.to, t.call.mint>>
           n == t.call.amount
           last == ~Failing(t) /\ t.step \in {"sent_token", "deposit_neon"}
<1>1. t.call \in Calls /\ n \in Nat \ {0} /\ t.call.to \in Ethers /\ t.call.mint \in Tokens
  BY ScriptOfCall DEF SentOK, Ethers
<1>2. /\ balance \in [Ethers \X Tokens -> Int] /\ \A p \in Ethers \X Tokens : balance[p] >= -1
      /\ at \in Ethers \X Tokens
  BY <1>1 DEF BalanceOK
<1>3. CASE last
  <2> DEFINE new == (IF balance[at] = -1 THEN 0 ELSE balance[at]) + n
  <2>1. balance' = [balance EXCEPT ![at] = new]
    BY <1>3 DEF Arrive, Effect, Deposited
  <2>2. new \in Int /\ new >= 0 /\ balance[at] \in Int /\ balance[at] >= -1
    BY <1>1, <1>2
  <2> HIDE DEF new
  <2>3. /\ balance' \in [Ethers \X Tokens -> Int] /\ balance'[at] = new
        /\ \A p \in Ethers \X Tokens : p # at => balance'[p] = balance[p]
    BY <1>2, <2>1, <2>2
  <2>4. BalanceOK'
    <3>1. \A p \in Ethers \X Tokens : balance'[p] >= -1
      BY <1>2, <2>2, <2>3
    <3> QED
      BY <2>3, <3>1 DEF BalanceOK, Ethers, Calls
  <2>5. Has(t.call.to, t.call.mint)' = new
    <3>1. Has(t.call.to, t.call.mint)' = IF balance'[at] = -1 THEN 0 ELSE balance'[at]
      BY DEF Has
    <3> QED
      BY <2>2, <2>3, <3>1
  <2>6. new = Has(t.call.to, t.call.mint) + n
    BY DEF new, Has
  <2>7. \A e \in Ethers, m \in Tokens : <<e, m>> # at => Has(e, m)' = Has(e, m)
    BY <2>3 DEF Has
  <2> QED
    BY <1>2, <1>3, <2>4, <2>5, <2>6, <2>7
<1>4. CASE ~Failing(t) /\ t.step = "balance_account"
  <2>1. balance' = [balance EXCEPT ![<<t.call.to, "NEON">>] = 0]
        /\ balance[t.call.to, "NEON"] = -1
    BY <1>4 DEF Arrive, Effect, Failing
  <2>2. <<t.call.to, "NEON">> \in Ethers \X Tokens
    BY <1>1 DEF Tokens
  <2>3. \A p \in Ethers \X Tokens :
          IF p = <<t.call.to, "NEON">> THEN balance'[p] = 0 /\ balance[p] = -1
          ELSE balance'[p] = balance[p]
    BY <1>2, <2>1, <2>2
  <2>4. BalanceOK'
    <3>1. balance' \in [Ethers \X Tokens -> Int]
      <4>1. PICK p \in Ethers \X Tokens : p = <<t.call.to, "NEON">>
        BY <2>2
      <4>2. balance' = [balance EXCEPT ![p] = 0]
        BY <2>1, <4>1
      <4> QED
        BY <1>2, <4>2
    <3>2. \A p \in Ethers \X Tokens : balance'[p] >= -1
      BY <1>2, <2>3
    <3> QED
      BY <3>1, <3>2 DEF BalanceOK, Ethers, Calls
  <2>5. \A e \in Ethers, m \in Tokens : Has(e, m)' = Has(e, m)
    BY <2>3 DEF Has
  <2>6. ~last
    BY <1>4
  <2> QED
    BY <1>2, <2>4, <2>5, <2>6
<1>5. CASE ~last /\ ~(~Failing(t) /\ t.step = "balance_account")
  <2>1. balance' = balance
    BY <1>5 DEF Arrive, Effect, ledger
  <2>2. BalanceOK'
    BY <2>1 DEF BalanceOK, Ethers, Calls
  <2>3. \A e, m : Has(e, m)' = Has(e, m)
    BY <2>1 DEF Has
  <2> HIDE DEF last, at
  <2> QED
    BY <1>2, <1>5, <2>2, <2>3 DEF last, at
<1> QED
  BY <1>3, <1>4, <1>5

\* What has landed when a transaction is processed.
LEMMA LandDone ==
    ASSUME NEW t \in sent, Arrive(t)
    PROVE  /\ \A s : Done(s)' <=> Done(s) \/ (s = t /\ ~Failing(t))
           /\ \A r \in receipts' : r \in receipts \/ (r.of = t /\ (~Failing(t) => r.ok))
           /\ sent' = sent \ {t} /\ UNCHANGED <<clients, returned, raised>>
<1>1. PICK ok \in BOOLEAN : ok = ~Failing(t)
  BY DEF Failing
<1>2. PICK r : r = [of |-> t, ok |-> ok]
  OBVIOUS
<1>3. r.of = t /\ (r.ok <=> ~Failing(t))
  BY <1>1, <1>2
<1>4. receipts' = receipts \cup {r} /\ sent' = sent \ {t} /\ UNCHANGED <<clients, returned, raised>>
  <2>1. CASE Failing(t)
    BY <1>1, <1>2, <2>1 DEF Arrive
  <2>2. CASE ~Failing(t)
    BY <1>1, <1>2, <2>2 DEF Arrive
  <2> QED
    BY <2>1, <2>2
<1>5. \A s : Done(s)' <=> Done(s) \/ (s = t /\ ~Failing(t))
  BY <1>3, <1>4 DEF Done
<1> QED
  BY <1>3, <1>4, <1>5

LEMMA LandLanded ==
    ASSUME TestsCall, TokenInv, DepositInv, NEW t \in sent, Arrive(t)
    PROVE  LET p == [by |-> t.worker, call |-> t.call]
               last == ~Failing(t) /\ t.step \in {"sent_token", "deposit_neon"}
           IN  /\ \A e, m : ~last \/ <<e, m>> # <<t.call.to, t.call.mint>> =>
                    Landed(e, m)' = Landed(e, m)
               /\ last => /\ Landed(t.call.to, t.call.mint)' = Landed(t.call.to, t.call.mint) \cup {p}
                          /\ p \notin Landed(t.call.to, t.call.mint)
               /\ \A q : ArrivedOf(q) => ArrivedOf(q)'
<1> DEFINE p == [by |-> t.worker, call |-> t.call]
           last == ~Failing(t) /\ t.step \in {"sent_token", "deposit_neon"}
<1>1. SentOK(t) /\ SingleOK(t)
  BY DEF TokenInv, AllSentOK, DepositInv, AllKnown
<1>2. /\ \A s : Done(s)' <=> Done(s) \/ (s = t /\ ~Failing(t))
      /\ UNCHANGED <<clients, returned, raised>>
  BY LandDone
<1>3. t = Transaction(t.worker, t.call, t.step) /\ p \in CallRecords /\ p.by = t.worker /\ p.call = t.call
  BY <1>1 DEF SentOK, CallRecords
<1>4. \A q : ArrivedOf(q)' <=> ArrivedOf(q) \/
               (~Failing(t) /\ t = Transaction(q.by, q.call, LastStep(q.call.op)))
  BY <1>2 DEF ArrivedOf, Transaction
<1> HIDE DEF p
<1>5. ASSUME NEW q \in CallRecords, q.call.op \in DepositOps,
             t = Transaction(q.by, q.call, LastStep(q.call.op))
      PROVE  q = p /\ t.step \in {"sent_token", "deposit_neon"}
  <2>1. t.worker = q.by /\ t.call = q.call /\ t.step = LastStep(q.call.op)
    BY <1>5 DEF Transaction
  <2>2. t.step \in {"sent_token", "deposit_neon"}
    BY <1>5, <2>1 DEF LastStep
  <2>3. q = [by |-> q.by, call |-> q.call]
    BY DEF CallRecords
  <2> QED
    BY <2>1, <2>2, <2>3 DEF p
<1>6. last => /\ t.call.op \in DepositOps /\ t = Transaction(p.by, p.call, LastStep(p.call.op))
              /\ ~ArrivedOf(p)
  <2>1. SUFFICES ASSUME last
                 PROVE  /\ t.call.op \in DepositOps /\ t = Transaction(p.by, p.call, LastStep(p.call.op))
                        /\ ~ArrivedOf(p)
    OBVIOUS
  <2>2. t.call.op \in DepositOps /\ t.step = LastStep(t.call.op)
    BY <1>1, <2>1, LastIsDeposit
  <2>3. t = Transaction(p.by, p.call, LastStep(p.call.op))
    BY <1>3, <2>2
  <2>4. ~Done(t)
    BY <1>1, <2>2, LastIsDeposit DEF TokenInv, ProcessedOnce, DepositInv, SingleOnce, Done
  <2> QED
    BY <2>2, <2>3, <2>4 DEF ArrivedOf
<1>7. \A e, m : Landed(e, m) = {q \in CallRecords : /\ q.call.to = e /\ q.call.mint = m
                                                    /\ q.call.op \in DepositOps /\ ArrivedOf(q)}
  BY DEF Landed, Deposits, DepositOps
<1>8. \A e, m : Landed(e, m)' = {q \in CallRecords : /\ q.call.to = e /\ q.call.mint = m
                                                     /\ q.call.op \in DepositOps /\ ArrivedOf(q)'}
  BY DEF Landed, Deposits, DepositOps, CallRecords, Calls
<1>9. ASSUME NEW e, NEW m, ~last \/ <<e, m>> # <<t.call.to, t.call.mint>>
      PROVE  Landed(e, m)' = Landed(e, m)
  <2>1. \A q \in CallRecords : q.call.to = e /\ q.call.mint = m /\ q.call.op \in DepositOps =>
          (ArrivedOf(q)' <=> ArrivedOf(q))
    BY <1>3, <1>4, <1>5, <1>9
  <2> QED
    BY <1>7, <1>8, <2>1
<1>10. ASSUME last
       PROVE  /\ Landed(t.call.to, t.call.mint)' = Landed(t.call.to, t.call.mint) \cup {p}
              /\ p \notin Landed(t.call.to, t.call.mint)
  <2>1. \A q \in CallRecords : q.call.op \in DepositOps => (ArrivedOf(q)' <=> ArrivedOf(q) \/ q = p)
    BY <1>4, <1>5, <1>6, <1>10
  <2>2. p \in CallRecords /\ p.call.op \in DepositOps /\ p.call = t.call /\ ~ArrivedOf(p)
    BY <1>3, <1>6, <1>10
  <2> QED
    BY <1>7, <1>8, <2>1, <2>2
<1> QED
  BY <1>4, <1>9, <1>10 DEF p

\* What has landed is finite, and each call is counted once.
LEMMA LandedAreAmounts ==
    ASSUME TestsCall, FinitelyMany, NEW e \in Ethers, NEW m \in Tokens
    PROVE  Amounts(Landed(e, m)) /\ Distinct(Landed(e, m))
<1>1. \A q \in CallRecords : q.call.amount \in Nat /\ q = [by |-> q.by, call |-> q.call]
  BY ScriptOfCall DEF CallRecords
<1>2. Landed(e, m) \subseteq CallRecords
  BY DEF Landed, Deposits
<1> QED
  BY <1>1, <1>2 DEF Amounts, Distinct, Same, FinitelyMany

LEMMA LandKeepsDeposits ==
    ASSUME TestsCall, TokenInv, DepositInv, NEW t \in sent, Arrive(t)
    PROVE  DepositInv'
<1> DEFINE p == [by |-> t.worker, call |-> t.call]
           to == t.call.to
           mint == t.call.mint
           last == ~Failing(t) /\ t.step \in {"sent_token", "deposit_neon"}
<1>1. /\ SentOK(t) /\ SingleOK(t) /\ AllSentOK /\ FinitelyMany /\ HistoryOK /\ BalanceOK /\ AllKnown
      /\ SingleOnce /\ SingleLands /\ ReturnedHasArrived /\ BalanceIsSum
  BY DEF TokenInv, AllSentOK, DepositInv, AllKnown
<1>2. /\ \A r \in receipts' : r \in receipts \/ (r.of = t /\ (~Failing(t) => r.ok))
      /\ sent' = sent \ {t} /\ UNCHANGED <<clients, returned, raised>>
  BY LandDone
<1>3. /\ \A e, m : ~last \/ <<e, m>> # <<to, mint>> => Landed(e, m)' = Landed(e, m)
      /\ last => /\ Landed(to, mint)' = Landed(to, mint) \cup {p}
                 /\ p \notin Landed(to, mint)
      /\ \A q : ArrivedOf(q) => ArrivedOf(q)'
  BY LandLanded
<1>4. /\ <<to, mint>> \in Ethers \X Tokens /\ BalanceOK'
      /\ last => Has(to, mint)' = Has(to, mint) + t.call.amount
      /\ \A e \in Ethers, m \in Tokens : ~last \/ <<e, m>> # <<to, mint>> => Has(e, m)' = Has(e, m)
  BY <1>1, LandBalance
<1>5. /\ IsFiniteSet(Busy') /\ IsFiniteSet(returned') /\ IsFiniteSet(raised') /\ HistoryOK'
      /\ \A s \in sent \cup {r.of : r \in receipts} : Known(s)' /\ SingleOK(s)'
  BY <1>1, <1>2, ChainKeepsHistory
<1>6. p.call.amount = t.call.amount /\ t.call.amount \in Nat
  BY <1>1, ScriptOfCall DEF SentOK
<1> HIDE DEF p, last, to, mint
<1>7. ASSUME NEW e \in Ethers, NEW m \in Tokens
      PROVE  IsFiniteSet(Landed(e, m)') /\ Has(e, m)' = Total(Landed(e, m)')
  <2>1. Amounts(Landed(e, m)) /\ Has(e, m) = Total(Landed(e, m)) /\ IsFiniteSet(Landed(e, m))
    BY <1>1, LandedAreAmounts DEF BalanceIsSum, FinitelyMany
  <2>2. CASE ~last \/ <<e, m>> # <<to, mint>>
    <3>1. Landed(e, m)' = Landed(e, m) /\ Has(e, m)' = Has(e, m)
      BY <1>3, <1>4, <2>2
    <3> QED
      BY <2>1, <3>1
  <2>3. CASE last /\ e = to /\ m = mint
    <3>1. Landed(e, m)' = Landed(e, m) \cup {p} /\ p \notin Landed(e, m)
      BY <1>3, <2>3
    <3>2. Has(e, m)' = Has(e, m) + p.call.amount
      BY <1>4, <1>6, <2>3
    <3>3. Amounts(Landed(e, m) \cup {p})
          /\ Total(Landed(e, m) \cup {p}) = Total(Landed(e, m)) + p.call.amount
      BY <1>6, <2>1, <3>1, TotalWith
    <3> QED
      BY <2>1, <3>1, <3>2, <3>3 DEF Amounts
  <2> QED
    BY <2>2, <2>3
<1>8. FinitelyMany'
  BY <1>5, <1>7 DEF FinitelyMany, Ethers, Calls
<1>9. BalanceIsSum'
  <2>1. \A e \in Ethers, m \in Tokens : Has(e, m)' = Total(Landed(e, m))'
    BY <1>7
  <2> QED
    BY <2>1 DEF BalanceIsSum, Ethers, Calls
<1>10. SingleLands'
  <2>1. t.step = "deposit_neon" => ~Failing(t)
    BY <1>1 DEF Failing, SingleOK
  <2> QED
    BY <1>1, <1>2, <2>1 DEF SingleLands
<1>11. SingleOnce'
  BY <1>1, <1>2 DEF SingleOnce
<1>12. AllKnown'
  <2>1. \A s \in sent' \cup {r.of : r \in receipts'} : s \in sent \cup {r.of : r \in receipts}
    BY <1>2
  <2> QED
    BY <1>5, <2>1 DEF AllKnown
<1>13. ReturnedHasArrived'
  BY <1>1, <1>2, <1>3 DEF ReturnedHasArrived
<1> QED
  BY <1>4, <1>5, <1>8, <1>9, <1>10, <1>11, <1>12, <1>13 DEF DepositInv

LEMMA StepDeposits ==
    ASSUME TestsCall, TokenInv, DepositInv, [DepositsNext]_depositVars
    PROVE  DepositInv'
<1>1. ASSUME NEW w \in Workers, WorkerStep(w) PROVE DepositInv'
  BY <1>1, ClientKeepsDeposits
<1>2. ASSUME NEW w \in Workers, NEW c \in left[w], Start(w, c) PROVE DepositInv'
  BY <1>2, StartKeepsDeposits
<1>3. ASSUME NEW t \in sent, Arrive(t) \/ Expire(t) PROVE DepositInv'
  BY <1>3, LandKeepsDeposits, LoseKeepsDeposits
<1>4. CASE UNCHANGED depositVars
  <2>1. UNCHANGED <<balance, sent, receipts, clients, returned, raised>>
    BY <1>4 DEF depositVars, ledger
  <2>2. /\ FinitelyMany /\ HistoryOK /\ BalanceOK /\ AllKnown
        /\ SingleOnce /\ SingleLands /\ ReturnedHasArrived /\ BalanceIsSum
    BY DEF DepositInv
  <2>3. /\ \A e \in Ethers, m \in Tokens : IsFiniteSet(Landed(e, m)')
        /\ BalanceOK' /\ BalanceIsSum' /\ SingleLands'
    BY <2>1, <2>2, SumsStay DEF FinitelyMany
  <2>4. /\ IsFiniteSet(Busy') /\ IsFiniteSet(returned') /\ IsFiniteSet(raised') /\ HistoryOK'
        /\ \A s \in sent \cup {r.of : r \in receipts} : Known(s)' /\ SingleOK(s)'
    BY <2>1, <2>2, ChainKeepsHistory
  <2>5. FinitelyMany' /\ AllKnown' /\ SingleOnce'
    BY <2>1, <2>2, <2>3, <2>4 DEF FinitelyMany, AllKnown, SingleOnce
  <2>6. ReturnedHasArrived'
    <3>1. \A q : ArrivedOf(q)' <=> ArrivedOf(q)
      BY <2>1, LandedStays
    <3> QED
      BY <2>1, <2>2, <3>1 DEF ReturnedHasArrived
  <2> QED
    BY <2>3, <2>4, <2>5, <2>6 DEF DepositInv
<1> QED
  BY <1>1, <1>2, <1>3, <1>4 DEF DepositsNext

LEMMA InitDeposits == TestsCall /\ DepositsInit => DepositInv
<1> SUFFICES ASSUME TestsCall, DepositsInit PROVE DepositInv
  OBVIOUS
<1>1. /\ sent = {} /\ receipts = {} /\ returned = {} /\ raised = {}
      /\ balance = [p \in Ethers \X Tokens |-> -1]
      /\ clients = [w \in Workers |-> AtRest]
  BY DEF DepositsInit, Tokens
<1>2. Busy = {} /\ \A e, m : Landed(e, m) = {}
  BY <1>1 DEF Busy, Landed, ArrivedOf, Done, Deposits, AtRest
<1>3. FinitelyMany
  BY <1>1, <1>2, FS_EmptySet DEF FinitelyMany
<1>4. BalanceOK /\ \A e \in Ethers, m \in Tokens : Has(e, m) = 0
  <2>1. \A p \in Ethers \X Tokens : balance[p] = -1
    BY <1>1
  <2>2. BalanceOK
    BY <1>1, <2>1 DEF BalanceOK
  <2>3. \A e \in Ethers, m \in Tokens : Has(e, m) = 0
    BY <2>1 DEF Has
  <2> QED
    BY <2>2, <2>3
<1>5. BalanceIsSum
  BY <1>2, <1>4, TotalOfNone DEF BalanceIsSum
<1> QED
  BY <1>1, <1>3, <1>4, <1>5
  DEF DepositInv, HistoryOK, AllKnown, SingleOnce, SingleLands, ReturnedHasArrived

(***************************************************************************)
(* A deposit that returned has arrived, and none arrives twice: the        *)
(* balance on a Neon chain is at least the sum of the deposits that        *)
(* returned, and at most that with those that raised or are still at it,   *)
(* with transactions lost, late or refused (evm_loader.py: deposit_neon,   *)
(* deposit_wrapped_sol_from_solana_to_neon,                                *)
(* deposit_neon_like_tokens_from_solana_to_neon).                          *)
(***************************************************************************)
THEOREM DepositsAreMade == DepositsSpec => []DepositsArrive
<1> USE CallsAreCalls
<1>1. TokenInv /\ DepositInv => DepositsArrive
  <2> SUFFICES ASSUME TokenInv, DepositInv, NEW e \in Ethers, NEW m \in Tokens
               PROVE  LET sure  == Deposits(returned, e, m)
                          maybe == Deposits(raised, e, m)
                      IN  /\ Total(sure) <= Has(e, m)
                          /\ Has(e, m) <= Total(sure) + Total(maybe) + Total(Deposits(Busy, e, m))
    BY DEF DepositsArrive, Busy, Has, Tokens
  <2> DEFINE sure == Deposits(returned, e, m)
             maybe == Deposits(raised, e, m)
             busy == Deposits(Busy, e, m)
  <2>1. /\ FinitelyMany /\ HistoryOK /\ AllKnown /\ AllSentOK /\ ClientsOK
        /\ ReturnedHasArrived /\ BalanceIsSum
    BY DEF TokenInv, DepositInv
  <2>2. /\ Busy \subseteq CallRecords /\ returned \subseteq CallRecords
        /\ \A r \in raised : r.by \in Workers /\ r.call \in Calls
    BY <2>1, CallsOfPrograms DEF HistoryOK, ClientsOK, Busy, Working, CallRecords
  <2>3. \A q \in CallRecords : q.call \in Calls /\ q = [by |-> q.by, call |-> q.call]
    BY DEF CallRecords
  <2>4. \A c \in Calls : c.amount \in Nat
    BY ScriptOfCall
  <2>5. sure \subseteq returned /\ maybe \subseteq raised /\ busy \subseteq Busy
    BY DEF Deposits
  <2>6. Amounts(sure) /\ Distinct(sure)
    <3>1. IsFiniteSet(sure)
      BY <2>1, <2>5, FS_Subset DEF FinitelyMany
    <3>2. \A r \in sure : r \in CallRecords
      BY <2>2, <2>5
    <3> HIDE DEF sure
    <3> QED
      BY <2>3, <2>4, <3>1, <3>2 DEF Amounts, Distinct, Same
  <2>7. Amounts(maybe)
    <3>1. IsFiniteSet(maybe)
      BY <2>1, <2>5, FS_Subset DEF FinitelyMany
    <3> HIDE DEF maybe
    <3> QED
      BY <2>2, <2>4, <2>5, <3>1 DEF Amounts
  <2>8. Amounts(busy)
    <3>1. IsFiniteSet(busy)
      BY <2>1, <2>5, FS_Subset DEF FinitelyMany
    <3> HIDE DEF busy
    <3> QED
      BY <2>2, <2>3, <2>4, <2>5, <3>1 DEF Amounts
  <2>9. Amounts(Landed(e, m)) /\ Distinct(Landed(e, m)) /\ Has(e, m) = Total(Landed(e, m))
    BY <2>1, LandedAreAmounts DEF BalanceIsSum
  <2>10. Amounts({}) /\ Total({}) = 0
    BY FS_EmptySet, TotalOfNone DEF Amounts
  <2>11. Covered(sure, Landed(e, m), {}, {})
    <3>1. \A r \in sure : r \in Landed(e, m)
      BY <2>1, <2>2 DEF Deposits, Landed, ReturnedHasArrived, DepositOps
    <3> HIDE DEF sure
    <3> QED
      BY <3>1 DEF Covered, Same
  <2>12. Covered(Landed(e, m), sure, maybe, busy)
    <3> SUFFICES ASSUME NEW p \in Landed(e, m) PROVE \E r \in sure \cup maybe \cup busy : Same(p, r)
      BY DEF Covered
    <3>1. /\ p \in CallRecords /\ p.call.to = e /\ p.call.mint = m /\ p.call.op \in DepositOps
          /\ ArrivedOf(p)
      BY DEF Landed, Deposits, DepositOps
    <3>2. PICK t : Known(t) /\ t.worker = p.by /\ t.call = p.call
      <4>1. PICK r \in receipts : r.of = Transaction(p.by, p.call, LastStep(p.call.op))
        BY <3>1 DEF ArrivedOf, Done
      <4>2. Known(r.of)
        BY <2>1 DEF AllKnown
      <4> QED
        BY <4>1, <4>2 DEF Transaction
    <3>3. \/ p \in Busy \/ p \in returned \/ \E r \in raised : Same(p, r)
      BY <2>3, <3>1, <3>2 DEF Known, IsCurrent, Working, Busy, Same, CallRecords
    <3>4. ASSUME NEW r \in Busy \cup returned \cup raised, Same(p, r)
          PROVE  r \in sure \cup maybe \cup busy
      BY <3>1, <3>4 DEF Same, Deposits, DepositOps
    <3> HIDE DEF sure, maybe, busy
    <3>5. Same(p, p)
      BY DEF Same
    <3> QED
      BY <3>3, <3>4, <3>5
  <2> HIDE DEF sure, maybe, busy
  <2>13. Total(sure) <= Total(Landed(e, m)) + 0 + 0
    BY <2>6, <2>9, <2>10, <2>11, TotalIsCovered
  <2>14. Total(Landed(e, m)) <= Total(sure) + Total(maybe) + Total(busy)
    BY <2>6, <2>7, <2>8, <2>9, <2>12, TotalIsCovered
  <2>15. Total(Landed(e, m)) \in Nat
    BY <2>9, TotalWithout
  <2>16. Total(sure) <= Has(e, m) /\ Has(e, m) <= Total(sure) + Total(maybe) + Total(busy)
    BY <2>9, <2>13, <2>14, <2>15
  <2> QED
    BY <2>16 DEF sure, maybe, busy
<1>2. DepositsInit => TokenInv /\ DepositInv
  BY InitTokens, InitDeposits
<1>3. TokenInv /\ DepositInv /\ [DepositsNext]_depositVars => (TokenInv /\ DepositInv)'
  BY StepTokens, StepDeposits
<1> QED
  BY <1>1, <1>2, <1>3, PTL DEF DepositsSpec
=============================================================================
