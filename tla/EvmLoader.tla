------------------------------ MODULE EvmLoader ------------------------------
(***************************************************************************)
(* utils/evm_loader.py: an operator uploads Neon transactions into a holder*)
(* account and executes them, while Solana delivers what it has sent late, *)
(* out of order or not at all.                                             *)
(*                                                                         *)
(* A message is a Solana transaction.  Its signature depends on its data   *)
(* and on the latest block hash alone, and a signature is processed once.  *)
(* The Neon EVM program is outside the repository: it is modelled as the   *)
(* tests of integration/tests/neon_evm see it.                             *)
(***************************************************************************)
EXTENDS Naturals, FiniteSets, EvmInstructions, PythonNone

CONSTANTS
    Txs,          \* signed Neon transactions; each is used by one call to write
    Bad,          \* those that the EVM refuses: a wrong nonce, no funds
    Parts,        \* parts of 920 bytes of each transaction
    Iterations,   \* steps of EVM_STEPS that each takes
    FromAccount,  \* the methods that execute from an account: "account", "noChainId"
    MaxBlocks     \* bound: new block hashes

ASSUME PartsAreSome == Parts \in Nat \ {0} /\ Iterations \in Nat \ {0}
ASSUME MaxBlocksIsNat == MaxBlocks \in Nat
ASSUME MethodsAreTheirs == FromAccount \subseteq {"account", "noChainId"}
ASSUME NoneIsNoTx == None \notin Txs /\ Bad \subseteq Txs

VARIABLES
    holder,     \* the account: its tag, the transaction, its parts, the steps left
    flight,     \* messages that were sent, and may still be processed
    processed,  \* processed messages, with the result that the log shows
    block,      \* the latest block hash
    client,     \* what the test does, and its local variables
    used,       \* transactions that were written, or executed from an instruction
    ran,        \* history: the steps of each transaction that were executed
    own,        \* history: messages sent by the current call
    disturbed,  \* history: a message of another call was processed meanwhile
    trouble     \* history: a confirmation timed out, or a message was one of another call

chain == <<holder, flight, processed, ran, disturbed>>
vars == <<holder, flight, processed, block, client, used, ran, own, disturbed, trouble>>

-----------------------------------------------------------------------------
Offsets == 0..(Parts - 1)

Methods == FromAccount \cup {"instruction"}

Idle == [stage |-> "idle", method |-> None, tx |-> None, index |-> 0, message |-> None,
         written |-> None]

Init ==
    /\ holder = [tag |-> "none", tx |-> None, parts |-> {}, left |-> 0]
    /\ flight = {}
    /\ processed = {}
    /\ block = 0
    /\ client = Idle
    /\ used = {}
    /\ ran = [t \in Txs |-> 0]
    /\ own = {}
    /\ disturbed = FALSE
    /\ trouble = FALSE

At(stage) == client.stage = stage
Resting == client.stage \in {"idle", "written", "executed", "sent", "raised"}

-----------------------------------------------------------------------------
(***************************************************************************)
(* Messages, and the transactions they stand for.                          *)
(***************************************************************************)
Message(kind, tx, n) == [kind |-> kind, tx |-> tx, n |-> n, block |-> block]

Instructions(m) ==
    CASE m.kind = "create" -> {make_CreateAccountWithSeed("operator", "holder"),
                               make_CreateHolderAccount("holder", "operator")}
      [] m.kind = "write" -> {make_WriteHolder("operator", "holder")}
      [] m.kind = "account" -> DefaultBudget("operator", TRUE) \cup
           {make_ExecuteTrxFromAccountDataIterativeOrContinue("operator", "0x35")}
      [] m.kind = "noChainId" -> DefaultBudget("operator", FALSE) \cup
           {make_ExecuteTrxFromAccountDataIterativeOrContinue("operator", "0x36")}
      [] m.kind = "instruction" -> DefaultBudget("operator", FALSE) \cup
           {make_PartialCallOrContinueFromRawEthereumTX("operator", "0x34")}
      [] m.kind = "wholeAccount" -> DefaultBudget("operator", FALSE) \cup
           {make_ExecuteTrxFromAccount("operator", {}, "0x33")}
      [] m.kind = "wholeInstruction" -> DefaultBudget("operator", FALSE) \cup
           {make_ExecuteTrxFromInstruction("operator", "0x3D")}
      [] m.kind = "cancel" -> {make_Cancel("operator")}

(***************************************************************************)
(* The program: the result of a message, and the account after it.  A step *)
(* from an account executes whatever the account holds.                    *)
(***************************************************************************)
Subject(m) == IF m.kind \in FromAccount \cup {"wholeAccount"} THEN holder.tx ELSE m.tx

\* "invalid tag": a transaction that is being executed stays.
MayWrite == holder.tag \in {"holder", "finalized"}

Holds(tx) == holder.tag = "holder" /\ holder.tx = tx /\ holder.parts = Offsets

ExecutesTx(m) == m.kind \notin {"create", "write", "cancel"}

\* A step begins a transaction, or continues the one that is there.
Begins(m) == IF m.kind \in {"instruction", "wholeInstruction"}
             THEN MayWrite /\ ~(holder.tag = "finalized" /\ holder.tx = m.tx)
             ELSE holder.tx # None /\ Holds(holder.tx)
Continues(m) == /\ m.kind \in Methods
                /\ holder.tag = "active"
                /\ holder.tx = Subject(m)

Fails(m) ==
    \/ ~Permitted(Instructions(m), "operator")
    \/ m.kind = "create" /\ holder.tag # "none"
    \/ m.kind = "write" /\ ~MayWrite
    \/ m.kind = "cancel" /\ ~(holder.tag = "active" /\ holder.tx = m.tx)
    \/ ExecutesTx(m) /\ ~Begins(m) /\ ~Continues(m)
    \/ ExecutesTx(m) /\ Begins(m) /\ Subject(m) \in Bad

Created == [tag |-> "holder", tx |-> None, parts |-> {}, left |-> 0]

Written(m) ==
    [tag |-> "holder", tx |-> m.tx, left |-> 0,
     parts |-> {m.n} \cup (IF holder.tag = "holder" /\ holder.tx = m.tx THEN holder.parts ELSE {})]

Finalized(tx) == [tag |-> "finalized", tx |-> tx, parts |-> {}, left |-> 0]

Executed(m) ==
    LET left == IF m.kind \notin Methods THEN 0
                ELSE (IF Continues(m) THEN holder.left ELSE Iterations) - 1
    IN  IF left = 0 THEN Finalized(Subject(m))
        ELSE [tag |-> "active", tx |-> Subject(m), parts |-> {}, left |-> left]

\* The log of the last step has the exit status, or an error of the EVM.
Process(m, result) ==
    /\ processed' = processed \cup {[message |-> m, result |-> result]}
    /\ flight' = flight \ {m}
    /\ disturbed' = (disturbed \/ m \notin own)

Land(m) ==
    /\ \/ Fails(m) /\ Process(m, "err") /\ UNCHANGED <<holder, ran>>
       \/ ~Fails(m) /\ m.kind = "create" /\ Process(m, "ok")
            /\ holder' = Created /\ UNCHANGED ran
       \/ ~Fails(m) /\ m.kind = "write" /\ Process(m, "ok")
            /\ holder' = Written(m) /\ UNCHANGED ran
       \/ ~Fails(m) /\ m.kind = "cancel" /\ Process(m, "ok")
            /\ holder' = Finalized(m.tx) /\ UNCHANGED ran
       \/ /\ ~Fails(m) /\ ExecutesTx(m)
          /\ holder' = Executed(m)
          /\ \E result \in (IF Executed(m).tag = "active" THEN {"ok"}
                            ELSE {"exit_status", "ExitError"}) : Process(m, result)
          /\ ran' = [ran EXCEPT ![Subject(m)] = @ + 1]
    /\ UNCHANGED <<block, client, used, own, trouble>>

\* The block hash of a message expires before it is processed.
Lose(m) ==
    /\ flight' = flight \ {m}
    /\ UNCHANGED <<holder, processed, block, client, used, ran, own, disturbed, trouble>>

NewBlock ==
    /\ block < MaxBlocks
    /\ block' = block + 1
    /\ UNCHANGED <<chain, client, used, own, trouble>>

-----------------------------------------------------------------------------
Processed(m) == \E p \in processed : p.message = m
ResultOf(m) == (CHOOSE p \in processed : p.message = m).result

(***************************************************************************)
(* send_transaction, with a preflight: the node refuses what was processed *)
(* before, and what fails in a simulation.                                 *)
(***************************************************************************)
Refused(m) == Processed(m) \/ Fails(m) \/ ~Signed(Instructions(m), {"operator"})

Send(m, next) ==
    /\ IF Refused(m)
       THEN /\ client' = [client EXCEPT !.stage = "raised", !.message = m]
            /\ trouble' = (trouble \/ (Processed(m) /\ m \notin own))
            /\ UNCHANGED <<flight, own>>
       ELSE /\ client' = next
            /\ flight' = flight \cup {m}
            /\ own' = own \cup {m}
            /\ UNCHANGED trouble
    /\ UNCHANGED <<holder, processed, block, used, ran, disturbed>>

\* Mutant: it gives up the first time only.
GiveUpOnce ==
    /\ client.stage \in {"confirm", "wait"}
    /\ ~trouble
    /\ trouble' = TRUE
    /\ client' = [client EXCEPT !.stage = "raised"]
    /\ UNCHANGED <<chain, block, used, own>>

\* confirm_transaction gives up after a time.
GiveUp ==
    /\ client.stage \in {"confirm", "wait"}
    /\ trouble' = TRUE
    /\ client' = [client EXCEPT !.stage = "raised"]
    /\ UNCHANGED <<chain, block, used, own>>

-----------------------------------------------------------------------------
(***************************************************************************)
(* write_transaction_to_holder_account: the parts are sent one by one, and *)
(* then confirmed one by one.  The test signs a new transaction.           *)
(***************************************************************************)
Call(stage, method, tx) ==
    /\ Resting \/ method = "cancel"
    /\ At("idle") <=> method = "create"
    /\ client.method = "create" => At("sent")
    /\ client' = [Idle EXCEPT !.stage = stage, !.method = method, !.tx = tx,
                              !.written = client.written]
    /\ own' = {}
    /\ disturbed' = (disturbed /\ method \in FromAccount \cup {"wholeAccount"})
    /\ UNCHANGED <<holder, flight, processed, block, ran, trouble>>

\* The fixture holder_acc; a test whose fixture raises does not begin.
CreateHolder ==
    /\ Call("whole", "create", None)
    /\ UNCHANGED used

Write(tx) ==
    /\ tx \notin used
    /\ used' = used \cup {tx}
    /\ Call("part", "write", tx)

SendPart ==
    /\ At("part")
    /\ LET m == Message("write", client.tx, client.index)
       IN  Send(m, [client EXCEPT !.message = m,
                                  !.index = IF client.index + 1 = Parts THEN 0 ELSE @ + 1,
                                  !.stage = IF client.index + 1 = Parts THEN "confirm" ELSE "part"])

Receipt(n) == CHOOSE m \in own : m.n = n

\* Mutant: the last receipt stands for all.
ConfirmLastPart ==
    /\ At("confirm")
    /\ Processed(Receipt(Parts - 1))
    /\ client' = [client EXCEPT !.stage = "written", !.written = client.tx]
    /\ UNCHANGED <<chain, block, used, own, trouble>>

ConfirmPart ==
    /\ At("confirm")
    /\ Processed(Receipt(client.index))
    /\ client' = IF client.index + 1 = Parts
                 THEN [client EXCEPT !.stage = "written", !.written = client.tx]
                 ELSE [client EXCEPT !.index = @ + 1]
    /\ UNCHANGED <<chain, block, used, own, trouble>>

-----------------------------------------------------------------------------
(***************************************************************************)
(* execute_transaction_steps_from_account, ..._no_chain_id and             *)
(* ..._from_instruction: a step, its receipt, until the log says exit.     *)
(***************************************************************************)
StepsFromAccount(method) ==
    /\ At("written")
    /\ Call("step", method, client.written)
    /\ UNCHANGED used

StepsFromInstruction(tx) ==
    /\ tx \notin used
    /\ used' = used \cup {tx}
    /\ Call("step", "instruction", tx)

\* Mutant: every step has the index of the first.
SendStepAgain ==
    /\ At("step")
    /\ LET m == Message(client.method, IF client.method = "instruction" THEN client.tx ELSE None, 0)
       IN  Send(m, [client EXCEPT !.stage = "wait", !.message = m, !.index = @ + 1])

SendStep ==
    /\ At("step")
    /\ LET m == Message(client.method, IF client.method = "instruction" THEN client.tx ELSE None,
                        client.index)
       IN  Send(m, [client EXCEPT !.stage = "wait", !.message = m, !.index = @ + 1])

\* Mutant: the exit status is taken for granted.
CheckStepOnce ==
    /\ At("wait") /\ client.method \in Methods
    /\ Processed(client.message)
    /\ client' = [client EXCEPT !.stage = "executed"]
    /\ UNCHANGED <<chain, block, used, own, trouble>>

CheckStep ==
    /\ At("wait") /\ client.method \in Methods
    /\ Processed(client.message)
    /\ client' = [client EXCEPT !.stage = CASE ResultOf(client.message) = "exit_status" -> "executed"
                                            [] ResultOf(client.message) = "ok" -> "step"
                                            [] OTHER -> "raised"]
    /\ UNCHANGED <<chain, block, used, own, trouble>>

(***************************************************************************)
(* execute_trx_from_instruction, execute_trx_from_account, and send_tx     *)
(* with a Cancel: one transaction, whose receipt is returned as it is.     *)
(***************************************************************************)
WholeFromAccount ==
    /\ At("written")
    /\ Call("whole", "wholeAccount", client.written)
    /\ UNCHANGED used

WholeFromInstruction(tx) ==
    /\ tx \notin used
    /\ used' = used \cup {tx}
    /\ Call("whole", "wholeInstruction", tx)

\* test_cancel_trx: the test sends the first step itself, and then cancels.
Cancel(tx) ==
    /\ At("step") /\ client.method = "instruction" /\ client.index = 1
    /\ tx = client.tx
    /\ Call("whole", "cancel", tx)
    /\ UNCHANGED used

SendWhole ==
    /\ At("whole")
    /\ LET m == Message(client.method, IF client.method = "wholeAccount" THEN None ELSE client.tx, 0)
       IN  Send(m, [client EXCEPT !.stage = "wait", !.message = m])

ReturnWhole ==
    /\ At("wait") /\ client.method \notin Methods
    /\ Processed(client.message)
    /\ client' = [client EXCEPT !.stage = "sent"]
    /\ UNCHANGED <<chain, block, used, own, trouble>>

-----------------------------------------------------------------------------
TestStep ==
    \/ \E tx \in Txs : Write(tx) \/ StepsFromInstruction(tx) \/ WholeFromInstruction(tx) \/ Cancel(tx)
    \/ (\E method \in FromAccount : StepsFromAccount(method)) \/ WholeFromAccount \/ CreateHolder

ClientStep == \/ SendPart \/ ConfirmPart \/ SendStep \/ CheckStep \/ SendWhole \/ ReturnWhole
              \/ GiveUp

NetworkStep == \E m \in flight : Land(m) \/ Lose(m)

Next == TestStep \/ ClientStep \/ NetworkStep \/ NewBlock

Fairness == WF_vars(ClientStep) /\ WF_vars(NetworkStep)

Spec == Init /\ [][Next]_vars /\ Fairness

-----------------------------------------------------------------------------
Kinds == {"create", "write", "cancel", "wholeAccount", "wholeInstruction"} \cup Methods

Messages == [kind : Kinds, tx : Txs \cup {None}, n : Nat, block : 0..MaxBlocks]

Stages == {"idle", "part", "confirm", "written", "step", "whole", "wait",
           "executed", "sent", "raised"}

TypeOK ==
    /\ holder \in [tag : {"none", "holder", "active", "finalized"}, tx : Txs \cup {None},
                   parts : SUBSET Offsets, left : 0..Iterations]
    /\ flight \subseteq Messages
    /\ processed \subseteq [message : Messages, result : {"ok", "err", "exit_status", "ExitError"}]
    /\ block \in 0..MaxBlocks
    /\ client \in [stage : Stages, method : Kinds \cup {None}, tx : Txs \cup {None}, index : Nat,
                   message : Messages \cup {None}, written : Txs \cup {None}]
    /\ used \subseteq Txs
    /\ ran \in [Txs -> Nat]
    /\ own \subseteq Messages
    /\ disturbed \in BOOLEAN
    /\ trouble \in BOOLEAN

(***************************************************************************)
(* When write_transaction_to_holder_account returns, the account holds the *)
(* whole transaction, in whatever order its parts were processed, unless a *)
(* message that an earlier call left behind came in between.               *)
(***************************************************************************)
WriteReturnsWhole == At("written") /\ ~disturbed => Holds(client.tx)

(***************************************************************************)
(* When one of the methods that execute step by step returns, the EVM has  *)
(* executed every step of the transaction it was called for, each once,    *)
(* and the account is final (execute_transaction_steps_from_account etc.). *)
(***************************************************************************)
ReturnsExecuted ==
    At("executed") /\ ~disturbed =>
      /\ ran[client.tx] = Iterations /\ client.index = Iterations
      /\ holder = Finalized(client.tx)

(***************************************************************************)
(* A call raises only for a transaction that the EVM refuses or ends with  *)
(* an error, after a confirmation that timed out, or when Solana takes its *)
(* message for one of an earlier call.  In particular no two steps of one  *)
(* call have the same signature (index), and no step comes too late.       *)
(***************************************************************************)
RaisesHaveCause ==
    At("raised") /\ client.method \notin {"create", "cancel"} =>
      trouble \/ client.tx \in Bad \/ (Processed(client.message) /\ ResultOf(client.message) = "ExitError")

(***************************************************************************)
(* Every call ends, also if its messages are lost: a step without an exit  *)
(* status is followed by another one only as long as the EVM has steps.    *)
(***************************************************************************)
CallsEnd == ~Resting ~> Resting
=============================================================================
