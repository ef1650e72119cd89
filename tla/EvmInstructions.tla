--------------------------- MODULE EvmInstructions ---------------------------
(***************************************************************************)
(* utils/instructions.py: the Solana instructions of the neon_evm tests.   *)
(* An account is named by its part in the instruction; the data that the   *)
(* program reads beside the tag are arguments of the messages in EvmLoader *)
(* and Deposits.                                                           *)
(*                                                                         *)
(* Solana refuses a transaction that is not signed by every account an     *)
(* instruction marks as a signer, and a program fails that changes an      *)
(* account which no instruction marks as writable, or that asks for a      *)
(* signature which is not there.                                           *)
(***************************************************************************)
EXTENDS FiniteSets

CONSTANTS Additional  \* accounts that a Neon transaction touches

Instruction(tag, signers, writable) ==
    [tag |-> tag, signers |-> signers, writable |-> writable]

-----------------------------------------------------------------------------
(***************************************************************************)
(* TransactionWithComputeBudget: the instructions that come first.         *)
(***************************************************************************)
request_units(operator) == Instruction("units", {operator}, {})
request_heap_frame(operator) == Instruction("heap", {operator}, {})
set_compute_units_price(operator) == Instruction("price", {operator}, {})

Budget(operator, units, heap, price) ==
    (IF units THEN {request_units(operator)} ELSE {})
      \cup (IF heap THEN {request_heap_frame(operator)} ELSE {})
      \cup (IF price THEN {set_compute_units_price(operator)} ELSE {})

\* Mutant: no heap is requested.
NoHeapBudget(operator, price) == Budget(operator, TRUE, FALSE, price)

\* The defaults, with a price or without.
DefaultBudget(operator, price) == Budget(operator, TRUE, TRUE, price)

-----------------------------------------------------------------------------
make_WriteHolder(operator, holder) == Instruction("0x26", {operator}, {holder})

(***************************************************************************)
(* make_ExecuteTrxFromInstruction, make_ExecuteTrxFromAccount,             *)
(* make_ExecuteTrxFromAccountDataIterativeOrContinue and                   *)
(* make_PartialCallOrContinueFromRawEthereumTX list the same accounts.     *)
(***************************************************************************)
MakeExecute(tag, operator, signers) ==
    Instruction(tag, {operator} \cup signers,
                {"holder", operator, "treasury", "operatorBalance", "system"}
                  \cup Additional \cup signers)

make_ExecuteTrxFromInstruction(operator, tag) == MakeExecute(tag, operator, {})

make_ExecuteTrxFromAccount(operator, signers, tag) == MakeExecute(tag, operator, signers)

make_ExecuteTrxFromAccountDataIterativeOrContinue(operator, tag) ==
    MakeExecute(tag, operator, {})

make_PartialCallOrContinueFromRawEthereumTX(operator, tag) ==
    MakeExecute(tag, operator, {})

make_Cancel(operator) ==
    Instruction("0x37", {operator}, {"holder", operator, "operatorBalance"} \cup Additional)

-----------------------------------------------------------------------------
make_CreateAccountWithSeed(payer, created) ==
    Instruction("createWithSeed", {payer}, {payer, created})

make_CreateHolderAccount(account, operator) == Instruction("0x24", {operator}, {account})

make_DepositV03(mint, source, pool, balance, contract, operator) ==
    Instruction("0x31", {operator}, {mint, source, pool, balance, contract, operator})

make_CreateAssociatedTokenIdempotent(payer, ata) ==
    Instruction("createIdempotent", {payer}, {payer, ata})

make_CreateBalanceAccount(sender, balance, contract) ==
    Instruction("0x30", {sender}, {sender, balance, contract})

make_OperatorBalanceAccount(operator, operatorBalance) ==
    Instruction("0x3A", {operator}, {operator, "system", operatorBalance})

make_SyncNative(account) == Instruction("sync", {}, {account})

\* make_wSOL: a transfer of the system program, and make_SyncNative.
Transfer(from, to) == Instruction("transfer", {from}, {from, to})

make_wSOL(wallet, ata) == {Transfer(wallet, ata), make_SyncNative(ata)}

-----------------------------------------------------------------------------
(***************************************************************************)
(* A transaction: its instructions and who signed it.  Its first signer    *)
(* pays the fee.                                                           *)
(***************************************************************************)
Signers(instructions) == UNION {i.signers : i \in instructions}

Writable(instructions, payer) == {payer} \cup UNION {i.writable : i \in instructions}

\* sign() raises if the signature of a signer is missing.
Signed(instructions, signers) == Signers(instructions) \subseteq signers

\* The accounts that a program asks to have signed and those it changes: the
\* operator pays the treasury and is paid in Neon, a holder is the operator's.
Needs(tag, payer) ==
    CASE tag \in {"0x3D", "0x33", "0x3E", "0x39", "0x34", "0x35", "0x36"} ->
           [signed  |-> {payer},
            changed |-> {"holder", payer, "treasury", "operatorBalance"} \cup Additional]
      [] tag = "createWithSeed" -> [signed |-> {payer}, changed |-> {payer, "holder"}]
      [] tag = "0x24" -> [signed |-> {payer}, changed |-> {"holder"}]
      [] tag = "0x26" -> [signed |-> {payer}, changed |-> {"holder"}]
      [] tag = "0x37" -> [signed |-> {payer}, changed |-> {"holder", "operatorBalance"}]
      [] tag = "0x31" -> [signed |-> {payer}, changed |-> {"source", "pool", "balance", "contract"}]
      [] tag = "0x30" -> [signed |-> {payer}, changed |-> {"balance", "contract"}]
      [] tag = "0x3A" -> [signed |-> {payer}, changed |-> {"operatorBalance"}]
      [] tag = "createIdempotent" -> [signed |-> {payer}, changed |-> {"source"}]
      [] tag = "transfer" -> [signed |-> {payer}, changed |-> {payer, "source"}]
      [] tag = "sync" -> [signed |-> {}, changed |-> {"source"}]
      [] OTHER -> [signed |-> {}, changed |-> {}]

Executes(i) == i.tag \in {"0x3D", "0x33", "0x3E", "0x39", "0x34", "0x35", "0x36"}

\* The EVM needs the compute units and the heap that the budget requests.
Permitted(instructions, payer) ==
    /\ \A i \in instructions :
         /\ Needs(i.tag, payer).signed \subseteq Signers(instructions)
         /\ Needs(i.tag, payer).changed \subseteq Writable(instructions, payer)
    /\ (\E i \in instructions : Executes(i)) =>
         {"units", "heap"} \subseteq {i.tag : i \in instructions}
=============================================================================
