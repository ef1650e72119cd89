----------------------------- MODULE MCFunding ------------------------------
(***************************************************************************)
(* Two workers with a bank account that they share, as on mainnet; one     *)
(* with the faucet; and two that send from accounts of their own.          *)
(***************************************************************************)
EXTENDS Funding, TLC

CONSTANTS w1, w2, bankAccount, u, v

GetItem(item, amount) == [op |-> "getitem", item |-> item, amount |-> amount]
Create(amount) == [op |-> "create_account", amount |-> amount]
Restore == [op |-> "restore"]
SendTokens(type, from, to, price) ==
    [op |-> "send_tokens", type |-> type, from |-> from, to |-> to, amount |-> 10, price |-> price]

Paid(payer, first, second) == [bank |-> payer, calls |-> w1 :> first @@ w2 :> second]

MCPrograms ==
    { Paid(bankAccount, {GetItem(1, 100), Restore}, {Create(100)}),
      Paid(None, {GetItem(1, 100), Create(0)}, {}),
      Paid(None, {SendTokens("1559", u, v, None), SendTokens("1559", u, v, 24),
                  SendTokens("legacy", u, v, None)},
                 {[op |-> "deploy", type |-> "none", from |-> v],
                  [op |-> "contract_call", from |-> v, to |-> u]}) }

Growing == <<20, 22>>
=============================================================================
