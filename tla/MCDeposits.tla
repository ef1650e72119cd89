----------------------------- MODULE MCDeposits -----------------------------
(***************************************************************************)
(* One worker uses its own solana_account; or the workers gw0 and gw10     *)
(* prepare and use their operators, which have the same key.               *)
(***************************************************************************)
EXTENDS Deposits, TLC

CONSTANTS w1, w2, solana, user, a, b

Op(name, key, to, mint, amount) ==
    [op |-> name, key |-> key, to |-> to, mint |-> mint, amount |-> amount]

Depositing == (w1 :> {Op("request_airdrop", solana, a, "NEON", 2),
                      Op("deposit_wrapped_sol", solana, a, "wSOL", 1),
                      Op("deposit_wrapped_sol", solana, b, "wSOL", 1),
                      Op("make_new_user", user, b, "NEON", 1),
                      Op("deposit_neon_like", solana, a, "USDT", 1)})
           @@ (w2 :> {})

Operating == (w1 :> {Op("prepare_operator", operator_keypair(0), a, "NEON", 1),
                     Op("deposit_neon", operator_keypair(0), a, "NEON", 2)})
          @@ (w2 :> {Op("prepare_operator", operator_keypair(10), a, "NEON", 1),
                     Op("send_sol", operator_keypair(10), a, "NEON", 1)})

MCPrograms == {Depositing, Operating}
=============================================================================
