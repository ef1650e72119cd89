----------------------------- MODULE MCEvmLoader -----------------------------
(***************************************************************************)
(* Two transactions, of which the EVM refuses one.                         *)
(***************************************************************************)
EXTENDS EvmLoader

CONSTANTS t1, t2, contract
=============================================================================
