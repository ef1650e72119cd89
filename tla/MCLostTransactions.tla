------------------------- MODULE MCLostTransactions -------------------------
(***************************************************************************)
(* One Locust process with a pool smaller than the list of hashes.         *)
(***************************************************************************)
EXTENDS LostTransactions

CONSTANT w1
=============================================================================
