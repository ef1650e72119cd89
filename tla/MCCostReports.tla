---------------------------- MODULE MCCostReports ----------------------------
(***************************************************************************)
(* Two workers, two transactions of one class each, and two deaths.        *)
(***************************************************************************)
EXTENDS CostReports

CONSTANTS w1, w2, erc20
=============================================================================
