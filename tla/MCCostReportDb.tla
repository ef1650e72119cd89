--------------------------- MODULE MCCostReportDb ---------------------------
(***************************************************************************)
(* Two jobs of Neon EVM and of the proxy: feature branches, merges to      *)
(* develop and to a version branch, jobs of that branch with another tag   *)
(* of the other service, and GitHub tags.                                  *)
(***************************************************************************)
EXTENDS CostReportDb, TLC

CONSTANTS f, v1x, v11, v12, v13

Run(repo, evm, proxy, branch) ==
    [repo |-> repo, evm |-> evm, proxy |-> proxy, branch |-> branch]

OfBranches == { Run("evm", Latest, Latest, None), Run("proxy", Latest, Latest, None),
            Run("evm", v1x, v1x, v1x), Run("evm", v1x, Latest, v1x) }

MCRuns == OfBranches \cup { Run("evm", f, Latest, None), Run("evm", f, v1x, v1x),
                        Run("proxy", Latest, f, None) }
                 \cup { Run("evm", v, v, None) : v \in GithubTags }

MCVersion == v11 :> 1 @@ v12 :> 2 @@ v13 :> 3

\* Two dApps, of which a job may run one only.
MCReports == {{<<"uniswap", "swap">>, <<"curve", "swap">>}, {<<"uniswap", "swap">>}}

Symmetry == Permutations(Jobs)
=============================================================================
