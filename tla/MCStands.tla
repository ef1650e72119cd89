------------------------------- MODULE MCStands -------------------------------
(***************************************************************************)
(* Events on develop, a feature, a version and pull requests; two runs of  *)
(* two workflows that have the same number, and a later run of the first.  *)
(***************************************************************************)
EXTENDS Stands

CONSTANTS r1, r2, r3

\* github.run_number: r1 and r3 are runs of one workflow, r2 is one of another.
Counted(r) == IF r = r3 THEN 2 ELSE 1

Started(current, head, base) == [current |-> current, head |-> head, base |-> base]

PullRequests == {Started("7/merge", "f1", "develop"), Started("7/merge", "f1", "v1.1.x"),
                 Started("7/merge", "v1.1.x-fix", "v1.1.x")}

TwoEvents == {Started("develop", "", ""), Started("7/merge", "f1", "v1.1.x")}

AllEvents == PullRequests \cup {Started("develop", "", ""), Started("f1", "", ""), Started("v1.1.x", "", "")}

VersionBranches == {"v1.1.x", "v1.1.x-fix"}
Branches == {"f1"} \cup VersionBranches

SomeBranches == [repo \in Repos |-> IF repo = "evm" THEN {"f1"} ELSE {"v1.1.x"}]

\* Two runs at once, with the same number or not, and one with any branches.
MCStarts ==
    {[exists |-> SomeBranches, event |-> [events EXCEPT ![r] = None]] :
       events \in [Runs -> TwoEvents], r \in {r2, r3}}
    \cup {[exists |-> way, event |-> [r \in Runs |-> IF r = r1 THEN e ELSE None]] :
            way \in [Repos -> SUBSET Branches], e \in AllEvents}
=============================================================================
