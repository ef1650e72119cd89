----------------------------- MODULE MCDiamond -----------------------------
(***************************************************************************)
(* A diamond of at most three selectors out of four (as if uint16 ended at *)
(* 3), deployed with the cuts of the tests, and cut again at will.         *)
(***************************************************************************)
EXTENDS Diamond

CONSTANTS cut, own, a, b, A, B, NoCode

FC(action, f, ss) == [action |-> action, facetAddress |-> f, functionSelectors |-> ss]

\* What the tests deploy: the cut and ownership facets, or the former alone.
Deployments == { <<FC("Add", CutFacet, <<cut>>), FC("Add", OwnershipFacet, <<own>>)>>,
                 <<FC("Add", CutFacet, <<cut>>)>>,
                 <<FC("Add", A, <<a>>), FC("Add", CutFacet, <<cut>>), FC("Add", A, <<b>>)>> }

\* Upgrades of one facet, legal or not, and with several cuts.
Upgrades ==
    { <<FC("Add", f, ss)>> : f \in {A, This}, ss \in {<<a>>, <<b, a>>, <<a, a>>} }
    \cup { <<FC("Replace", f, ss)>> : f \in {A, B}, ss \in {<<a>>, <<a, b>>} }
    \cup { <<FC("Remove", Zero, ss)>> :
             ss \in {<<cut>>, <<own>>, <<a>>, <<a, b>>, <<a, own>>} }
    \cup { <<FC("Add", NoCode, <<a>>)>>, <<FC("Remove", A, <<a>>)>>,
           <<FC("Add", A, <<>>)>>, <<>>,
           <<FC("Remove", Zero, <<a>>), FC("Add", B, <<a>>)>>,
           <<FC("Add", B, <<b>>), FC("Replace", A, <<a, b>>)>> }

MCCuts == Deployments \cup Upgrades
=============================================================================
