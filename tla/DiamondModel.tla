---------------------------- MODULE DiamondModel ----------------------------
(***************************************************************************)
(* What the EIP-2535 diamond of contracts/EIPs/EIP2535 promises to the     *)
(* callers of its functions: routes, the facet of every selector, which    *)
(* only whole diamondCut transactions change.  Diamond.tla, which keeps    *)
(* the selectors of LibDiamond in a mapping and an array and runs its      *)
(* loops step by step, is shown to implement this module.                  *)
(***************************************************************************)
EXTENDS Naturals, Sequences, FiniteSets

CONSTANTS
    Selectors,      \* bytes4 function selectors
    Facets,         \* addresses of facets
    Zero,           \* address(0)
    This,           \* address(this): its functions are immutable
    Cuts,           \* the arguments FacetCut[] that are passed
    MaxUint16       \* 2^16 - 1

NoRoutes == [s \in Selectors |-> Zero]
Reverted == [reverted |-> TRUE]

VARIABLE routes

-----------------------------------------------------------------------------
\* What a cut asks of the facet that has the selector now.
Permitted(r, cut, s) ==
    CASE cut.action = "Add"     -> /\ r[s] = Zero
                                   /\ Cardinality({t \in Selectors : r[t] # Zero}) < MaxUint16
      [] cut.action = "Replace" -> r[s] \notin {Zero, This, cut.facetAddress}
      [] cut.action = "Remove"  -> r[s] \notin {Zero, This}

\* One cut, selector after selector.
DuringCut(start, cut) ==
    LET after[i \in 0..Len(cut.functionSelectors)] ==
          IF i = 0 THEN start
          ELSE LET s == cut.functionSelectors[i]
                   r == after[i - 1]
               IN  IF r # Reverted /\ Permitted(r, cut, s)
                   THEN [r EXCEPT ![s] = cut.facetAddress]
                   ELSE Reverted
    IN  after

AfterCut(start, cut) == DuringCut(start, cut)[Len(cut.functionSelectors)]

\* A sequence of cuts.
DuringCuts(start, cuts) ==
    LET after[i \in 0..Len(cuts)] ==
          IF i = 0 THEN start
          ELSE IF after[i - 1] = Reverted THEN Reverted
          ELSE AfterCut(after[i - 1], cuts[i])
    IN  after

AfterCuts(start, cuts) == DuringCuts(start, cuts)[Len(cuts)]

Init == routes = NoRoutes

Upgrade ==
    \E cuts \in Cuts :
        /\ AfterCuts(routes, cuts) # Reverted
        /\ routes' = AfterCuts(routes, cuts)

Spec == Init /\ [][Upgrade]_routes
=============================================================================
