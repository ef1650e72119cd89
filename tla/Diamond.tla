------------------------------- MODULE Diamond -------------------------------
(***************************************************************************)
(* The EIP-2535 diamond of contracts/EIPs/EIP2535: a contract that looks   *)
(* up the facet of every called function selector, and whose owner adds,   *)
(* replaces and removes selectors with diamondCut.  LibDiamond keeps each  *)
(* selector twice, in a mapping and in an array whose index the mapping    *)
(* repeats; removal moves the last selector into the gap.                  *)
(*                                                                         *)
(* A call of diamondCut is one transaction: a step for every iteration of  *)
(* its loops, and a revert that restores the storage.                      *)
(***************************************************************************)
EXTENDS Naturals, Sequences, FiniteSets

CONSTANTS
    Selectors,      \* bytes4 function selectors
    Facets,         \* the addresses of facets
    Zero,           \* address(0)
    This,           \* address(this): functions of the diamond, immutable
    WithCode,       \* the facets at whose address there is code
    CutSelector, CutFacet,              \* diamondCut and DiamondCutFacet
    OwnershipSelector, OwnershipFacet,  \* transferOwnership, OwnershipFacet
    Users,          \* accounts that may own the diamond
    Interfaces,     \* what DiamondInit.init registers
    Initializers,   \* DiamondInit and DiamondMultiInit
    Cuts,           \* the FacetCut[] arguments that are passed
    MaxUint16       \* 2^16 - 1

FacetCuts == [action : {"Add", "Replace", "Remove"},
              facetAddress : Facets \cup {Zero},
              functionSelectors : Seq(Selectors)]

ASSUME ZeroIsNoFacet == Zero \notin Facets
ASSUME ThisIsNotZero == This # Zero
ASSUME WithCodeAreFacets == WithCode \subseteq Facets
ASSUME CutsAreFacetCuts == Cuts \subseteq Seq(FacetCuts)
ASSUME MaxUint16IsNat == MaxUint16 \in Nat

VARIABLES
    facetOf,        \* facetAddressAndSelectorPosition[selector].facetAddress
    position,       \* facetAddressAndSelectorPosition[selector].selectorPosition
    selectors,      \* the array of selectors
    supported,      \* supportedInterfaces
    owner,          \* contractOwner
    deployed,       \* the constructor has returned
    tx,             \* the call of diamondCut that is executed
    committed       \* the storage that the last transaction left

vars == <<facetOf, position, selectors, supported, owner, deployed, tx, committed>>

-----------------------------------------------------------------------------
Storage == [facetOf |-> facetOf, position |-> position,
            selectors |-> selectors, supported |-> supported]

(***************************************************************************)
(* A call of diamondCut: where it is, the FacetCuts still to be made, the  *)
(* selectors and the facet of the current one, its local selectorCount,    *)
(* and _init.                                                              *)
(***************************************************************************)
NoTx == [stage |-> "none", cuts |-> <<>>, todo |-> <<>>, facet |-> Zero,
         count |-> 0, init |-> Zero]

Begin(cuts, init) == [stage |-> "next", cuts |-> cuts, todo |-> <<>>, facet |-> Zero,
                      count |-> 0, init |-> init]

\* The constructor: setContractOwner, then diamondCut.
Init ==
    /\ facetOf = [s \in Selectors |-> Zero]
    /\ position = [s \in Selectors |-> 0]
    /\ selectors = <<>>
    /\ supported = {}
    /\ owner \in Users
    /\ deployed = FALSE
    /\ tx \in {Begin(cuts, init) : cuts \in Cuts, init \in Initializers \cup {Zero}}
    /\ committed = Storage

\* fallback: the diamond delegates a call to the facet of its selector.
Delegates(s, f) == facetOf[s] = f

\* DiamondCutFacet.diamondCut
DiamondCut(user) ==
    /\ tx = NoTx
    /\ Delegates(CutSelector, CutFacet)
    /\ user = owner
    /\ \E cuts \in Cuts, init \in Initializers \cup {Zero} : tx' = Begin(cuts, init)
    /\ UNCHANGED <<facetOf, position, selectors, supported, owner, deployed, committed>>

\* OwnershipFacet.transferOwnership
TransferOwnership(user) ==
    /\ tx = NoTx
    /\ Delegates(OwnershipSelector, OwnershipFacet)
    /\ user = owner
    /\ owner' \in Users
    /\ UNCHANGED <<facetOf, position, selectors, supported, deployed, tx, committed>>

\* Mutant: a failed diamondCut leaves what it has done so far.
RevertKeeps ==
    /\ tx' = NoTx
    /\ committed' = Storage
    /\ UNCHANGED <<facetOf, position, selectors, supported, owner, deployed>>

Revert ==
    /\ facetOf' = committed.facetOf
    /\ position' = committed.position
    /\ selectors' = committed.selectors
    /\ supported' = committed.supported
    /\ tx' = NoTx
    /\ UNCHANGED <<owner, deployed, committed>>

-----------------------------------------------------------------------------
(***************************************************************************)
(* The loop over the FacetCuts, and the checks that addFunctions,          *)
(* replaceFunctions and removeFunctions begin with.                        *)
(***************************************************************************)
Cut == Head(tx.cuts)

\* enforceHasContractCode: a contract has no code before its constructor ends.
HasCode(f) == f \in WithCode /\ (f = This => deployed)

Accepted(cut) ==
    /\ cut.functionSelectors # <<>>
    /\ IF cut.action = "Remove"
       THEN cut.facetAddress = Zero
       ELSE HasCode(cut.facetAddress)

NextFacetCut ==
    /\ tx.stage = "next"
    /\ tx.cuts # <<>>
    /\ Accepted(Cut)
    /\ tx' = [tx EXCEPT
                !.stage = Cut.action,
                !.cuts  = Tail(tx.cuts),
                !.todo  = Cut.functionSelectors,
                !.facet = Cut.facetAddress,
                !.count = IF Cut.action = "Add"
                          THEN Len(selectors) % (MaxUint16 + 1)
                          ELSE Len(selectors)]
    /\ UNCHANGED <<facetOf, position, selectors, supported, owner, deployed, committed>>

RefuseFacetCut ==
    /\ tx.stage = "next"
    /\ tx.cuts # <<>>
    /\ ~Accepted(Cut)
    /\ Revert

\* The loop over the selectors of a FacetCut.
Selector == Head(tx.todo)

EndLoop ==
    /\ tx.stage \in {"Add", "Replace", "Remove"}
    /\ tx.todo = <<>>
    /\ tx' = [tx EXCEPT !.stage = "next"]
    /\ UNCHANGED <<facetOf, position, selectors, supported, owner, deployed, committed>>

(***************************************************************************)
(* addFunctions.  selectorCount is a uint16: its increment reverts when it *)
(* overflows.                                                              *)
(***************************************************************************)
Adding == tx.stage = "Add" /\ tx.todo # <<>>

MayAdd == facetOf[Selector] = Zero /\ tx.count < MaxUint16

Add ==
    /\ Adding /\ MayAdd
    /\ facetOf' = [facetOf EXCEPT ![Selector] = tx.facet]
    /\ position' = [position EXCEPT ![Selector] = tx.count]
    /\ selectors' = Append(selectors, Selector)
    /\ tx' = [tx EXCEPT !.todo = Tail(@), !.count = @ + 1]
    /\ UNCHANGED <<supported, owner, deployed, committed>>

RefuseAdd == Adding /\ ~MayAdd /\ Revert

(***************************************************************************)
(* replaceFunctions.                                                       *)
(***************************************************************************)
Replacing == tx.stage = "Replace" /\ tx.todo # <<>>

MayReplace == facetOf[Selector] \notin {This, tx.facet, Zero}

Replace ==
    /\ Replacing /\ MayReplace
    /\ facetOf' = [facetOf EXCEPT ![Selector] = tx.facet]
    /\ tx' = [tx EXCEPT !.todo = Tail(@)]
    /\ UNCHANGED <<position, selectors, supported, owner, deployed, committed>>

RefuseReplace == Replacing /\ ~MayReplace /\ Revert

(***************************************************************************)
(* removeFunctions: the last selector moves into the gap, in the array and *)
(* in the mapping, unless the gap is the last place, and the array gets    *)
(* shorter.                                                                *)
(***************************************************************************)
Removing == tx.stage = "Remove" /\ tx.todo # <<>>

\* Mutant: immutable functions are removed as well.
MayRemoveImmutable == facetOf[Selector] # Zero

MayRemove == facetOf[Selector] \notin {Zero, This}

Last == selectors[tx.count]

MoveLast(gap) ==
    [i \in 1..(tx.count - 1) |-> IF i = gap + 1 THEN Last ELSE selectors[i]]

\* Mutant: the mapping is forgotten.
MoveLastInArrayOnly(gap) == position

MoveLastPosition(gap) ==
    IF gap # tx.count - 1 THEN [position EXCEPT ![Last] = gap] ELSE position

Remove ==
    /\ Removing /\ MayRemove
    /\ selectors' = MoveLast(position[Selector])
    /\ position' = [MoveLastPosition(position[Selector]) EXCEPT ![Selector] = 0]
    /\ facetOf' = [facetOf EXCEPT ![Selector] = Zero]
    /\ tx' = [tx EXCEPT !.todo = Tail(@), !.count = @ - 1]
    /\ UNCHANGED <<supported, owner, deployed, committed>>

RefuseRemove == Removing /\ ~MayRemove /\ Revert

(***************************************************************************)
(* initializeDiamondCut, with which the transaction ends: no initializer,  *)
(* DiamondInit.init or DiamondMultiInit.multiInit, whose list of           *)
(* initializers may be empty; an initializer may also revert.              *)
(***************************************************************************)
Cutting == tx.stage = "next" /\ tx.cuts = <<>>

Initialize ==
    /\ Cutting
    /\ \/ supported' = supported
       \/ tx.init # Zero /\ supported' = supported \cup Interfaces
    /\ deployed' = TRUE
    /\ tx' = NoTx
    /\ UNCHANGED <<facetOf, position, selectors, owner>>
    /\ committed' = Storage'

InitializerFails == Cutting /\ tx.init # Zero /\ Revert

-----------------------------------------------------------------------------
Next ==
    \/ \E user \in Users : DiamondCut(user) \/ TransferOwnership(user)
    \/ NextFacetCut \/ RefuseFacetCut \/ EndLoop
    \/ Add \/ RefuseAdd
    \/ Replace \/ RefuseReplace
    \/ Remove \/ RefuseRemove
    \/ Initialize \/ InitializerFails

Spec == Init /\ [][Next]_vars

-----------------------------------------------------------------------------
(***************************************************************************)
(* DiamondLoupeFacet.                                                      *)
(***************************************************************************)
facetFunctionSelectors(f) ==
    LET named[n \in 0..Len(selectors)] ==
          IF n = 0 THEN <<>>
          ELSE IF facetOf[selectors[n]] = f
               THEN Append(named[n - 1], selectors[n])
               ELSE named[n - 1]
    IN  named[Len(selectors)]

\* Mutant: a selector that does not come right after one of its facet makes a
\* new entry.
facetsOfRuns ==
    LET found[n \in 0..Len(selectors)] ==
          IF n = 0 THEN <<>>
          ELSE LET s == selectors[n]
                   f == facetOf[s]
                   k == Len(found[n - 1])
               IN  IF k > 0 /\ facetOf[selectors[n - 1]] = f
                   THEN [found[n - 1] EXCEPT ![k].functionSelectors = Append(@, s)]
                   ELSE Append(found[n - 1],
                               [facetAddress |-> f, functionSelectors |-> <<s>>])
    IN  found[Len(selectors)]

\* facets() finds the entry of a facet among those it has made, or makes one.
facets ==
    LET found[n \in 0..Len(selectors)] ==
          IF n = 0 THEN <<>>
          ELSE LET s == selectors[n]
                   f == facetOf[s]
                   Has(i) == found[n - 1][i].facetAddress = f
               IN  IF \E i \in DOMAIN found[n - 1] : Has(i)
                   THEN [i \in DOMAIN found[n - 1] |->
                           IF Has(i)
                           THEN [found[n - 1][i] EXCEPT !.functionSelectors = Append(@, s)]
                           ELSE found[n - 1][i]]
                   ELSE Append(found[n - 1],
                               [facetAddress |-> f, functionSelectors |-> <<s>>])
    IN  found[Len(selectors)]

facetAddresses ==
    LET found[n \in 0..Len(selectors)] ==
          IF n = 0 THEN <<>>
          ELSE IF \E i \in DOMAIN found[n - 1] : found[n - 1][i] = facetOf[selectors[n]]
               THEN found[n - 1]
               ELSE Append(found[n - 1], facetOf[selectors[n]])
    IN  found[Len(selectors)]

-----------------------------------------------------------------------------
Storages == [facetOf : [Selectors -> Facets \cup {Zero}],
             position : [Selectors -> 0..MaxUint16],
             selectors : Seq(Selectors),
             supported : SUBSET Interfaces]

Calls == [stage : {"none", "next", "Add", "Replace", "Remove"},
          cuts : Seq(FacetCuts), todo : Seq(Selectors),
          facet : Facets \cup {Zero}, count : 0..MaxUint16,
          init : Initializers \cup {Zero}]

TypeOK ==
    /\ Storage \in Storages
    /\ committed \in Storages
    /\ owner \in Users
    /\ deployed \in BOOLEAN
    /\ tx \in Calls

Indexed(st) ==
    /\ \A i \in 1..Len(st.selectors) :
         /\ st.facetOf[st.selectors[i]] # Zero
         /\ st.position[st.selectors[i]] + 1 = i
    /\ \A s \in Selectors :
         st.facetOf[s] # Zero => /\ st.position[s] < Len(st.selectors)
                                 /\ st.selectors[st.position[s] + 1] = s

(***************************************************************************)
(* The mapping and the array of LibDiamond never disagree: a selector has  *)
(* a facet exactly when it is in the array, once, at the index that the    *)
(* mapping keeps for it.                                                   *)
(***************************************************************************)
Index == Indexed(Storage)

(***************************************************************************)
(* The loupe tells the truth about the routes of the fallback:             *)
(* facetFunctionSelectors names each selector of a facet once, and facets  *)
(* and facetAddresses, which group in loops of their own, agree with it.   *)
(***************************************************************************)
LoupeIsExact ==
    /\ \A f \in Facets :
         LET named == facetFunctionSelectors(f) IN
         /\ {named[i] : i \in DOMAIN named} = {s \in Selectors : facetOf[s] = f}
         /\ Len(named) = Cardinality({s \in Selectors : facetOf[s] = f})
    /\ facets = [i \in DOMAIN facetAddresses |->
                   [facetAddress |-> facetAddresses[i],
                    functionSelectors |-> facetFunctionSelectors(facetAddresses[i])]]
    /\ Len(facetAddresses) = Cardinality({facetOf[s] : s \in Selectors} \ {Zero})

(***************************************************************************)
(* Whatever the loops do, callers see whole upgrades only: the routes of   *)
(* the committed storage are those of DiamondModel.tla.                    *)
(***************************************************************************)
Model == INSTANCE DiamondModel WITH routes <- committed.facetOf
ImplementsDiamondModel == Model!Spec

ASSUME RevertedIsNoRoute == Model!Reverted \notin [Selectors -> Facets \cup {Zero}]

(***************************************************************************)
(* A function of the diamond itself keeps its selector for ever, even in a *)
(* transaction that removes and adds it again (replaceFunctions and        *)
(* removeFunctions: immutable functions).                                  *)
(***************************************************************************)
ImmutableStays ==
    [][\A s \in Selectors :
         committed.facetOf[s] = This => committed'.facetOf[s] = This]_vars
=============================================================================
