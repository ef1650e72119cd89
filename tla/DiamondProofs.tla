--------------------------- MODULE DiamondProofs ---------------------------
(***************************************************************************)
(* Proofs about Diamond.tla: its types, the agreement of the mapping and   *)
(* the array, the immutable functions, that an upgrade is atomic           *)
(* (DiamondModel.tla), and that the loupe is exact.                        *)
(***************************************************************************)
EXTENDS Diamond, FiniteSetTheorems, FunctionTheorems, SequenceTheorems,
        WellFoundedInduction, TLAPS

\* A revert restores a consistent storage, and there is nothing to restore
\* between transactions.
Committed ==
    /\ Indexed(committed)
    /\ Len(committed.selectors) <= MaxUint16
    /\ \A s \in Selectors : committed.facetOf[s] = This => facetOf[s] = This

\* addFunctions and removeFunctions count the selectors in a local variable.
Counts ==
    /\ Len(selectors) <= MaxUint16
    /\ tx.stage \in {"Add", "Remove"} => tx.count = Len(selectors)

\* addFunctions and replaceFunctions have refused the address zero.
FacetIsSet == tx.stage \in {"Add", "Replace"} => tx.facet \in Facets

IInv == TypeOK /\ Index /\ Committed /\ Counts /\ FacetIsSet

-----------------------------------------------------------------------------
LEMMA FunctionIsSeq ==
    ASSUME NEW S, NEW n \in Nat, NEW f \in [1..n -> S]
    PROVE  f \in Seq(S) /\ Len(f) = n
OBVIOUS

LEMMA StorageFields ==
    /\ Storage.facetOf = facetOf /\ Storage.position = position
    /\ Storage.selectors = selectors /\ Storage.supported = supported
BY DEF Storage

LEMMA StorageType ==
    Storage \in Storages <=>
        /\ facetOf \in [Selectors -> Facets \cup {Zero}]
        /\ position \in [Selectors -> 0..MaxUint16]
        /\ selectors \in Seq(Selectors)
        /\ supported \in SUBSET Interfaces
<1>1. ASSUME Storage \in Storages
      PROVE  /\ Storage.facetOf \in [Selectors -> Facets \cup {Zero}]
             /\ Storage.position \in [Selectors -> 0..MaxUint16]
             /\ Storage.selectors \in Seq(Selectors)
             /\ Storage.supported \in SUBSET Interfaces
  BY <1>1 DEF Storages
<1>2. QED
  BY <1>1, StorageFields DEF Storage, Storages

LEMMA NoTxType == NoTx \in Calls /\ NoTx.stage = "none"
BY MaxUint16IsNat DEF NoTx, Calls

LEMMA BeginType ==
    ASSUME NEW cuts \in Cuts, NEW init \in Initializers \cup {Zero}
    PROVE  /\ Begin(cuts, init) \in Calls
           /\ Begin(cuts, init).stage = "next"
<1>1. cuts \in Seq(FacetCuts)
  BY CutsAreFacetCuts
<1>2. 0 \in 0..MaxUint16 /\ <<>> \in Seq(Selectors)
  BY MaxUint16IsNat
<1> QED
  BY <1>1, <1>2 DEF Begin, Calls

LEMMA InitIInv == Init => IInv
<1>1. SUFFICES ASSUME Init PROVE IInv
  OBVIOUS
<1>2. /\ facetOf \in [Selectors -> Facets \cup {Zero}]
      /\ position \in [Selectors -> 0..MaxUint16]
      /\ selectors \in Seq(Selectors) /\ Len(selectors) = 0
      /\ supported \in SUBSET Interfaces
      /\ committed = Storage /\ owner \in Users /\ deployed = FALSE
  BY <1>1, MaxUint16IsNat DEF Init
<1>3. tx \in Calls /\ tx.stage = "next"
  BY <1>1, BeginType DEF Init
<1>4. TypeOK
  <2>1. Storage \in Storages
    BY <1>2, StorageType
  <2>2. committed \in Storages
    BY <1>2, <2>1
  <2> QED
    BY <1>2, <1>3, <2>1, <2>2 DEF TypeOK
<1>5. Index
  <2>1. \A s \in Selectors : facetOf[s] = Zero
    BY <1>1 DEF Init
  <2> QED
    BY <1>2, <2>1, StorageFields DEF Index, Indexed
<1>6. Committed
  BY <1>2, <1>5, StorageFields, MaxUint16IsNat DEF Index, Committed
<1> QED
  BY <1>2, <1>3, <1>4, <1>5, <1>6, MaxUint16IsNat DEF IInv, Counts, FacetIsSet

-----------------------------------------------------------------------------
(***************************************************************************)
(* The steps.                                                              *)
(***************************************************************************)
LEMMA RevertIInv ==
    ASSUME IInv, Revert
    PROVE  IInv'
<1>1. /\ facetOf' = committed.facetOf /\ position' = committed.position
      /\ selectors' = committed.selectors /\ supported' = committed.supported
      /\ tx' = NoTx /\ owner' = owner /\ deployed' = deployed
      /\ committed' = committed
  BY DEF Revert
<1>2. committed \in Storages /\ owner \in Users /\ deployed \in BOOLEAN
  BY DEF IInv, TypeOK
<1>3. committed = [facetOf |-> committed.facetOf, position |-> committed.position,
                   selectors |-> committed.selectors, supported |-> committed.supported]
  BY <1>2 DEF Storages
<1>4. Storage' = committed
  BY <1>1, <1>3 DEF Storage
<1>5. TypeOK'
  BY <1>1, <1>2, <1>4, NoTxType DEF TypeOK
<1>6. Index' /\ Committed'
  BY <1>1, <1>4 DEF IInv, Index, Indexed, Committed
<1>7. Counts' /\ FacetIsSet'
  BY <1>1, NoTxType DEF IInv, Committed, Counts, FacetIsSet
<1> QED
  BY <1>5, <1>6, <1>7 DEF IInv

\* Steps that only move the transaction on.
LEMMA QuietIInv ==
    ASSUME IInv,
           UNCHANGED <<facetOf, position, selectors, supported, deployed, committed>>,
           owner' \in Users, tx' \in Calls, Counts', FacetIsSet'
    PROVE  IInv'
<1>1. Storage' = Storage
  BY DEF Storage
<1>2. TypeOK'
  BY <1>1 DEF IInv, TypeOK
<1>3. Index' /\ Committed'
  BY <1>1 DEF IInv, Index, Indexed, Committed
<1> QED
  BY <1>2, <1>3 DEF IInv

LEMMA NextFacetCutIInv ==
    ASSUME IInv, NextFacetCut
    PROVE  IInv'
<1>1. tx \in Calls /\ owner \in Users /\ Len(selectors) \in Nat /\ Len(selectors) <= MaxUint16
  BY StorageType DEF IInv, TypeOK, Counts
<1>2. Cut \in FacetCuts /\ Tail(tx.cuts) \in Seq(FacetCuts)
  BY <1>1 DEF NextFacetCut, Cut, Calls
<1>3. /\ Cut.action \in {"Add", "Replace", "Remove"}
      /\ Cut.facetAddress \in Facets \cup {Zero}
      /\ Cut.functionSelectors \in Seq(Selectors)
  BY <1>2 DEF FacetCuts
<1>4. Len(selectors) % (MaxUint16 + 1) = Len(selectors)
  BY <1>1, MaxUint16IsNat
<1>5. tx' = [tx EXCEPT
                !.stage = Cut.action,
                !.cuts  = Tail(tx.cuts),
                !.todo  = Cut.functionSelectors,
                !.facet = Cut.facetAddress,
                !.count = Len(selectors)]
  BY <1>4 DEF NextFacetCut
<1>6. tx' \in Calls /\ tx'.stage = Cut.action /\ tx'.facet = Cut.facetAddress
      /\ tx'.count = Len(selectors)
  <2>1. tx' = [stage |-> Cut.action, cuts |-> Tail(tx.cuts), todo |-> Cut.functionSelectors,
               facet |-> Cut.facetAddress, count |-> Len(selectors), init |-> tx.init]
    BY <1>1, <1>5, Zenon DEF Calls
  <2> QED
    BY <1>1, <1>2, <1>3, <2>1, MaxUint16IsNat DEF Calls
<1>7. Counts'
  BY <1>1, <1>6 DEF NextFacetCut, Counts
<1>8. FacetIsSet'
  BY <1>3, <1>6, WithCodeAreFacets DEF NextFacetCut, Accepted, HasCode, FacetIsSet
<1> QED
  BY <1>1, <1>6, <1>7, <1>8, QuietIInv DEF NextFacetCut

LEMMA EndLoopIInv ==
    ASSUME IInv, EndLoop
    PROVE  IInv'
<1>1. tx \in Calls /\ owner \in Users
  BY DEF IInv, TypeOK
<1>2. tx' \in Calls /\ tx'.stage = "next"
  BY <1>1 DEF EndLoop, Calls
<1> QED
  BY <1>1, <1>2, QuietIInv DEF EndLoop, IInv, Counts, FacetIsSet

\* What the three loops share: the types of their state and of its next value.
LEMMA LoopTypes ==
    ASSUME IInv, tx.stage \in {"Add", "Replace", "Remove"}, tx.todo # <<>>
    PROVE  /\ facetOf \in [Selectors -> Facets \cup {Zero}]
           /\ position \in [Selectors -> 0..MaxUint16]
           /\ selectors \in Seq(Selectors) /\ Len(selectors) \in Nat
           /\ Selector \in Selectors
           /\ Tail(tx.todo) \in Seq(Selectors)
           /\ tx \in Calls /\ tx.count \in 0..MaxUint16
           /\ tx.facet \in Facets \cup {Zero}
<1>1. tx \in Calls /\ Storage \in Storages
  BY DEF IInv, TypeOK
<1>2. tx.todo \in Seq(Selectors) /\ tx.count \in 0..MaxUint16 /\ tx.facet \in Facets \cup {Zero}
  BY <1>1 DEF Calls
<1>3. Selector \in Selectors /\ Tail(tx.todo) \in Seq(Selectors)
  BY <1>2 DEF Selector
<1> QED
  BY <1>1, <1>2, <1>3, StorageType

LEMMA ReplaceIInv ==
    ASSUME IInv, Replace
    PROVE  IInv'
<1>1. /\ facetOf \in [Selectors -> Facets \cup {Zero}]
      /\ position \in [Selectors -> 0..MaxUint16]
      /\ selectors \in Seq(Selectors)
      /\ Selector \in Selectors /\ Tail(tx.todo) \in Seq(Selectors)
      /\ tx \in Calls /\ tx.facet \in Facets /\ tx.facet # Zero
  BY LoopTypes, ZeroIsNoFacet DEF Replace, Replacing, IInv, FacetIsSet
<1>2. /\ facetOf' = [facetOf EXCEPT ![Selector] = tx.facet]
      /\ position' = position /\ selectors' = selectors /\ supported' = supported
      /\ owner' = owner /\ deployed' = deployed /\ committed' = committed
      /\ tx' = [tx EXCEPT !.todo = Tail(tx.todo)]
      /\ facetOf[Selector] \notin {This, Zero}
  BY DEF Replace, MayReplace
<1>3. tx' \in Calls /\ tx'.stage = tx.stage /\ tx'.count = tx.count /\ tx'.facet = tx.facet
  BY <1>1, <1>2 DEF Calls
<1>4. /\ facetOf' \in [Selectors -> Facets \cup {Zero}]
      /\ \A s \in Selectors : facetOf'[s] # Zero <=> facetOf[s] # Zero
      /\ \A s \in Selectors : facetOf[s] = This => facetOf'[s] = This
  BY <1>1, <1>2
<1>5. TypeOK'
  <2>1. (Storage \in Storages)'
    BY <1>1, <1>2, <1>4, StorageType DEF IInv, TypeOK, Storage, Storages
  <2> QED
    BY <1>2, <1>3, <2>1 DEF IInv, TypeOK
<1>6. Index'
  <2>1. \A i \in 1..Len(selectors) : selectors[i] \in Selectors
    BY <1>1
  <2> QED
    BY <1>2, <1>4, <2>1 DEF IInv, Index, Indexed, Storage
<1>7. Committed' /\ Counts' /\ FacetIsSet'
  BY <1>2, <1>3, <1>4 DEF IInv, Committed, Indexed, Counts, FacetIsSet
<1> QED
  BY <1>5, <1>6, <1>7 DEF IInv

LEMMA AddIInv ==
    ASSUME IInv, Add
    PROVE  IInv'
<1>1. /\ facetOf \in [Selectors -> Facets \cup {Zero}]
      /\ position \in [Selectors -> 0..MaxUint16]
      /\ selectors \in Seq(Selectors) /\ Len(selectors) \in Nat
      /\ Selector \in Selectors /\ Tail(tx.todo) \in Seq(Selectors)
      /\ tx \in Calls /\ tx.facet \in Facets /\ tx.facet # Zero
      /\ tx.count = Len(selectors)
  BY LoopTypes, ZeroIsNoFacet DEF Add, Adding, IInv, FacetIsSet, Counts
<1>2. /\ facetOf' = [facetOf EXCEPT ![Selector] = tx.facet]
      /\ position' = [position EXCEPT ![Selector] = Len(selectors)]
      /\ selectors' = Append(selectors, Selector)
      /\ supported' = supported /\ owner' = owner /\ deployed' = deployed
      /\ committed' = committed
      /\ tx' = [tx EXCEPT !.todo = Tail(tx.todo), !.count = Len(selectors) + 1]
      /\ facetOf[Selector] = Zero /\ Len(selectors) < MaxUint16
  BY <1>1 DEF Add, MayAdd
<1>3. Len(selectors) \in 0..MaxUint16 /\ Len(selectors) + 1 \in 0..MaxUint16
  BY <1>1, <1>2, MaxUint16IsNat
<1>4. tx' \in Calls /\ tx'.stage = tx.stage /\ tx'.count = Len(selectors) + 1 /\ tx'.facet = tx.facet
  BY <1>1, <1>2, <1>3 DEF Calls
<1>5. /\ selectors' \in Seq(Selectors) /\ Len(selectors') = Len(selectors) + 1
      /\ \A i \in 1..Len(selectors) : selectors'[i] = selectors[i]
      /\ selectors'[Len(selectors) + 1] = Selector
  BY <1>1, <1>2
<1>6. TypeOK'
  <2>1. (Storage \in Storages)'
    BY <1>1, <1>2, <1>3, <1>5, StorageType DEF IInv, TypeOK, Storage, Storages
  <2> QED
    BY <1>2, <1>4, <2>1 DEF IInv, TypeOK
<1>7. Index'
  <2>1. /\ \A i \in 1..Len(selectors) :
             /\ selectors[i] \in Selectors
             /\ facetOf[selectors[i]] # Zero /\ position[selectors[i]] + 1 = i
        /\ \A s \in Selectors :
             facetOf[s] # Zero => /\ position[s] < Len(selectors)
                                  /\ selectors[position[s] + 1] = s
    BY <1>1, StorageFields DEF IInv, Index, Indexed
  <2>2. \A i \in 1..Len(selectors) : selectors[i] # Selector
    BY <1>2, <2>1
  <2>3. \A i \in 1..Len(selectors') :
          facetOf'[selectors'[i]] # Zero /\ position'[selectors'[i]] + 1 = i
    <3>1. SUFFICES ASSUME NEW i \in 1..(Len(selectors) + 1)
                   PROVE  facetOf'[selectors'[i]] # Zero /\ position'[selectors'[i]] + 1 = i
      BY <1>5
    <3>2. CASE i \in 1..Len(selectors)
      BY <1>1, <1>2, <1>5, <2>1, <2>2, <3>2
    <3>3. CASE i = Len(selectors) + 1
      BY <1>1, <1>2, <1>5, <3>3
    <3> QED
      BY <1>1, <3>2, <3>3
  <2>4. \A s \in Selectors :
          facetOf'[s] # Zero => position'[s] < Len(selectors') /\ selectors'[position'[s] + 1] = s
    <3>1. SUFFICES ASSUME NEW s \in Selectors, facetOf'[s] # Zero
                   PROVE  position'[s] < Len(selectors') /\ selectors'[position'[s] + 1] = s
      OBVIOUS
    <3>2. CASE s = Selector
      BY <1>1, <1>2, <1>5, <3>2
    <3>3. CASE s # Selector
      <4>1. facetOf'[s] = facetOf[s] /\ position'[s] = position[s] /\ position[s] \in Nat
        BY <1>1, <1>2, <3>3, MaxUint16IsNat
      <4>2. position[s] + 1 \in 1..Len(selectors) /\ selectors[position[s] + 1] = s
        BY <1>1, <2>1, <3>1, <4>1
      <4> QED
        BY <1>1, <1>5, <4>1, <4>2
    <3> QED
      BY <3>2, <3>3
  <2> QED
    BY <2>3, <2>4 DEF Index, Indexed, Storage
<1>8. Committed'
  BY <1>1, <1>2, ThisIsNotZero DEF IInv, Committed, Indexed
<1>9. Counts' /\ FacetIsSet'
  BY <1>1, <1>2, <1>3, <1>4, <1>5 DEF IInv, Counts, FacetIsSet
<1> QED
  BY <1>6, <1>7, <1>8, <1>9 DEF IInv

LEMMA RemoveIInv ==
    ASSUME IInv, Remove
    PROVE  IInv'
<1> DEFINE n == Len(selectors)
           gap == position[Selector]
<1>1. /\ facetOf \in [Selectors -> Facets \cup {Zero}]
      /\ position \in [Selectors -> 0..MaxUint16]
      /\ selectors \in Seq(Selectors) /\ n \in Nat
      /\ Selector \in Selectors /\ Tail(tx.todo) \in Seq(Selectors)
      /\ tx \in Calls /\ tx.count = n
      /\ facetOf[Selector] \notin {Zero, This}
  BY LoopTypes DEF Remove, Removing, MayRemove, IInv, Counts
<1>2. /\ \A i \in 1..n :
           /\ selectors[i] \in Selectors
           /\ facetOf[selectors[i]] # Zero /\ position[selectors[i]] + 1 = i
      /\ \A s \in Selectors :
           facetOf[s] # Zero => /\ position[s] < n /\ position[s] \in Nat
                                /\ selectors[position[s] + 1] = s
  BY <1>1, StorageFields, MaxUint16IsNat DEF IInv, Index, Indexed
<1>3. /\ gap \in Nat /\ gap + 1 \in 1..n /\ selectors[gap + 1] = Selector
      /\ n \in 1..MaxUint16 /\ n - 1 \in Nat
  BY <1>1, <1>2, MaxUint16IsNat DEF IInv, Counts
<1>4. Last = selectors[n] /\ Last \in Selectors /\ position[Last] + 1 = n
      /\ (gap + 1 # n => Last # Selector) /\ (gap + 1 = n => Last = Selector)
  BY <1>1, <1>2, <1>3 DEF Last
<1>5. /\ selectors' = [i \in 1..(n - 1) |-> IF i = gap + 1 THEN Last ELSE selectors[i]]
      /\ facetOf' = [facetOf EXCEPT ![Selector] = Zero]
      /\ supported' = supported /\ owner' = owner /\ deployed' = deployed
      /\ committed' = committed
      /\ tx' = [tx EXCEPT !.todo = Tail(tx.todo), !.count = n - 1]
  BY <1>1 DEF Remove, MoveLast
<1>6. /\ position' \in [Selectors -> 0..MaxUint16]
      /\ position'[Selector] = 0
      /\ Last # Selector => position'[Last] = gap
      /\ \A s \in Selectors : s # Selector /\ s # Last => position'[s] = position[s]
  <2>1. position' = [MoveLastPosition(gap) EXCEPT ![Selector] = 0]
    BY DEF Remove
  <2>2. gap \in 0..MaxUint16 /\ 0 \in 0..MaxUint16
    BY <1>1, MaxUint16IsNat
  <2>3. CASE gap # n - 1
    <3>1. MoveLastPosition(gap) = [position EXCEPT ![Last] = gap]
      BY <1>1, <2>3 DEF MoveLastPosition
    <3> QED
      BY <1>1, <1>3, <1>4, <2>1, <2>2, <3>1
  <2>4. CASE gap = n - 1
    <3>1. MoveLastPosition(gap) = position
      BY <1>1, <2>4 DEF MoveLastPosition
    <3>2. Last = Selector
      BY <1>3, <1>4, <2>4
    <3> QED
      BY <1>1, <2>1, <2>2, <3>1, <3>2
  <2> QED
    BY <2>3, <2>4
<1>7. selectors' \in Seq(Selectors) /\ Len(selectors') = n - 1
  <2>1. selectors' \in [1..(n - 1) -> Selectors]
    BY <1>2, <1>3, <1>4, <1>5
  <2> QED
    BY <1>3, <2>1, FunctionIsSeq
<1>8. tx' \in Calls /\ tx'.stage = tx.stage /\ tx'.count = n - 1 /\ tx'.facet = tx.facet
  <2>1. n - 1 \in 0..MaxUint16
    BY <1>3, MaxUint16IsNat
  <2>2. tx' = [stage |-> tx.stage, cuts |-> tx.cuts, todo |-> Tail(tx.todo),
               facet |-> tx.facet, count |-> n - 1, init |-> tx.init]
    <3>1. tx \in Calls /\ tx' = [tx EXCEPT !.todo = Tail(tx.todo), !.count = n - 1]
      BY <1>1, <1>5
    <3> HIDE DEF n
    <3> QED
      BY <3>1, Zenon DEF Calls
  <2>3. tx.count \in 0..MaxUint16 /\ tx \in Calls /\ Tail(tx.todo) \in Seq(Selectors)
    BY <1>1 DEF Calls
  <2> QED
    BY <2>1, <2>2, <2>3 DEF Calls
<1>9. TypeOK'
  <2>1. (Storage \in Storages)'
    <3>1. facetOf' \in [Selectors -> Facets \cup {Zero}]
      BY <1>1, <1>5
    <3>2. supported' \in SUBSET Interfaces
      BY <1>5, StorageType DEF IInv, TypeOK
    <3> QED
      BY <1>6, <1>7, <3>1, <3>2 DEF Storage, Storages
  <2> QED
    BY <1>5, <1>8, <2>1 DEF IInv, TypeOK
<1>10. Index'
  <2>1. \A i \in 1..(n - 1) : facetOf'[selectors'[i]] # Zero /\ position'[selectors'[i]] + 1 = i
    <3>1. SUFFICES ASSUME NEW i \in 1..(n - 1)
                   PROVE  facetOf'[selectors'[i]] # Zero /\ position'[selectors'[i]] + 1 = i
      OBVIOUS
    <3>2. CASE i = gap + 1
      <4>1. selectors'[i] = Last /\ Last # Selector /\ facetOf[Last] # Zero
        BY <1>2, <1>3, <1>4, <1>5, <3>2
      <4> QED
        BY <1>1, <1>4, <1>5, <1>6, <3>2, <4>1
    <3>3. CASE i # gap + 1
      <4>1. /\ selectors'[i] = selectors[i] /\ selectors[i] \in Selectors
            /\ facetOf[selectors[i]] # Zero /\ position[selectors[i]] + 1 = i
        BY <1>2, <1>3, <1>5, <3>3
      <4>2. selectors[i] # Selector /\ selectors[i] # Last
        BY <1>3, <1>4, <3>3, <4>1
      <4> QED
        BY <1>1, <1>5, <1>6, <4>1, <4>2
    <3> QED
      BY <3>2, <3>3
  <2>2. \A s \in Selectors :
          facetOf'[s] # Zero => position'[s] < n - 1 /\ selectors'[position'[s] + 1] = s
    <3>1. SUFFICES ASSUME NEW s \in Selectors, facetOf'[s] # Zero
                   PROVE  position'[s] < n - 1 /\ selectors'[position'[s] + 1] = s
      OBVIOUS
    <3>2. s # Selector /\ facetOf[s] # Zero
      BY <1>1, <1>5, <3>1
    <3>3. CASE s = Last
      <4>1. position'[s] = gap /\ gap + 1 \in 1..(n - 1)
        BY <1>3, <1>4, <1>6, <3>2, <3>3
      <4> QED
        BY <1>3, <1>5, <3>3, <4>1
    <3>4. CASE s # Last
      <4>1. position'[s] = position[s] /\ position[s] \in Nat /\ position[s] < n
            /\ selectors[position[s] + 1] = s
        BY <1>2, <1>6, <3>2, <3>4
      <4>2. position[s] + 1 \in 1..(n - 1) /\ position[s] + 1 # gap + 1
        BY <1>3, <1>4, <3>2, <3>4, <4>1
      <4> QED
        BY <1>5, <4>1, <4>2
    <3> QED
      BY <3>3, <3>4
  <2> QED
    BY <1>7, <2>1, <2>2 DEF Index, Indexed, Storage
<1>11. Committed'
  BY <1>1, <1>5 DEF IInv, Committed, Indexed
<1>12. Counts'
  BY <1>3, <1>7, <1>8, MaxUint16IsNat DEF IInv, Counts
<1>13. FacetIsSet'
  BY <1>8 DEF IInv, FacetIsSet
<1> QED
  BY <1>9, <1>10, <1>11, <1>12, <1>13 DEF IInv

LEMMA InitializeIInv ==
    ASSUME IInv, Initialize
    PROVE  IInv'
<1>1. /\ facetOf' = facetOf /\ position' = position /\ selectors' = selectors
      /\ owner' = owner /\ deployed' = TRUE /\ tx' = NoTx /\ committed' = Storage'
      /\ supported' \in {supported, supported \cup Interfaces}
  BY DEF Initialize
<1>2. Storage' \in Storages
  <2>1. /\ facetOf \in [Selectors -> Facets \cup {Zero}]
        /\ position \in [Selectors -> 0..MaxUint16]
        /\ selectors \in Seq(Selectors)
        /\ supported' \in SUBSET Interfaces
    BY <1>1, StorageType DEF IInv, TypeOK
  <2> QED
    BY <1>1, <2>1 DEF Storage, Storages
<1>3. TypeOK'
  BY <1>1, <1>2, NoTxType DEF IInv, TypeOK
<1>4. Index'
  BY <1>1 DEF IInv, Index, Indexed, Storage
<1>5. Committed'
  BY <1>1, <1>4 DEF Index, Committed, IInv, Counts, Storage
<1>6. Counts' /\ FacetIsSet'
  BY <1>1, NoTxType DEF IInv, Counts, FacetIsSet
<1> QED
  BY <1>3, <1>4, <1>5, <1>6 DEF IInv

LEMMA NextIInv ==
    ASSUME IInv, [Next]_vars
    PROVE  IInv'
<1>1. ASSUME NEW user \in Users, DiamondCut(user)
      PROVE  IInv'
  <2>1. tx' \in Calls /\ tx'.stage = "next"
    BY <1>1, BeginType DEF DiamondCut
  <2> QED
    BY <1>1, <2>1, QuietIInv DEF DiamondCut, IInv, TypeOK, Counts, FacetIsSet
<1>2. ASSUME NEW user \in Users, TransferOwnership(user)
      PROVE  IInv'
  BY <1>2, QuietIInv DEF TransferOwnership, IInv, TypeOK, Counts, FacetIsSet
<1>3. CASE NextFacetCut
  BY <1>3, NextFacetCutIInv
<1>4. CASE EndLoop
  BY <1>4, EndLoopIInv
<1>5. CASE Add
  BY <1>5, AddIInv
<1>6. CASE Replace
  BY <1>6, ReplaceIInv
<1>7. CASE Remove
  BY <1>7, RemoveIInv
<1>8. CASE Initialize
  BY <1>8, InitializeIInv
<1>9. CASE RefuseFacetCut \/ RefuseAdd \/ RefuseReplace \/ RefuseRemove \/ InitializerFails
  BY <1>9, RevertIInv
     DEF RefuseFacetCut, RefuseAdd, RefuseReplace, RefuseRemove, InitializerFails
<1>10. CASE UNCHANGED vars
  BY <1>10, QuietIInv DEF vars, IInv, TypeOK, Counts, FacetIsSet
<1> QED
  BY <1>1, <1>2, <1>3, <1>4, <1>5, <1>6, <1>7, <1>8, <1>9, <1>10 DEF Next

-----------------------------------------------------------------------------
LEMMA Invariance == Spec => []IInv
BY InitIInv, NextIInv, PTL DEF Spec

(***************************************************************************)
(* The storage of the diamond and the locals of diamondCut keep their      *)
(* types: positions and counts stay within uint16 (LibDiamond).            *)
(***************************************************************************)
THEOREM TypeCorrect == Spec => []TypeOK
<1>1. IInv => TypeOK
  BY DEF IInv
<1> QED
  BY <1>1, Invariance, PTL

(***************************************************************************)
(* However selectors are added and removed, the mapping and the array of   *)
(* LibDiamond describe the same diamond after every iteration              *)
(* (addFunctions, removeFunctions).                                        *)
(***************************************************************************)
THEOREM MappingAndArrayAgree == Spec => []Index
<1>1. IInv => Index
  BY DEF IInv
<1> QED
  BY <1>1, Invariance, PTL

(***************************************************************************)
(* No sequence of upgrades takes a function of the diamond itself away     *)
(* (the checks for immutable functions in replaceFunctions and             *)
(* removeFunctions).                                                       *)
(***************************************************************************)
THEOREM ImmutableFunctionsStay == Spec => ImmutableStays
<1>1. ASSUME IInv, [Next]_vars
      PROVE  [\A s \in Selectors :
                committed.facetOf[s] = This => committed'.facetOf[s] = This]_vars
  <2>1. committed' = committed \/ (committed' = Storage' /\ facetOf' = facetOf)
    BY <1>1 DEF Next, vars, DiamondCut, TransferOwnership, NextFacetCut, RefuseFacetCut,
                EndLoop, Add, RefuseAdd, Replace, RefuseReplace, Remove, RefuseRemove,
                Initialize, InitializerFails, Revert
  <2> QED
    BY <1>1, <2>1 DEF IInv, Committed, Storage
<1> QED
  BY <1>1, Invariance, PTL DEF Spec, ImmutableStays

-----------------------------------------------------------------------------
(***************************************************************************)
(* Induction: of the numbers that lack a property one would be the least.  *)
(***************************************************************************)
LEMMA LeastNumber ==
    ASSUME NEW T \in SUBSET Nat, T # {}
    PROVE  \E n \in T : \A m \in T : n <= m
<1>1. PICK n \in T : \A m \in T : ~(<<m, n>> \in OpToRel(<, Nat))
  BY NatLessThanWellFounded, WFMin
<1>2. \A m \in T : ~(m < n)
  BY <1>1 DEF OpToRel
<1> QED
  BY <1>2

\* A function that is defined from one number to the next.
StepsOn(G, n, S) == G \in [1..n -> [S -> S]]

Follows(f, start, n, S, G) ==
    /\ f \in [0..n -> S]
    /\ f[0] = start
    /\ \A i \in 1..n : f[i] = G[i][f[i - 1]]

LEMMA Recursion ==
    ASSUME NEW S, NEW start \in S, NEW n \in Nat, NEW G, StepsOn(G, n, S)
    PROVE  \E f : Follows(f, start, n, S, G)
<1> USE DEF StepsOn, Follows
<1> DEFINE Upto(k, f) == f[0] = start /\ \A i \in 1..k : f[i] = G[i][f[i - 1]]
           Found(k) == \E f \in [0..k -> S] : Upto(k, f)
           Missing == {k \in 0..n : ~Found(k)}
<1>1. Found(0)
  <2>1. [i \in 0..0 |-> start] \in [0..0 -> S] /\ Upto(0, [i \in 0..0 |-> start])
    OBVIOUS
  <2> QED
    BY <2>1
<1>2. ASSUME NEW k \in 1..n, Found(k - 1)
      PROVE  Found(k)
  <2>1. PICK f \in [0..(k - 1) -> S] : Upto(k - 1, f)
    BY <1>2
  <2> DEFINE g == [i \in 0..k |-> IF i = k THEN G[k][f[k - 1]] ELSE f[i]]
  <2>2. k - 1 \in 0..(k - 1) /\ f[k - 1] \in S /\ G[k] \in [S -> S] /\ G[k][f[k - 1]] \in S
    OBVIOUS
  <2>3. g \in [0..k -> S]
    <3>1. \A i \in 0..k : i # k => i \in 0..(k - 1)
      OBVIOUS
    <3> QED
      BY <2>2, <3>1
  <2>4. g[0] = start
    BY <2>1
  <2>5. ASSUME NEW i \in 1..k
        PROVE  g[i] = G[i][g[i - 1]]
    <3>1. g[i - 1] = f[i - 1]
      OBVIOUS
    <3>2. CASE i = k
      BY <3>1, <3>2
    <3>3. CASE i # k
      BY <2>1, <3>1, <3>3
    <3> QED
      BY <3>2, <3>3
  <2>6. Upto(k, g)
    BY <2>4, <2>5
  <2> QED
    BY <2>3, <2>6
<1>3. SUFFICES ASSUME ~Found(n) PROVE FALSE
  OBVIOUS
<1> HIDE DEF Found
<1>4. PICK k \in Missing : \A m \in Missing : k <= m
  <2>1. Missing \in SUBSET Nat /\ n \in Missing
    BY <1>3
  <2> HIDE DEF Missing
  <2> QED
    BY <2>1, LeastNumber
<1>5. k \in 1..n /\ k - 1 \in 0..n
  BY <1>1
<1>6. Found(k - 1)
  BY <1>4, <1>5
<1> QED
  BY <1>2, <1>5, <1>6

\* ... and there is one only.
InStep(f, g, n) == f[0] = g[0] /\ \A i \in 1..n : f[i - 1] = g[i - 1] => f[i] = g[i]

LEMMA RecursionIsUnique ==
    ASSUME NEW n \in Nat, NEW f, NEW g, InStep(f, g, n)
    PROVE  \A i \in 0..n : f[i] = g[i]
<1> USE DEF InStep
<1> DEFINE Different == {i \in 0..n : f[i] # g[i]}
<1>1. SUFFICES ASSUME Different # {} PROVE FALSE
  OBVIOUS
<1>2. PICK k \in Different : \A m \in Different : k <= m
  <2>1. Different \in SUBSET Nat
    OBVIOUS
  <2> HIDE DEF Different
  <2> QED
    BY <1>1, <2>1, LeastNumber
<1>3. k \in 1..n /\ k - 1 \in 0..n /\ k - 1 \notin Different
  BY <1>2
<1> QED
  BY <1>3

-----------------------------------------------------------------------------
(***************************************************************************)
(* Diamond implements DiamondModel: what the loops have done so far is     *)
(* what the model does with the cuts so far.                               *)
(***************************************************************************)
Routes == [Selectors -> Facets \cup {Zero}]

\* The routes after so many selectors of a cut, and after so many cuts.
LEMMA DuringCutIs ==
    ASSUME NEW start \in Routes, NEW cut \in FacetCuts
    PROVE  /\ Model!DuringCut(start, cut) \in
                [0..Len(cut.functionSelectors) -> Routes \cup {Model!Reverted}]
           /\ Model!DuringCut(start, cut)[0] = start
           /\ \A i \in 1..Len(cut.functionSelectors) :
                LET r == Model!DuringCut(start, cut)[i - 1]
                    s == cut.functionSelectors[i]
                IN  Model!DuringCut(start, cut)[i] =
                      IF r # Model!Reverted /\ Model!Permitted(r, cut, s)
                      THEN [r EXCEPT ![s] = cut.facetAddress]
                      ELSE Model!Reverted
<1> DEFINE n == Len(cut.functionSelectors)
           S == Routes \cup {Model!Reverted}
           Step(i, r) == IF r # Model!Reverted /\ Model!Permitted(r, cut, cut.functionSelectors[i])
                         THEN [r EXCEPT ![cut.functionSelectors[i]] = cut.facetAddress]
                         ELSE Model!Reverted
           G == [i \in 1..n |-> [r \in S |-> Step(i, r)]]
           Eq(f) == f = [i \in 0..n |-> IF i = 0 THEN start ELSE Step(i, f[i - 1])]
           F == CHOOSE f : Eq(f)
<1>1. n \in Nat /\ cut.facetAddress \in Facets \cup {Zero}
      /\ \A i \in 1..n : cut.functionSelectors[i] \in Selectors
  BY DEF FacetCuts
<1>2. \A i \in 1..n, r \in S : Step(i, r) \in S
  BY <1>1 DEF Routes
<1>3. Model!DuringCut(start, cut) = F
  BY DEF Model!DuringCut
<1> HIDE DEF n, S, Step
<1>4. G \in [1..n -> [S -> S]]
  BY <1>2
<1>5. start \in S
  BY DEF S
<1>6. PICK f \in [0..n -> S] : f[0] = start /\ \A i \in 1..n : f[i] = G[i][f[i - 1]]
  <2>1. n \in Nat /\ StepsOn(G, n, S)
    BY <1>1, <1>4 DEF StepsOn
  <2> HIDE DEF G
  <2>2. PICK f : Follows(f, start, n, S, G)
    BY <1>5, <2>1, Recursion, Zenon
  <2> QED
    BY <2>2 DEF Follows
<1>7. \A i \in 1..n : f[i] = Step(i, f[i - 1])
  <2>1. \A i \in 1..n : f[i - 1] \in S
    BY <1>1
  <2> QED
    BY <1>6, <2>1
<1>8. Eq(f)
  <2>1. f = [i \in 0..n |-> f[i]]
    OBVIOUS
  <2>2. \A i \in 0..n : f[i] = IF i = 0 THEN start ELSE Step(i, f[i - 1])
    BY <1>1, <1>6, <1>7
  <2> QED
    BY <2>1, <2>2
<1>9. Eq(F)
  <2> HIDE DEF Eq
  <2> QED
    BY <1>8
<1>10. F[0] = start /\ \A i \in 1..n : F[i] = Step(i, F[i - 1])
  <2> HIDE DEF F
  <2> QED
    BY <1>1, <1>9
<1>11. F \in [0..n -> S]
  <2>1. \A i \in 1..n : f[i - 1] = F[i - 1] => f[i] = F[i]
    BY <1>7, <1>10
  <2>2. F = [i \in 0..n |-> F[i]]
    <3> HIDE DEF F
    <3> QED
      BY <1>9
  <2>3. InStep(f, F, n) /\ n \in Nat
    BY <2>1, <1>1, <1>6, <1>10 DEF InStep
  <2> HIDE DEF F
  <2>4. \A i \in 0..n : f[i] = F[i]
    BY <2>3, RecursionIsUnique, Zenon
  <2> QED
    BY <2>2, <2>4
<1> QED
  BY <1>3, <1>10, <1>11 DEF n, S, Step

Rerouted(r, cut, s) ==
    IF r # Model!Reverted /\ Model!Permitted(r, cut, s)
    THEN [r EXCEPT ![s] = cut.facetAddress]
    ELSE Model!Reverted

LEMMA DuringCutSteps ==
    ASSUME NEW start \in Routes, NEW cut \in FacetCuts
    PROVE  \A i \in 1..Len(cut.functionSelectors) :
             Model!DuringCut(start, cut)[i] =
               Rerouted(Model!DuringCut(start, cut)[i - 1], cut, cut.functionSelectors[i])
BY DuringCutIs DEF Rerouted

LEMMA DuringCutsIs ==
    ASSUME NEW start \in Routes, NEW cuts \in Seq(FacetCuts)
    PROVE  /\ Model!DuringCuts(start, cuts) \in [0..Len(cuts) -> Routes \cup {Model!Reverted}]
           /\ Model!DuringCuts(start, cuts)[0] = start
           /\ \A i \in 1..Len(cuts) :
                Model!DuringCuts(start, cuts)[i] =
                  IF Model!DuringCuts(start, cuts)[i - 1] = Model!Reverted
                  THEN Model!Reverted
                  ELSE Model!AfterCut(Model!DuringCuts(start, cuts)[i - 1], cuts[i])
<1> DEFINE n == Len(cuts)
           S == Routes \cup {Model!Reverted}
           Step(i, r) == IF r = Model!Reverted THEN Model!Reverted
                         ELSE Model!AfterCut(r, cuts[i])
           G == [i \in 1..n |-> [r \in S |-> Step(i, r)]]
           Eq(f) == f = [i \in 0..n |-> IF i = 0 THEN start ELSE Step(i, f[i - 1])]
           F == CHOOSE f : Eq(f)
<1>1. n \in Nat /\ \A i \in 1..n : cuts[i] \in FacetCuts
  OBVIOUS
<1>2. \A i \in 1..n, r \in S : Step(i, r) \in S
  <2>1. ASSUME NEW i \in 1..n, NEW r \in Routes
        PROVE  Model!AfterCut(r, cuts[i]) \in S
    <3>1. cuts[i] \in FacetCuts
      BY <1>1
    <3>2. Model!DuringCut(r, cuts[i]) \in [0..Len(cuts[i].functionSelectors) -> S]
      BY <3>1, DuringCutIs
    <3>3. Len(cuts[i].functionSelectors) \in 0..Len(cuts[i].functionSelectors)
      BY <3>1 DEF FacetCuts
    <3> HIDE DEF S
    <3> QED
      BY <3>2, <3>3 DEF Model!AfterCut
  <2> QED
    BY <2>1
<1>3. Model!DuringCuts(start, cuts) = F
  BY DEF Model!DuringCuts
<1> HIDE DEF n, S, Step
<1>4. G \in [1..n -> [S -> S]]
  BY <1>2
<1>5. start \in S
  BY DEF S
<1>6. PICK f \in [0..n -> S] : f[0] = start /\ \A i \in 1..n : f[i] = G[i][f[i - 1]]
  <2>1. n \in Nat /\ StepsOn(G, n, S)
    BY <1>1, <1>4 DEF StepsOn
  <2> HIDE DEF G
  <2>2. PICK f : Follows(f, start, n, S, G)
    BY <1>5, <2>1, Recursion, Zenon
  <2> QED
    BY <2>2 DEF Follows
<1>7. \A i \in 1..n : f[i] = Step(i, f[i - 1])
  <2>1. \A i \in 1..n : f[i - 1] \in S
    BY <1>1
  <2> QED
    BY <1>6, <2>1
<1>8. Eq(f)
  <2>1. f = [i \in 0..n |-> f[i]]
    OBVIOUS
  <2>2. \A i \in 0..n : f[i] = IF i = 0 THEN start ELSE Step(i, f[i - 1])
    BY <1>1, <1>6, <1>7
  <2> QED
    BY <2>1, <2>2
<1>9. Eq(F)
  <2> HIDE DEF Eq
  <2> QED
    BY <1>8
<1>10. F[0] = start /\ \A i \in 1..n : F[i] = Step(i, F[i - 1])
  <2> HIDE DEF F
  <2> QED
    BY <1>1, <1>9
<1>11. F \in [0..n -> S]
  <2>1. \A i \in 1..n : f[i - 1] = F[i - 1] => f[i] = F[i]
    BY <1>7, <1>10
  <2>2. F = [i \in 0..n |-> F[i]]
    <3> HIDE DEF F
    <3> QED
      BY <1>9
  <2>3. InStep(f, F, n) /\ n \in Nat
    BY <2>1, <1>1, <1>6, <1>10 DEF InStep
  <2> HIDE DEF F
  <2>4. \A i \in 0..n : f[i] = F[i]
    BY <2>3, RecursionIsUnique, Zenon
  <2> QED
    BY <2>2, <2>4
<1> QED
  BY <1>3, <1>10, <1>11 DEF n, S, Step

-----------------------------------------------------------------------------
\* The selectors with a facet are as many as the array has.
LEMMA SelectorsAreCounted ==
    ASSUME TypeOK, Index
    PROVE  Cardinality({s \in Selectors : facetOf[s] # Zero}) = Len(selectors)
<1> DEFINE n == Len(selectors)
           Set == {s \in Selectors : facetOf[s] # Zero}
<1>1. selectors \in Seq(Selectors) /\ n \in Nat
  BY StorageType DEF TypeOK
<1>2. /\ \A i \in 1..n : facetOf[selectors[i]] # Zero /\ position[selectors[i]] + 1 = i
      /\ \A s \in Selectors : facetOf[s] # Zero =>
           position[s] < n /\ selectors[position[s] + 1] = s
      /\ \A s \in Selectors : position[s] \in Nat
  BY StorageFields, StorageType, MaxUint16IsNat DEF TypeOK, Index, Indexed
<1>3. selectors \in Bijection(1..n, Set)
  <2>1. selectors \in [1..n -> Set]
    BY <1>1, <1>2
  <2>2. \A i, j \in 1..n : selectors[i] = selectors[j] => i = j
    BY <1>2
  <2>3. \A s \in Set : \E i \in 1..n : selectors[i] = s
    BY <1>1, <1>2
  <2> HIDE DEF n, Set
  <2> QED
    BY <2>1, <2>2, <2>3 DEF Bijection, Injection, Surjection, IsInjective
<1>4. ExistsBijection(1..n, Set)
  BY <1>3 DEF ExistsBijection
<1>5. IsFiniteSet(1..n) /\ Cardinality(1..n) = n
  BY <1>1, FS_Interval
<1> HIDE DEF Set
<1>6. Cardinality(Set) = n
  BY <1>4, <1>5, FS_Bijection
<1> QED
  BY <1>6 DEF Set

\* What the loops have still to do is the rest of what they were given.
Rest(rest, all, k) ==
    /\ Len(rest) = Len(all) - k
    /\ \A i \in 1..Len(rest) : rest[i] = all[k + i]

Reached(cs, k) == Model!DuringCuts(committed.facetOf, cs)[k]

BeforeCut(cs, k) == tx.stage = "next" /\ Reached(cs, k) = facetOf

InCut(cs, k) ==
    /\ k > 0
    /\ tx.stage = cs[k].action
    /\ tx.facet = cs[k].facetAddress
    /\ tx.stage = "Remove" => tx.facet = Zero
    /\ Reached(cs, k - 1) \in Routes
    /\ \E j \in 0..Len(cs[k].functionSelectors) :
         /\ Rest(tx.todo, cs[k].functionSelectors, j)
         /\ Model!DuringCut(Reached(cs, k - 1), cs[k])[j] = facetOf

Simulates ==
    tx.stage # "none" =>
        \E cs \in Cuts : \E k \in 0..Len(cs) :
            Rest(tx.cuts, cs, k) /\ (BeforeCut(cs, k) \/ InCut(cs, k))

\* Between transactions nothing is undone.
Settled == tx.stage = "none" => facetOf = committed.facetOf

LEMMA RestOfSeq ==
    ASSUME NEW S, NEW all \in Seq(S), NEW rest \in Seq(S), NEW k \in 0..Len(all),
           Rest(rest, all, k)
    PROVE  /\ rest = <<>> => k = Len(all)
           /\ rest # <<>> => /\ k + 1 \in 1..Len(all)
                             /\ Head(rest) = all[k + 1]
                             /\ Rest(Tail(rest), all, k + 1)
<1>1. Len(all) \in Nat /\ Len(rest) \in Nat /\ k \in Nat
  OBVIOUS
<1>2. CASE rest = <<>>
  BY <1>1, <1>2 DEF Rest
<1>3. CASE rest # <<>>
  <2>1. Len(rest) >= 1 /\ Head(rest) = rest[1]
    BY <1>3
  <2>2. Len(Tail(rest)) = Len(rest) - 1 /\ \A i \in 1..Len(Tail(rest)) : Tail(rest)[i] = rest[i + 1]
    BY <1>3
  <2>3. k + 1 \in 1..Len(all) /\ Head(rest) = all[k + 1]
    BY <1>1, <2>1 DEF Rest
  <2>4. \A i \in 1..Len(Tail(rest)) : Tail(rest)[i] = all[k + 1 + i]
    <3> SUFFICES ASSUME NEW i \in 1..Len(Tail(rest))
                 PROVE  Tail(rest)[i] = all[k + 1 + i]
      OBVIOUS
    <3>1. i + 1 \in 1..Len(rest) /\ k + 1 + i = k + (i + 1)
      BY <1>1, <2>2
    <3> QED
      BY <2>2, <3>1 DEF Rest
  <2> QED
    BY <1>1, <1>3, <2>2, <2>3, <2>4 DEF Rest
<1> QED
  BY <1>2, <1>3

LEMMA WholeIsRest ==
    ASSUME NEW S, NEW all \in Seq(S)
    PROVE  Rest(all, all, 0) /\ 0 \in 0..Len(all)
BY DEF Rest

-----------------------------------------------------------------------------
LEMMA CommittedRoutes ==
    ASSUME IInv
    PROVE  committed.facetOf \in Routes /\ facetOf \in Routes
BY StorageType DEF IInv, TypeOK, Storages, Routes

LEMMA ReachedIs ==
    ASSUME IInv, NEW cs \in Cuts
    PROVE  /\ cs \in Seq(FacetCuts)
           /\ Reached(cs, 0) = committed.facetOf
           /\ \A i \in 1..Len(cs) :
                /\ cs[i] \in FacetCuts
                /\ Reached(cs, i) = IF Reached(cs, i - 1) = Model!Reverted THEN Model!Reverted
                                    ELSE Model!AfterCut(Reached(cs, i - 1), cs[i])
<1>1. cs \in Seq(FacetCuts) /\ committed.facetOf \in Routes
  BY CutsAreFacetCuts, CommittedRoutes
<1>2. \A i \in 1..Len(cs) : cs[i] \in FacetCuts
  BY <1>1
<1> QED
  BY <1>1, <1>2, DuringCutsIs DEF Reached

\* A transaction begins with nothing done.
LEMMA BeginSimulates ==
    ASSUME IInv, NEW cs \in Cuts, NEW init,
           committed' = committed, facetOf' = committed.facetOf, tx' = Begin(cs, init)
    PROVE  Simulates'
<1>1. tx'.stage = "next" /\ tx'.cuts = cs
  BY DEF Begin
<1>2. Rest(cs, cs, 0) /\ 0 \in 0..Len(cs)
  BY ReachedIs, WholeIsRest
<1>3. Reached(cs, 0)' = facetOf'
  BY ReachedIs DEF Reached
<1>4. (Rest(tx.cuts, cs, 0) /\ BeforeCut(cs, 0))'
  BY <1>1, <1>2, <1>3 DEF BeforeCut
<1> QED
  BY <1>2, <1>4 DEF Simulates

LEMMA NextFacetCutSimulates ==
    ASSUME IInv, Simulates, NextFacetCut
    PROVE  Simulates'
<1> PICK cs \in Cuts : \E k \in 0..Len(cs) :
       Rest(tx.cuts, cs, k) /\ (BeforeCut(cs, k) \/ InCut(cs, k))
  BY DEF Simulates, NextFacetCut
<1>1. PICK k \in 0..Len(cs) : Rest(tx.cuts, cs, k) /\ (BeforeCut(cs, k) \/ InCut(cs, k))
  OBVIOUS
<1>2. /\ tx \in Calls /\ tx.stage = "next" /\ tx.cuts # <<>> /\ Accepted(Cut)
      /\ committed' = committed /\ facetOf' = facetOf
      /\ tx'.stage = Cut.action /\ tx'.cuts = Tail(tx.cuts)
      /\ tx'.todo = Cut.functionSelectors /\ tx'.facet = Cut.facetAddress
  BY DEF NextFacetCut, IInv, TypeOK, Calls
<1>3. cs \in Seq(FacetCuts) /\ tx.cuts \in Seq(FacetCuts)
  BY <1>2, ReachedIs DEF Calls
<1>4. k + 1 \in 1..Len(cs) /\ Cut = cs[k + 1] /\ Rest(tx'.cuts, cs, k + 1) /\ cs[k + 1] \in FacetCuts
  BY <1>1, <1>2, <1>3, RestOfSeq DEF Cut
<1>5. Cut.action \in {"Add", "Replace", "Remove"} /\ Cut.functionSelectors \in Seq(Selectors)
  BY <1>4 DEF FacetCuts
<1>6. Reached(cs, k) = facetOf
  <2>1. ~InCut(cs, k)
    <3> SUFFICES ASSUME InCut(cs, k) PROVE FALSE
      OBVIOUS
    <3>1. k \in 1..Len(cs) /\ cs[k].action = "next"
      BY <1>2, <1>3 DEF InCut
    <3>2. cs[k] \in FacetCuts
      BY <1>3, <3>1
    <3>3. cs[k].action \in {"Add", "Replace", "Remove"}
      BY <3>2 DEF FacetCuts
    <3> QED
      BY <3>1, <3>3
  <2> QED
    BY <1>1, <2>1 DEF BeforeCut
<1>7. Reached(cs, k)' = facetOf' /\ facetOf' \in Routes
  BY <1>2, <1>6, CommittedRoutes DEF Reached
<1>8. /\ Rest(tx'.todo, cs[k + 1].functionSelectors, 0)
      /\ 0 \in 0..Len(cs[k + 1].functionSelectors)
      /\ Model!DuringCut(facetOf', cs[k + 1])[0] = facetOf'
  BY <1>2, <1>4, <1>5, <1>7, WholeIsRest, DuringCutIs
<1>9. k + 1 - 1 = k /\ k + 1 > 0
  OBVIOUS
<1>10. tx'.stage = "Remove" => tx'.facet = Zero
  BY <1>2 DEF Accepted
<1>11. InCut(cs, k + 1)'
  BY <1>2, <1>4, <1>7, <1>8, <1>9, <1>10 DEF InCut
<1>12. k + 1 \in 0..Len(cs) /\ Rest(tx.cuts, cs, k + 1)'
  BY <1>4
<1> QED
  BY <1>11, <1>12 DEF Simulates

\* Where a loop is.
LEMMA InLoop ==
    ASSUME IInv, Simulates, tx.stage \in {"Add", "Replace", "Remove"}
    PROVE  \E cs \in Cuts : \E k \in 1..Len(cs) :
             /\ Rest(tx.cuts, cs, k) /\ InCut(cs, k)
             /\ cs \in Seq(FacetCuts) /\ cs[k] \in FacetCuts
             /\ cs[k].functionSelectors \in Seq(Selectors)
<1> PICK cs \in Cuts : \E k \in 0..Len(cs) :
       Rest(tx.cuts, cs, k) /\ (BeforeCut(cs, k) \/ InCut(cs, k))
  BY DEF Simulates
<1>1. PICK k \in 0..Len(cs) : Rest(tx.cuts, cs, k) /\ (BeforeCut(cs, k) \/ InCut(cs, k))
  OBVIOUS
<1>2. InCut(cs, k)
  BY <1>1 DEF BeforeCut
<1>3. k \in 1..Len(cs)
  BY <1>2 DEF InCut
<1>4. cs \in Seq(FacetCuts) /\ cs[k] \in FacetCuts
  BY <1>3, ReachedIs
<1>5. cs[k].functionSelectors \in Seq(Selectors)
  BY <1>4 DEF FacetCuts
<1> QED
  BY <1>1, <1>2, <1>3, <1>4, <1>5

LEMMA EndLoopSimulates ==
    ASSUME IInv, Simulates, EndLoop
    PROVE  Simulates'
<1>1. /\ tx \in Calls /\ tx.stage \in {"Add", "Replace", "Remove"} /\ tx.todo = <<>>
      /\ committed' = committed /\ facetOf' = facetOf
      /\ tx'.stage = "next" /\ tx'.cuts = tx.cuts
  BY DEF EndLoop, IInv, TypeOK, Calls
<1> PICK cs \in Cuts : \E k \in 1..Len(cs) :
       /\ Rest(tx.cuts, cs, k) /\ InCut(cs, k)
       /\ cs \in Seq(FacetCuts) /\ cs[k] \in FacetCuts
       /\ cs[k].functionSelectors \in Seq(Selectors)
  BY <1>1, InLoop
<1>2. PICK k \in 1..Len(cs) :
        /\ Rest(tx.cuts, cs, k) /\ InCut(cs, k)
        /\ cs \in Seq(FacetCuts) /\ cs[k] \in FacetCuts
        /\ cs[k].functionSelectors \in Seq(Selectors)
  OBVIOUS
<1>3. PICK j \in 0..Len(cs[k].functionSelectors) :
        /\ Rest(tx.todo, cs[k].functionSelectors, j)
        /\ Model!DuringCut(Reached(cs, k - 1), cs[k])[j] = facetOf
  BY <1>2 DEF InCut
<1>4. j = Len(cs[k].functionSelectors)
  <2>1. tx.todo \in Seq(Selectors)
    BY <1>1 DEF Calls
  <2> QED
    BY <1>1, <1>2, <1>3, <2>1, RestOfSeq
<1>5. Reached(cs, k - 1) # Model!Reverted
  BY <1>2, RevertedIsNoRoute DEF InCut, Routes
<1>6. Reached(cs, k) = facetOf
  BY <1>2, <1>3, <1>4, <1>5, ReachedIs DEF Model!AfterCut
<1>7. (Rest(tx.cuts, cs, k) /\ BeforeCut(cs, k))'
  BY <1>1, <1>2, <1>6 DEF BeforeCut, Reached
<1>8. k \in 0..Len(cs)
  OBVIOUS
<1> QED
  BY <1>7, <1>8 DEF Simulates

\* The model counts as the module of finite sets does.
LEMMA SameCardinality ==
    ASSUME NEW S
    PROVE  Model!Cardinality(S) = Cardinality(S)
BY DEF Model!Cardinality, Cardinality

\* An iteration of a loop: the model permits what the code permits.
LEMMA LoopSimulates ==
    ASSUME IInv, Simulates, tx.stage \in {"Add", "Replace", "Remove"}, tx.todo # <<>>,
           \A cut : cut.action = tx.stage /\ cut.facetAddress = tx.facet
                      => Model!Permitted(facetOf, cut, Selector),
           facetOf' = [facetOf EXCEPT ![Selector] =
                         IF tx.stage = "Remove" THEN Zero ELSE tx.facet],
           tx'.stage = tx.stage, tx'.cuts = tx.cuts, tx'.facet = tx.facet,
           tx'.todo = Tail(tx.todo), committed' = committed
    PROVE  Simulates'
<1> PICK cs \in Cuts : \E k \in 1..Len(cs) :
       /\ Rest(tx.cuts, cs, k) /\ InCut(cs, k)
       /\ cs \in Seq(FacetCuts) /\ cs[k] \in FacetCuts
       /\ cs[k].functionSelectors \in Seq(Selectors)
  BY InLoop
<1>1. PICK k \in 1..Len(cs) :
        /\ Rest(tx.cuts, cs, k) /\ InCut(cs, k)
        /\ cs \in Seq(FacetCuts) /\ cs[k] \in FacetCuts
        /\ cs[k].functionSelectors \in Seq(Selectors)
  OBVIOUS
<1> DEFINE names == cs[k].functionSelectors
           r0 == Reached(cs, k - 1)
           during == Model!DuringCut(r0, cs[k])
<1>2. PICK j \in 0..Len(names) : Rest(tx.todo, names, j) /\ during[j] = facetOf
  BY <1>1 DEF InCut
<1>3. /\ tx.stage = cs[k].action /\ tx.facet = cs[k].facetAddress
      /\ tx.stage = "Remove" => tx.facet = Zero
      /\ r0 \in Routes /\ k > 0
  BY <1>1 DEF InCut
<1>4. j + 1 \in 1..Len(names) /\ Selector = names[j + 1] /\ Rest(tx'.todo, names, j + 1)
  <2>1. tx.todo \in Seq(Selectors)
    BY DEF IInv, TypeOK, Calls
  <2> QED
    BY <1>1, <1>2, <2>1, RestOfSeq DEF Selector
<1>5. facetOf # Model!Reverted /\ Model!Permitted(facetOf, cs[k], Selector)
  <2>1. facetOf # Model!Reverted
    BY CommittedRoutes, RevertedIsNoRoute DEF Routes
  <2> QED
    BY <1>3, <2>1
<1>6. facetOf' = [facetOf EXCEPT ![Selector] = cs[k].facetAddress]
  BY <1>3
<1>7. during[j + 1] = facetOf'
  <2>1. \A i \in 1..Len(names) : during[i] = Rerouted(during[i - 1], cs[k], names[i])
    BY <1>1, <1>3, DuringCutSteps
  <2>2. during[j + 1 - 1] = facetOf
    BY <1>2
  <2> HIDE DEF during, names
  <2>3. during[j + 1] = Rerouted(facetOf, cs[k], Selector)
    BY <1>4, <2>1, <2>2
  <2> QED
    BY <1>5, <1>6, <2>3, Zenon DEF Rerouted
<1>8. InCut(cs, k)'
  <2>1. Reached(cs, k - 1)' = r0
    BY DEF Reached
  <2>2. j + 1 \in 0..Len(names)
    BY <1>4
  <2> QED
    BY <1>3, <1>4, <1>7, <2>1, <2>2 DEF InCut
<1>9. k \in 0..Len(cs) /\ Rest(tx.cuts, cs, k)'
  BY <1>1
<1> QED
  BY <1>8, <1>9 DEF Simulates

LEMMA AddSimulates ==
    ASSUME IInv, Simulates, Add
    PROVE  Simulates'
<1>1. /\ tx \in Calls /\ tx.stage = "Add" /\ tx.todo # <<>> /\ MayAdd
      /\ facetOf' = [facetOf EXCEPT ![Selector] = tx.facet]
      /\ tx' = [tx EXCEPT !.todo = Tail(@), !.count = @ + 1]
      /\ committed' = committed
  BY DEF Add, Adding, IInv, TypeOK
<1>2. tx'.stage = tx.stage /\ tx'.cuts = tx.cuts /\ tx'.facet = tx.facet /\ tx'.todo = Tail(tx.todo)
  BY <1>1 DEF Calls
<1>3. ASSUME NEW cut, cut.action = tx.stage, cut.facetAddress = tx.facet
      PROVE  Model!Permitted(facetOf, cut, Selector)
  <2>1. facetOf[Selector] = Zero /\ Model!Cardinality({t \in Selectors : facetOf[t] # Zero}) < MaxUint16
    BY <1>1, SelectorsAreCounted, SameCardinality DEF MayAdd, IInv, Counts
  <2> QED
    BY <1>1, <1>3, <2>1 DEF Model!Permitted
<1> QED
  BY <1>1, <1>2, <1>3, LoopSimulates

LEMMA ReplaceSimulates ==
    ASSUME IInv, Simulates, Replace
    PROVE  Simulates'
<1>1. /\ tx \in Calls /\ tx.stage = "Replace" /\ tx.todo # <<>> /\ MayReplace
      /\ facetOf' = [facetOf EXCEPT ![Selector] = tx.facet]
      /\ tx' = [tx EXCEPT !.todo = Tail(@)]
      /\ committed' = committed
  BY DEF Replace, Replacing, IInv, TypeOK
<1>2. tx'.stage = tx.stage /\ tx'.cuts = tx.cuts /\ tx'.facet = tx.facet /\ tx'.todo = Tail(tx.todo)
  BY <1>1 DEF Calls
<1>3. ASSUME NEW cut, cut.action = tx.stage, cut.facetAddress = tx.facet
      PROVE  Model!Permitted(facetOf, cut, Selector)
  BY <1>1, <1>3 DEF Model!Permitted, MayReplace
<1> QED
  BY <1>1, <1>2, <1>3, LoopSimulates

LEMMA RemoveSimulates ==
    ASSUME IInv, Simulates, Remove
    PROVE  Simulates'
<1>1. /\ tx \in Calls /\ tx.stage = "Remove" /\ tx.todo # <<>> /\ MayRemove
      /\ facetOf' = [facetOf EXCEPT ![Selector] = Zero]
      /\ tx' = [tx EXCEPT !.todo = Tail(@), !.count = @ - 1]
      /\ committed' = committed
  BY DEF Remove, Removing, IInv, TypeOK
<1>2. tx'.stage = tx.stage /\ tx'.cuts = tx.cuts /\ tx'.facet = tx.facet /\ tx'.todo = Tail(tx.todo)
  BY <1>1 DEF Calls
<1>3. ASSUME NEW cut, cut.action = tx.stage, cut.facetAddress = tx.facet
      PROVE  Model!Permitted(facetOf, cut, Selector)
  BY <1>1, <1>3 DEF Model!Permitted, MayRemove
<1> QED
  BY <1>1, <1>2, <1>3, LoopSimulates

LEMMA InitSimulates == Init => Simulates
<1> SUFFICES ASSUME Init PROVE Simulates
  OBVIOUS
<1> USE InitIInv
<1>1. PICK cs \in Cuts, init \in Initializers \cup {Zero} : tx = Begin(cs, init)
  BY DEF Init
<1>2. tx.stage = "next" /\ tx.cuts = cs
  BY <1>1 DEF Begin
<1>3. Rest(cs, cs, 0) /\ 0 \in 0..Len(cs)
  BY ReachedIs, WholeIsRest
<1>4. Reached(cs, 0) = facetOf
  BY ReachedIs, StorageFields DEF Init
<1> QED
  BY <1>2, <1>3, <1>4 DEF Simulates, BeforeCut

LEMMA NextSimulates ==
    ASSUME IInv, Simulates, Settled, [Next]_vars
    PROVE  Simulates'
<1>1. ASSUME NEW user \in Users, DiamondCut(user)
      PROVE  Simulates'
  <2>1. PICK cs \in Cuts, init \in Initializers \cup {Zero} : tx' = Begin(cs, init)
    BY <1>1 DEF DiamondCut
  <2>2. committed' = committed /\ facetOf' = facetOf /\ tx = NoTx
    BY <1>1 DEF DiamondCut
  <2>3. Rest(cs, cs, 0) /\ 0 \in 0..Len(cs)
    BY ReachedIs, WholeIsRest
  <2>4. facetOf = committed.facetOf
    BY <2>2, NoTxType DEF Settled
  <2> QED
    BY <2>1, <2>2, <2>4, BeginSimulates
<1>2. CASE NextFacetCut
  BY <1>2, NextFacetCutSimulates
<1>3. CASE EndLoop
  BY <1>3, EndLoopSimulates
<1>4. CASE Add
  BY <1>4, AddSimulates
<1>5. CASE Replace
  BY <1>5, ReplaceSimulates
<1>6. CASE Remove
  BY <1>6, RemoveSimulates
<1>7. CASE (\E user \in Users : TransferOwnership(user)) \/ UNCHANGED vars
  <2>1. tx' = tx /\ facetOf' = facetOf /\ committed' = committed
    BY <1>7 DEF TransferOwnership, vars
  <2> QED
    BY <2>1 DEF Simulates, BeforeCut, InCut, Reached
<1>8. CASE Initialize \/ RefuseFacetCut \/ RefuseAdd \/ RefuseReplace \/ RefuseRemove
           \/ InitializerFails
  <2>1. tx' = NoTx
    BY <1>8 DEF Initialize, RefuseFacetCut, RefuseAdd, RefuseReplace, RefuseRemove,
                InitializerFails, Revert
  <2> QED
    BY <2>1, NoTxType DEF Simulates
<1> QED
  BY <1>1, <1>2, <1>3, <1>4, <1>5, <1>6, <1>7, <1>8 DEF Next

LEMMA InitSettled == Init => Settled
BY StorageFields DEF Init, Settled

LEMMA NextSettled ==
    ASSUME IInv, IInv', Settled, [Next]_vars
    PROVE  Settled'
<1>1. ASSUME NEW user \in Users, DiamondCut(user)
      PROVE  Settled'
  BY <1>1, BeginType DEF DiamondCut, Settled
<1>2. CASE NextFacetCut \/ EndLoop \/ Add \/ Replace \/ Remove
  <2>1. tx'.stage # "none"
    <3>1. tx \in Calls
      BY DEF IInv, TypeOK
    <3>2. CASE NextFacetCut
      <4>1. Cut \in FacetCuts
        BY <3>1, <3>2 DEF NextFacetCut, Cut, Calls
      <4>2. Cut.action # "none"
        BY <4>1 DEF FacetCuts
      <4> QED
        BY <3>1, <3>2, <4>2 DEF NextFacetCut, Calls
    <3>3. CASE EndLoop \/ Add \/ Replace \/ Remove
      BY <3>1, <3>3 DEF EndLoop, Add, Replace, Remove, Adding, Replacing, Removing, Calls
    <3> QED
      BY <1>2, <3>2, <3>3
  <2> QED
    BY <2>1 DEF Settled
<1>3. CASE (\E user \in Users : TransferOwnership(user)) \/ UNCHANGED vars
  BY <1>3 DEF TransferOwnership, vars, Settled
<1>4. CASE Initialize
  <2>1. committed' = Storage' /\ Storage'.facetOf = facetOf'
    BY <1>4 DEF Initialize, Storage
  <2> QED
    BY <2>1 DEF Settled
<1>5. CASE RefuseFacetCut \/ RefuseAdd \/ RefuseReplace \/ RefuseRemove \/ InitializerFails
  BY <1>5 DEF RefuseFacetCut, RefuseAdd, RefuseReplace, RefuseRemove, InitializerFails,
              Revert, Settled
<1> QED
  BY <1>1, <1>2, <1>3, <1>4, <1>5 DEF Next

\* The end of a transaction is an upgrade by all of its cuts.
LEMMA InitializeUpgrades ==
    ASSUME IInv, Simulates, Initialize
    PROVE  Model!Upgrade
<1>1. tx.stage = "next" /\ tx.cuts = <<>> /\ tx \in Calls /\ committed'.facetOf = facetOf
  <2>1. committed' = Storage' /\ Storage'.facetOf = facetOf' /\ facetOf' = facetOf
    BY DEF Initialize, Storage
  <2> QED
    BY <2>1 DEF Initialize, Cutting, IInv, TypeOK
<1> PICK cs \in Cuts : \E k \in 0..Len(cs) :
       Rest(tx.cuts, cs, k) /\ (BeforeCut(cs, k) \/ InCut(cs, k))
  BY <1>1 DEF Simulates
<1>2. PICK k \in 0..Len(cs) : Rest(tx.cuts, cs, k) /\ (BeforeCut(cs, k) \/ InCut(cs, k))
  OBVIOUS
<1>3. cs \in Seq(FacetCuts) /\ tx.cuts \in Seq(FacetCuts)
  BY <1>1, ReachedIs DEF Calls
<1>4. k = Len(cs)
  BY <1>1, <1>2, <1>3, RestOfSeq
<1>5. Reached(cs, k) = facetOf
  <2>1. ~InCut(cs, k)
    <3> SUFFICES ASSUME InCut(cs, k) PROVE FALSE
      OBVIOUS
    <3>1. k \in 1..Len(cs) /\ cs[k].action = "next"
      BY <1>1, <1>3 DEF InCut
    <3>2. cs[k] \in FacetCuts
      BY <1>3, <3>1
    <3>3. cs[k].action \in {"Add", "Replace", "Remove"}
      BY <3>2 DEF FacetCuts
    <3> QED
      BY <3>1, <3>3
  <2> QED
    BY <1>2, <2>1 DEF BeforeCut
<1>6. Model!AfterCuts(committed.facetOf, cs) = facetOf
  BY <1>4, <1>5 DEF Reached, Model!AfterCuts
<1>7. facetOf # Model!Reverted
  BY CommittedRoutes, RevertedIsNoRoute DEF Routes
<1> QED
  BY <1>1, <1>6, <1>7 DEF Model!Upgrade

LEMMA StepUpgrades ==
    ASSUME IInv, Simulates, [Next]_vars
    PROVE  [Model!Upgrade]_(committed.facetOf)
<1>1. CASE Initialize
  BY <1>1, InitializeUpgrades
<1>2. CASE ~Initialize
  BY <1>2 DEF Next, vars, DiamondCut, TransferOwnership, NextFacetCut, RefuseFacetCut,
              EndLoop, Add, RefuseAdd, Replace, RefuseReplace, Remove, RefuseRemove,
              InitializerFails, Revert
<1> QED
  BY <1>1, <1>2

LEMMA InitMaps == Init => Model!Init
BY StorageFields DEF Init, Model!Init, Model!NoRoutes

(***************************************************************************)
(* diamondCut is atomic to the callers of the diamond: for every sequence  *)
(* of FacetCuts, with the loops of addFunctions, replaceFunctions and      *)
(* removeFunctions run an iteration at a time on a mapping and an array,   *)
(* and reverts anywhere, the routes change only by whole transactions that *)
(* DiamondModel.tla permits, and to what it says.                          *)
(***************************************************************************)
THEOREM CutsAreUpgrades == Spec => ImplementsDiamondModel
<1>1. Init => Simulates /\ Settled
  BY InitSimulates, InitSettled
<1>2. IInv /\ IInv' /\ Simulates /\ Settled /\ [Next]_vars => Simulates' /\ Settled'
  BY NextSimulates, NextSettled
<1>3. IInv /\ Simulates /\ [Next]_vars => [Model!Upgrade]_(committed.facetOf)
  BY StepUpgrades
<1> QED
  BY <1>1, <1>2, <1>3, InitMaps, Invariance, PTL DEF Spec, ImplementsDiamondModel, Model!Spec

-----------------------------------------------------------------------------
(***************************************************************************)
(* The loupe: what its loops have collected after so many selectors.       *)
(***************************************************************************)
LEMMA NumberInduction ==
    ASSUME NEW n \in Nat, NEW T, 0 \in T, \A i \in 1..n : i - 1 \in T => i \in T
    PROVE  0..n \subseteq T
<1> DEFINE Out == {i \in 0..n : i \notin T}
<1>1. SUFFICES ASSUME Out # {} PROVE FALSE
  OBVIOUS
<1>2. PICK k \in Out : \A m \in Out : k <= m
  <2>1. Out \in SUBSET Nat
    OBVIOUS
  <2> HIDE DEF Out
  <2> QED
    BY <1>1, <2>1, LeastNumber
<1>3. k \in 1..n /\ k - 1 \in 0..n /\ k - 1 \notin Out
  BY <1>2
<1> QED
  BY <1>2, <1>3

\* facetFunctionSelectors(f) after n selectors is N[n].
Names(N, f) ==
    /\ N \in [0..Len(selectors) -> Seq(Selectors)]
    /\ N[0] = <<>>
    /\ \A n \in 1..Len(selectors) :
         N[n] = IF facetOf[selectors[n]] = f
                THEN Append(N[n - 1], selectors[n]) ELSE N[n - 1]

Naming(f) == CHOOSE N : Names(N, f)

LEMMA NamingIs ==
    ASSUME selectors \in Seq(Selectors), NEW f
    PROVE  Names(Naming(f), f) /\ facetFunctionSelectors(f) = Naming(f)[Len(selectors)]
<1> DEFINE m == Len(selectors)
           S == Seq(Selectors)
           Step(i, r) == IF facetOf[selectors[i]] = f THEN Append(r, selectors[i]) ELSE r
           G == [i \in 1..m |-> [r \in S |-> Step(i, r)]]
           Eq(g) == g = [i \in 0..m |-> IF i = 0 THEN <<>> ELSE Step(i, g[i - 1])]
           F == CHOOSE g : Eq(g)
<1>1. m \in Nat /\ \A i \in 1..m : selectors[i] \in Selectors
  OBVIOUS
<1>2. \A i \in 1..m, r \in S : Step(i, r) \in S
  BY <1>1
<1>3. facetFunctionSelectors(f) = F[m]
  BY DEF facetFunctionSelectors
<1>4. <<>> \in S
  OBVIOUS
<1> HIDE DEF m, S, Step
<1>5. G \in [1..m -> [S -> S]]
  BY <1>2
<1>6. PICK g \in [0..m -> S] : g[0] = <<>> /\ \A i \in 1..m : g[i] = G[i][g[i - 1]]
  <2>1. m \in Nat /\ StepsOn(G, m, S)
    BY <1>1, <1>5 DEF StepsOn
  <2> HIDE DEF G
  <2>2. PICK g : Follows(g, <<>>, m, S, G)
    BY <1>4, <2>1, Recursion, Zenon
  <2> QED
    BY <2>2 DEF Follows
<1>7. \A i \in 1..m : g[i] = Step(i, g[i - 1])
  <2>1. \A i \in 1..m : g[i - 1] \in S
    BY <1>1
  <2> QED
    BY <1>6, <2>1
<1>8. Eq(g)
  <2>1. g = [i \in 0..m |-> g[i]]
    OBVIOUS
  <2>2. \A i \in 0..m : g[i] = IF i = 0 THEN <<>> ELSE Step(i, g[i - 1])
    BY <1>1, <1>6, <1>7
  <2> QED
    BY <2>1, <2>2
<1>9. Eq(F)
  <2> HIDE DEF Eq
  <2> QED
    BY <1>8
<1>10. F[0] = <<>> /\ \A i \in 1..m : F[i] = Step(i, F[i - 1])
  <2> HIDE DEF F
  <2> QED
    BY <1>1, <1>9
<1>11. ASSUME NEW h, h[0] = <<>>, \A i \in 1..m : h[i] = Step(i, h[i - 1])
       PROVE  \A i \in 0..m : g[i] = h[i]
  <2>1. \A i \in 1..m : g[i - 1] = h[i - 1] => g[i] = h[i]
    BY <1>7, <1>11
  <2>2. InStep(g, h, m) /\ m \in Nat
    BY <2>1, <1>1, <1>6, <1>11 DEF InStep
  <2> QED
    BY <2>2, RecursionIsUnique, Zenon
<1>12. Names(g, f)
  BY <1>6, <1>7 DEF m, S, Step, Names
<1>13. Names(Naming(f), f)
  BY <1>12 DEF Naming
<1>14. Naming(f)[m] = g[m] /\ F[m] = g[m]
  <2>1. /\ Naming(f)[0] = <<>>
        /\ \A i \in 1..m : Naming(f)[i] = Step(i, Naming(f)[i - 1])
    BY <1>13 DEF Names, m, Step
  <2>2. m \in 0..m
    BY <1>1
  <2>3. \A i \in 0..m : g[i] = Naming(f)[i]
    BY <1>11, <2>1
  <2> HIDE DEF F
  <2>4. \A i \in 0..m : g[i] = F[i]
    BY <1>10, <1>11
  <2> QED
    BY <2>2, <2>3, <2>4
<1> QED
  BY <1>3, <1>13, <1>14 DEF m

\* facetAddresses after n selectors is L[n].
Lists(L) ==
    /\ L \in [0..Len(selectors) -> Seq(Facets \cup {Zero})]
    /\ L[0] = <<>>
    /\ \A n \in 1..Len(selectors) :
         L[n] = IF \E i \in DOMAIN L[n - 1] : L[n - 1][i] = facetOf[selectors[n]]
                THEN L[n - 1] ELSE Append(L[n - 1], facetOf[selectors[n]])

Listing == CHOOSE L : Lists(L)

LEMMA ListingIs ==
    ASSUME selectors \in Seq(Selectors), facetOf \in Routes
    PROVE  Lists(Listing) /\ facetAddresses = Listing[Len(selectors)]
<1> DEFINE m == Len(selectors)
           S == Seq(Facets \cup {Zero})
           Step(n, r) == IF \E i \in DOMAIN r : r[i] = facetOf[selectors[n]]
                         THEN r ELSE Append(r, facetOf[selectors[n]])
           G == [i \in 1..m |-> [r \in S |-> Step(i, r)]]
           Eq(g) == g = [i \in 0..m |-> IF i = 0 THEN <<>> ELSE Step(i, g[i - 1])]
           F == CHOOSE g : Eq(g)
<1>1. m \in Nat /\ \A i \in 1..m : facetOf[selectors[i]] \in Facets \cup {Zero}
  BY DEF Routes
<1>2. \A i \in 1..m, r \in S : Step(i, r) \in S
  BY <1>1
<1>3. facetAddresses = F[m]
  BY DEF facetAddresses
<1>4. <<>> \in S
  OBVIOUS
<1> HIDE DEF m, S, Step
<1>5. G \in [1..m -> [S -> S]]
  BY <1>2
<1>6. PICK g \in [0..m -> S] : g[0] = <<>> /\ \A i \in 1..m : g[i] = G[i][g[i - 1]]
  <2>1. m \in Nat /\ StepsOn(G, m, S)
    BY <1>1, <1>5 DEF StepsOn
  <2> HIDE DEF G
  <2>2. PICK g : Follows(g, <<>>, m, S, G)
    BY <1>4, <2>1, Recursion, Zenon
  <2> QED
    BY <2>2 DEF Follows
<1>7. \A i \in 1..m : g[i] = Step(i, g[i - 1])
  <2>1. \A i \in 1..m : g[i - 1] \in S
    BY <1>1
  <2> QED
    BY <1>6, <2>1
<1>8. Eq(g)
  <2>1. g = [i \in 0..m |-> g[i]]
    OBVIOUS
  <2>2. \A i \in 0..m : g[i] = IF i = 0 THEN <<>> ELSE Step(i, g[i - 1])
    BY <1>1, <1>6, <1>7
  <2> QED
    BY <2>1, <2>2
<1>9. Eq(F)
  <2> HIDE DEF Eq
  <2> QED
    BY <1>8
<1>10. F[0] = <<>> /\ \A i \in 1..m : F[i] = Step(i, F[i - 1])
  <2> HIDE DEF F
  <2> QED
    BY <1>1, <1>9
<1>11. ASSUME NEW h, h[0] = <<>>, \A i \in 1..m : h[i] = Step(i, h[i - 1])
       PROVE  \A i \in 0..m : g[i] = h[i]
  <2>1. \A i \in 1..m : g[i - 1] = h[i - 1] => g[i] = h[i]
    BY <1>7, <1>11
  <2>2. InStep(g, h, m) /\ m \in Nat
    BY <2>1, <1>1, <1>6, <1>11 DEF InStep
  <2> QED
    BY <2>2, RecursionIsUnique, Zenon
<1>12. Lists(g)
  BY <1>6, <1>7 DEF m, S, Step, Lists
<1>13. Lists(Listing)
  BY <1>12 DEF Listing
<1>14. Listing[m] = g[m] /\ F[m] = g[m]
  <2>1. /\ Listing[0] = <<>>
        /\ \A i \in 1..m : Listing[i] = Step(i, Listing[i - 1])
    BY <1>13 DEF Lists, m, Step
  <2>2. m \in 0..m
    BY <1>1
  <2>3. \A i \in 0..m : g[i] = Listing[i]
    BY <1>11, <2>1
  <2> HIDE DEF F
  <2>4. \A i \in 0..m : g[i] = F[i]
    BY <1>10, <1>11
  <2> QED
    BY <2>2, <2>3, <2>4
<1> QED
  BY <1>3, <1>13, <1>14 DEF m

-----------------------------------------------------------------------------
\* The names of f are its selectors among the first n, each once.
Named(f, n) ==
    /\ \A i \in 1..Len(Naming(f)[n]) :
         \E j \in 1..n : Naming(f)[n][i] = selectors[j] /\ facetOf[selectors[j]] = f
    /\ \A j \in 1..n : facetOf[selectors[j]] = f =>
         \E i \in 1..Len(Naming(f)[n]) : Naming(f)[n][i] = selectors[j]
    /\ \A i, k \in 1..Len(Naming(f)[n]) : Naming(f)[n][i] = Naming(f)[n][k] => i = k

\* The list is the facets of the first n selectors, each once.
Listed(n) ==
    /\ \A i \in 1..Len(Listing[n]) : \E j \in 1..n : Listing[n][i] = facetOf[selectors[j]]
    /\ \A j \in 1..n : \E i \in 1..Len(Listing[n]) : Listing[n][i] = facetOf[selectors[j]]
    /\ \A i, k \in 1..Len(Listing[n]) : Listing[n][i] = Listing[n][k] => i = k

LEMMA IndexFacts ==
    ASSUME TypeOK, Index
    PROVE  /\ selectors \in Seq(Selectors) /\ Len(selectors) \in Nat
           /\ facetOf \in Routes
           /\ \A i \in 1..Len(selectors) :
                selectors[i] \in Selectors /\ facetOf[selectors[i]] \in Facets
           /\ \A i, j \in 1..Len(selectors) : selectors[i] = selectors[j] => i = j
           /\ \A s \in Selectors : facetOf[s] # Zero =>
                \E i \in 1..Len(selectors) : selectors[i] = s
<1>1. /\ selectors \in Seq(Selectors) /\ Len(selectors) \in Nat
      /\ facetOf \in Routes /\ position \in [Selectors -> Nat]
  BY StorageType, MaxUint16IsNat DEF TypeOK, Routes
<1>2. /\ \A i \in 1..Len(selectors) :
           facetOf[selectors[i]] # Zero /\ position[selectors[i]] + 1 = i
      /\ \A s \in Selectors : facetOf[s] # Zero =>
           position[s] < Len(selectors) /\ selectors[position[s] + 1] = s
  BY StorageFields DEF Index, Indexed
<1>3. \A i \in 1..Len(selectors) : selectors[i] \in Selectors /\ facetOf[selectors[i]] \in Facets
  BY <1>1, <1>2 DEF Routes
<1>4. \A i, j \in 1..Len(selectors) : selectors[i] = selectors[j] => i = j
  BY <1>2
<1>5. \A s \in Selectors : facetOf[s] # Zero => \E i \in 1..Len(selectors) : selectors[i] = s
  <2> SUFFICES ASSUME NEW s \in Selectors, facetOf[s] # Zero
               PROVE  \E i \in 1..Len(selectors) : selectors[i] = s
    OBVIOUS
  <2>1. position[s] + 1 \in 1..Len(selectors) /\ selectors[position[s] + 1] = s
    BY <1>1, <1>2
  <2> QED
    BY <2>1
<1> QED
  BY <1>1, <1>3, <1>4, <1>5

LEMMA NamesAreExact ==
    ASSUME TypeOK, Index, NEW f
    PROVE  \A n \in 0..Len(selectors) : Named(f, n)
<1> DEFINE m == Len(selectors)
           N == Naming(f)
           T == {n \in 0..m : Named(f, n)}
<1>1. m \in Nat /\ Names(N, f)
  BY IndexFacts, NamingIs
<1>2. 0 \in T
  BY <1>1 DEF Names, Named
<1>3. ASSUME NEW n \in 1..m, n - 1 \in T
      PROVE  n \in T
  <2>1. /\ N[n - 1] \in Seq(Selectors) /\ Named(f, n - 1) /\ n - 1 \in Nat /\ n \in 0..m
        /\ n \in 1..Len(selectors)
    BY <1>1, <1>3 DEF Names
  <2>2. N[n] = IF facetOf[selectors[n]] = f THEN Append(N[n - 1], selectors[n]) ELSE N[n - 1]
    BY <1>1 DEF Names
  <2>3. \A j \in 1..n : j = n \/ j \in 1..(n - 1)
    BY <2>1
  <2>4. \A j \in 1..(n - 1) : j \in 1..n
    BY <2>1
  <2> DEFINE P == N[n - 1]
  <2>5. CASE facetOf[selectors[n]] # f
    <3>1. N[n] = P
      BY <2>2, <2>5
    <3>2. Named(f, n)
      <4> HIDE DEF P
      <4> QED
        BY <2>1, <2>3, <2>4, <2>5, <3>1 DEF Named, P
    <3> QED
      BY <2>1, <3>2
  <2>6. CASE facetOf[selectors[n]] = f
    <3>1. /\ Len(N[n]) = Len(P) + 1 /\ Len(P) \in Nat
          /\ \A i \in 1..Len(P) : N[n][i] = P[i]
          /\ N[n][Len(P) + 1] = selectors[n]
      <4>1. N[n] = Append(P, selectors[n]) /\ P \in Seq(Selectors) /\ selectors[n] \in Selectors
        BY <2>1, <2>2, <2>6, IndexFacts
      <4> HIDE DEF P
      <4> QED
        BY <4>1
    <3>2. \A i \in 1..Len(N[n]) : i \in 1..Len(P) \/ i = Len(P) + 1
      BY <3>1
    <3>3. \A i \in 1..Len(P) : i \in 1..Len(N[n])
      BY <3>1
    <3>4. \A i \in 1..Len(P) : \E j \in 1..(n - 1) : P[i] = selectors[j] /\ facetOf[selectors[j]] = f
      BY <2>1 DEF Named
    <3>5. \A j \in 1..(n - 1) : facetOf[selectors[j]] = f => \E i \in 1..Len(P) : P[i] = selectors[j]
      BY <2>1 DEF Named
    <3>6. \A i, k \in 1..Len(P) : P[i] = P[k] => i = k
      BY <2>1 DEF Named
    <3>7. \A i \in 1..Len(P) : P[i] # selectors[n]
      <4> SUFFICES ASSUME NEW i \in 1..Len(P), P[i] = selectors[n] PROVE FALSE
        OBVIOUS
      <4>1. PICK j \in 1..(n - 1) : P[i] = selectors[j]
        BY <3>4
      <4>2. j \in 1..Len(selectors) /\ j # n
        BY <2>1
      <4> QED
        BY <2>1, <4>1, <4>2, IndexFacts
    <3> HIDE DEF P, N
    <3>8. \A i \in 1..Len(N[n]) : \E j \in 1..n : N[n][i] = selectors[j] /\ facetOf[selectors[j]] = f
      <4> SUFFICES ASSUME NEW i \in 1..Len(N[n])
                   PROVE  \E j \in 1..n : N[n][i] = selectors[j] /\ facetOf[selectors[j]] = f
        OBVIOUS
      <4>1. CASE i \in 1..Len(P)
        BY <2>4, <3>1, <3>4, <4>1
      <4>2. CASE i = Len(P) + 1
        BY <2>6, <3>1, <4>2
      <4> QED
        BY <3>2, <4>1, <4>2
    <3>9. \A j \in 1..n : facetOf[selectors[j]] = f => \E i \in 1..Len(N[n]) : N[n][i] = selectors[j]
      <4> SUFFICES ASSUME NEW j \in 1..n, facetOf[selectors[j]] = f
                   PROVE  \E i \in 1..Len(N[n]) : N[n][i] = selectors[j]
        OBVIOUS
      <4>1. CASE j \in 1..(n - 1)
        BY <3>1, <3>3, <3>5, <4>1
      <4>2. CASE j = n
        <5>1. Len(P) + 1 \in 1..Len(N[n])
          BY <3>1
        <5> QED
          BY <3>1, <4>2, <5>1
      <4> QED
        BY <2>3, <4>1, <4>2
    <3>10. \A i, k \in 1..Len(N[n]) : N[n][i] = N[n][k] => i = k
      BY <3>1, <3>2, <3>6, <3>7
    <3>11. Named(f, n)
      BY <3>8, <3>9, <3>10 DEF Named, N
    <3> QED
      BY <2>1, <3>11
  <2> QED
    BY <2>5, <2>6
<1>4. 0..m \subseteq T
  <2> HIDE DEF T, m
  <2> QED
    BY <1>1, <1>2, <1>3, NumberInduction
<1> QED
  BY <1>4

LEMMA ListIsExact ==
    ASSUME TypeOK, Index
    PROVE  \A n \in 0..Len(selectors) : Listed(n)
<1> DEFINE m == Len(selectors)
           L == Listing
           T == {n \in 0..m : Listed(n)}
<1>1. m \in Nat /\ Lists(L)
  BY IndexFacts, ListingIs
<1>2. 0 \in T
  BY <1>1 DEF Lists, Listed
<1>3. ASSUME NEW n \in 1..m, n - 1 \in T
      PROVE  n \in T
  <2> DEFINE P == L[n - 1]
             f == facetOf[selectors[n]]
  <2>1. /\ P \in Seq(Facets \cup {Zero}) /\ Listed(n - 1) /\ n - 1 \in Nat /\ n \in 0..m
        /\ n \in 1..Len(selectors) /\ f \in Facets
    BY <1>1, <1>3, IndexFacts DEF Lists
  <2>2. L[n] = IF \E i \in DOMAIN P : P[i] = f THEN P ELSE Append(P, f)
    BY <1>1 DEF Lists
  <2>3. \A j \in 1..n : j = n \/ j \in 1..(n - 1)
    BY <2>1
  <2>4. \A j \in 1..(n - 1) : j \in 1..n
    BY <2>1
  <2>5. \A i \in 1..Len(P) : \E j \in 1..(n - 1) : P[i] = facetOf[selectors[j]]
    BY <2>1 DEF Listed
  <2>6. \A j \in 1..(n - 1) : \E i \in 1..Len(P) : P[i] = facetOf[selectors[j]]
    BY <2>1 DEF Listed
  <2>7. \A i, k \in 1..Len(P) : P[i] = P[k] => i = k
    BY <2>1 DEF Listed
  <2>8. DOMAIN P = 1..Len(P) /\ Len(P) \in Nat
    BY <2>1
  <2>9. CASE \E i \in DOMAIN P : P[i] = f
    <3>1. L[n] = P
      BY <2>2, <2>9
    <3>2. \A j \in 1..n : \E i \in 1..Len(P) : P[i] = facetOf[selectors[j]]
      BY <2>3, <2>6, <2>8, <2>9
    <3> HIDE DEF P, f, L
    <3>3. \A i \in 1..Len(P) : \E j \in 1..n : P[i] = facetOf[selectors[j]]
      BY <2>4, <2>5
    <3>4. Listed(n)
      BY <2>7, <3>1, <3>2, <3>3 DEF Listed, L
    <3> QED
      BY <2>1, <3>4
  <2>10. CASE ~\E i \in DOMAIN P : P[i] = f
    <3>1. /\ Len(L[n]) = Len(P) + 1
          /\ \A i \in 1..Len(P) : L[n][i] = P[i]
          /\ L[n][Len(P) + 1] = f
      <4>1. L[n] = Append(P, f)
        BY <2>2, <2>10
      <4> HIDE DEF P, f
      <4> QED
        BY <2>1, <4>1
    <3>2. \A i \in 1..Len(L[n]) : i \in 1..Len(P) \/ i = Len(P) + 1
      BY <2>8, <3>1
    <3>3. \A i \in 1..Len(P) : i \in 1..Len(L[n])
      BY <2>8, <3>1
    <3>4. Len(P) + 1 \in 1..Len(L[n])
      BY <2>8, <3>1
    <3> HIDE DEF P, L
    <3>5. \A i \in 1..Len(L[n]) : \E j \in 1..n : L[n][i] = facetOf[selectors[j]]
      <4> SUFFICES ASSUME NEW i \in 1..Len(L[n])
                   PROVE  \E j \in 1..n : L[n][i] = facetOf[selectors[j]]
        OBVIOUS
      <4>1. CASE i \in 1..Len(P)
        BY <2>4, <2>5, <3>1, <4>1
      <4>2. CASE i = Len(P) + 1
        BY <3>1, <4>2
      <4> QED
        BY <3>2, <4>1, <4>2
    <3>6. \A j \in 1..n : \E i \in 1..Len(L[n]) : L[n][i] = facetOf[selectors[j]]
      <4> SUFFICES ASSUME NEW j \in 1..n
                   PROVE  \E i \in 1..Len(L[n]) : L[n][i] = facetOf[selectors[j]]
        OBVIOUS
      <4>1. CASE j \in 1..(n - 1)
        BY <2>6, <3>1, <3>3, <4>1
      <4>2. CASE j = n
        BY <3>1, <3>4, <4>2
      <4> QED
        BY <2>3, <4>1, <4>2
    <3>7. \A i, k \in 1..Len(L[n]) : L[n][i] = L[n][k] => i = k
      BY <2>7, <2>8, <2>10, <3>1, <3>2
    <3>8. Listed(n)
      BY <3>5, <3>6, <3>7 DEF Listed, L
    <3> QED
      BY <2>1, <3>8
  <2> QED
    BY <2>9, <2>10
<1>4. 0..m \subseteq T
  <2> HIDE DEF T, m
  <2> QED
    BY <1>1, <1>2, <1>3, NumberInduction
<1> QED
  BY <1>4

\* A sequence without repetitions is as long as it has elements.
LEMMA DistinctAreCounted ==
    ASSUME NEW S, NEW seq \in Seq(S), \A i, k \in 1..Len(seq) : seq[i] = seq[k] => i = k,
           NEW Set, \A x \in Set : \E i \in 1..Len(seq) : seq[i] = x,
           \A i \in 1..Len(seq) : seq[i] \in Set
    PROVE  Len(seq) = Cardinality(Set)
<1> DEFINE n == Len(seq)
<1>1. n \in Nat /\ seq \in [1..n -> Set]
  OBVIOUS
<1> HIDE DEF n
<1>2. seq \in Bijection(1..n, Set)
  BY <1>1 DEF Bijection, Injection, Surjection, IsInjective, n
<1>3. ExistsBijection(1..n, Set)
  BY <1>2 DEF ExistsBijection
<1>4. IsFiniteSet(1..n) /\ Cardinality(1..n) = n
  BY <1>1, FS_Interval
<1>5. Cardinality(Set) = n
  BY <1>3, <1>4, FS_Bijection
<1> QED
  BY <1>5 DEF n

\* What facets() does with a selector.
Grouped(r, s) ==
    IF \E i \in DOMAIN r : r[i].facetAddress = facetOf[s]
    THEN [i \in DOMAIN r |->
            IF r[i].facetAddress = facetOf[s]
            THEN [r[i] EXCEPT !.functionSelectors = Append(@, s)]
            ELSE r[i]]
    ELSE Append(r, [facetAddress |-> facetOf[s], functionSelectors |-> <<s>>])

\* The list of the facets with their names, after n selectors.
Grouping(n) ==
    [i \in DOMAIN Listing[n] |->
       [facetAddress |-> Listing[n][i], functionSelectors |-> Naming(Listing[n][i])[n]]]

LEMMA AppendIs ==
    ASSUME NEW S, NEW q \in Seq(S), NEW x
    PROVE  Append(q, x) = [i \in 1..(Len(q) + 1) |-> IF i = Len(q) + 1 THEN x ELSE q[i]]
<1>1. q \in Seq(S \cup {x}) /\ x \in S \cup {x} /\ Len(q) \in Nat
  OBVIOUS
<1>2. /\ Append(q, x) \in Seq(S \cup {x})
      /\ Len(Append(q, x)) = Len(q) + 1
      /\ \A i \in 1..(Len(q) + 1) : Append(q, x)[i] = IF i = Len(q) + 1 THEN x ELSE q[i]
  BY <1>1
<1> DEFINE a == Append(q, x)
<1>3. a \in Seq(S \cup {x}) /\ Len(a) = Len(q) + 1
  BY <1>2
<1> HIDE DEF a
<1>4. a = [i \in 1..(Len(q) + 1) |-> a[i]]
  BY <1>1, <1>3
<1> QED
  BY <1>2, <1>4 DEF a

LEMMA GroupingSteps ==
    ASSUME TypeOK, Index, NEW n \in 1..Len(selectors)
    PROVE  Grouping(n) = Grouped(Grouping(n - 1), selectors[n])
<1> DEFINE s == selectors[n]
           f == facetOf[s]
           P == Listing[n - 1]
           E(g, k) == [facetAddress |-> g, functionSelectors |-> Naming(g)[k]]
<1>1. /\ selectors \in Seq(Selectors) /\ Len(selectors) \in Nat /\ n \in 0..Len(selectors)
      /\ n - 1 \in 0..Len(selectors) /\ s \in Selectors /\ f \in Facets
  BY IndexFacts
<1>2. Lists(Listing) /\ \A g : Names(Naming(g), g)
  BY <1>1, ListingIs, NamingIs, IndexFacts
<1>3. P \in Seq(Facets \cup {Zero}) /\ DOMAIN P = 1..Len(P) /\ Len(P) \in Nat
  <2>1. Listing \in [0..Len(selectors) -> Seq(Facets \cup {Zero})]
    BY <1>2 DEF Lists
  <2>2. P \in Seq(Facets \cup {Zero})
    BY <1>1, <2>1
  <2> HIDE DEF P
  <2> QED
    BY <2>2
<1>4. Listing[n] = IF \E i \in DOMAIN P : P[i] = f THEN P ELSE Append(P, f)
  BY <1>2 DEF Lists
<1>5. \A g : /\ Naming(g)[n - 1] \in Seq(Selectors)
             /\ g = f => Naming(g)[n] = Append(Naming(g)[n - 1], s)
             /\ g # f => Naming(g)[n] = Naming(g)[n - 1]
  BY <1>1, <1>2 DEF Names
<1>6. Grouping(n - 1) = [i \in 1..Len(P) |-> E(P[i], n - 1)]
  BY <1>3 DEF Grouping
<1>7. DOMAIN Grouping(n - 1) = 1..Len(P)
      /\ \A i \in 1..Len(P) : /\ Grouping(n - 1)[i] = E(P[i], n - 1)
                              /\ Grouping(n - 1)[i].facetAddress = P[i]
  BY <1>6
<1>8. CASE \E i \in DOMAIN P : P[i] = f
  <2>1. Grouping(n) = [i \in 1..Len(P) |-> E(P[i], n)]
    BY <1>3, <1>4, <1>8 DEF Grouping
  <2>2. ASSUME NEW i \in 1..Len(P)
        PROVE  E(P[i], n) =
                 IF Grouping(n - 1)[i].facetAddress = f
                 THEN [Grouping(n - 1)[i] EXCEPT !.functionSelectors = Append(@, s)]
                 ELSE Grouping(n - 1)[i]
    <3>1. CASE P[i] = f
      <4>1. Naming(P[i])[n] = Append(Naming(P[i])[n - 1], s)
        BY <1>5, <3>1
      <4>2. [E(P[i], n - 1) EXCEPT !.functionSelectors = Append(@, s)] = E(P[i], n)
        <5> DEFINE q == Naming(P[i])[n - 1]
                   a == P[i]
        <5>1. [[facetAddress |-> a, functionSelectors |-> q] EXCEPT
                 !.functionSelectors = Append(@, s)] =
                [facetAddress |-> a, functionSelectors |-> Append(q, s)]
          <6> HIDE DEF q, a, s
          <6> QED
            OBVIOUS
        <5> QED
          BY <4>1, <5>1
      <4> QED
        BY <1>7, <3>1, <4>2
    <3>2. CASE P[i] # f
      <4>1. Naming(P[i])[n] = Naming(P[i])[n - 1]
        BY <1>5, <3>2
      <4> QED
        BY <1>7, <3>2, <4>1
    <3> QED
      BY <3>1, <3>2
  <2>3. \E i \in DOMAIN Grouping(n - 1) : Grouping(n - 1)[i].facetAddress = f
    BY <1>3, <1>7, <1>8
  <2>4. Grouped(Grouping(n - 1), s) =
          [i \in 1..Len(P) |->
             IF Grouping(n - 1)[i].facetAddress = f
             THEN [Grouping(n - 1)[i] EXCEPT !.functionSelectors = Append(@, s)]
             ELSE Grouping(n - 1)[i]]
    <3> HIDE DEF P
    <3> QED
      BY <1>7, <2>3 DEF Grouped
  <2> HIDE DEF E, P, f, s
  <2>5. Grouping(n) = Grouped(Grouping(n - 1), s)
    BY <2>1, <2>2, <2>4
  <2> QED
    BY <2>5 DEF s
<1>9. CASE ~\E i \in DOMAIN P : P[i] = f
  <2>1. Listing[n] = Append(P, f)
    BY <1>4, <1>9
  <2>2. /\ DOMAIN Listing[n] = 1..(Len(P) + 1)
        /\ \A i \in 1..Len(P) : Listing[n][i] = P[i]
        /\ Listing[n][Len(P) + 1] = f
    <3> HIDE DEF P, f
    <3> QED
      BY <1>1, <1>3, <2>1
  <2>3. Naming(f)[n - 1] = <<>>
    <3> SUFFICES ASSUME Naming(f)[n - 1] # <<>> PROVE FALSE
      OBVIOUS
    <3>1. 1 \in 1..Len(Naming(f)[n - 1])
      BY <1>5
    <3>2. PICK j \in 1..(n - 1) : facetOf[selectors[j]] = f
      <4>1. Named(f, n - 1)
        BY <1>1, NamesAreExact
      <4> QED
        BY <3>1, <4>1 DEF Named
    <3>3. Listed(n - 1)
      BY <1>1, ListIsExact
    <3>4. \E i \in 1..Len(P) : P[i] = facetOf[selectors[j]]
      BY <3>3 DEF Listed
    <3> QED
      BY <1>3, <1>9, <3>2, <3>4
  <2>4. Naming(f)[n] = <<s>>
    BY <1>1, <1>5, <2>3
  <2>5. \A i \in 1..Len(P) : E(P[i], n) = E(P[i], n - 1)
    <3> SUFFICES ASSUME NEW i \in 1..Len(P) PROVE E(P[i], n) = E(P[i], n - 1)
      OBVIOUS
    <3>1. P[i] # f
      BY <1>3, <1>9
    <3> QED
      BY <1>5, <3>1
  <2>6. Grouping(n) = [i \in 1..(Len(P) + 1) |-> E(Listing[n][i], n)]
    BY <2>2 DEF Grouping
  <2>7. E(f, n) = [facetAddress |-> f, functionSelectors |-> <<s>>]
    BY <2>4
  <2>8. ~\E i \in DOMAIN Grouping(n - 1) : Grouping(n - 1)[i].facetAddress = f
    <3>1. \A i \in DOMAIN Grouping(n - 1) :
            i \in DOMAIN P /\ Grouping(n - 1)[i].facetAddress = P[i]
      BY <1>3, <1>7
    <3> HIDE DEF P, f
    <3> QED
      BY <1>9, <3>1
  <2>9. Grouped(Grouping(n - 1), s) = Append(Grouping(n - 1), E(f, n))
    BY <2>7, <2>8 DEF Grouped
  <2> DEFINE Q == Grouping(n - 1)
             Es == {E(P[i], n - 1) : i \in 1..Len(P)} \cup {E(f, n)}
  <2>10. Q \in Seq(Es) /\ Len(Q) = Len(P)
    <3>1. Q \in [1..Len(P) -> Es]
      BY <1>6
    <3> HIDE DEF Q, Es
    <3> QED
      BY <1>3, <3>1, FunctionIsSeq
  <2>11. Append(Q, E(f, n)) = [i \in 1..(Len(P) + 1) |-> IF i = Len(P) + 1 THEN E(f, n) ELSE Q[i]]
    <3> HIDE DEF Q, Es, E, P, f
    <3> QED
      BY <2>10, AppendIs
  <2>12. ASSUME NEW i \in 1..(Len(P) + 1)
         PROVE  E(Listing[n][i], n) = IF i = Len(P) + 1 THEN E(f, n) ELSE Q[i]
    <3>1. CASE i = Len(P) + 1
      BY <2>2, <3>1
    <3>2. CASE i # Len(P) + 1
      <4>1. i \in 1..Len(P)
        BY <1>3, <3>2
      <4>2. Listing[n][i] = P[i] /\ Q[i] = E(P[i], n - 1) /\ E(P[i], n) = E(P[i], n - 1)
        BY <1>7, <2>2, <2>5, <4>1
      <4> HIDE DEF E, P, Q, f
      <4> QED
        BY <3>2, <4>2
    <3> QED
      BY <3>1, <3>2
  <2> HIDE DEF E, P, f, s
  <2>13. Grouping(n) = Append(Q, E(f, n))
    <3> HIDE DEF Q
    <3> QED
      BY <2>6, <2>11, <2>12
  <2> QED
    BY <2>9, <2>13 DEF s
<1> QED
  BY <1>8, <1>9

LEMMA FacetsAreGrouped ==
    ASSUME TypeOK, Index
    PROVE  facets = Grouping(Len(selectors))
<1> DEFINE m == Len(selectors)
           Eq(g) == g = [n \in 0..m |-> IF n = 0 THEN <<>> ELSE Grouped(g[n - 1], selectors[n])]
           F == CHOOSE g : Eq(g)
           W == [n \in 0..m |-> Grouping(n)]
<1>1. m \in Nat
  BY IndexFacts
<1>2. facets = F[m]
  BY DEF facets, Grouped
<1>3. Grouping(0) = <<>>
  <2>1. Listing[0] = <<>>
    BY IndexFacts, ListingIs DEF Lists
  <2> QED
    BY <2>1 DEF Grouping
<1> HIDE DEF m
<1>4. Eq(W)
  <2>1. \A n \in 0..m : Grouping(n) =
          IF n = 0 THEN <<>> ELSE Grouped(W[n - 1], selectors[n])
    <3> SUFFICES ASSUME NEW n \in 0..m, n # 0
                 PROVE  Grouping(n) = Grouped(W[n - 1], selectors[n])
      BY <1>3
    <3>1. n \in 1..m /\ n - 1 \in 0..m
      BY <1>1
    <3>2. W[n - 1] = Grouping(n - 1)
      BY <3>1
    <3> QED
      BY <3>1, <3>2, GroupingSteps DEF m
  <2> QED
    BY <2>1
<1>5. Eq(F)
  <2> HIDE DEF Eq
  <2> QED
    BY <1>4
<1>6. \A n \in 0..m : W[n] = F[n]
  <2> HIDE DEF F, W
  <2>1. F[0] = <<>> /\ \A n \in 1..m : F[n] = Grouped(F[n - 1], selectors[n])
    BY <1>1, <1>5
  <2>2. W[0] = <<>> /\ \A n \in 1..m : W[n] = Grouped(W[n - 1], selectors[n])
    BY <1>1, <1>4
  <2>3. InStep(W, F, m)
    BY <2>1, <2>2 DEF InStep
  <2> HIDE DEF Eq
  <2> QED
    BY <1>1, <2>3, RecursionIsUnique, Zenon
<1>7. m \in 0..m
  BY <1>1
<1> QED
  BY <1>2, <1>6, <1>7 DEF m

LEMMA IndexIsExact ==
    ASSUME TypeOK, Index
    PROVE  LoupeIsExact
<1> DEFINE m == Len(selectors)
<1>1. /\ selectors \in Seq(Selectors) /\ m \in Nat /\ facetOf \in Routes
      /\ \A i \in 1..m : selectors[i] \in Selectors /\ facetOf[selectors[i]] \in Facets
      /\ \A s \in Selectors : facetOf[s] # Zero => \E i \in 1..m : selectors[i] = s
  BY IndexFacts
<1>2. m \in 0..m
  BY <1>1
<1>3. ASSUME NEW f
      PROVE  /\ facetFunctionSelectors(f) = Naming(f)[m]
             /\ Naming(f)[m] \in Seq(Selectors)
             /\ Named(f, m)
  BY <1>1, <1>2, NamingIs, NamesAreExact DEF Names
<1>4. facetAddresses = Listing[m] /\ Listing[m] \in Seq(Facets \cup {Zero}) /\ Listed(m)
  BY <1>1, <1>2, ListingIs, ListIsExact DEF Lists
<1>5. ASSUME NEW f \in Facets
      PROVE  LET named == facetFunctionSelectors(f) IN
             /\ {named[i] : i \in DOMAIN named} = {s \in Selectors : facetOf[s] = f}
             /\ Len(named) = Cardinality({s \in Selectors : facetOf[s] = f})
  <2> DEFINE N == Naming(f)[m]
             Set == {s \in Selectors : facetOf[s] = f}
  <2>1. N \in Seq(Selectors) /\ Named(f, m) /\ facetFunctionSelectors(f) = N
    BY <1>3
  <2>2. \A i \in 1..Len(N) : N[i] \in Set
    BY <1>1, <2>1 DEF Named
  <2>3. \A s \in Set : \E i \in 1..Len(N) : N[i] = s
    <3> SUFFICES ASSUME NEW s \in Set PROVE \E i \in 1..Len(N) : N[i] = s
      OBVIOUS
    <3>1. PICK j \in 1..m : selectors[j] = s
      BY <1>1, ZeroIsNoFacet
    <3> QED
      BY <2>1, <3>1 DEF Named
  <2>4. \A i, k \in 1..Len(N) : N[i] = N[k] => i = k
    BY <2>1 DEF Named
  <2>5. DOMAIN N = 1..Len(N)
    <3> HIDE DEF N
    <3> QED
      BY <2>1
  <2> HIDE DEF N, Set
  <2>6. Len(N) = Cardinality(Set)
    BY <2>1, <2>2, <2>3, <2>4, DistinctAreCounted
  <2>7. {N[i] : i \in DOMAIN N} = Set
    BY <2>2, <2>3, <2>5
  <2> QED
    BY <2>1, <2>6, <2>7 DEF Set
<1>6. facets = [i \in DOMAIN facetAddresses |->
                  [facetAddress |-> facetAddresses[i],
                   functionSelectors |-> facetFunctionSelectors(facetAddresses[i])]]
  <2>1. facets = Grouping(m)
    BY FacetsAreGrouped
  <2> QED
    BY <1>3, <1>4, <2>1 DEF Grouping
<1>7. Len(facetAddresses) = Cardinality({facetOf[s] : s \in Selectors} \ {Zero})
  <2> DEFINE L == Listing[m]
             Set == {facetOf[s] : s \in Selectors} \ {Zero}
  <2>1. L \in Seq(Facets \cup {Zero}) /\ Listed(m) /\ facetAddresses = L
    BY <1>4
  <2>2. \A i \in 1..Len(L) : L[i] \in Set
    BY <1>1, <2>1, ZeroIsNoFacet DEF Listed
  <2>3. \A f \in Set : \E i \in 1..Len(L) : L[i] = f
    <3> SUFFICES ASSUME NEW f \in Set PROVE \E i \in 1..Len(L) : L[i] = f
      OBVIOUS
    <3>1. PICK s \in Selectors : f = facetOf[s] /\ facetOf[s] # Zero
      OBVIOUS
    <3>2. PICK j \in 1..m : selectors[j] = s
      BY <1>1, <3>1
    <3> QED
      BY <2>1, <3>1, <3>2 DEF Listed
  <2>4. \A i, k \in 1..Len(L) : L[i] = L[k] => i = k
    BY <2>1 DEF Listed
  <2> HIDE DEF L, Set
  <2>5. Len(L) = Cardinality(Set)
    BY <2>1, <2>2, <2>3, <2>4, DistinctAreCounted
  <2> QED
    BY <2>1, <2>5 DEF Set
<1> QED
  BY <1>5, <1>6, <1>7 DEF LoupeIsExact

(***************************************************************************)
(* For any selectors, facets and sequence of upgrades, DiamondLoupeFacet   *)
(* tells the routes of the fallback exactly: each selector once, under its *)
(* own facet, in facetFunctionSelectors, facets and facetAddresses alike.  *)
(***************************************************************************)
THEOREM LoupeTellsTheRoutes == Spec => []LoupeIsExact
<1>1. IInv => LoupeIsExact
  BY IndexIsExact DEF IInv
<1> QED
  BY <1>1, Invariance, PTL
=============================================================================
