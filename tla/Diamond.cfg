SPECIFICATION Spec
CONSTANTS
    cut = cut
    own = own
    a = a
    b = b
    A = A
    B = B
    NoCode = NoCode
    Zero = Zero
    This = This
    CutFacet = CutFacet
    OwnershipFacet = OwnershipFacet
    CutSelector = cut
    OwnershipSelector = own
    Selectors = {cut, own, a, b}
    Facets = {CutFacet, OwnershipFacet, A, B, This, NoCode}
    WithCode = {CutFacet, OwnershipFacet, A, B, This}
    Users = {alice, bob}
    Interfaces = {ierc165}
    Initializers = {DiamondInit}
    Cuts <- MCCuts
    MaxUint16 = 3
INVARIANTS
    Index
    LoupeIsExact
PROPERTIES
    ImplementsDiamondModel
    ImmutableStays
\* A diamond whose constructor reverted, or without diamondCut, stays as it is.
CHECK_DEADLOCK FALSE
