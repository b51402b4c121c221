SPECIFICATION Spec
CONSTANTS
    n1 = n1
    n2 = n2
    c1 = c1
    c2 = c2
    a = a
    b = b
    Bad = Bad
    Escape = Escape
    Replacement = Replacement
    Nodes = {n1, n2}
    CIDs = {c1, c2}
    Letters = {a, b, Bad}
    Known <- MCKnown
SYMMETRY Symmetry
INVARIANTS
    TypeOK
    SameSeenSameCompleteness
    IndexedHasMetaEntry
    KnownVerbatim
