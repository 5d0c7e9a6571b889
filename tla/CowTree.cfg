SPECIFICATION Spec
CONSTANTS
    a = a
    b = b
    Name = {a, b}
    Content = {"x"}
    SnapName = {"s"}
    MaxLen = 2
    MaxIno = 7
    MaxDepth = 2
    Dir = Dir
    Nowhere = Nowhere
    NoSnap = NoSnap
    Nobody = Nobody
INVARIANTS TypeOK NoLiveIdReused LookupIsAtomic
SYMMETRY Symmetry
VIEW LiveState
PROPERTY ImplementsPathFs
