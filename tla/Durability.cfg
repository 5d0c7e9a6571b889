SPECIFICATION Spec
CONSTANTS
    a = a
    b = b
    p = p
    s1 = s1
    Blocks = {a, b}
    Hole = Hole
    Paths = {p}
    Contents <- MCContents
    Names = {s1}
    NoSnap = NoSnap
    NoInode = NoInode
    NoId = NoId
    MaxId = 3
    MaxLog = 2
    MaxCrash = 1
SYMMETRY Symmetry
INVARIANTS TypeOK CrashConsistent FlushedIsSafe
PROPERTIES OldRootsUntouched
