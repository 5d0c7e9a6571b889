SPECIFICATION Spec
CONSTANTS
    a = a
    b = b
    p = p
    s1 = s1
    Blocks = {a}
    Hole = Hole
    Paths = {p}
    Contents <- MCContents
    Names = {s1}
    NoSnap = NoSnap
    NoInode = NoInode
    NoId = NoId
    MaxId = 4
    MaxLog = 2
    MaxCrash = 1
INVARIANTS WrittenIsReadable
