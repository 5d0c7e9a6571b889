SPECIFICATION Spec
CONSTANTS
    t1 = t1
    t2 = t2
    a = a
    b = b
    dir = dir
    file = file
    other = other
    s1 = s1
    Tasks = {t1, t2}
    Blocks = {a, b}
    Garbage = Garbage
    Nothing = Nothing
    Paths = {file, other}
    Below <- MCBelow
    Names = {s1}
    NoSnap = NoSnap
    Contents <- MCContents
    BenchDir = file
    BenchFile = file
    BenchContent <- MCBench
    Kinds = {"write", "rename", "scrub", "snapshot", "rollback"}
    Quiet = {"rename", "scrub", "snapshot", "rollback"}
    MaxLog = 2
    Faults = {}
SYMMETRY Symmetry
INVARIANTS TypeOK NoLostBlock CompactedExactly 
