SPECIFICATION Spec
CONSTANTS
    t1 = t1
    t2 = t2
    a = a
    b = b
    dir = dir
    file = file
    other = other
    s1 = s1
    Tasks = {t1, t2}
    Blocks = {a, b}
    Garbage = Garbage
    Nothing = Nothing
    Paths = {file}
    Below <- MCBelow
    Names = {s1}
    NoSnap = NoSnap
    Contents <- MCEither
    BenchDir = file
    BenchFile = file
    BenchContent <- MCBench
    Kinds = {"write", "read"}
    Quiet = {}
    MaxLog = 2
    Faults = {"rot", "rename", "batch"}
SYMMETRY Symmetry
INVARIANTS ReadIntegrity
