SPECIFICATION FairSpec
CONSTANTS
    t1 = t1
    t2 = t2
    a = a
    b = b
    dir = dir
    file = file
    other = other
    s1 = s1
    Tasks = {t1, t2}
    Blocks = {a}
    Garbage = Garbage
    Nothing = Nothing
    Paths = {dir, file}
    Below <- MCBelow
    Names = {s1}
    NoSnap = NoSnap
    Contents <- MCContents
    BenchDir = dir
    BenchFile = file
    BenchContent <- MCBench
    Kinds = {"write", "bench", "read"}
    Quiet = {}
    MaxLog = 1
    Faults = {}
PROPERTIES GcCompletes RequestsEnd
