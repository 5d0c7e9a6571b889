SPECIFICATION Spec
CONSTANTS
    f1 = f1
    f2 = f2
    None = None
    File = {f1, f2}
    Walkers = {"walk"}
    Openers = {"open"}
    Kinds = {"write", "delete", "rename"}
    MaxChanges = 2
    MaxWalks = 2
    MaxFreq = 1
INVARIANTS TypeOK 
 
CHECK_DEADLOCK FALSE
