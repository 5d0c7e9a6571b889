SPECIFICATION Spec
CONSTANTS
    a = a
    b = b
    o1 = o1
    o2 = o2
    h1 = h1
    h2 = h2
    Name = {a, b}
    Obj = {o1, o2}
    Content = {"blank", "x"}
    Blank = "blank"
    Dir = Dir
    Handle = {h1, h2}
    MaxIno = 5
    MaxLen = 2
    Extra = {}
    None = None
SYMMETRY Symmetry
INVARIANTS MapsAgree  
