SPECIFICATION Spec
CONSTANTS
    h1 = h1
    h2 = h2
    h3 = h3
    x = x
    y = y
    Handles = {h1, h2, h3}
    NoHandle = NoHandle
    Names = {x, y}
    MaxDepth = 2
    MaxSize = 1
    MaxIndex = 4
    UseRenamed = FALSE
SYMMETRY Symmetry
INVARIANTS TypeOK TreeClosed  DriverIsCurrent
