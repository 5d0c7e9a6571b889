SPECIFICATION RamSpec
CONSTANTS
    Key = {k1, k2, k3, k4}
    Length = {1, 2, 4, 9}
    Caps = {0, 5, 10}
SYMMETRY Symmetry
INVARIANTS Accounted WithinCap
PROPERTIES HitsEvictNothing ChurnSparesProtected NewDataIsAdmitted
