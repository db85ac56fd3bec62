SPECIFICATION Spec
CONSTANTS
    Names = {u1, u2, u3}
    Admins = {a1, a2}
    MinNumber = 3
    MaxNumber = 6
SYMMETRY Symmetry
INVARIANTS TypeOK UniqueNumbers
PROPERTIES NumberKept
