CONSTANTS
    Code = {c1, c2}
    Redeemer = {r1, r2}
    MaxAttempts = 3
    Calls = 4
    Absent = Absent
    Torn = Torn
SPECIFICATION Spec
SYMMETRY Symmetry
INVARIANT SingleUse
CHECK_DEADLOCK FALSE
