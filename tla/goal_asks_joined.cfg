\* A goal joins an ask that a call for another goal has listed to close.
CONSTANTS
    Goal = {g1, g2}
    Ask = {a1, a2}
    Caller = {c1, c2}
    MaxDeaths = 0
SPECIFICATION Spec
SYMMETRY Interchangeable
CHECK_DEADLOCK FALSE
PROPERTY HoldEndsForCause
