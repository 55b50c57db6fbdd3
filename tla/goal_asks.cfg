\* Two goals, two asks and two callers: a second ask for the same goal, a goal
\* that joins another's ask, and two calls that overlap.  One caller dies.
\* The instance stops when its asks are used up and its goals have ended.
CONSTANTS
    Goal = {g1, g2}
    Ask = {a1, a2}
    Caller = {c1, c2}
    MaxDeaths = 1
SPECIFICATION Spec
SYMMETRY Interchangeable
CHECK_DEADLOCK FALSE
INVARIANTS
    TypeOK
    AnswerReachesAll
PROPERTIES
    ListedHoldEndsForCause
    AskedIsHeld
    ClosedStaysClosed
