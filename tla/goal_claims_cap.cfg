\* Two goals, two processes, one slot: the concurrency cap across processes,
\* with every live claim renewed in time.
SPECIFICATION Spec
CONSTANTS
    Goal = {g1, g2}
    Pid = {p1, p2}
    NoPid = NoPid
    NoGoal = NoGoal
    RailPid = {}
    MaxRetries = 1
    MaxRunDeferrals = 0
    MaxConcurrent = 1
    MaxClaims = 2
    TimelyHeartbeats = TRUE
    PidReuse = FALSE
SYMMETRY Symmetry
INVARIANTS
    WithinConcurrency
