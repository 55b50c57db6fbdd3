\* The container image runs the process as pid 1, so a restart reuses the pid.
SPECIFICATION Spec
CONSTANTS
    Goal = {g1}
    Pid = {p1}
    NoPid = NoPid
    NoGoal = NoGoal
    RailPid = {}
    MaxRetries = 2
    MaxRunDeferrals = 0
    MaxConcurrent = 1
    MaxClaims = 1
    TimelyHeartbeats = FALSE
    PidReuse = TRUE
INVARIANTS
    PredecessorClaimsReturned
