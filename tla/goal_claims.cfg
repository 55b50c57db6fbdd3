\* One goal, two dispatcher processes that share goals.db.  Processes crash
\* and come back with a pid of their own or an old one; heartbeats may be late.
SPECIFICATION Spec
CONSTANTS
    Goal = {g1}
    Pid = {p1, p2}
    NoPid = NoPid
    NoGoal = NoGoal
    RailPid = {}
    MaxRetries = 2
    MaxRunDeferrals = 1
    MaxConcurrent = 1
    MaxClaims = 2
    TimelyHeartbeats = FALSE
    PidReuse = TRUE
SYMMETRY Symmetry
INVARIANTS
    TypeOK
    ClaimShape
    BreakerHolds
    FailureChargedOnce
PROPERTIES
    LateOutcomeIgnored
    TerminalIsFinal
    PauseHeldUntilOwner
    PauseHoldReturnsStoppedRuns
    BoardGrantsExclusively
