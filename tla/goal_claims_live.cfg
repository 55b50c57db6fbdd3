\* One process that also runs a pre-empting cron rail, restarted under its own
\* pid: what its fairness makes happen.  Liveness, so no symmetry.
SPECIFICATION FairSpec
CONSTANTS
    Goal = {g1}
    Pid = {p1}
    NoPid = NoPid
    NoGoal = NoGoal
    RailPid = {p1}
    MaxRetries = 1
    MaxRunDeferrals = 0
    MaxConcurrent = 1
    MaxClaims = 2
    TimelyHeartbeats = TRUE
    PidReuse = TRUE
INVARIANTS
    OneLiveRunPerProcess
PROPERTIES
    StaleClaimRecovers
    PauseStopsRuns
