\* A goal that needs two others, two concurrent calls into the board, and a
\* verb of the owner or the death of a call: every interleaving of two sweeps,
\* cascades or resumes.  Liveness, so no symmetry.
SPECIFICATION FairSpec
CONSTANTS
    g1 = g1
    g2 = g2
    g3 = g3
    Goal = {g1, g2, g3}
    Call = {c1, c2}
    NoGoal = NoGoal
    DependsOn <- Join
    MaxIncidents = 1
INVARIANTS
    TypeOK
    PrerequisitesFirst
PROPERTIES
    PausedByOwner
    StrandedRecovers
