\* One goal that needs another, no verb of the owner, no death.
SPECIFICATION Spec
CONSTANTS
    g1 = g1
    g2 = g2
    g3 = g3
    Goal = {g1, g2}
    Call = {c1, c2}
    NoGoal = NoGoal
    DependsOn <- Chain
    MaxIncidents = 0
SYMMETRY Symmetry
INVARIANT PrerequisitesAlwaysFirst
