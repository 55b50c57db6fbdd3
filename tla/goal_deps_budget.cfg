\* One goal that needs another, one call at a time, two verbs of the owner.
SPECIFICATION Spec
CONSTANTS
    g1 = g1
    g2 = g2
    g3 = g3
    Goal = {g1, g2}
    Call = {c1}
    NoGoal = NoGoal
    DependsOn <- Chain
    MaxIncidents = 2
INVARIANT ServedWithBudget
