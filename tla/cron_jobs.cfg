\* One recurring job the owner may edit into a one-shot, two processes, two
\* runs, a verb of the owner (a pause may be lifted) and one mishap: enough for
\* two processes in one tick lock, and for a second run beside the first.
SPECIFICATION FairSpec
CONSTANTS
    Job = {j1}
    OneShot = {}
    Proc = {p1, p2}
    NoFile = NoFile
    MaxRuns = 2
    MaxVerbs = 1
    MaxMishaps = 1
INVARIANTS
    TypeOK
    OneLiveRun
PROPERTIES
    ClaimEndsItself
    SlotUsedByItsRun
    StoppedStays
    OrphanReturns
