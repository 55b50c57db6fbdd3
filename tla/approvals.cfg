\* Three requests of two runs for one ask whose text fits on the row or does
\* not, a seat of the owner, two drains (self-wake is on);
\* one mishap anywhere.
SPECIFICATION FairSpec
CONSTANTS
    Ask = {a1}
    Requester = {r1, r2}
    Seat = {s1}
    Drain = {d1, d2}
    None = None
    MaxAttempts = 2
    MaxRequests = 3
    MaxMishaps = 1
INVARIANTS
    TypeOK
    ApprovalAttended
    DeliveredMeansUsed
PROPERTIES
    GrantSpentOnce
    ClaimantDisposes
    ApprovalCarriedOut
