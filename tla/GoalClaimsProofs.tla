-------------------------- MODULE GoalClaimsProofs --------------------------
(* Theorems about GoalClaims, for every set of goals and processes, every  *)
(* retry budget, cap and number of claims.                                 *)
EXTENDS GoalClaims, TLAPS

USE GoalClaimsAssumption

(* The inductive invariant behind TypeOK, ClaimShape and BreakerHolds. A   *)
(* failure keeps the row's failures within MaxRetries only because a       *)
(* running row still has budget left, so the three are proved together.    *)
Inv == TypeOK /\ ClaimShape /\ BreakerHolds

LEMMA ReleasedRow ==
    ASSUME NEW r \in Row
    PROVE  /\ Released(r) \in Row /\ Released(r).lock = NoPid
           /\ Released(r).status = r.status /\ Released(r).token = r.token
           /\ Released(r).failures = r.failures /\ Released(r).deferrals = r.deferrals
BY DEF Row, Released

LEMMA RequeuedRow ==
    ASSUME NEW r \in Row
    PROVE  /\ Requeued(r) \in Row /\ Requeued(r).lock = NoPid
           /\ Requeued(r).status = "ready" /\ Requeued(r).failures = r.failures
BY ReleasedRow DEF Row, Requeued, Status

LEMMA ForgottenRow ==
    ASSUME NEW r \in Row
    PROVE  /\ Forgotten(r) \in Row /\ Forgotten(r).lock = NoPid
           /\ Forgotten(r).failures = r.failures
BY ReleasedRow DEF Row, Forgotten

LEMMA DeferredRow ==
    ASSUME NEW r \in Row, r.deferrals < MaxRunDeferrals
    PROVE  /\ Deferred(r) \in Row /\ Deferred(r).lock = NoPid
           /\ Deferred(r).status = "ready" /\ Deferred(r).failures = r.failures
<1> DEFINE n == r.deferrals + 1
           q == Requeued(r)
<1>1. n \in 0..MaxRunDeferrals
  BY DEF Row
<1>2. q \in Row /\ q.lock = NoPid /\ q.status = "ready" /\ q.failures = r.failures
  BY RequeuedRow
<1>3. Deferred(r) = [q EXCEPT !.deferrals = n, !.notBefore = TRUE]
  BY DEF Deferred
<1> HIDE DEF n, q
<1> QED
  BY <1>1, <1>2, <1>3 DEF Row

LEMMA DoneRow ==
    ASSUME NEW r \in Row
    PROVE  LET new == [r EXCEPT !.status = "done", !.failures = 0, !.deferrals = 0]
           IN  new \in Row /\ new.status = "done" /\ new.failures = 0
<1>1. 0 \in 0..MaxRetries /\ 0 \in 0..MaxRunDeferrals
  BY GoalClaimsAssumption
<1> QED
  BY <1>1 DEF Row, Status

LEMMA ReadyAgainRow ==
    ASSUME NEW r \in Row
    PROVE  LET new == [r EXCEPT !.status = "ready", !.failures = 0]
           IN  /\ new \in Row /\ new.status = "ready" /\ new.failures = 0
               /\ new.lock = r.lock
<1>1. 0 \in 0..MaxRetries
  BY GoalClaimsAssumption
<1> QED
  BY <1>1 DEF Row, Status

LEMMA FailedRow ==
    ASSUME NEW r \in Row, r.failures < MaxRetries
    PROVE  /\ Failed(r) \in Row /\ Failed(r).lock = NoPid
           /\ Failed(r).status \in {"ready", "blocked"}
           /\ Failed(r).status = "ready" => Failed(r).failures < MaxRetries
<1> DEFINE n == r.failures + 1
           st == IF n >= MaxRetries THEN "blocked" ELSE "ready"
           q == Released(r)
<1>1. n \in 0..MaxRetries /\ (~(n >= MaxRetries) => n < MaxRetries)
  BY DEF Row
<1>2. q \in Row /\ q.lock = NoPid
  BY ReleasedRow
<1>3. st \in {"ready", "blocked"} /\ (st = "ready" => n < MaxRetries)
  BY <1>1
<1>4. Failed(r) = [q EXCEPT !.failures = n, !.status = st]
  BY DEF Failed
<1> HIDE DEF n, st, q
<1> QED
  BY <1>1, <1>2, <1>3, <1>4 DEF Row, Status

(* task.cancel() changes neither the goal nor the process of a run. *)
LEMMA CutKeeps ==
    ASSUME TypeOK, NEW S
    PROVE  /\ Cut(S) \in [Token -> Run]
           /\ \A t \in Token : Cut(S)[t].goal = run[t].goal /\ Cut(S)[t].pid = run[t].pid
BY DEF TypeOK, Run, Cut

THEOREM InitInv == Init => Inv
<1> SUFFICES ASSUME Init PROVE Inv
  OBVIOUS
<1>1. row \in [Goal -> Row]
  BY DEF Init, Row, Status, NoToken
<1>2. run \in [Token -> Run]
  BY DEF Init, Run
<1>3. proc \in [Pid -> Proc] /\ rail \in [Pid -> Rail]
  BY DEF Init, Proc, Rail
<1>4. issued \in 0..MaxClaims
  BY SMT DEF Init
<1>7. paused \in BOOLEAN
  BY Zenon DEF Init
<1>6. charged \in [Token -> Nat]
  BY DEF Init
<1>5. ClaimShape /\ BreakerHolds
  BY DEF Init, ClaimShape, RunningRowIsClaimed, ReadyRowIsFree, BreakerHolds
<1> QED
  BY <1>1, <1>2, <1>3, <1>4, <1>5, <1>6, <1>7 DEF Inv, TypeOK

-----------------------------------------------------------------------------
(* Every step writes at most one row, in one of a few ways.                *)

Renews(old, new) ==
    /\ new.status = old.status /\ new.lock = old.lock /\ new.token = old.token
    /\ new.failures = old.failures
    /\ new.status = "running" => new.lease # "none"

Returns(old, new) ==
    /\ old.status = "running" /\ new.failures = old.failures
    /\ \/ new.status = "ready" /\ new.lock = NoPid
       \/ new.status \in {"blocked", "paused", "cancelled"}

Fails(old, new) ==
    /\ old.status = "running" /\ new.failures = old.failures + 1
    /\ new.status = IF new.failures >= MaxRetries THEN "blocked" ELSE "ready"
    /\ new.lock = NoPid

Succeeds(old, new) ==
    old.status = "running" /\ new.status = "done" /\ new.failures = 0

Parks(old, new) ==
    /\ old.status \in {"ready", "blocked", "paused"}
    /\ new.status \in {"blocked", "paused"} /\ new.failures = old.failures

Reopens(old, new) ==
    /\ old.status \in {"blocked", "paused"} /\ new.status = "ready"
    /\ new.failures = 0 /\ new.lock = NoPid

Closes(old, new) ==
    /\ old.status \in {"ready", "blocked", "paused"} /\ new.status = "cancelled"
    /\ new.failures = old.failures

Moves(old, new) ==
    \/ Renews(old, new) \/ Returns(old, new) \/ Fails(old, new) \/ Succeeds(old, new)
    \/ Parks(old, new) \/ Reopens(old, new) \/ Closes(old, new)

MovesRow(g) ==
    /\ issued' = issued
    /\ \E new \in Row : row' = [row EXCEPT ![g] = new] /\ Moves(row[g], new)

GrantsRow(g) ==
    /\ row[g].status = "ready" /\ issued < MaxClaims
    /\ issued' = issued + 1
    /\ \E p \in Pid :
          /\ run'[issued + 1].goal = g /\ run'[issued + 1].pid = p
          /\ row' = [row EXCEPT ![g] = [row[g] EXCEPT !.status = "running", !.lock = p,
                                                    !.token = issued + 1, !.lease = "live"]]

KeepsRows == row' = row /\ issued' = issued

LEMMA FailsRow ==
    ASSUME NEW r \in Row, r.status = "running", r.failures < MaxRetries
    PROVE  Failed(r) \in Row /\ Fails(r, Failed(r))
<1>1. Failed(r) \in Row /\ Failed(r).lock = NoPid
  BY FailedRow
<1>2. /\ Failed(r).failures = r.failures + 1
      /\ Failed(r).status = IF r.failures + 1 >= MaxRetries THEN "blocked" ELSE "ready"
  BY ReleasedRow DEF Failed, Row
<1> QED
  BY <1>1, <1>2 DEF Fails

LEMMA ReturnsRow ==
    ASSUME NEW r \in Row, r.status = "running"
    PROVE  Requeued(r) \in Row /\ Returns(r, Requeued(r))
BY RequeuedRow DEF Returns

LEMMA ProcessRows ==
    ASSUME Inv, NEW p \in Pid, ProcessStep(p)
    PROVE  KeepsRows \/ \E g \in Goal : GrantsRow(g) \/ MovesRow(g)
<1> USE DEF KeepsRows
<1> \A g \in Goal : row[g] \in Row
  BY DEF Inv, TypeOK
<1>1. CASE \/ Boot(p) \/ BootDone(p) \/ Crash(p) \/ Tick(p) \/ GatePaused(p) \/ GateOpen(p)
           \/ GateClosed(p) \/ ReadReady(p) \/ TickDone(p) \/ HoldRows(p) \/ PauseHoldDone(p)
  BY <1>1 DEF Boot, BootDone, Crash, Tick, GatePaused, GateOpen, GateClosed, ReadReady,
              TickDone, HoldRows, PauseHoldDone
<1>2. CASE RailDue(p) \/ RailCut(p) \/ RailHoldRows(p) \/ RailDone(p)
  BY <1>2 DEF RailDue, RailCut, RailHoldRows, RailDone
<1>3. ASSUME NEW g \in Goal, BootRow(p, g) PROVE KeepsRows \/ MovesRow(g)
  BY <1>3, ReturnsRow DEF BootRow, MovesRow, Moves
<1>4. ASSUME NEW g \in Goal, ReclaimRow(p, g) PROVE KeepsRows \/ MovesRow(g)
  <2>1. row[g].status = "running" => row[g].failures < MaxRetries
    BY DEF Inv, BreakerHolds
  <2> QED
    BY <1>4, <2>1, FailsRow DEF ReclaimRow, MovesRow, Moves
<1>5. ASSUME NEW g \in Goal, Claim(p, g) PROVE GrantsRow(g)
  <2>1. issued + 1 \in Token /\ issued < MaxClaims
    BY <1>5 DEF Claim, Inv, TypeOK, Token
  <2> DEFINE cut == Cut({u \in Token : IsTask(p, g, u)})
  <2>2. cut \in [Token -> Run]
    BY CutKeeps DEF Inv
  <2>3. run' = [cut EXCEPT ![issued + 1] = [goal |-> g, pid |-> p, phase |-> "live"]]
    BY <1>5 DEF Claim
  <2> HIDE DEF cut
  <2>4. run'[issued + 1].goal = g /\ run'[issued + 1].pid = p
    BY <2>1, <2>2, <2>3
  <2>5. row' = [row EXCEPT ![g] = [row[g] EXCEPT !.status = "running", !.lock = p,
                                                 !.token = issued + 1, !.lease = "live"]]
    BY <1>5 DEF Claim
  <2> QED
    BY <1>5, <2>1, <2>4, <2>5 DEF Claim, GrantsRow
<1>6. ASSUME NEW g \in Goal, Skip(p, g) PROVE KeepsRows
  BY <1>6 DEF Skip
<1>7. ASSUME NEW g \in Goal, HoldRow(p, g), issued' = issued PROVE KeepsRows \/ MovesRow(g)
  BY <1>7, ReturnsRow DEF HoldRow, RowsOf, MovesRow, Moves
<1>8. ASSUME NEW g \in Goal, PauseHoldRow(p, g) \/ RailHoldRow(p, g)
      PROVE  KeepsRows \/ MovesRow(g)
  BY <1>7, <1>8 DEF PauseHoldRow, RailHoldRow
<1> QED
  BY <1>1, <1>2, <1>3, <1>4, <1>5, <1>6, <1>8 DEF ProcessStep

LEMMA RunRows ==
    ASSUME Inv, NEW t \in Token, RunStep(t)
    PROVE  KeepsRows \/ \E g \in Goal : MovesRow(g)
<1> DEFINE g == run[t].goal
<1> USE DEF KeepsRows
<1>1. \A h \in Goal : row[h] \in Row /\ (row[h].status = "running" => row[h].failures < MaxRetries)
  BY DEF Inv, TypeOK, BreakerHolds
<1>2. CASE HeartbeatLost(t) \/ EndUnrecorded(t) \/ Unwind(t)
  BY <1>2 DEF HeartbeatLost, EndUnrecorded, Unwind
<1>3. CASE HeartbeatRenews(t)
  <2>1. g \in Goal /\ issued' = issued
        /\ row' = [row EXCEPT ![g] = [row[g] EXCEPT !.lease = "live"]]
    BY <1>3 DEF HeartbeatRenews, Holds
  <2>2. [row[g] EXCEPT !.lease = "live"] \in Row
        /\ Renews(row[g], [row[g] EXCEPT !.lease = "live"])
    BY <2>1, <1>1 DEF Row, Renews
  <2> QED
    BY <2>1, <2>2 DEF MovesRow, Moves
<1>m. ASSUME g \in Goal, NEW new \in Row, Moves(row[g], new), issued' = issued,
             row' = [row EXCEPT ![g] = new]
      PROVE  \E h \in Goal : MovesRow(h)
  BY <1>m DEF MovesRow
<1>r. g \in Goal => /\ Released(row[g]) \in Row /\ Released(row[g]).lock = NoPid
                    /\ Released(row[g]).failures = row[g].failures
  BY <1>1, ReleasedRow
<1>h. Holds(t) => g \in Goal /\ row[g].status = "running"
  BY DEF Holds
<1>4. CASE RecordSuccess(t)
  <2> DEFINE new == [Released(row[g]) EXCEPT !.status = "done", !.failures = 0, !.deferrals = 0]
  <2>1. issued' = issued /\ (row' = row \/ (Holds(t) /\ row' = [row EXCEPT ![g] = new]))
    BY <1>4 DEF RecordSuccess
  <2>2. g \in Goal => new \in Row /\ new.status = "done" /\ new.failures = 0
    BY <1>r, DoneRow
  <2> HIDE DEF new
  <2>3. Holds(t) => Moves(row[g], new)
    BY <1>h, <2>2 DEF Succeeds, Moves
  <2> QED
    BY <2>1, <2>2, <2>3, <1>h, <1>m
<1>5. Holds(t) => FailedRun(row[g]) \in Row /\ Moves(row[g], FailedRun(row[g]))
  <2> SUFFICES ASSUME Holds(t)
               PROVE  FailedRun(row[g]) \in Row /\ Moves(row[g], FailedRun(row[g]))
    OBVIOUS
  <2> DEFINE r == Failed(row[g])
  <2>1. r \in Row /\ Fails(row[g], r)
    BY <1>1, <1>h, FailsRow
  <2>2. FailedRun(row[g]) = [r EXCEPT !.deferrals = 0]
    BY DEF FailedRun
  <2> HIDE DEF r
  <2> QED
    BY <2>1, <2>2 DEF Moves, Fails, Row
<1>6. CASE RecordFailure(t) \/ DeclareBlocked(t)
  <2>1. issued' = issued /\ (row' = row \/ (Holds(t) /\ row' = [row EXCEPT ![g] = FailedRun(row[g])]))
    BY <1>6 DEF RecordFailure, DeclareBlocked
  <2> QED
    BY <2>1, <1>5, <1>h, <1>m
<1>7. CASE BlockFromReady(t)
  <2> DEFINE new == [Released(row[g]) EXCEPT !.status = "blocked"]
  <2>1. issued' = issued /\ (row' = row \/ (row[g].status = "ready" /\ row' = [row EXCEPT ![g] = new]))
    BY <1>7 DEF BlockFromReady
  <2>2. g \in Goal => new \in Row /\ new.status = "blocked" /\ new.failures = row[g].failures
    BY <1>r DEF Row, Status
  <2> HIDE DEF new
  <2>3. g \notin Goal => [row EXCEPT ![g] = new] = row
    BY DEF Inv, TypeOK
  <2>4. g \in Goal /\ row[g].status = "ready" => Moves(row[g], new)
    BY <2>2 DEF Parks, Moves
  <2> QED
    BY <2>1, <2>2, <2>3, <2>4, <1>m
<1>8. CASE DeferRun(t)
  <2>1. /\ g \in Goal /\ row[g].status = "running" /\ row[g].deferrals < MaxRunDeferrals
        /\ issued' = issued /\ row' = [row EXCEPT ![g] = Deferred(row[g])]
    BY <1>8 DEF DeferRun, Holds
  <2>2. Deferred(row[g]) \in Row /\ Returns(row[g], Deferred(row[g]))
    BY <1>1, <2>1, DeferredRow DEF Returns
  <2> QED
    BY <2>1, <2>2, <1>m DEF Moves
<1> QED
  BY <1>2, <1>3, <1>4, <1>6, <1>7, <1>8 DEF RunStep

LEMMA OwnerRows ==
    ASSUME Inv, NEW g \in Goal, OwnerStep(g) \/ ClockStep(g)
    PROVE  MovesRow(g)
<1>1. row[g] \in Row
  BY DEF Inv, TypeOK
<1>2. ASSUME NEW new \in Row, row' = [row EXCEPT ![g] = new], issued' = issued, Moves(row[g], new)
      PROVE  MovesRow(g)
  BY <1>2 DEF MovesRow
<1>f. /\ Forgotten(row[g]) \in Row /\ Forgotten(row[g]).lock = NoPid
      /\ Forgotten(row[g]).failures = row[g].failures
  BY <1>1, ForgottenRow
<1>3. CASE Cancel(g)
  <2> DEFINE new == [row[g] EXCEPT !.status = "cancelled", !.lock = NoPid, !.token = NoToken]
  <2>1. row' = [row EXCEPT ![g] = new] /\ issued' = issued /\ row[g].status \notin Terminal
    BY <1>3 DEF Cancel
  <2>2. new \in Row
    BY <1>1 DEF Row, Status
  <2>3. Returns(row[g], new) \/ Closes(row[g], new)
    BY <1>1, <2>1 DEF Row, Status, Terminal, Returns, Closes
  <2> QED
    BY <1>2, <2>1, <2>2, <2>3 DEF Moves
<1>4. CASE Pause(g)
  <2> DEFINE new == [Forgotten(row[g]) EXCEPT !.status = "paused"]
  <2>1. /\ row' = [row EXCEPT ![g] = new] /\ issued' = issued
        /\ row[g].status \in {"ready", "running", "blocked"}
    BY <1>4 DEF Pause
  <2>2. new \in Row
    BY <1>1, ForgottenRow DEF Row, Status
  <2>3. Returns(row[g], new) \/ Parks(row[g], new)
    BY <1>1, <2>1, ForgottenRow DEF Row, Returns, Parks
  <2> QED
    BY <1>2, <2>1, <2>2, <2>3 DEF Moves
<1>5. CASE Retry(g)
  <2> DEFINE new == [Forgotten(row[g]) EXCEPT !.status = "ready", !.failures = 0]
  <2>1. /\ row' = [row EXCEPT ![g] = new] /\ issued' = issued
        /\ row[g].status \in {"paused", "blocked"}
    BY <1>5 DEF Retry
  <2>2. new \in Row /\ new.status = "ready" /\ new.failures = 0 /\ new.lock = NoPid
    BY <1>f, ReadyAgainRow
  <2>3. Reopens(row[g], new)
    BY <2>1, <2>2 DEF Reopens
  <2> QED
    BY <1>2, <2>1, <2>2, <2>3 DEF Moves
<1>6. CASE Unblock(g)
  <2> DEFINE new == [Requeued(row[g]) EXCEPT !.failures = 0]
  <2>1. row' = [row EXCEPT ![g] = new] /\ issued' = issued /\ row[g].status = "blocked"
    BY <1>6 DEF Unblock
  <2>2. Requeued(row[g]) \in Row /\ Requeued(row[g]).lock = NoPid
        /\ Requeued(row[g]).status = "ready"
    BY <1>1, RequeuedRow
  <2>3. new \in Row /\ Reopens(row[g], new)
    BY <2>1, <2>2 DEF Row, Reopens
  <2> QED
    BY <1>2, <2>1, <2>3 DEF Moves
<1>7. CASE AgeOut(g)
  <2> DEFINE new == [row[g] EXCEPT !.status = "cancelled"]
  <2>1. row' = [row EXCEPT ![g] = new] /\ issued' = issued /\ row[g].status = "blocked"
    BY <1>7 DEF AgeOut
  <2>2. new \in Row /\ Closes(row[g], new)
    BY <1>1, <2>1 DEF Row, Status, Closes
  <2> QED
    BY <1>2, <2>1, <2>2 DEF Moves
<1>8. CASE LeaseExpires(g)
  <2> DEFINE new == [row[g] EXCEPT !.lease = "expired"]
  <2>1. row' = [row EXCEPT ![g] = new] /\ issued' = issued
    BY <1>8 DEF LeaseExpires
  <2>2. new \in Row /\ Renews(row[g], new)
    BY <1>1 DEF Row, Renews
  <2> QED
    BY <1>2, <2>1, <2>2 DEF Moves
<1>9. CASE DeferralElapses(g)
  <2> DEFINE new == [row[g] EXCEPT !.notBefore = FALSE]
  <2>1. row' = [row EXCEPT ![g] = new] /\ issued' = issued
    BY <1>9 DEF DeferralElapses
  <2>2. new \in Row /\ Renews(row[g], new)
    BY <1>1 DEF Row, Renews, Inv, ClaimShape, RunningRowIsClaimed
  <2> QED
    BY <1>2, <2>1, <2>2 DEF Moves
<1> QED
  BY <1>3, <1>4, <1>5, <1>6, <1>7, <1>8, <1>9 DEF OwnerStep, ClockStep

LEMMA NextRows ==
    ASSUME Inv, [Next]_vars
    PROVE  KeepsRows \/ \E g \in Goal : GrantsRow(g) \/ MovesRow(g)
<1>1. CASE PauseAll
  BY <1>1 DEF PauseAll, KeepsRows
<1>2. CASE UNCHANGED vars
  BY <1>2 DEF vars, KeepsRows
<1> QED
  BY <1>1, <1>2, ProcessRows, RunRows, OwnerRows DEF Next

-----------------------------------------------------------------------------
(* The runs keep their goal and process once claimed.                      *)

RunNamesKept ==
    \A t \in Token : t <= issued => run'[t].goal = run[t].goal /\ run'[t].pid = run[t].pid

KeepsRuns == run' \in [Token -> Run] /\ RunNamesKept

LEMMA FinishKeeps ==
    ASSUME Inv, NEW t \in Token, NEW ph \in {"none", "live", "blocking", "cut", "over", "dead"},
           Finish(t, ph)
    PROVE  KeepsRuns
BY DEF Finish, KeepsRuns, RunNamesKept, Inv, TypeOK, Run

LEMMA CutsKeep ==
    ASSUME Inv, NEW S, run' = Cut(S)
    PROVE  KeepsRuns
BY CutKeeps DEF KeepsRuns, RunNamesKept, Inv

LEMMA SameRuns ==
    ASSUME Inv, run' = run
    PROVE  KeepsRuns
BY DEF KeepsRuns, RunNamesKept, Inv, TypeOK

LEMMA ProcessRuns ==
    ASSUME Inv, NEW p \in Pid, ProcessStep(p)
    PROVE  KeepsRuns
<1>1. CASE \/ Boot(p) \/ BootDone(p) \/ Tick(p) \/ GateOpen(p)
           \/ GateClosed(p) \/ ReadReady(p) \/ TickDone(p) \/ HoldRows(p) \/ PauseHoldDone(p)
  BY <1>1, SameRuns DEF Boot, BootDone, Tick, GateOpen, GateClosed, ReadReady,
              TickDone, HoldRows, PauseHoldDone
<1>2. CASE RailDue(p) \/ RailHoldRows(p) \/ RailDone(p)
  BY <1>2, SameRuns DEF RailDue, RailHoldRows, RailDone
<1>3. CASE Crash(p)
  BY <1>3 DEF Crash, KeepsRuns, RunNamesKept, Inv, TypeOK, Run
<1>4. CASE GatePaused(p)
  BY <1>4, SameRuns, CutsKeep DEF GatePaused
<1>5. CASE RailCut(p)
  BY <1>5, CutsKeep DEF RailCut
<1>6. ASSUME NEW g \in Goal,
             \/ BootRow(p, g) \/ ReclaimRow(p, g) \/ Skip(p, g)
             \/ PauseHoldRow(p, g) \/ RailHoldRow(p, g)
      PROVE  KeepsRuns
  BY <1>6, SameRuns DEF BootRow, ReclaimRow, Skip, PauseHoldRow, RailHoldRow
<1>7. ASSUME NEW g \in Goal, Claim(p, g) PROVE KeepsRuns
  <2> DEFINE cut == Cut({u \in Token : IsTask(p, g, u)})
             new == [goal |-> g, pid |-> p, phase |-> "live"]
  <2>1. /\ cut \in [Token -> Run]
        /\ \A t \in Token : cut[t].goal = run[t].goal /\ cut[t].pid = run[t].pid
    BY CutKeeps DEF Inv
  <2>2. run' = [cut EXCEPT ![issued + 1] = new]
    BY <1>7 DEF Claim
  <2>3. new \in Run
    BY DEF Run
  <2>4. issued \in Nat /\ \A t \in Token : t <= issued => t # issued + 1
    BY DEF Inv, TypeOK, Token
  <2> HIDE DEF cut, new
  <2> QED
    BY <2>1, <2>2, <2>3, <2>4 DEF KeepsRuns, RunNamesKept
<1> QED
  BY <1>1, <1>2, <1>3, <1>4, <1>5, <1>6, <1>7 DEF ProcessStep

LEMMA NextRuns ==
    ASSUME Inv, [Next]_vars
    PROVE  KeepsRuns
<1>1. CASE PauseAll \/ UNCHANGED vars
  BY <1>1, SameRuns DEF PauseAll, vars
<1>2. ASSUME NEW t \in Token, RunStep(t) PROVE KeepsRuns
  <2>1. CASE \/ RecordSuccess(t) \/ RecordFailure(t) \/ BlockFromReady(t) \/ DeferRun(t)
             \/ EndUnrecorded(t) \/ Unwind(t)
    BY <2>1, FinishKeeps DEF RecordSuccess, RecordFailure, BlockFromReady, DeferRun,
                             EndUnrecorded, Unwind
  <2>2. CASE HeartbeatLost(t)
    BY <2>2, FinishKeeps DEF HeartbeatLost
  <2>3. CASE HeartbeatRenews(t)
    BY <2>3, SameRuns DEF HeartbeatRenews
  <2>4. CASE DeclareBlocked(t)
    <3>1. Finish(t, "blocking") \/ Finish(t, "over")
      BY <2>4 DEF DeclareBlocked, Finish
    <3> QED
      BY <3>1, FinishKeeps
  <2> QED
    BY <1>2, <2>1, <2>2, <2>3, <2>4 DEF RunStep
<1>3. ASSUME NEW g \in Goal, OwnerStep(g) \/ ClockStep(g) PROVE KeepsRuns
  <2>1. ASSUME CancelLocalRun(g) PROVE KeepsRuns
    BY <2>1, SameRuns, CutsKeep DEF CancelLocalRun
  <2> QED
    BY <1>3, <2>1, SameRuns DEF OwnerStep, ClockStep, Cancel, Pause, Retry, Unblock, AgeOut,
                                LeaseExpires, DeferralElapses
<1> QED
  BY <1>1, <1>2, <1>3, ProcessRuns DEF Next

-----------------------------------------------------------------------------
(* The control state of the processes stays well-typed.                    *)

LEMMA NextProc ==
    ASSUME Inv, [Next]_vars
    PROVE  proc' \in [Pid -> Proc]
<1>1. CASE PauseAll \/ UNCHANGED vars
  BY <1>1 DEF PauseAll, vars, Inv, TypeOK
<1>2. ASSUME NEW t \in Token, RunStep(t) PROVE proc' \in [Pid -> Proc]
  BY <1>2 DEF Inv, TypeOK, RunStep, HeartbeatRenews, HeartbeatLost, RecordSuccess, RecordFailure,
              DeclareBlocked, BlockFromReady, DeferRun, EndUnrecorded, Unwind
<1>3. ASSUME NEW g \in Goal, OwnerStep(g) \/ ClockStep(g) PROVE proc' \in [Pid -> Proc]
  BY <1>3 DEF Inv, TypeOK, OwnerStep, ClockStep, Cancel, Pause, Retry, Unblock, AgeOut,
              LeaseExpires, DeferralElapses
<1>4. ASSUME NEW p \in Pid, ProcessStep(p) PROVE proc' \in [Pid -> Proc]
  <2> /\ proc \in [Pid -> Proc]
      /\ proc[p].phase \in {"unborn", "down", "booting", "idle", "sweeping", "gated",
                           "claiming", "holding", "returning"}
      /\ proc[p].todo \in SUBSET Goal /\ proc[p].seen \in BOOLEAN
    BY DEF Inv, TypeOK, Proc
  <2>f. FALSE \in BOOLEAN
    OBVIOUS
  <2>1. CASE Boot(p) \/ Crash(p)
    <3>1. PICK new \in Proc : proc' = [proc EXCEPT ![p] = new]
      <4>1. [phase |-> "booting", seen |-> FALSE, todo |-> {g \in Goal : row[g].status = "running"}]
               \in Proc
        BY <2>f, Zenon DEF Proc
      <4>2. [phase |-> "down", todo |-> {}, seen |-> FALSE] \in Proc
        BY <2>f DEF Proc
      <4> QED
        BY <2>1, <4>1, <4>2, Zenon DEF Boot, Crash
    <3> QED
      BY <3>1
  <2>2. CASE GatePaused(p)
    <3>1. \/ proc' = [proc EXCEPT ![p].phase = "idle"]
          \/ proc' = [proc EXCEPT ![p].phase = "holding", ![p].seen = TRUE]
      BY <2>2 DEF GatePaused
    <3> QED
      BY <3>1 DEF Proc
  <2>8. CASE BootDone(p) \/ GateClosed(p) \/ TickDone(p) \/ PauseHoldDone(p)
    <3>1. proc' = [proc EXCEPT ![p].phase = "idle"]
      BY <2>8 DEF BootDone, GateClosed, TickDone, PauseHoldDone
    <3> QED
      BY <3>1 DEF Proc
  <2>9. CASE Tick(p)
    BY <2>9 DEF Tick, Proc
  <2>10. CASE GateOpen(p)
    <3> DEFINE new == [proc[p] EXCEPT !.phase = "gated", !.seen = FALSE]
    <3>1. proc' = [proc EXCEPT ![p] = new]
      BY <2>10 DEF GateOpen
    <3>2. new \in Proc
      BY <2>f DEF Proc
    <3> QED
      BY <3>1, <3>2
  <2>3. CASE ReadReady(p)
    <3>1. PICK batch \in SUBSET Ready :
             proc' = [proc EXCEPT ![p].phase = "claiming", ![p].todo = batch]
      BY <2>3 DEF ReadReady
    <3>2. batch \in SUBSET Goal
      BY DEF Ready
    <3> QED
      BY <3>1, <3>2 DEF Proc
  <2>4. CASE HoldRows(p)
    BY <2>4 DEF HoldRows, RowsOf, Proc
  <2>5. CASE RailDue(p) \/ RailCut(p) \/ RailHoldRows(p) \/ RailDone(p)
    BY <2>5 DEF RailDue, RailCut, RailHoldRows, RailDone
  <2>6. ASSUME NEW g \in Goal, \/ BootRow(p, g) \/ ReclaimRow(p, g) \/ Claim(p, g) \/ Skip(p, g)
                              \/ PauseHoldRow(p, g)
        PROVE  proc' \in [Pid -> Proc]
    <3>1. proc' = [proc EXCEPT ![p].todo = @ \ {g}]
      BY <2>6 DEF BootRow, ReclaimRow, Claim, Skip, PauseHoldRow
    <3> QED
      BY <3>1 DEF Proc
  <2>7. ASSUME NEW g \in Goal, RailHoldRow(p, g) PROVE proc' \in [Pid -> Proc]
    BY <2>7 DEF RailHoldRow
  <2> QED
    BY <1>4, <2>1, <2>2, <2>3, <2>4, <2>5, <2>6, <2>7, <2>8, <2>9, <2>10
    DEF ProcessStep
<1> QED
  BY <1>1, <1>2, <1>3, <1>4 DEF Next

LEMMA NextRail ==
    ASSUME Inv, [Next]_vars
    PROVE  rail' \in [Pid -> Rail]
<1>1. CASE PauseAll \/ UNCHANGED vars
  BY <1>1 DEF PauseAll, vars, Inv, TypeOK
<1>2. ASSUME NEW t \in Token, RunStep(t) PROVE rail' \in [Pid -> Rail]
  BY <1>2 DEF Inv, TypeOK, RunStep, HeartbeatRenews, HeartbeatLost, RecordSuccess, RecordFailure,
              DeclareBlocked, BlockFromReady, DeferRun, EndUnrecorded, Unwind
<1>3. ASSUME NEW g \in Goal, OwnerStep(g) \/ ClockStep(g) PROVE rail' \in [Pid -> Rail]
  BY <1>3 DEF Inv, TypeOK, OwnerStep, ClockStep, Cancel, Pause, Retry, Unblock, AgeOut,
              LeaseExpires, DeferralElapses
<1>4. ASSUME NEW p \in Pid, ProcessStep(p) PROVE rail' \in [Pid -> Rail]
  <2> /\ rail \in [Pid -> Rail]
      /\ rail[p].goals \in SUBSET Goal /\ rail[p].tasks \in SUBSET Token
    BY DEF Inv, TypeOK, Rail
  <2>1. CASE \/ Boot(p) \/ BootDone(p) \/ Tick(p) \/ GatePaused(p) \/ GateOpen(p) \/ GateClosed(p)
             \/ ReadReady(p) \/ TickDone(p) \/ HoldRows(p) \/ PauseHoldDone(p)
    BY <2>1 DEF Boot, BootDone, Tick, GatePaused, GateOpen, GateClosed, ReadReady, TickDone,
                HoldRows, PauseHoldDone
  <2>2. CASE Crash(p) \/ RailDone(p)
    BY <2>2 DEF Crash, RailDone, Rail
  <2>3. CASE RailDue(p)
    <3>1. PICK targets \in SUBSET LiveGoals(p) :
             \/ rail' = [rail EXCEPT ![p] = [phase |-> "grace", goals |-> targets, tasks |-> {}]]
             \/ rail' = [rail EXCEPT ![p] = [phase |-> "returning", goals |-> RowsOf(p),
                                           tasks |-> {}]]
      BY <2>3 DEF RailDue
    <3>2. targets \in SUBSET Goal /\ RowsOf(p) \in SUBSET Goal
      BY DEF LiveGoals, RowsOf
    <3> QED
      BY <3>1, <3>2 DEF Rail
  <2>4. CASE RailCut(p)
    BY <2>4 DEF RailCut, Rail
  <2>5. CASE RailHoldRows(p)
    BY <2>5 DEF RailHoldRows, Rail
  <2>6. ASSUME NEW g \in Goal, \/ BootRow(p, g) \/ ReclaimRow(p, g) \/ Claim(p, g) \/ Skip(p, g)
                              \/ PauseHoldRow(p, g)
        PROVE  rail' \in [Pid -> Rail]
    BY <2>6 DEF BootRow, ReclaimRow, Claim, Skip, PauseHoldRow
  <2>7. ASSUME NEW g \in Goal, RailHoldRow(p, g) PROVE rail' \in [Pid -> Rail]
    BY <2>7 DEF RailHoldRow, Rail
  <2> QED
    BY <1>4, <2>1, <2>2, <2>3, <2>4, <2>5, <2>6, <2>7 DEF ProcessStep
<1> QED
  BY <1>1, <1>2, <1>3, <1>4 DEF Next

(* A failure is charged to the claim of a running row, by the write that   *)
(* takes the row away from it.                                             *)
ChargesRow(g) ==
    /\ row[g].status = "running" /\ charged' = Charge(row[g].token)
    /\ row'[g].status # "running" /\ issued' = issued
    /\ \A h \in Goal : h # g => row'[h] = row[h]

LEMMA NextCharges ==
    ASSUME Inv, [Next]_vars
    PROVE  charged' = charged \/ \E g \in Goal : ChargesRow(g)
<1>1. CASE PauseAll \/ UNCHANGED vars
  BY <1>1 DEF PauseAll, vars
<1>2. \A g \in Goal : row[g] \in Row /\ row \in [Goal -> Row]
                     /\ (row[g].status = "running" => row[g].failures < MaxRetries)
  BY DEF Inv, TypeOK, BreakerHolds
<1>3. ASSUME NEW t \in Token, RunStep(t)
      PROVE  charged' = charged \/ \E g \in Goal : ChargesRow(g)
  <2> DEFINE g == run[t].goal
  <2>1. CASE /\ ~RecordFailure(t) /\ ~DeclareBlocked(t)
    BY <1>3, <2>1 DEF RunStep, HeartbeatRenews, HeartbeatLost, RecordSuccess,
                      BlockFromReady, DeferRun, EndUnrecorded, Unwind
  <2>2. CASE ~Holds(t) /\ (RecordFailure(t) \/ DeclareBlocked(t))
    BY <2>2 DEF RecordFailure, DeclareBlocked
  <2>3. CASE Holds(t) /\ (RecordFailure(t) \/ DeclareBlocked(t))
    <3>1. g \in Goal /\ row[g].status = "running" /\ row[g].token = t
      BY <2>3 DEF Holds
    <3>2. /\ row' = [row EXCEPT ![g] = FailedRun(row[g])]
          /\ charged' = Charge(t) /\ issued' = issued
      BY <2>3 DEF RecordFailure, DeclareBlocked
    <3>3. FailedRun(row[g]).status # "running"
      <4>1. Failed(row[g]) \in Row /\ Failed(row[g]).status \in {"ready", "blocked"}
        BY <1>2, <3>1, FailedRow
      <4> DEFINE r == Failed(row[g])
      <4>2. FailedRun(row[g]) = [r EXCEPT !.deferrals = 0]
        BY DEF FailedRun
      <4> HIDE DEF r
      <4> QED
        BY <4>1, <4>2 DEF r, Row
    <3> QED
      BY <1>2, <3>1, <3>2, <3>3 DEF ChargesRow
  <2> QED
    BY <2>1, <2>2, <2>3
<1>4. ASSUME NEW g \in Goal, OwnerStep(g) \/ ClockStep(g) PROVE charged' = charged
  BY <1>4 DEF OwnerStep, ClockStep, Cancel, Pause, Retry, Unblock, AgeOut,
              LeaseExpires, DeferralElapses
<1>5. ASSUME NEW p \in Pid, NEW g \in Goal, ReclaimRow(p, g)
      PROVE  charged' = charged \/ ChargesRow(g)
  <2>1. CASE row[g].status = "running" /\ row[g].lease = "expired"
    <3>1. Failed(row[g]).status # "running"
      BY <1>2, <2>1, FailedRow
    <3> QED
      BY <1>2, <1>5, <2>1, <3>1 DEF ReclaimRow, ChargesRow
  <2> QED
    BY <1>5, <2>1 DEF ReclaimRow
<1>6. ASSUME NEW p \in Pid, ProcessStep(p), \A g \in Goal : ~ReclaimRow(p, g)
      PROVE  charged' = charged
  BY <1>6 DEF ProcessStep, Boot, BootDone, Crash, Tick, GatePaused, GateOpen, GateClosed,
              ReadReady, TickDone, HoldRows, PauseHoldDone, RailDue, RailCut, RailHoldRows,
              RailDone, BootRow, Claim, Skip, PauseHoldRow, RailHoldRow
<1> QED
  BY <1>1, <1>3, <1>4, <1>5, <1>6 DEF Next

LEMMA NextPaused ==
    ASSUME Inv, [Next]_vars
    PROVE  paused' \in BOOLEAN
<1>1. paused \in BOOLEAN
  BY DEF Inv, TypeOK
<1>2. CASE PauseAll
  BY <1>2 DEF PauseAll
<1>3. CASE UNCHANGED vars
  BY <1>1, <1>3, Zenon DEF vars
<1>4. ASSUME NEW t \in Token, RunStep(t) PROVE paused' = paused
  BY <1>4, Zenon DEF RunStep, HeartbeatRenews, HeartbeatLost, RecordSuccess, RecordFailure,
              DeclareBlocked, BlockFromReady, DeferRun, EndUnrecorded, Unwind
<1>5. ASSUME NEW g \in Goal, OwnerStep(g) \/ ClockStep(g) PROVE paused' = paused
  BY <1>5, Zenon DEF OwnerStep, ClockStep, Cancel, Pause, Retry, Unblock, AgeOut,
              LeaseExpires, DeferralElapses
<1>6. ASSUME NEW p \in Pid, ProcessStep(p) PROVE paused' = paused
  BY <1>6, Zenon DEF ProcessStep, Boot, BootDone, Crash, Tick, GatePaused, GateOpen, GateClosed,
              ReadReady, TickDone, HoldRows, PauseHoldDone, RailDue, RailCut, RailHoldRows,
              RailDone, BootRow, ReclaimRow, Claim, Skip, PauseHoldRow, RailHoldRow
<1>7. paused' = paused \/ paused' \in BOOLEAN
  BY <1>2, <1>3, <1>4, <1>5, <1>6, Zenon DEF Next, vars
<1> QED
  BY <1>1, <1>7, Zenon

-----------------------------------------------------------------------------
(* The inductive invariant is preserved.                                   *)

LEMMA MoveKeepsRow ==
    ASSUME Inv, NEW g \in Goal, NEW new \in Row, Moves(row[g], new)
    PROVE  /\ new.status \in {"ready", "running"} => new.failures < MaxRetries
           /\ new.status = "ready" => new.lock = NoPid
           /\ new.status = "running" => /\ row[g].status = "running" /\ new.lease # "none"
                                        /\ new.lock = row[g].lock /\ new.token = row[g].token
<1>1. /\ row[g] \in Row
      /\ row[g].status \in {"ready", "running"} => row[g].failures < MaxRetries
      /\ row[g].status = "ready" => row[g].lock = NoPid
  BY DEF Inv, TypeOK, BreakerHolds, ClaimShape, ReadyRowIsFree
<1>2. CASE Renews(row[g], new)
  BY <1>1, <1>2 DEF Renews
<1>3. CASE Returns(row[g], new) \/ Succeeds(row[g], new)
  BY <1>1, <1>3 DEF Returns, Succeeds
<1>4. CASE Fails(row[g], new)
  <2>1. new.failures \in Nat
    BY DEF Row
  <2>2. new.status = "ready" => ~(new.failures >= MaxRetries)
    BY <1>4 DEF Fails
  <2>3. new.status \in {"ready", "blocked"} /\ new.lock = NoPid
    BY <1>4 DEF Fails
  <2> QED
    BY <2>1, <2>2, <2>3, GoalClaimsAssumption
<1>5. CASE Parks(row[g], new) \/ Closes(row[g], new)
  BY <1>5 DEF Parks, Closes
<1>6. CASE Reopens(row[g], new)
  BY <1>6, GoalClaimsAssumption DEF Reopens
<1> QED
  BY <1>2, <1>3, <1>4, <1>5, <1>6 DEF Moves

LEMMA NextRowType ==
    ASSUME Inv, [Next]_vars
    PROVE  row' \in [Goal -> Row] /\ issued' \in 0..MaxClaims
<1>1. row \in [Goal -> Row] /\ issued \in 0..MaxClaims
  BY DEF Inv, TypeOK
<1>2. ASSUME NEW g \in Goal, MovesRow(g) PROVE row' \in [Goal -> Row] /\ issued' = issued
  BY <1>1, <1>2 DEF MovesRow
<1>3. ASSUME NEW g \in Goal, GrantsRow(g) PROVE row' \in [Goal -> Row] /\ issued' \in 0..MaxClaims
  <2>1. issued + 1 \in Token /\ issued' = issued + 1 /\ issued' \in 0..MaxClaims
    BY <1>1, <1>3 DEF GrantsRow, Token
  <2>2. PICK p \in Pid :
           row' = [row EXCEPT ![g] = [row[g] EXCEPT !.status = "running", !.lock = p,
                                                   !.token = issued + 1, !.lease = "live"]]
    BY <1>3 DEF GrantsRow
  <2>3. [row[g] EXCEPT !.status = "running", !.lock = p, !.token = issued + 1, !.lease = "live"]
          \in Row
    BY <1>1, <2>1 DEF Row, Status
  <2> QED
    BY <1>1, <2>1, <2>2, <2>3
<1> QED
  BY <1>1, <1>2, <1>3, NextRows DEF KeepsRows

LEMMA NextShape ==
    ASSUME Inv, [Next]_vars
    PROVE  ClaimShape' /\ BreakerHolds'
<1> SUFFICES ASSUME NEW h \in Goal
             PROVE  /\ RunningRowIsClaimed(h)' /\ ReadyRowIsFree(h)'
                    /\ row'[h].status \in {"ready", "running"} => row'[h].failures < MaxRetries
  BY DEF ClaimShape, BreakerHolds
<1>1. /\ row \in [Goal -> Row] /\ issued \in 0..MaxClaims
      /\ RunningRowIsClaimed(h) /\ ReadyRowIsFree(h)
      /\ row[h].status \in {"ready", "running"} => row[h].failures < MaxRetries
  BY DEF Inv, TypeOK, ClaimShape, BreakerHolds
<1>2. \A t \in 1..issued : run'[t].goal = run[t].goal /\ run'[t].pid = run[t].pid
  BY <1>1, NextRuns DEF KeepsRuns, RunNamesKept, Token
<1>3. ASSUME row'[h] = row[h], issued' \in {issued, issued + 1}
      PROVE  RunningRowIsClaimed(h)' /\ ReadyRowIsFree(h)'
  <2>1. 1..issued \subseteq 1..issued'
    BY <1>1, <1>3
  <2> QED
    BY <1>1, <1>2, <1>3, <2>1 DEF RunningRowIsClaimed, ReadyRowIsFree
<1>4. CASE KeepsRows
  BY <1>1, <1>3, <1>4 DEF KeepsRows
<1>5. ASSUME NEW g \in Goal, MovesRow(g)
      PROVE  /\ RunningRowIsClaimed(h)' /\ ReadyRowIsFree(h)'
             /\ row'[h].status \in {"ready", "running"} => row'[h].failures < MaxRetries
  <2>1. CASE h # g
    <3>1. row'[h] = row[h] /\ issued' = issued
      BY <1>1, <1>5, <2>1 DEF MovesRow
    <3> QED
      BY <1>1, <1>3, <3>1
  <2>2. CASE h = g
    <3>1. PICK new \in Row : row' = [row EXCEPT ![g] = new] /\ Moves(row[g], new)
      BY <1>5 DEF MovesRow
    <3>2. row'[h] = new /\ issued' = issued
      BY <1>1, <1>5, <2>2, <3>1 DEF MovesRow
    <3>3. /\ new.status \in {"ready", "running"} => new.failures < MaxRetries
          /\ new.status = "ready" => new.lock = NoPid
          /\ new.status = "running" => /\ row[g].status = "running" /\ new.lease # "none"
                                       /\ new.lock = row[g].lock /\ new.token = row[g].token
      BY <3>1, MoveKeepsRow
    <3> QED
      BY <1>1, <1>2, <2>2, <3>2, <3>3 DEF RunningRowIsClaimed, ReadyRowIsFree
  <2> QED
    BY <2>1, <2>2
<1>6. ASSUME NEW g \in Goal, GrantsRow(g)
      PROVE  /\ RunningRowIsClaimed(h)' /\ ReadyRowIsFree(h)'
             /\ row'[h].status \in {"ready", "running"} => row'[h].failures < MaxRetries
  <2>1. PICK p \in Pid :
           /\ run'[issued + 1].goal = g /\ run'[issued + 1].pid = p
           /\ row' = [row EXCEPT ![g] = [row[g] EXCEPT !.status = "running", !.lock = p,
                                                   !.token = issued + 1, !.lease = "live"]]
    BY <1>6 DEF GrantsRow
  <2>2. issued' = issued + 1 /\ row[g].status = "ready"
    BY <1>6 DEF GrantsRow
  <2>3. CASE h # g
    <3>1. row'[h] = row[h]
      BY <1>1, <2>1, <2>3
    <3> QED
      BY <1>1, <1>3, <2>2, <3>1
  <2>4. CASE h = g
    <3>1. /\ row'[h].status = "running" /\ row'[h].lock = p /\ row'[h].token = issued + 1
          /\ row'[h].lease = "live" /\ row'[h].failures = row[h].failures
      BY <1>1, <2>1, <2>4 DEF Row
    <3>2. issued + 1 \in 1..issued'
      BY <1>1, <2>2
    <3> QED
      BY <1>1, <2>1, <2>2, <2>4, <3>1, <3>2 DEF RunningRowIsClaimed, ReadyRowIsFree
  <2> QED
    BY <2>3, <2>4
<1> QED
  BY <1>4, <1>1, <1>5, <1>6, NextRows DEF KeepsRows

LEMMA NextInv == Inv /\ [Next]_vars => Inv'
<1> SUFFICES ASSUME Inv, [Next]_vars PROVE Inv'
  OBVIOUS
<1>1. row' \in [Goal -> Row] /\ issued' \in 0..MaxClaims
  BY NextRowType
<1>2. run' \in [Token -> Run]
  BY NextRuns DEF KeepsRuns
<1>3. proc' \in [Pid -> Proc] /\ rail' \in [Pid -> Rail]
  BY NextProc, NextRail
<1>4. charged' \in [Token -> Nat]
  BY NextCharges DEF ChargesRow, Charge, Inv, TypeOK
<1>5. paused' \in BOOLEAN
  BY NextPaused
<1> QED
  BY <1>1, <1>2, <1>3, <1>4, <1>5, NextShape DEF Inv, TypeOK

(* The store stays well-formed whatever crashes, restarts, expires or is   *)
(* cancelled.                                                              *)
THEOREM TypeCorrect == Spec => []TypeOK
<1>1. Inv => TypeOK
  BY DEF Inv
<1> QED
  BY InitInv, NextInv, <1>1, PTL DEF Spec

(* Every running row is one claim by one process, and every ready row can  *)
(* be claimed.                                                             *)
THEOREM ClaimsWellFormed == Spec => []ClaimShape
<1>1. Inv => ClaimShape
  BY DEF Inv
<1> QED
  BY InitInv, NextInv, <1>1, PTL DEF Spec

(* In the claim protocol (claims, sweeps, records, holds, boots, retries), *)
(* no path returns a goal to service after its breaker tripped, other than *)
(* the owner verbs and the outage requeue that reset its failures.  The    *)
(* completion of a prerequisite is not a step of this protocol, and it     *)
(* does serve such a goal: see ServedWithBudget of GoalDeps.               *)
THEOREM BreakerNeverBypassed == Spec => []BreakerHolds
<1>1. Inv => BreakerHolds
  BY DEF Inv
<1> QED
  BY InitInv, NextInv, <1>1, PTL DEF Spec

-----------------------------------------------------------------------------
(* done and cancelled are never left: no late record, sweep, hold or boot  *)
(* writes such a row.                                                      *)
LEMMA TerminalRowKept ==
    ASSUME Inv, [Next]_vars, NEW g \in Goal, row[g].status \in Terminal
    PROVE  row'[g].status = row[g].status
<1>1. row \in [Goal -> Row]
  BY DEF Inv, TypeOK
<1>2. CASE KeepsRows
  BY <1>2 DEF KeepsRows
<1>3. ASSUME NEW h \in Goal, MovesRow(h) PROVE row'[g].status = row[g].status
  <2>1. PICK new \in Row : row' = [row EXCEPT ![h] = new] /\ Moves(row[h], new)
    BY <1>3 DEF MovesRow
  <2>2. h = g => new.status = row[g].status
    BY <2>1 DEF Moves, Renews, Returns, Fails, Succeeds, Parks, Reopens, Closes, Terminal
  <2> QED
    BY <1>1, <2>1, <2>2
<1>4. ASSUME NEW h \in Goal, GrantsRow(h) PROVE row'[g].status = row[g].status
  <2>1. h # g
    BY <1>4 DEF GrantsRow, Terminal
  <2> QED
    BY <1>1, <1>4, <2>1 DEF GrantsRow
<1> QED
  BY <1>2, <1>3, <1>4, NextRows

THEOREM TerminalNeverLeft == Spec => TerminalIsFinal
<1>1. Inv /\ [Next]_vars
        => \A g \in Goal : row[g].status \in Terminal => row'[g].status = row[g].status
  BY TerminalRowKept
<1> QED
  BY InitInv, NextInv, <1>1, PTL DEF Spec, TerminalIsFinal

-----------------------------------------------------------------------------
(* GoalClaims implements ExclusiveClaim.                                   *)

LEMMA BoardInit == Init => Board!EInit
BY DEF Init, Board!EInit, BoardPlace, BoardHolder, BoardSpent, Place

LEMMA BoardOneRow ==
    ASSUME row \in [Goal -> Row], NEW g \in Goal, NEW new, row' = [row EXCEPT ![g] = new]
    PROVE  /\ BoardPlace' = [BoardPlace EXCEPT ![g] = Place(new.status)]
           /\ BoardHolder' = [BoardHolder EXCEPT ![g] = IF new.status = "running"
                                                       THEN new.token ELSE 0]
           /\ BoardSpent' = [BoardSpent EXCEPT ![g] = new.failures]
BY DEF BoardPlace, BoardHolder, BoardSpent

LEMMA BoardMoves ==
    ASSUME Inv, NEW g \in Goal, MovesRow(g)
    PROVE  Board!ENext \/ UNCHANGED Board!evars
<1>1. row \in [Goal -> Row] /\ issued' = issued
  BY DEF Inv, TypeOK, MovesRow
<1>2. PICK new \in Row : row' = [row EXCEPT ![g] = new] /\ Moves(row[g], new)
  BY DEF MovesRow
<1> DEFINE old == row[g]
           held == IF new.status = "running" THEN new.token ELSE 0
<1>3. /\ BoardPlace' = [BoardPlace EXCEPT ![g] = Place(new.status)]
      /\ BoardHolder' = [BoardHolder EXCEPT ![g] = held]
      /\ BoardSpent' = [BoardSpent EXCEPT ![g] = new.failures]
  BY <1>1, <1>2, BoardOneRow
<1>4. /\ BoardPlace[g] = Place(old.status) /\ BoardSpent[g] = old.failures
      /\ BoardHolder[g] = IF old.status = "running" THEN old.token ELSE 0
      /\ BoardPlace = [BoardPlace EXCEPT ![g] = BoardPlace[g]]
      /\ BoardHolder = [BoardHolder EXCEPT ![g] = BoardHolder[g]]
      /\ BoardSpent = [BoardSpent EXCEPT ![g] = BoardSpent[g]]
  BY DEF BoardPlace, BoardHolder, BoardSpent
<1>5. CASE Renews(old, new)
  <2>1. UNCHANGED <<BoardPlace, BoardHolder, BoardSpent>>
    BY <1>3, <1>4, <1>5 DEF Renews
  <2> QED
    BY <1>1, <2>1 DEF Board!evars
<1>6. CASE Returns(old, new)
  <2>1. /\ Place(old.status) = "held" /\ Place(new.status) \in {"open", "parked", "closed"}
        /\ held = 0 /\ new.failures = old.failures
    BY <1>6 DEF Returns, Place
  <2>2. Board!Release(g)
    BY <1>1, <1>3, <1>4, <2>1 DEF Board!Release
  <2> QED
    BY <2>2 DEF Board!ENext
<1>7. CASE Fails(old, new)
  <2>1. /\ Place(old.status) = "held" /\ held = 0 /\ new.failures = old.failures + 1
        /\ Place(new.status) = IF old.failures + 1 >= MaxRetries THEN "parked" ELSE "open"
    BY <1>7 DEF Fails, Place
  <2>2. Board!Fail(g)
    BY <1>1, <1>3, <1>4, <2>1 DEF Board!Fail
  <2> QED
    BY <2>2 DEF Board!ENext
<1>8. CASE Succeeds(old, new)
  <2>1. /\ Place(old.status) = "held" /\ held = 0 /\ new.failures = 0
        /\ Place(new.status) = "closed"
    BY <1>8 DEF Succeeds, Place
  <2>2. Board!Succeed(g)
    BY <1>1, <1>3, <1>4, <2>1 DEF Board!Succeed
  <2> QED
    BY <2>2 DEF Board!ENext
<1>9. CASE Parks(old, new)
  <2>1. /\ Place(old.status) \in {"open", "parked"} /\ Place(new.status) = "parked"
        /\ held = 0 /\ old.status # "running" /\ new.failures = old.failures
    BY <1>9 DEF Parks, Place
  <2>2. UNCHANGED <<BoardHolder, BoardSpent>>
    BY <1>3, <1>4, <2>1
  <2>3. Board!Park(g) \/ UNCHANGED Board!evars
    BY <1>1, <1>3, <1>4, <2>1, <2>2 DEF Board!Park, Board!evars
  <2> QED
    BY <2>3 DEF Board!ENext
<1>10. CASE Reopens(old, new)
  <2>1. /\ Place(old.status) = "parked" /\ Place(new.status) = "open" /\ new.failures = 0
        /\ held = 0 /\ old.status # "running"
    BY <1>10 DEF Reopens, Place
  <2>2. Board!Reopen(g)
    BY <1>1, <1>3, <1>4, <2>1 DEF Board!Reopen
  <2> QED
    BY <2>2 DEF Board!ENext
<1>11. CASE Closes(old, new)
  <2>1. /\ Place(old.status) \in {"open", "parked"} /\ Place(new.status) = "closed"
        /\ held = 0 /\ old.status # "running" /\ new.failures = old.failures
    BY <1>11 DEF Closes, Place
  <2>2. Board!Close(g)
    BY <1>1, <1>3, <1>4, <2>1 DEF Board!Close
  <2> QED
    BY <2>2 DEF Board!ENext
<1> QED
  BY <1>2, <1>5, <1>6, <1>7, <1>8, <1>9, <1>10, <1>11 DEF Moves

LEMMA BoardGrants ==
    ASSUME Inv, NEW g \in Goal, GrantsRow(g)
    PROVE  Board!Grant(g)
<1>1. row \in [Goal -> Row] /\ row[g].failures < MaxRetries
  BY DEF Inv, TypeOK, BreakerHolds, GrantsRow
<1>2. PICK p \in Pid :
         row' = [row EXCEPT ![g] = [row[g] EXCEPT !.status = "running", !.lock = p,
                                                 !.token = issued + 1, !.lease = "live"]]
  BY DEF GrantsRow
<1> DEFINE new == [row[g] EXCEPT !.status = "running", !.lock = p,
                                 !.token = issued + 1, !.lease = "live"]
<1>3. new.status = "running" /\ new.token = issued + 1 /\ new.failures = row[g].failures
  BY <1>1 DEF Row
<1>4. row' = [row EXCEPT ![g] = new]
  BY <1>2
<1> HIDE DEF new
<1>5. /\ BoardPlace' = [BoardPlace EXCEPT ![g] = "held"]
      /\ BoardHolder' = [BoardHolder EXCEPT ![g] = issued + 1]
      /\ BoardSpent' = [BoardSpent EXCEPT ![g] = row[g].failures]
  <2>1. /\ BoardPlace' = [BoardPlace EXCEPT ![g] = Place(new.status)]
        /\ BoardHolder' = [BoardHolder EXCEPT ![g] = IF new.status = "running"
                                                    THEN new.token ELSE 0]
        /\ BoardSpent' = [BoardSpent EXCEPT ![g] = new.failures]
    BY <1>1, <1>4, BoardOneRow
  <2>2. Place(new.status) = "held"
    BY <1>3 DEF Place
  <2> QED
    BY <1>3, <2>1, <2>2
<1>6. /\ BoardPlace[g] = "open" /\ BoardSpent[g] = row[g].failures
      /\ BoardSpent = [BoardSpent EXCEPT ![g] = row[g].failures]
  BY DEF BoardPlace, BoardSpent, Place, GrantsRow
<1>7. issued' = issued + 1
  BY DEF GrantsRow
<1> QED
  BY <1>1, <1>5, <1>6, <1>7 DEF Board!Grant

(* Whatever crashes, expires, restarts or is cancelled, the board is a     *)
(* queue of exclusive, budgeted grants.                                    *)
THEOREM BoardImplementsExclusiveClaim == Spec => BoardGrantsExclusively
<1>1. Inv /\ [Next]_vars => [Board!ENext]_(Board!evars)
  <2> SUFFICES ASSUME Inv, [Next]_vars PROVE Board!ENext \/ UNCHANGED Board!evars
    OBVIOUS
  <2>1. CASE KeepsRows
    BY <2>1 DEF KeepsRows, Board!evars, BoardPlace, BoardHolder, BoardSpent
  <2>2. ASSUME NEW g \in Goal, GrantsRow(g) PROVE Board!ENext
    BY <2>2, BoardGrants DEF Board!ENext
  <2> QED
    BY <2>1, <2>2, BoardMoves, NextRows
<1> QED
  BY InitInv, NextInv, BoardInit, <1>1, PTL DEF Spec, BoardGrantsExclusively, Board!ESpec

-----------------------------------------------------------------------------
(* One execution is charged at most one failure.  Inductive because the    *)
(* write that charges a claim also takes the row away from it, and tokens  *)
(* are never handed out twice.                                             *)

Charges(t) ==
    /\ charged[t] <= 1
    /\ charged[t] = 1 => /\ t <= issued
                         /\ \A g \in Goal : row[g].status = "running" => row[g].token # t

ChargedInv == Inv /\ \A t \in Token : Charges(t)

(* A row that is running after a step was running under the same token     *)
(* before it, or the step granted it a new one.                            *)
LEMMA RunningTokens ==
    ASSUME Inv, [Next]_vars, NEW g \in Goal, row'[g].status = "running"
    PROVE  /\ issued' \in {issued, issued + 1}
           /\ \/ row[g].status = "running" /\ row'[g].token = row[g].token
              \/ row'[g].token = issued + 1
<1>1. row \in [Goal -> Row]
  BY DEF Inv, TypeOK
<1>2. CASE KeepsRows
  BY <1>2 DEF KeepsRows
<1>3. CASE \E h \in Goal : MovesRow(h)
  <2>1. PICK h \in Goal : MovesRow(h)
    BY <1>3
  <2>2. PICK new \in Row : row' = [row EXCEPT ![h] = new] /\ Moves(row[h], new)
    BY <2>1 DEF MovesRow
  <2>3. new.status = "running" => row[h].status = "running" /\ new.token = row[h].token
    BY <2>2, MoveKeepsRow
  <2>4. issued' = issued
    BY <2>1 DEF MovesRow
  <2> QED
    BY <1>1, <2>2, <2>3, <2>4
<1>4. CASE \E h \in Goal : GrantsRow(h)
  <2>1. PICK h \in Goal : GrantsRow(h)
    BY <1>4
  <2>2. PICK p \in Pid :
           row' = [row EXCEPT ![h] = [row[h] EXCEPT !.status = "running", !.lock = p,
                                                   !.token = issued + 1, !.lease = "live"]]
    BY <2>1 DEF GrantsRow
  <2>3. h = g => row'[g].token = issued + 1
    BY <1>1, <2>2 DEF Row
  <2>4. h # g => row'[g] = row[g]
    BY <1>1, <2>2
  <2>5. issued' = issued + 1
    BY <2>1 DEF GrantsRow
  <2> QED
    BY <2>3, <2>4, <2>5
<1> QED
  BY <1>2, <1>3, <1>4, NextRows

LEMMA NextChargedInv == ChargedInv /\ [Next]_vars => ChargedInv'
<1> SUFFICES ASSUME ChargedInv, [Next]_vars, NEW t \in Token PROVE Charges(t)'
  BY NextInv DEF ChargedInv
<1>1. /\ Inv /\ Charges(t) /\ issued \in Nat /\ t \in Nat
      /\ charged \in [Token -> Nat]
  BY DEF ChargedInv, Inv, TypeOK, Token
<1>2. issued' \in {issued, issued + 1}
  BY <1>1, NextRows DEF KeepsRows, MovesRow, GrantsRow
<1>3. ASSUME charged'[t] = charged[t] PROVE Charges(t)'
  <2>1. charged'[t] = 1 => t <= issued'
    BY <1>1, <1>2, <1>3 DEF Charges
  <2>2. ASSUME charged'[t] = 1, NEW g \in Goal, row'[g].status = "running"
        PROVE  row'[g].token # t
    <3>1. t <= issued /\ (row[g].status = "running" => row[g].token # t)
      BY <1>1, <1>3, <2>2 DEF Charges
    <3>2. t # issued + 1
      BY <1>1, <3>1
    <3> QED
      BY <1>1, <2>2, <3>1, <3>2, RunningTokens
  <2> QED
    BY <1>1, <1>3, <2>1, <2>2 DEF Charges
<1>4. CASE charged' = charged
  BY <1>3, <1>4
<1>5. ASSUME NEW g \in Goal, ChargesRow(g) PROVE Charges(t)'
  <2>1. charged' = Charge(row[g].token) /\ row[g].status = "running"
    BY <1>5 DEF ChargesRow
  <2>2. CASE row[g].token # t
    BY <1>1, <1>3, <2>1, <2>2 DEF Charge
  <2>3. CASE row[g].token = t
    <3>1. charged[t] = 0
      BY <1>1, <2>1, <2>3 DEF Charges
    <3>2. charged'[t] = 1
      BY <1>1, <2>1, <2>3, <3>1 DEF Charge
    <3>3. t <= issued /\ issued' = issued
      BY <1>1, <1>5, <2>1, <2>3 DEF ChargesRow, Inv, ClaimShape, RunningRowIsClaimed
    <3>4. ASSUME NEW h \in Goal, row'[h].status = "running" PROVE row'[h].token # t
      <4>1. h # g /\ row'[h] = row[h]
        BY <1>5, <3>4 DEF ChargesRow
      <4>2. \A k \in Goal : row[k].status = "running" => run[row[k].token].goal = k
        BY <1>1 DEF Inv, ClaimShape, RunningRowIsClaimed
      <4> QED
        BY <2>1, <2>3, <3>4, <4>1, <4>2
    <3> QED
      BY <3>2, <3>3, <3>4 DEF Charges
  <2> QED
    BY <2>2, <2>3
<1> QED
  BY <1>1, <1>4, <1>5, NextCharges

(* record_failure and reclaim_stale never both count one execution.        *)
THEOREM ChargedAtMostOnce == Spec => []FailureChargedOnce
<1>1. Init => ChargedInv
  BY InitInv DEF ChargedInv, Charges, Init
<1>2. ChargedInv => FailureChargedOnce
  BY DEF ChargedInv, Charges, FailureChargedOnce
<1> QED
  BY <1>1, <1>2, NextChargedInv, PTL DEF Spec
=============================================================================
