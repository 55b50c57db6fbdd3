------------------------ MODULE GoalClaimsRunsProofs ------------------------
(* Theorems about the runs of GoalClaims: how many a process keeps of one  *)
(* goal, what a late one may write, what a pause returns, and how many     *)
(* goals execute at a time.                                                *)
EXTENDS GoalClaimsProofs, FiniteSetTheorems

USE GoalClaimsAssumption

-----------------------------------------------------------------------------
(* A step starts one run, by a claim, or it only brings runs nearer to     *)
(* their end.                                                              *)

RunsStop ==
    \A t \in Token : /\ run'[t].goal = run[t].goal /\ run'[t].pid = run[t].pid
                     /\ run'[t].phase = "live" => run[t].phase = "live"
                     /\ Unfinished(t)' => Unfinished(t)

Quiet == RunsStop /\ issued' = issued

(* task.cancel() ends no run that was not live and starts none. *)
LEMMA CutStops ==
    ASSUME Inv, NEW S
    PROVE  \A t \in Token :
              /\ Cut(S)[t].goal = run[t].goal /\ Cut(S)[t].pid = run[t].pid
              /\ Cut(S)[t].phase = "live" => run[t].phase = "live" /\ t \notin S
              /\ Cut(S)[t].phase \in {"live", "blocking", "cut"} => Unfinished(t)
BY DEF Inv, TypeOK, Run, Cut, Unfinished

LEMMA CutQuiet ==
    ASSUME Inv, NEW S, run' = Cut(S), issued' = issued
    PROVE  Quiet
BY CutStops DEF Quiet, RunsStop, Unfinished

LEMMA SameQuiet ==
    ASSUME run' = run, issued' = issued
    PROVE  Quiet
BY DEF Quiet, RunsStop, Unfinished

LEMMA FinishQuiet ==
    ASSUME Inv, NEW t \in Token, NEW ph \in {"blocking", "cut", "over"}, Unfinished(t),
           Finish(t, ph), issued' = issued
    PROVE  Quiet
BY DEF Quiet, RunsStop, Unfinished, Finish, Inv, TypeOK, Run

LEMMA ProcessRunsShape ==
    ASSUME Inv, NEW p \in Pid, ProcessStep(p), \A g \in Goal : ~Claim(p, g)
    PROVE  Quiet
<1>1. CASE \/ Boot(p) \/ BootDone(p) \/ Tick(p) \/ GateOpen(p)
           \/ GateClosed(p) \/ ReadReady(p) \/ TickDone(p) \/ HoldRows(p) \/ PauseHoldDone(p)
  BY <1>1, SameQuiet DEF Boot, BootDone, Tick, GateOpen, GateClosed, ReadReady,
              TickDone, HoldRows, PauseHoldDone
<1>2. CASE RailDue(p) \/ RailHoldRows(p) \/ RailDone(p)
  BY <1>2, SameQuiet DEF RailDue, RailHoldRows, RailDone
<1>3. CASE Crash(p)
  BY <1>3 DEF Crash, Quiet, RunsStop, Unfinished, Inv, TypeOK, Run
<1>4. CASE GatePaused(p)
  BY <1>4, SameQuiet, CutQuiet DEF GatePaused
<1>5. CASE RailCut(p)
  BY <1>5, CutQuiet DEF RailCut
<1>6. ASSUME NEW g \in Goal,
             \/ BootRow(p, g) \/ ReclaimRow(p, g) \/ Skip(p, g)
             \/ PauseHoldRow(p, g) \/ RailHoldRow(p, g)
      PROVE  Quiet
  BY <1>6, SameQuiet DEF BootRow, ReclaimRow, Skip, PauseHoldRow, RailHoldRow
<1> QED
  BY <1>1, <1>2, <1>3, <1>4, <1>5, <1>6 DEF ProcessStep

LEMMA RunStepQuiet ==
    ASSUME Inv, NEW t \in Token, RunStep(t)
    PROVE  Quiet
<1>1. CASE \/ RecordSuccess(t) \/ RecordFailure(t) \/ DeferRun(t) \/ EndUnrecorded(t)
           \/ HeartbeatLost(t)
  BY <1>1, FinishQuiet DEF RecordSuccess, RecordFailure, DeferRun, EndUnrecorded, HeartbeatLost,
                           CanRecord, Unfinished
<1>2. CASE BlockFromReady(t) \/ Unwind(t)
  BY <1>2, FinishQuiet DEF BlockFromReady, Unwind, Unfinished
<1>3. CASE HeartbeatRenews(t)
  BY <1>3, SameQuiet DEF HeartbeatRenews
<1>4. CASE DeclareBlocked(t)
  <2>1. Finish(t, "blocking") \/ Finish(t, "over")
    BY <1>4 DEF DeclareBlocked, Finish
  <2>2. Unfinished(t) /\ issued' = issued
    BY <1>4 DEF DeclareBlocked, CanRecord, Unfinished
  <2> QED
    BY <2>1, <2>2, FinishQuiet
<1> QED
  BY <1>1, <1>2, <1>3, <1>4 DEF RunStep

LEMMA NextRunsShape ==
    ASSUME Inv, [Next]_vars
    PROVE  Quiet \/ \E p \in Pid, g \in Goal : Claim(p, g)
<1>1. CASE PauseAll \/ UNCHANGED vars
  BY <1>1, SameQuiet DEF PauseAll, vars
<1>2. ASSUME NEW g \in Goal, OwnerStep(g) \/ ClockStep(g) PROVE Quiet
  <2>1. ASSUME CancelLocalRun(g), issued' = issued PROVE Quiet
    BY <2>1, SameQuiet, CutQuiet DEF CancelLocalRun
  <2> QED
    BY <1>2, <2>1, SameQuiet DEF OwnerStep, ClockStep, Cancel, Pause, Retry, Unblock, AgeOut,
                                LeaseExpires, DeferralElapses
<1>3. ASSUME NEW p \in Pid, ProcessStep(p)
      PROVE  Quiet \/ \E g \in Goal : Claim(p, g)
  BY <1>3, ProcessRunsShape
<1> QED
  BY <1>1, <1>2, <1>3, RunStepQuiet DEF Next

(* The claim starts the run issued + 1 of its goal and process, and what   *)
(* was that process's task of the goal is no longer live.                  *)
LEMMA ClaimStarts ==
    ASSUME Inv, NEW p \in Pid, NEW g \in Goal, Claim(p, g)
    PROVE  /\ issued + 1 \in Token /\ issued' = issued + 1
           /\ run'[issued + 1].goal = g /\ run'[issued + 1].pid = p
           /\ \A t \in Token \ {issued + 1} :
                 /\ run'[t].goal = run[t].goal /\ run'[t].pid = run[t].pid
                 /\ run'[t].phase = "live" => run[t].phase = "live" /\ ~IsTask(p, g, t)
                 /\ Unfinished(t)' => Unfinished(t)
<1> DEFINE S == {u \in Token : IsTask(p, g, u)}
           cut == Cut(S)
           new == [goal |-> g, pid |-> p, phase |-> "live"]
<1>1. issued + 1 \in Token /\ issued' = issued + 1
  BY DEF Claim, Inv, TypeOK, Token
<1>2. run' = [cut EXCEPT ![issued + 1] = new] /\ cut \in [Token -> Run]
  BY CutKeeps DEF Claim, Inv
<1>3. \A t \in Token :
              /\ cut[t].goal = run[t].goal /\ cut[t].pid = run[t].pid
              /\ cut[t].phase = "live" => run[t].phase = "live" /\ t \notin S
              /\ cut[t].phase \in {"live", "blocking", "cut"} => Unfinished(t)
  BY CutStops
<1> HIDE DEF cut, new
<1>4. run'[issued + 1] = new /\ \A t \in Token \ {issued + 1} : run'[t] = cut[t]
  BY <1>1, <1>2
<1>5. \A t \in Token \ {issued + 1} : Unfinished(t)' => Unfinished(t)
  BY <1>3, <1>4 DEF Unfinished
<1>6. new.goal = g /\ new.pid = p
  BY DEF new
<1> QED
  BY <1>1, <1>3, <1>4, <1>5, <1>6

-----------------------------------------------------------------------------
(* A live run is the newest of its goal in its process, and no run exists  *)
(* beyond the claims made.  The newest is what a claim finds in            *)
(* _goal_tasks, and cancels.                                               *)

UnclaimedRuns == \A t \in Token : t > issued => run[t].goal = NoGoal /\ ~Unfinished(t)

LiveIsNewest ==
    \A t, u \in Token : run[t].phase = "live" /\ u > t
                        => ~(run[u].goal = run[t].goal /\ run[u].pid = run[t].pid)

RunsInv == Inv /\ UnclaimedRuns /\ LiveIsNewest

LEMMA InitRunsInv == Init => RunsInv
BY InitInv DEF Init, RunsInv, UnclaimedRuns, LiveIsNewest, Unfinished

LEMMA NextRunsInv == RunsInv /\ [Next]_vars => RunsInv'
<1> SUFFICES ASSUME RunsInv, [Next]_vars PROVE UnclaimedRuns' /\ LiveIsNewest'
  BY NextInv DEF RunsInv
<1>1. Inv /\ UnclaimedRuns /\ LiveIsNewest /\ issued \in Nat /\ Token \subseteq Nat
  BY DEF RunsInv, Inv, TypeOK, Token
<1>2. CASE Quiet
  <2>1. UnclaimedRuns'
    BY <1>1, <1>2 DEF Quiet, RunsStop, UnclaimedRuns
  <2>2. LiveIsNewest'
    BY <1>1, <1>2 DEF Quiet, RunsStop, LiveIsNewest
  <2> QED
    BY <2>1, <2>2
<1>3. ASSUME NEW p \in Pid, NEW g \in Goal, Claim(p, g)
      PROVE  UnclaimedRuns' /\ LiveIsNewest'
  <2> DEFINE n == issued + 1
  <2>1. /\ n \in Token /\ issued' = n
        /\ run'[n].goal = g /\ run'[n].pid = p
        /\ \A t \in Token \ {n} :
              /\ run'[t].goal = run[t].goal /\ run'[t].pid = run[t].pid
              /\ run'[t].phase = "live" => run[t].phase = "live" /\ ~IsTask(p, g, t)
              /\ Unfinished(t)' => Unfinished(t)
    BY <1>1, <1>3, ClaimStarts
  <2>2. UnclaimedRuns'
    BY <1>1, <2>1 DEF UnclaimedRuns
  <2>3. ASSUME NEW t \in Token, NEW u \in Token, run'[t].phase = "live", u > t
        PROVE  ~(run'[u].goal = run'[t].goal /\ run'[u].pid = run'[t].pid)
    <3>1. CASE t = n
      <4>1. u \in Token \ {n} /\ u > issued
        BY <1>1, <2>3, <3>1
      <4>2. run'[u].goal = NoGoal
        BY <1>1, <2>1, <4>1 DEF UnclaimedRuns
      <4> QED
        BY <2>1, <3>1, <4>2
    <3>2. CASE t # n /\ u # n
      BY <1>1, <2>1, <2>3, <3>2 DEF LiveIsNewest
    <3>3. CASE t # n /\ u = n
      <4>1. run[t].phase = "live" /\ ~IsTask(p, g, t)
        BY <2>1, <2>3, <3>3
      <4>2. \A v \in Token : v > t => ~(run[v].goal = run[t].goal /\ run[v].pid = run[t].pid)
        BY <1>1, <4>1 DEF LiveIsNewest
      <4>3. ~(run[t].goal = g /\ run[t].pid = p)
        BY <4>1, <4>2 DEF IsTask, Unfinished
      <4> QED
        BY <2>1, <3>3, <4>3
    <3> QED
      BY <3>1, <3>2, <3>3
  <2> QED
    BY <2>2, <2>3 DEF LiveIsNewest
<1> QED
  BY <1>1, <1>2, <1>3, NextRunsShape

(* A process never keeps two uncancelled runs of one goal.                 *)
THEOREM OneLiveRunEach == Spec => []OneLiveRunPerProcess
<1>1. RunsInv => OneLiveRunPerProcess
  <2> SUFFICES ASSUME RunsInv, NEW t \in Token, NEW u \in Token,
                      run[t].phase = "live", run[u].phase = "live",
                      run[t].pid = run[u].pid, run[t].goal = run[u].goal, t # u
               PROVE  FALSE
    BY DEF OneLiveRunPerProcess
  <2>1. t > u \/ u > t
    BY DEF Token
  <2> QED
    BY <2>1 DEF RunsInv, LiveIsNewest
<1> QED
  BY InitRunsInv, NextRunsInv, <1>1, PTL DEF Spec

-----------------------------------------------------------------------------
(* The claim a running row names is the newest of its goal: whoever holds  *)
(* the row has no successor yet.                                           *)

NewestHolds ==
    \A g \in Goal, t \in Token :
        row[g].status = "running" /\ run[t].goal = g => t <= row[g].token

FenceInv == RunsInv /\ NewestHolds

LEMMA NextFenceInv == FenceInv /\ [Next]_vars => FenceInv'
<1> SUFFICES ASSUME FenceInv, [Next]_vars,
                    NEW g \in Goal, NEW t \in Token, row'[g].status = "running", run'[t].goal = g
             PROVE  t <= row'[g].token
  BY NextRunsInv DEF FenceInv, NewestHolds
<1>1. /\ Inv /\ UnclaimedRuns /\ NewestHolds /\ issued \in Nat /\ t \in Nat /\ g # NoGoal
  BY DEF FenceInv, RunsInv, Inv, TypeOK, Token
<1>2. \/ row[g].status = "running" /\ row'[g].token = row[g].token
      \/ row'[g].token = issued + 1
  BY <1>1, RunningTokens
<1>3. CASE Quiet
  <2>1. run[t].goal = g /\ t <= issued
    BY <1>1, <1>3 DEF Quiet, RunsStop, UnclaimedRuns
  <2> QED
    BY <1>1, <1>2, <2>1 DEF NewestHolds
<1>4. ASSUME NEW p \in Pid, NEW h \in Goal, Claim(p, h) PROVE t <= row'[g].token
  <2> DEFINE n == issued + 1
  <2>1. /\ n \in Token /\ run'[n].goal = h
        /\ \A u \in Token \ {n} : run'[u].goal = run[u].goal
    BY <1>1, <1>4, ClaimStarts
  <2>2. row \in [Goal -> Row]
    BY <1>1 DEF Inv, TypeOK
  <2>3. row' = [row EXCEPT ![h] = [row[h] EXCEPT !.status = "running", !.lock = p,
                                                !.token = n, !.lease = "live"]]
    BY <1>4 DEF Claim
  <2>4. row'[h].token = n /\ (g # h => row'[g] = row[g])
    BY <2>2, <2>3 DEF Row
  <2>5. t # n => run[t].goal = g /\ t <= issued
    BY <1>1, <2>1 DEF UnclaimedRuns
  <2>6. CASE g = h
    BY <1>1, <2>4, <2>5, <2>6
  <2>7. CASE g # h
    <3>1. t # n
      BY <2>1, <2>7
    <3> QED
      BY <1>1, <2>4, <2>5, <2>7, <3>1 DEF NewestHolds
  <2> QED
    BY <2>6, <2>7
<1> QED
  BY <1>1, <1>3, <1>4, NextRunsShape

(* A live run that ends and changes a row holds that row when it does.     *)
LEMMA RecordsHeldRow ==
    ASSUME Inv, [Next]_vars, NEW t \in Token,
           run[t].phase = "live", run'[t].phase \in {"over", "blocking"}, row' # row
    PROVE  Holds(t) /\ issued' = issued
<1>1. run \in [Token -> Run]
  BY DEF Inv, TypeOK
<1>2. CASE PauseAll \/ UNCHANGED vars
  BY <1>2 DEF PauseAll, vars
<1>3. ASSUME NEW u \in Token, RunStep(u) PROVE Holds(t) /\ issued' = issued
  <2>1. u = t
    BY <1>1, <1>3 DEF RunStep, HeartbeatRenews, HeartbeatLost, RecordSuccess, RecordFailure,
              DeclareBlocked, BlockFromReady, DeferRun, EndUnrecorded, Unwind, Finish
  <2> QED
    BY <1>3, <2>1 DEF RunStep, HeartbeatRenews, HeartbeatLost, RecordSuccess, RecordFailure,
              DeclareBlocked, BlockFromReady, DeferRun, EndUnrecorded, Unwind
<1>4. \A S : Cut(S)[t].phase \notin {"over", "blocking"}
  BY DEF Cut
<1>5. ASSUME NEW g \in Goal, OwnerStep(g) \/ ClockStep(g) PROVE FALSE
  BY <1>4, <1>5 DEF OwnerStep, ClockStep, Cancel, Pause, Retry, Unblock, AgeOut,
              LeaseExpires, DeferralElapses, CancelLocalRun
<1>6. ASSUME NEW p \in Pid, ProcessStep(p) PROVE FALSE
  <2>1. CASE run' = run
    BY <2>1
  <2>2. CASE GatePaused(p) \/ RailCut(p)
    BY <1>4, <2>2 DEF GatePaused, RailCut
  <2>3. CASE Crash(p)
    BY <2>3 DEF Crash
  <2>4. ASSUME NEW g \in Goal, Claim(p, g) PROVE FALSE
    <3>1. issued + 1 \in Token
      BY <2>4, ClaimStarts
    <3> DEFINE cut == Cut({u \in Token : IsTask(p, g, u)})
               new == [goal |-> g, pid |-> p, phase |-> "live"]
    <3>2. run' = [cut EXCEPT ![issued + 1] = new] /\ cut \in [Token -> Run]
      BY <2>4, CutKeeps DEF Claim, Inv
    <3>3. new.phase = "live" /\ cut[t].phase \notin {"over", "blocking"}
      BY <1>4
    <3> HIDE DEF cut, new
    <3> QED
      BY <3>1, <3>2, <3>3
  <2> QED
    BY <1>6, <2>1, <2>2, <2>3, <2>4
    DEF ProcessStep, Boot, BootDone, Tick, GateOpen, GateClosed, ReadReady, TickDone, HoldRows,
        PauseHoldDone, RailDue, RailHoldRows, RailDone, BootRow, ReclaimRow, Skip, PauseHoldRow,
        RailHoldRow
<1> QED
  BY <1>2, <1>3, <1>5, <1>6 DEF Next

(* A run whose goal was claimed again writes nothing when it ends.         *)
THEOREM LateOutcomesFenced == Spec => LateOutcomeIgnored
<1>1. Init => FenceInv
  BY InitRunsInv DEF FenceInv, NewestHolds, Init
<1>2. FenceInv /\ [Next]_vars
        => \A t \in Token :
              /\ run[t].phase = "live" /\ run'[t].phase \in {"over", "blocking"}
              /\ row' # row
              => \A u \in (t + 1)..issued : run[u].goal # run[t].goal
  <2> SUFFICES ASSUME FenceInv, [Next]_vars, NEW t \in Token,
                      run[t].phase = "live", run'[t].phase \in {"over", "blocking"}, row' # row,
                      NEW u \in (t + 1)..issued, run[u].goal = run[t].goal
               PROVE  FALSE
    OBVIOUS
  <2>1. Holds(t)
    BY RecordsHeldRow DEF FenceInv, RunsInv
  <2>2. u \in Token /\ u > t
    BY DEF FenceInv, RunsInv, Inv, TypeOK, Token
  <2>3. u <= t
    BY <2>1, <2>2 DEF FenceInv, NewestHolds, Holds
  <2> QED
    BY <2>2, <2>3 DEF Token
<1> QED
  BY <1>1, <1>2, NextFenceInv, PTL DEF Spec, LateOutcomeIgnored

-----------------------------------------------------------------------------
(* A paused row is written by nobody but the owner, and by the clock that  *)
(* makes its not_before pass.                                              *)
LEMMA PausedRowKept ==
    ASSUME Inv, [Next]_vars, NEW g \in Goal, row[g].status = "paused", row'[g] # row[g]
    PROVE  Retry(g) \/ Cancel(g) \/ DeferralElapses(g)
<1>1. row \in [Goal -> Row]
  BY DEF Inv, TypeOK
<1>2. CASE PauseAll \/ UNCHANGED vars
  BY <1>2 DEF PauseAll, vars
<1>3. ASSUME NEW u \in Token, RunStep(u) PROVE FALSE
  BY <1>1, <1>3 DEF RunStep, HeartbeatRenews, HeartbeatLost, RecordSuccess, RecordFailure,
              DeclareBlocked, BlockFromReady, DeferRun, EndUnrecorded, Unwind, Holds
<1>4. ASSUME NEW p \in Pid, ProcessStep(p) PROVE FALSE
  BY <1>1, <1>4
  DEF ProcessStep, Boot, BootDone, Crash, Tick, GatePaused, GateOpen, GateClosed, ReadReady,
      TickDone, HoldRows, PauseHoldDone, RailDue, RailCut, RailHoldRows, RailDone, BootRow,
      ReclaimRow, Claim, Skip, PauseHoldRow, RailHoldRow, HoldRow, RowsOf
<1>5. ASSUME NEW h \in Goal, OwnerStep(h) \/ ClockStep(h)
      PROVE  Retry(g) \/ Cancel(g) \/ DeferralElapses(g)
  <2>1. h = g
    BY <1>1, <1>5 DEF OwnerStep, ClockStep, Cancel, Pause, Retry, Unblock, AgeOut,
              LeaseExpires, DeferralElapses
  <2>2. ~Pause(g) /\ ~Unblock(g) /\ ~AgeOut(g) /\ ~LeaseExpires(g)
    BY DEF Pause, Unblock, AgeOut, LeaseExpires
  <2> QED
    BY <1>5, <2>1, <2>2 DEF OwnerStep, ClockStep
<1> QED
  BY <1>2, <1>3, <1>4, <1>5 DEF Next

(* The owner's pause of a goal is lifted by the owner alone.               *)
THEOREM PauseLiftedByOwner == Spec => PauseHeldUntilOwner
<1>1. Inv /\ [Next]_vars
        => \A g \in Goal :
              row[g].status = "paused" /\ row'[g] # row[g] =>
                 \/ Retry(g) \/ Cancel(g) \/ DeferralElapses(g)
  BY PausedRowKept
<1> QED
  BY InitInv, NextInv, <1>1, PTL DEF Spec, PauseHeldUntilOwner

-----------------------------------------------------------------------------
(* A process that returns rows after a pause has no run left: it waited    *)
(* for them, and claims nothing until it is done.                          *)

ReturningIsStopped ==
    \A p \in Pid, t \in Token :
        proc[p].phase = "returning" /\ run[t].pid = p => ~Unfinished(t)

(* What a step may do to the ticker of p. *)
LEMMA TickerMoves ==
    ASSUME Inv, [Next]_vars, NEW p \in Pid, proc'[p] # proc[p]
    PROVE  ProcessStep(p) /\ proc' = [proc EXCEPT ![p] = proc'[p]]
<1>1. proc \in [Pid -> Proc]
  BY DEF Inv, TypeOK
<1>2. CASE PauseAll \/ UNCHANGED vars
  BY <1>2 DEF PauseAll, vars
<1>3. ASSUME NEW u \in Token, RunStep(u) PROVE FALSE
  BY <1>3 DEF RunStep, HeartbeatRenews, HeartbeatLost, RecordSuccess, RecordFailure,
              DeclareBlocked, BlockFromReady, DeferRun, EndUnrecorded, Unwind
<1>4. ASSUME NEW q \in Pid, ProcessStep(q)
      PROVE  ProcessStep(p) /\ proc' = [proc EXCEPT ![p] = proc'[p]]
  <2>1. proc' = [proc EXCEPT ![q] = proc'[q]]
    BY <1>1, <1>4
    DEF ProcessStep, Boot, BootDone, Crash, Tick, GatePaused, GateOpen, GateClosed, ReadReady,
      TickDone, HoldRows, PauseHoldDone, RailDue, RailCut, RailHoldRows, RailDone, BootRow,
      ReclaimRow, Claim, Skip, PauseHoldRow, RailHoldRow
  <2>2. p = q
    BY <1>1, <2>1
  <2> QED
    BY <1>4, <2>1, <2>2
<1>5. ASSUME NEW h \in Goal, OwnerStep(h) \/ ClockStep(h) PROVE FALSE
  BY <1>5 DEF OwnerStep, ClockStep, Cancel, Pause, Retry, Unblock, AgeOut,
              LeaseExpires, DeferralElapses
<1> QED
  BY <1>2, <1>3, <1>4, <1>5 DEF Next

(* A ticker starts to return rows by hold_inflight, and it starts to claim *)
(* by a batch it read under the tick lock; from then on it only shortens   *)
(* its list.                                                               *)
TickerMove(p) ==
    /\ proc'[p].phase = "returning" => HoldRows(p) \/ proc[p].phase = "returning"
    /\ proc'[p].phase = "claiming"
          => \/ ReadReady(p)
             \/ proc[p].phase = "claiming" /\ proc'[p].todo \subseteq proc[p].todo

LEMMA TickerPhases ==
    ASSUME Inv, NEW p \in Pid, ProcessStep(p)
    PROVE  TickerMove(p)
<1>1. proc \in [Pid -> Proc] /\ proc[p] \in Proc
  BY DEF Inv, TypeOK
<1>2. CASE Boot(p) \/ Crash(p)
  BY <1>1, <1>2 DEF Boot, Crash, Proc, TickerMove
<1>3. CASE \/ BootDone(p) \/ Tick(p) \/ GatePaused(p) \/ GateOpen(p) \/ GateClosed(p)
           \/ TickDone(p) \/ PauseHoldDone(p)
  BY <1>1, <1>3 DEF BootDone, Tick, GatePaused, GateOpen, GateClosed, TickDone, PauseHoldDone, Proc, TickerMove
<1>4. CASE HoldRows(p)
  BY <1>1, <1>4 DEF HoldRows, Proc, TickerMove
<1>5. CASE ReadReady(p)
  <2>1. proc'[p].phase = "claiming"
    BY <1>1, <1>5 DEF ReadReady, Proc
  <2> QED
    BY <1>5, <2>1 DEF TickerMove
<1>6. CASE RailDue(p) \/ RailCut(p) \/ RailHoldRows(p) \/ RailDone(p)
  BY <1>6 DEF RailDue, RailCut, RailHoldRows, RailDone, TickerMove
<1>7. ASSUME NEW g \in Goal, \/ BootRow(p, g) \/ ReclaimRow(p, g) \/ Claim(p, g) \/ Skip(p, g)
                             \/ PauseHoldRow(p, g)
      PROVE  TickerMove(p)
  <2>1. proc' = [proc EXCEPT ![p].todo = @ \ {g}]
    BY <1>7 DEF BootRow, ReclaimRow, Claim, Skip, PauseHoldRow
  <2> QED
    BY <1>1, <2>1 DEF Proc, TickerMove
<1>8. ASSUME NEW g \in Goal, RailHoldRow(p, g)
      PROVE  TickerMove(p)
  BY <1>8 DEF RailHoldRow, TickerMove
<1> QED
  BY <1>2, <1>3, <1>4, <1>5, <1>6, <1>7, <1>8 DEF ProcessStep

LEMMA EntersReturning ==
    ASSUME Inv, [Next]_vars, NEW p \in Pid, proc'[p] # proc[p], proc'[p].phase = "returning"
    PROVE  run' = run /\ (HoldRows(p) \/ proc[p].phase = "returning")
<1>1. ProcessStep(p) /\ (HoldRows(p) \/ proc[p].phase = "returning")
  BY TickerMoves, TickerPhases DEF TickerMove
<1>2. CASE HoldRows(p)
  BY <1>1, <1>2 DEF HoldRows
<1>3. CASE proc[p].phase = "returning"
  <2>2. proc \in [Pid -> Proc]
    BY DEF Inv, TypeOK
  <2>1. ~Crash(p) /\ ~Boot(p)
    BY <1>3, <2>2 DEF Crash, Boot
  <2> QED
    BY <1>1, <1>3, <2>1, <2>2
    DEF ProcessStep, BootDone, Tick, GatePaused, GateOpen, GateClosed, ReadReady,
      TickDone, HoldRows, PauseHoldDone, RailDue, RailCut, RailHoldRows, RailDone, BootRow,
      ReclaimRow, Claim, Skip, PauseHoldRow, RailHoldRow
<1> QED
  BY <1>1, <1>2, <1>3

StoppedInv == RunsInv /\ ReturningIsStopped

LEMMA NextStoppedInv == StoppedInv /\ [Next]_vars => StoppedInv'
<1> SUFFICES ASSUME StoppedInv, [Next]_vars, NEW p \in Pid, NEW t \in Token,
                    proc'[p].phase = "returning", run'[t].pid = p
             PROVE  ~Unfinished(t)'
  BY NextRunsInv DEF StoppedInv, ReturningIsStopped
<1>1. Inv /\ ReturningIsStopped
  BY DEF StoppedInv, RunsInv
<1>2. CASE proc'[p] # proc[p]
  <2>1. run' = run /\ (HoldRows(p) \/ proc[p].phase = "returning")
    BY <1>1, <1>2, EntersReturning
  <2>2. ~Unfinished(t)
    BY <1>1, <2>1 DEF HoldRows, ReturningIsStopped
  <2> QED
    BY <2>1, <2>2 DEF Unfinished
<1>3. CASE proc'[p] = proc[p]
  <2>1. CASE Quiet
    BY <1>1, <1>3, <2>1 DEF Quiet, RunsStop, ReturningIsStopped
  <2>2. ASSUME NEW q \in Pid, NEW g \in Goal, Claim(q, g) PROVE ~Unfinished(t)'
    <3>1. p # q
      BY <1>3, <2>2 DEF Claim
    <3>2. t # issued + 1
      BY <1>1, <2>2, <3>1, ClaimStarts
    <3>3. run'[t].pid = run[t].pid /\ (Unfinished(t)' => Unfinished(t))
      BY <1>1, <2>2, <3>2, ClaimStarts
    <3> QED
      BY <1>1, <1>3, <3>3 DEF ReturningIsStopped
  <2> QED
    BY <1>1, <2>1, <2>2, NextRunsShape
<1> QED
  BY <1>2, <1>3

(* A row that a pause hands back is that of a run that has unwound.        *)
THEOREM PauseReturnsStoppedRuns == Spec => PauseHoldReturnsStoppedRuns
<1>1. Init => StoppedInv
  BY InitRunsInv DEF StoppedInv, ReturningIsStopped, Init
<1>2. StoppedInv /\ [Next]_vars
        => \A p \in Pid, g \in Goal :
              /\ proc[p].phase = "returning" /\ g \in proc[p].todo \ proc'[p].todo
              /\ row[g].status = "running" /\ row'[g].status = "ready"
              => ~Unfinished(row[g].token)
  <2> SUFFICES ASSUME StoppedInv, [Next]_vars, NEW p \in Pid, NEW g \in Goal,
                      proc[p].phase = "returning", g \in proc[p].todo \ proc'[p].todo,
                      row[g].status = "running", row'[g].status = "ready"
               PROVE  ~Unfinished(row[g].token)
    OBVIOUS
  <2>1. /\ Inv /\ ReturningIsStopped /\ proc \in [Pid -> Proc] /\ row \in [Goal -> Row]
        /\ issued \in 0..MaxClaims
    BY DEF StoppedInv, RunsInv, Inv, TypeOK
  <2>2. ProcessStep(p)
    BY <2>1, TickerMoves
  <2>3. PauseHoldRow(p, g)
    BY <2>1, <2>2
    DEF ProcessStep, Boot, BootDone, Crash, Tick, GatePaused, GateOpen, GateClosed, ReadReady,
      TickDone, HoldRows, PauseHoldDone, RailDue, RailCut, RailHoldRows, RailDone, BootRow,
      ReclaimRow, Claim, Skip, PauseHoldRow, RailHoldRow, Proc
  <2>4. row[g].lock = p
    BY <2>3 DEF PauseHoldRow, HoldRow, RowsOf
  <2>5. row[g].token \in Token /\ run[row[g].token].pid = p
    BY <2>1, <2>4 DEF Inv, ClaimShape, RunningRowIsClaimed, Token
  <2> QED
    BY <2>1, <2>5 DEF ReturningIsStopped
<1> QED
  BY <1>1, <1>2, NextStoppedInv, PTL DEF Spec, PauseHoldReturnsStoppedRuns

-----------------------------------------------------------------------------
(* GOAL_MAX_CONCURRENT over all processes.  The count of the board leaves  *)
(* out expired rows, so those must have no run left; and a batch is read   *)
(* with room for all of it, by one process at a time.                      *)

Counted == {g \in Goal : row[g].status = "running" /\ row[g].lease # "expired"}

LapsedIsStopped ==
    \A g \in Goal : row[g].status = "running" /\ row[g].lease = "expired"
                    => ~Unfinished(row[g].token)

Claiming(p) == proc[p].phase = "claiming"

OneClaimer == \A p, q \in Pid : Claiming(p) /\ Claiming(q) => p = q

RoomForBatch ==
    \A p \in Pid : Claiming(p) => Cardinality(Counted \cup proc[p].todo) <= MaxConcurrent

WithinCap == Cardinality(Counted) <= MaxConcurrent

CapParts == LapsedIsStopped /\ OneClaimer /\ RoomForBatch /\ WithinCap

CapInv == Inv /\ (TimelyHeartbeats => CapParts)

(* What may write a row and leave it running.                              *)
LEMMA RunningWrites ==
    ASSUME Inv, [Next]_vars, NEW g \in Goal, row'[g] # row[g], row'[g].status = "running"
    PROVE  \/ \E p \in Pid : Claim(p, g)
           \/ \E t \in Token : HeartbeatRenews(t) /\ run[t].goal = g
           \/ LeaseExpires(g) \/ DeferralElapses(g)
<1>1. row \in [Goal -> Row] /\ row[g] \in Row
  BY DEF Inv, TypeOK
<1>2. row'[g].status = "running" /\ row'[g] # row[g]
  OBVIOUS
<1>3. /\ Requeued(row[g]).status = "ready"
      /\ row[g].failures < MaxRetries => Failed(row[g]).status \in {"ready", "blocked"}
      /\ row[g].status = "running" => row[g].failures < MaxRetries
  BY <1>1, RequeuedRow, FailedRow DEF Inv, BreakerHolds
<1>4. CASE PauseAll \/ UNCHANGED vars
  BY <1>2, <1>4 DEF PauseAll, vars
<1>5. ASSUME NEW t \in Token, RunStep(t)
      PROVE  HeartbeatRenews(t) /\ run[t].goal = g
  <2>0. run[t].goal = g \/ row'[g] = row[g]
    BY <1>1, <1>5 DEF RunStep, HeartbeatRenews, HeartbeatLost, RecordSuccess, RecordFailure,
              DeclareBlocked, BlockFromReady, DeferRun, EndUnrecorded, Unwind
  <2>1. run[t].goal = g
    BY <1>2, <2>0
  <2>2. CASE RecordSuccess(t)
    <3>1. row'[g] = [Released(row[g]) EXCEPT !.status = "done", !.failures = 0, !.deferrals = 0]
      BY <1>1, <1>2, <2>1, <2>2 DEF RecordSuccess
    <3>2. Released(row[g]) \in Row
      BY <1>1, ReleasedRow
    <3> QED
      BY <1>2, <3>1, <3>2, DoneRow
  <2>3. CASE RecordFailure(t) \/ DeclareBlocked(t)
    <3>1. row'[g] = FailedRun(row[g]) /\ row[g].status = "running"
      BY <1>1, <1>2, <2>1, <2>3 DEF RecordFailure, DeclareBlocked, Holds
    <3>2. Failed(row[g]) \in Row /\ Failed(row[g]).status \in {"ready", "blocked"}
      BY <1>1, <1>3, <3>1, FailedRow
    <3> DEFINE r == Failed(row[g])
    <3>3. FailedRun(row[g]) = [r EXCEPT !.deferrals = 0]
      BY DEF FailedRun
    <3> HIDE DEF r
    <3> QED
      BY <1>2, <3>1, <3>2, <3>3 DEF r, Row
  <2>4. CASE BlockFromReady(t)
    <3>1. row'[g] = [Released(row[g]) EXCEPT !.status = "blocked"]
      BY <1>1, <1>2, <2>1, <2>4 DEF BlockFromReady
    <3>2. Released(row[g]) \in Row
      BY <1>1, ReleasedRow
    <3> QED
      BY <1>2, <3>1, <3>2 DEF Row
  <2>5. CASE DeferRun(t)
    <3>1. row'[g] = Deferred(row[g]) /\ row[g].deferrals < MaxRunDeferrals
      BY <1>1, <1>2, <2>1, <2>5 DEF DeferRun
    <3> QED
      BY <1>1, <1>2, <3>1, DeferredRow
  <2> QED
    BY <1>2, <1>5, <2>1, <2>2, <2>3, <2>4, <2>5
    DEF RunStep, HeartbeatLost, EndUnrecorded, Unwind
<1>6. ASSUME NEW p \in Pid, ProcessStep(p)
      PROVE  Claim(p, g)
  <2>1. ASSUME NEW h \in Goal, ReclaimRow(p, h) PROVE FALSE
    BY <1>1, <1>2, <1>3, <2>1 DEF ReclaimRow
  <2>2. ASSUME NEW h \in Goal, \/ BootRow(p, h) \/ Skip(p, h)
                               \/ PauseHoldRow(p, h) \/ RailHoldRow(p, h)
        PROVE  FALSE
    BY <1>1, <1>2, <1>3, <2>2 DEF BootRow, Skip, PauseHoldRow, RailHoldRow, HoldRow
  <2>3. ASSUME NEW h \in Goal, Claim(p, h) PROVE h = g
    BY <1>1, <1>2, <2>3 DEF Claim
  <2> QED
    BY <1>2, <1>6, <2>1, <2>2, <2>3
    DEF ProcessStep, Boot, BootDone, Crash, Tick, GatePaused, GateOpen, GateClosed, ReadReady,
      TickDone, HoldRows, PauseHoldDone, RailDue, RailCut, RailHoldRows, RailDone
<1>7. ASSUME NEW h \in Goal, OwnerStep(h) \/ ClockStep(h)
      PROVE  LeaseExpires(g) \/ DeferralElapses(g)
  <2>1. h = g
    BY <1>1, <1>2, <1>7 DEF OwnerStep, ClockStep, Cancel, Pause, Retry, Unblock, AgeOut,
              LeaseExpires, DeferralElapses
  <2>2. Forgotten(row[g]) \in Row /\ Requeued(row[g]) \in Row
    BY <1>1, ForgottenRow, RequeuedRow
  <2>3. CASE Pause(g) \/ Cancel(g) \/ AgeOut(g)
    BY <1>1, <1>2, <2>2, <2>3 DEF Pause, Cancel, AgeOut, Row
  <2>4. CASE Retry(g)
    BY <1>1, <1>2, <2>2, <2>4, ReadyAgainRow DEF Retry
  <2>5. CASE Unblock(g)
    BY <1>1, <1>2, <1>3, <2>2, <2>5 DEF Unblock, Row
  <2> QED
    BY <1>7, <2>1, <2>3, <2>4, <2>5 DEF OwnerStep, ClockStep
<1> QED
  BY <1>4, <1>5, <1>6, <1>7 DEF Next

(* A row enters the count by a claim, or by a heartbeat that was late.     *)
LEMMA CountedGrows ==
    ASSUME Inv, [Next]_vars, NEW g \in Goal, g \in Counted', g \notin Counted
    PROVE  \/ \E p \in Pid : Claim(p, g)
           \/ \E t \in Token : HeartbeatRenews(t) /\ run[t].goal = g
<1>1. row \in [Goal -> Row] /\ row[g] \in Row
  BY DEF Inv, TypeOK
<1>2. row'[g].status = "running" /\ row'[g].lease # "expired" /\ row'[g] # row[g]
  BY DEF Counted
<1>3. ASSUME LeaseExpires(g) \/ DeferralElapses(g)
      PROVE  row'[g].status = row[g].status /\ row'[g].lease \in {row[g].lease, "expired"}
  BY <1>1, <1>3 DEF LeaseExpires, DeferralElapses, Row
<1> QED
  BY <1>2, <1>3, RunningWrites DEF Counted

LEMMA LapsesByClock ==
    ASSUME Inv, [Next]_vars, NEW g \in Goal, row'[g] # row[g],
           row'[g].status = "running", row'[g].lease = "expired"
    PROVE  row[g].lease = "expired" \/ LeaseExpires(g)
<1>1. row \in [Goal -> Row] /\ row[g] \in Row
  BY DEF Inv, TypeOK
<1>2. ASSUME NEW p \in Pid, Claim(p, g) PROVE FALSE
  BY <1>1, <1>2 DEF Claim, Row
<1>3. ASSUME NEW t \in Token, HeartbeatRenews(t), run[t].goal = g PROVE FALSE
  BY <1>1, <1>3 DEF HeartbeatRenews, Row
<1>4. CASE DeferralElapses(g)
  BY <1>1, <1>4 DEF DeferralElapses, Row
<1> QED
  BY <1>2, <1>3, <1>4, RunningWrites

(* A row that is running and expired after a step was running under the    *)
(* same claim before it, and expired unless its lease ran out just now.    *)
LEMMA LapsedRow ==
    ASSUME Inv, [Next]_vars, NEW g \in Goal,
           row'[g].status = "running", row'[g].lease = "expired"
    PROVE  /\ row[g].status = "running" /\ row'[g].token = row[g].token
           /\ row[g].lease = "expired" \/ LeaseExpires(g)
<1>1. row \in [Goal -> Row] /\ row[g] \in Row
  BY DEF Inv, TypeOK
<1>2. ASSUME NEW p \in Pid, NEW h \in Goal, Claim(p, h) PROVE row'[g] = row[g]
  BY <1>1, <1>2 DEF Claim
<1>3. CASE row'[g] = row[g]
  BY <1>3
<1>4. CASE row'[g] # row[g]
  <2>1. ~KeepsRows /\ \A h \in Goal : h # g => ~MovesRow(h)
    BY <1>1, <1>4 DEF KeepsRows, MovesRow
  <2>2. CASE \E h \in Goal : GrantsRow(h)
    <3>1. PICK h \in Goal : GrantsRow(h)
      BY <2>2
    <3>2. PICK p \in Pid :
             row' = [row EXCEPT ![h] = [row[h] EXCEPT !.status = "running", !.lock = p,
                                                     !.token = issued + 1, !.lease = "live"]]
      BY <3>1 DEF GrantsRow
    <3>3. h = g => row'[g].lease = "live"
      BY <1>1, <3>2 DEF Row
    <3>4. h # g => row'[g] = row[g]
      BY <1>1, <3>2
    <3> QED
      BY <1>4, <3>3, <3>4
  <2>3. CASE MovesRow(g)
    <3>1. PICK new \in Row : row' = [row EXCEPT ![g] = new] /\ Moves(row[g], new)
      BY <2>3 DEF MovesRow
    <3>2. row[g].status = "running" /\ row'[g].token = row[g].token
      BY <1>1, <3>1, MoveKeepsRow
    <3>3. row[g].lease = "expired" \/ LeaseExpires(g)
      BY <1>1, <1>4, LapsesByClock
    <3> QED
      BY <3>2, <3>3
  <2> QED
    BY <2>1, <2>2, <2>3, NextRows
<1> QED
  BY <1>3, <1>4

LEMMA NextLapsed ==
    ASSUME Inv, TimelyHeartbeats, LapsedIsStopped, [Next]_vars
    PROVE  LapsedIsStopped'
<1> SUFFICES ASSUME NEW g \in Goal, row'[g].status = "running", row'[g].lease = "expired"
             PROVE  ~Unfinished(row[g].token)'
  BY LapsedRow DEF LapsedIsStopped, Unfinished
<1>1. /\ row[g].status = "running" /\ row'[g].token = row[g].token
      /\ row[g].lease = "expired" \/ LeaseExpires(g)
  BY LapsedRow
<1>2. row[g].token \in 1..issued /\ issued \in 0..MaxClaims
  BY <1>1 DEF Inv, TypeOK, ClaimShape, RunningRowIsClaimed
<1>3. row[g].token \in Token \ {issued + 1}
  BY <1>2 DEF Token
<1>4. ~Unfinished(row[g].token)
  BY <1>1, <1>3 DEF LapsedIsStopped, LeaseExpires
<1>5. ASSUME NEW t \in Token \ {issued + 1}, ~Unfinished(t) PROVE ~Unfinished(t)'
  BY <1>5, NextRunsShape, ClaimStarts DEF Quiet, RunsStop
<1> QED
  BY <1>1, <1>3, <1>4, <1>5 DEF Unfinished

LEMMA CountedFinite ==
    ASSUME NEW S \in SUBSET Goal
    PROVE  IsFiniteSet(S) /\ Cardinality(S) \in Nat
BY FiniteGoals, FS_Subset, FS_CardinalityType

LEMMA NextCapParts ==
    ASSUME Inv, TimelyHeartbeats, CapParts, [Next]_vars
    PROVE  CapParts'
<1>1. LapsedIsStopped' /\ proc \in [Pid -> Proc] /\ proc' \in [Pid -> Proc]
  BY NextLapsed, NextProc DEF CapParts, Inv, TypeOK
<1>2. /\ Counted \subseteq Goal /\ Counted' \subseteq Goal
      /\ \A q \in Pid : proc[q].todo \subseteq Goal /\ proc'[q].todo \subseteq Goal
  BY <1>1 DEF Counted, Proc
<1>3. ASSUME NEW q \in Pid, Claiming(q)'
      PROVE  \/ ReadReady(q)
             \/ Claiming(q) /\ proc'[q].todo \subseteq proc[q].todo
  BY <1>3, TickerMoves, TickerPhases DEF Claiming, TickerMove
<1>4. OneClaimer'
  <2>1. ASSUME NEW p \in Pid, NEW q \in Pid, ReadReady(p), Claiming(q)', q # p PROVE FALSE
    <3>1. proc'[q] = proc[q]
      BY <1>1, <2>1 DEF ReadReady
    <3> QED
      BY <2>1, <3>1 DEF ReadReady, Claiming
  <2> QED
    BY <1>3, <2>1 DEF OneClaimer, CapParts
<1>5. ASSUME NEW p \in Pid, NEW g \in Goal, Claim(p, g)
      PROVE  RoomForBatch' /\ WithinCap'
  <2> DEFINE both == Counted \cup proc[p].todo
             after == Counted' \cup proc'[p].todo
  <2>1. /\ Claiming(p) /\ Claiming(p)' /\ g \in proc[p].todo
        /\ proc'[p].todo \subseteq proc[p].todo
    BY <1>1, <1>5 DEF Claim, Claiming, Proc
  <2>2. Counted' \subseteq Counted \cup {g}
    <3>1. row \in [Goal -> Row]
      BY DEF Inv, TypeOK
    <3> QED
      BY <1>5, <3>1 DEF Claim, Counted
  <2>3. after \subseteq both /\ Counted' \subseteq both /\ both \subseteq Goal
    BY <1>2, <2>1, <2>2
  <2> HIDE DEF after, both
  <2>4. /\ Cardinality(both) <= MaxConcurrent /\ Cardinality(both) \in Nat
        /\ IsFiniteSet(both)
    BY <2>1, <2>3, CountedFinite DEF both, CapParts, RoomForBatch
  <2>5. /\ Cardinality(after) <= MaxConcurrent /\ Cardinality(Counted') <= MaxConcurrent
    <3>1. Cardinality(after) <= Cardinality(both) /\ Cardinality(Counted') <= Cardinality(both)
      BY <2>3, <2>4, FS_Subset
    <3>2. Cardinality(after) \in Nat /\ Cardinality(Counted') \in Nat
      BY <2>3, CountedFinite
    <3> QED
      BY <2>4, <3>1, <3>2
  <2>6. ASSUME NEW q \in Pid, Claiming(q)' PROVE q = p
    BY <1>4, <2>1, <2>6 DEF OneClaimer
  <2>7. WithinCap'
    BY <2>5 DEF WithinCap
  <2>8. RoomForBatch'
    BY <2>5, <2>6 DEF RoomForBatch, after
  <2> QED
    BY <2>7, <2>8
<1>6. ASSUME \A p \in Pid, g \in Goal : ~Claim(p, g)
      PROVE  RoomForBatch' /\ WithinCap'
  <2>1. Counted' \subseteq Counted
    <3> SUFFICES ASSUME NEW g \in Goal, g \in Counted', g \notin Counted PROVE FALSE
      BY DEF Counted
    <3>1. PICK t \in Token : HeartbeatRenews(t) /\ run[t].goal = g
      BY <1>6, CountedGrows
    <3>2. /\ row[g].status = "running" /\ row[g].lease = "expired" /\ row[g].token = t
          /\ Unfinished(t)
      BY <3>1 DEF HeartbeatRenews, Holds, Unfinished
    <3> QED
      BY <3>2 DEF CapParts, LapsedIsStopped
  <2>2. /\ IsFiniteSet(Counted) /\ Cardinality(Counted') <= Cardinality(Counted)
        /\ Cardinality(Counted) \in Nat /\ Cardinality(Counted') \in Nat
        /\ Cardinality(Counted) <= MaxConcurrent
    BY <1>2, <2>1, CountedFinite, FS_Subset DEF CapParts, WithinCap
  <2>3. ASSUME NEW q \in Pid, Claiming(q)'
        PROVE  Cardinality(Counted' \cup proc'[q].todo) <= MaxConcurrent
    <3>1. CASE Claiming(q) /\ proc'[q].todo \subseteq proc[q].todo
      <4> DEFINE both == Counted \cup proc[q].todo
                 after == Counted' \cup proc'[q].todo
      <4>1. after \subseteq both /\ both \subseteq Goal /\ Cardinality(both) <= MaxConcurrent
        BY <1>2, <2>1, <3>1 DEF CapParts, RoomForBatch
      <4> HIDE DEF after, both
      <4>2. /\ IsFiniteSet(both) /\ Cardinality(both) \in Nat /\ Cardinality(after) \in Nat
        BY <4>1, CountedFinite
      <4>3. Cardinality(after) <= Cardinality(both)
        BY <4>1, <4>2, FS_Subset
      <4>4. Cardinality(after) <= MaxConcurrent
        BY <4>1, <4>2, <4>3
      <4> QED
        BY <4>4 DEF after
    <3>2. CASE ReadReady(q)
      <4>1. PICK batch \in SUBSET Ready :
               /\ Cardinality(batch) + CountRunning <= MaxConcurrent
               /\ proc' = [proc EXCEPT ![q].phase = "claiming", ![q].todo = batch]
        BY <3>2 DEF ReadReady
      <4>2. proc'[q].todo = batch /\ batch \subseteq Goal /\ CountRunning = Cardinality(Counted)
        BY <1>1, <4>1 DEF Ready, Proc, CountRunning, Counted
      <4>3. Counted' = Counted
        BY <3>2 DEF ReadReady, Counted
      <4>4. /\ IsFiniteSet(batch) /\ Cardinality(batch) \in Nat
            /\ Cardinality(Counted \cap batch) \in Nat
        BY <1>2, <4>2, CountedFinite
      <4>5. Cardinality(Counted \cup batch)
               = Cardinality(Counted) + Cardinality(batch) - Cardinality(Counted \cap batch)
        BY <2>2, <4>4, FS_Union
      <4>6. Cardinality(Counted \cup batch) <= MaxConcurrent
        BY <2>2, <4>1, <4>2, <4>4, <4>5
      <4> QED
        BY <4>2, <4>3, <4>6
    <3> QED
      BY <1>3, <2>3, <3>1, <3>2
  <2>4. RoomForBatch'
    BY <2>3 DEF RoomForBatch
  <2>5. WithinCap'
    BY <2>2 DEF WithinCap
  <2> QED
    BY <2>4, <2>5
<1> QED
  BY <1>1, <1>4, <1>5, <1>6 DEF CapParts

LEMMA NextCapInv == CapInv /\ [Next]_vars => CapInv'
BY NextInv, NextCapParts DEF CapInv

LEMMA InitCapInv == Init => CapInv
<1> SUFFICES ASSUME Init PROVE CapParts
  BY InitInv DEF CapInv
<1>1. Counted = {} /\ LapsedIsStopped /\ \A p \in Pid : ~Claiming(p)
  BY DEF Init, Counted, LapsedIsStopped, Claiming
<1>2. WithinCap
  BY <1>1, FS_EmptySet DEF WithinCap
<1> QED
  BY <1>1, <1>2 DEF CapParts, OneClaimer, RoomForBatch

(* However many processes tick, no more goals than the cap allows execute  *)
(* under the claim their row names, as long as live runs renew in time.    *)
(* A run that goes on under a row that the owner has paused, cancelled or  *)
(* retried is not counted, here as in the tick.                            *)
THEOREM CapOverAllProcesses == Spec => []WithinConcurrency
<1>1. CapInv => WithinConcurrency
  <2> SUFFICES ASSUME Inv, CapParts PROVE Cardinality(ExecutingUnderClaim) <= MaxConcurrent
    BY DEF CapInv, WithinConcurrency
  <2>1. ExecutingUnderClaim \subseteq Counted /\ Counted \subseteq Goal
    BY DEF ExecutingUnderClaim, Counted, CapParts, LapsedIsStopped
  <2>2. /\ Cardinality(ExecutingUnderClaim) <= Cardinality(Counted)
        /\ Cardinality(ExecutingUnderClaim) \in Nat /\ Cardinality(Counted) \in Nat
    BY <2>1, CountedFinite, FS_Subset
  <2> QED
    BY <2>2 DEF CapParts, WithinCap
<1> QED
  BY InitCapInv, NextCapInv, <1>1, PTL DEF Spec
=============================================================================
