----------------------------- MODULE GoalClaims -----------------------------
(***************************************************************************)
(* The claim protocol of the goal board: how several dispatcher processes, *)
(* one SQLite file and the owner share the rows of goals.db::goals.        *)
(*                                                                         *)
(* Sources: agents/task/goals/board.py (one guarded UPDATE per operation), *)
(* agents/task/goals/dispatcher.py (the tick, the heartbeat, the holds),   *)
(* agents/task/goals/goal_run.py (what a run records when it ends),        *)
(* agents/task/goals/claim_liveness.py (is a claim's process alive).       *)
(*                                                                         *)
(* Abstractions.                                                           *)
(*  - A claim token (uuid4) is the number of the claim, so tokens are      *)
(*    fresh and ordered by the claim that drew them; NULL is NoToken.      *)
(*  - claim_expires compared with the clock is the field lease: "none"     *)
(*    (NULL), "live" or "expired".  Time passes in LeaseExpires.           *)
(*  - A SELECT followed by one UPDATE per row is one step per row: every   *)
(*    such UPDATE repeats the columns it read, so a row that moved in      *)
(*    between is a miss and the pair acts at the instant of the UPDATE.    *)
(*  - Goals here have no prerequisites: those are the subject of GoalDeps. *)
(*    No ask holds a goal, and any blocked goal may be taken for one that  *)
(*    a provider outage blocked, or age out.                               *)
(*  - Priorities are left out: a tick claims some set of ready goals no    *)
(*    larger than the free slots.                                          *)
(***************************************************************************)
EXTENDS Integers, FiniteSets

CONSTANTS
    Goal,               \* ids of the goal rows
    Pid,                \* process ids a dispatcher process can get
    NoPid,              \* claim_lock NULL
    NoGoal,             \* the goal of a run that has not started
    RailPid,            \* the processes that also run a pre-empting cron rail
    MaxRetries,         \* goals.max_retries: the circuit breaker's threshold
    MaxRunDeferrals,    \* GoalBoard.MAX_RUN_DEFERRALS
    MaxConcurrent,      \* GOAL_MAX_CONCURRENT
    MaxClaims,          \* bound of the model: claims a behaviour may make
    TimelyHeartbeats,   \* TRUE: a running claim is always renewed in time
    PidReuse            \* TRUE: a restarted process may get its old pid

ASSUME GoalClaimsAssumption ==
    /\ NoPid \notin Pid
    /\ NoGoal \notin Goal
    /\ RailPid \subseteq Pid
    /\ MaxRetries \in Nat \ {0}
    /\ MaxRunDeferrals \in Nat
    /\ MaxConcurrent \in Nat
    /\ MaxClaims \in Nat
    /\ TimelyHeartbeats \in BOOLEAN
    /\ PidReuse \in BOOLEAN

(* The table holds finitely many rows. *)
ASSUME FiniteGoals == IsFiniteSet(Goal)

Token == 1..MaxClaims
NoToken == 0

Status == {"ready", "running", "blocked", "paused", "done", "cancelled"}
Terminal == {"done", "cancelled"}

(* The columns of a goal row that the protocol reads or writes. *)
Row == [status    : Status,
        lock      : Pid \cup {NoPid},
        token     : Token \cup {NoToken},
        lease     : {"none", "live", "expired"},
        failures  : 0..MaxRetries,
        deferrals : 0..MaxRunDeferrals,
        notBefore : BOOLEAN]

(* A run is the asyncio task of one claim, so it is named by its token.    *)
(* "blocking": it recorded a declared BLOCKED and is about to call         *)
(* block_from_ready; "cut": cancelled and unwinding; "dead": its process   *)
(* crashed.                                                                *)
Run == [goal  : Goal \cup {NoGoal},
        pid   : Pid \cup {NoPid},
        phase : {"none", "live", "blocking", "cut", "over", "dead"}]

(* Where the goal ticker of a process is.  todo: the rows it still has to  *)
(* visit; seen: the dispatcher's _paused_seen.                             *)
Proc == [phase : {"unborn", "down", "booting", "idle", "sweeping", "gated",
                  "claiming", "holding", "returning"},
         todo  : SUBSET Goal,
         seen  : BOOLEAN]

(* Where yield_for_rail is, in the cron ticker's task of the same process. *)
Rail == [phase : {"idle", "grace", "cutting", "returning"},
         goals : SUBSET Goal,
         tasks : SUBSET Token]

VARIABLES
    row,        \* the goals table
    run,        \* the run of each claim
    issued,     \* number of claims made so far
    proc,       \* the dispatcher processes
    rail,       \* the rail yield of each process
    paused,     \* the owner's pause of all autonomous work
    charged     \* history: failures charged to each claim

vars == <<row, run, issued, proc, rail, paused, charged>>

-----------------------------------------------------------------------------
(* Reading the state *)

Alive(p) == proc[p].phase \notin {"unborn", "down"}

(* The event loop of p is inside code that does not await: no other task   *)
(* of p runs meanwhile.                                                    *)
Busy(p) ==
    \/ proc[p].phase \in {"booting", "sweeping", "returning"}
    \/ rail[p].phase = "returning"
    \/ \E t \in Token : run[t].pid = p /\ run[t].phase = "blocking"

Serving(p) == Alive(p) /\ ~Busy(p)

(* Variants of Holds without one half of the guard. *)
HoldsAnyStatus(t) == run[t].goal \in Goal /\ row[run[t].goal].token = t

HoldsAnyClaim(t) == run[t].goal \in Goal /\ row[run[t].goal].status = "running"

(* The row still belongs to the claim of t: status running, same token. *)
Holds(t) ==
    /\ run[t].goal \in Goal
    /\ row[run[t].goal].status = "running"
    /\ row[run[t].goal].token = t

Unfinished(t) == run[t].phase \in {"live", "blocking", "cut"}

(* t is p's entry for goal g in the dispatcher's _goal_tasks. *)
IsTask(p, g, t) ==
    /\ run[t].goal = g /\ run[t].pid = p
    /\ Unfinished(t)
    /\ \A u \in Token : u > t => ~(run[u].goal = g /\ run[u].pid = p)

LiveGoals(p) == {g \in Goal : \E t \in Token : IsTask(p, g, t)}

RowsOf(p) == {g \in Goal : row[g].status = "running" /\ row[g].lock = p}

CountRunning ==
    Cardinality({g \in Goal : row[g].status = "running" /\ row[g].lease # "expired"})

Ready == {g \in Goal : /\ row[g].status = "ready"
                       /\ row[g].lock = NoPid
                       /\ ~row[g].notBefore}

-----------------------------------------------------------------------------
(* Row writes shared by several operations *)

Released(r) == [r EXCEPT !.lock = NoPid, !.lease = "none"]

(* Variant of Requeued: claim_lock is not cleared. *)
RequeuedLocked(r) == [r EXCEPT !.status = "ready", !.lease = "none"]

Requeued(r) == [Released(r) EXCEPT !.status = "ready"]

(* Variant of Failed: the breaker never trips. *)
FailedNoBreaker(r) == [Released(r) EXCEPT !.failures = @ + 1, !.status = "ready"]

(* One failure and the breaker's transition, in the same statement. *)
Failed(r) == [Released(r) EXCEPT
                 !.failures = r.failures + 1,
                 !.status = IF r.failures + 1 >= MaxRetries THEN "blocked" ELSE "ready"]

Forgotten(r) == [Released(r) EXCEPT !.token = NoToken]

(* task.cancel() on every task of S: delivered at its next await, which a  *)
(* run between two synchronous writes never reaches.                       *)
Cut(S) == [t \in Token |-> IF t \in S /\ run[t].phase = "live"
                           THEN [run[t] EXCEPT !.phase = "cut"]
                           ELSE run[t]]

Charge(t) == [charged EXCEPT ![t] = @ + 1]

-----------------------------------------------------------------------------
Init ==
    /\ row = [g \in Goal |-> [status |-> "ready", lock |-> NoPid, token |-> NoToken,
                              lease |-> "none", failures |-> 0, deferrals |-> 0,
                              notBefore |-> FALSE]]
    /\ run = [t \in Token |-> [goal |-> NoGoal, pid |-> NoPid, phase |-> "none"]]
    /\ issued = 0
    /\ proc = [p \in Pid |-> [phase |-> "unborn", todo |-> {}, seen |-> FALSE]]
    /\ rail = [p \in Pid |-> [phase |-> "idle", goals |-> {}, tasks |-> {}]]
    /\ paused = FALSE
    /\ charged = [t \in Token |-> 0]

-----------------------------------------------------------------------------
(* A process starts: requeue_running_on_boot, before its first tick *)

Boot(p) ==
    /\ proc[p].phase = "unborn" \/ (PidReuse /\ proc[p].phase = "down")
    /\ proc' = [proc EXCEPT ![p] =
                   [phase |-> "booting", seen |-> FALSE,
                    todo |-> {g \in Goal : row[g].status = "running"}]]
    /\ UNCHANGED <<row, run, issued, rail, paused, charged>>

(* claim_owner_alive: a probe of the pid in claim_lock; an absent lock is  *)
(* not provably dead.                                                      *)
OwnerGone(g) == row[g].lock \in Pid /\ ~Alive(row[g].lock)

(* Variant of BootRow: the UPDATE trusts the SELECT. *)
BootRowUnguarded(p, g) ==
    /\ proc[p].phase = "booting" /\ g \in proc[p].todo
    /\ row' = IF row[g].lease # "live" \/ OwnerGone(g)
              THEN [row EXCEPT ![g] = Requeued(@)] ELSE row
    /\ proc' = [proc EXCEPT ![p].todo = @ \ {g}]
    /\ UNCHANGED <<run, issued, rail, paused, charged>>

BootRow(p, g) ==
    /\ proc[p].phase = "booting" /\ g \in proc[p].todo
    /\ row' = IF row[g].status = "running" /\ (row[g].lease # "live" \/ OwnerGone(g))
              THEN [row EXCEPT ![g] = Requeued(@)] ELSE row
    /\ proc' = [proc EXCEPT ![p].todo = @ \ {g}]
    /\ UNCHANGED <<run, issued, rail, paused, charged>>

BootDone(p) ==
    /\ proc[p].phase = "booting" /\ proc[p].todo = {}
    /\ proc' = [proc EXCEPT ![p].phase = "idle"]
    /\ UNCHANGED <<row, run, issued, rail, paused, charged>>

(* The process dies (a deploy, OOM, SIGKILL): its tasks die with it, the   *)
(* rows and the lock file of a tick it was in stay behind.                 *)
Crash(p) ==
    /\ Alive(p)
    /\ proc' = [proc EXCEPT ![p] = [phase |-> "down", todo |-> {}, seen |-> FALSE]]
    /\ rail' = [rail EXCEPT ![p] = [phase |-> "idle", goals |-> {}, tasks |-> {}]]
    /\ run' = [t \in Token |-> IF run[t].pid = p /\ Unfinished(t)
                               THEN [run[t] EXCEPT !.phase = "dead"] ELSE run[t]]
    /\ UNCHANGED <<row, issued, paused, charged>>

-----------------------------------------------------------------------------
(* dispatch_once *)

(* Variant of Tick: the pause gate comes before reclaim_stale. *)
TickNoSweepInPause(p) ==
    /\ Serving(p) /\ proc[p].phase = "idle"
    /\ proc' = [proc EXCEPT ![p].phase = "sweeping",
                            ![p].todo = {g \in Goal : /\ row[g].status = "running"
                                                      /\ row[g].lease = "expired"
                                                      /\ ~paused}]
    /\ UNCHANGED <<row, run, issued, rail, paused, charged>>

(* reclaim_stale runs first and unconditionally. *)
Tick(p) ==
    /\ Serving(p) /\ proc[p].phase = "idle"
    /\ proc' = [proc EXCEPT ![p].phase = "sweeping",
                            ![p].todo = {g \in Goal : /\ row[g].status = "running"
                                                      /\ row[g].lease = "expired"}]
    /\ UNCHANGED <<row, run, issued, rail, paused, charged>>

ReclaimRow(p, g) ==
    /\ proc[p].phase = "sweeping" /\ g \in proc[p].todo
    /\ IF row[g].status = "running" /\ row[g].lease = "expired"
       THEN /\ row' = [row EXCEPT ![g] = Failed(@)]
            /\ charged' = Charge(row[g].token)
       ELSE UNCHANGED <<row, charged>>
    /\ proc' = [proc EXCEPT ![p].todo = @ \ {g}]
    /\ UNCHANGED <<run, issued, rail, paused>>

(* The pause gate.  The first tick that finds the pause cancels the runs   *)
(* of this process (hold_inflight); later ones return at once.             *)
GatePaused(p) ==
    /\ proc[p].phase = "sweeping" /\ proc[p].todo = {}
    /\ paused
    /\ IF proc[p].seen
       THEN /\ proc' = [proc EXCEPT ![p].phase = "idle"]
            /\ UNCHANGED run
       ELSE /\ proc' = [proc EXCEPT ![p].phase = "holding", ![p].seen = TRUE]
            /\ run' = Cut({t \in Token : run[t].pid = p})
    /\ UNCHANGED <<row, issued, rail, paused, charged>>

(* Variant of GateOpen: _paused_seen survives the end of a pause. *)
GateOpenKeepsSeen(p) ==
    /\ proc[p].phase = "sweeping" /\ proc[p].todo = {}
    /\ ~paused
    /\ proc' = [proc EXCEPT ![p].phase = "gated"]
    /\ UNCHANGED <<row, run, issued, rail, paused, charged>>

GateOpen(p) ==
    /\ proc[p].phase = "sweeping" /\ proc[p].todo = {}
    /\ ~paused
    /\ proc' = [proc EXCEPT ![p].phase = "gated", ![p].seen = FALSE]
    /\ UNCHANGED <<row, run, issued, rail, paused, charged>>

(* A later gate ends the tick: providers out of credit, an owner turn, a   *)
(* drain, the tick lock or the workspace lock taken, the quota spent, no   *)
(* free slot, memory pressure, a cron job about to start.                  *)
GateClosed(p) ==
    /\ Serving(p) /\ proc[p].phase = "gated"
    /\ proc' = [proc EXCEPT ![p].phase = "idle"]
    /\ UNCHANGED <<row, run, issued, rail, paused, charged>>

(* Variant of ReadReady: no tick lock. *)
ReadReadyUnlocked(p) ==
    /\ Serving(p) /\ proc[p].phase = "gated"
    /\ \E batch \in SUBSET Ready :
          /\ batch # {}
          /\ Cardinality(batch) + CountRunning <= MaxConcurrent
          /\ proc' = [proc EXCEPT ![p].phase = "claiming", ![p].todo = batch]
    /\ UNCHANGED <<row, run, issued, rail, paused, charged>>

(* Under the tick lock: the free slots, then that many ready goals.  The   *)
(* lock file is taken to exclude live ticks of other processes, and a file *)
(* whose process died to be taken over.                                    *)
ReadReady(p) ==
    /\ Serving(p) /\ proc[p].phase = "gated"
    /\ \A q \in Pid \ {p} : proc[q].phase # "claiming"
    /\ \E batch \in SUBSET Ready :
          /\ batch # {}
          /\ Cardinality(batch) + CountRunning <= MaxConcurrent
          /\ proc' = [proc EXCEPT ![p].phase = "claiming", ![p].todo = batch]
    /\ UNCHANGED <<row, run, issued, rail, paused, charged>>

(* Variant of Claim: the goal's previous task is not cancelled. *)
ClaimKeepsOldTask(p, g) ==
    /\ Serving(p) /\ proc[p].phase = "claiming" /\ g \in proc[p].todo
    /\ row[g].status = "ready" /\ row[g].lock = NoPid
    /\ issued < MaxClaims
    /\ issued' = issued + 1
    /\ row' = [row EXCEPT ![g].status = "running", ![g].lock = p,
                          ![g].token = issued + 1, ![g].lease = "live"]
    /\ run' = [run EXCEPT ![issued + 1] = [goal |-> g, pid |-> p, phase |-> "live"]]
    /\ proc' = [proc EXCEPT ![p].todo = @ \ {g}]
    /\ UNCHANGED <<rail, paused, charged>>

(* board.claim, then the previous task of the goal in this process is      *)
(* cancelled and the new run is started.                                   *)
Claim(p, g) ==
    /\ Serving(p) /\ proc[p].phase = "claiming" /\ g \in proc[p].todo
    /\ row[g].status = "ready" /\ row[g].lock = NoPid
    /\ issued < MaxClaims
    /\ LET t == issued + 1 IN
          /\ issued' = t
          /\ row' = [row EXCEPT ![g].status = "running", ![g].lock = p,
                                ![g].token = t, ![g].lease = "live"]
          /\ run' = [Cut({u \in Token : IsTask(p, g, u)}) EXCEPT
                        ![t] = [goal |-> g, pid |-> p, phase |-> "live"]]
    /\ proc' = [proc EXCEPT ![p].todo = @ \ {g}]
    /\ UNCHANGED <<rail, paused, charged>>

(* Another worker won the goal, or the pre-flight or a pressure gate left  *)
(* it for a later tick.                                                    *)
Skip(p, g) ==
    /\ Serving(p) /\ proc[p].phase = "claiming" /\ g \in proc[p].todo
    /\ proc' = [proc EXCEPT ![p].todo = @ \ {g}]
    /\ UNCHANGED <<row, run, issued, rail, paused, charged>>

TickDone(p) ==
    /\ Serving(p) /\ proc[p].phase = "claiming" /\ proc[p].todo = {}
    /\ proc' = [proc EXCEPT ![p].phase = "idle"]
    /\ UNCHANGED <<row, run, issued, rail, paused, charged>>

(* Variant of HoldRows: the cancelled runs are not awaited. *)
HoldRowsAtOnce(p) ==
    /\ Serving(p) /\ proc[p].phase = "holding"
    /\ proc' = [proc EXCEPT ![p].phase = "returning", ![p].todo = RowsOf(p)]
    /\ UNCHANGED <<row, run, issued, rail, paused, charged>>

(* hold_inflight: the cancelled runs have unwound; hold_running returns    *)
(* the rows of this worker.                                                *)
HoldRows(p) ==
    /\ Serving(p) /\ proc[p].phase = "holding"
    /\ \A t \in Token : run[t].pid = p => ~Unfinished(t)
    /\ proc' = [proc EXCEPT ![p].phase = "returning", ![p].todo = RowsOf(p)]
    /\ UNCHANGED <<row, run, issued, rail, paused, charged>>

(* The UPDATE names the worker, not the claim. *)
HoldRow(p, g) == row' = IF g \in RowsOf(p) THEN [row EXCEPT ![g] = Requeued(@)] ELSE row

PauseHoldRow(p, g) ==
    /\ proc[p].phase = "returning" /\ g \in proc[p].todo
    /\ HoldRow(p, g)
    /\ proc' = [proc EXCEPT ![p].todo = @ \ {g}]
    /\ UNCHANGED <<run, issued, rail, paused, charged>>

PauseHoldDone(p) ==
    /\ proc[p].phase = "returning" /\ proc[p].todo = {}
    /\ proc' = [proc EXCEPT ![p].phase = "idle"]
    /\ UNCHANGED <<row, run, issued, rail, paused, charged>>

-----------------------------------------------------------------------------
(* yield_for_rail: a due cron rail pre-empts the goal runs of its process *)

RailDue(p) ==
    /\ p \in RailPid /\ Serving(p) /\ rail[p].phase = "idle"
    /\ \E targets \in SUBSET LiveGoals(p) :
          IF targets # {}
          THEN rail' = [rail EXCEPT ![p] = [phase |-> "grace", goals |-> targets, tasks |-> {}]]
          ELSE /\ LiveGoals(p) = {}
               /\ rail' = [rail EXCEPT ![p] = [phase |-> "returning", goals |-> RowsOf(p),
                                               tasks |-> {}]]
    /\ UNCHANGED <<row, run, issued, proc, paused, charged>>

(* The grace is over: hold_inflight cancels what runs these goals now. *)
RailCut(p) ==
    /\ Serving(p) /\ rail[p].phase = "grace"
    /\ LET tasks == {t \in Token : \E g \in rail[p].goals : IsTask(p, g, t)} IN
          /\ rail' = [rail EXCEPT ![p].phase = "cutting", ![p].tasks = tasks]
          /\ run' = Cut(tasks)
    /\ UNCHANGED <<row, issued, proc, paused, charged>>

RailHoldRows(p) ==
    /\ Serving(p) /\ rail[p].phase = "cutting"
    /\ \A t \in rail[p].tasks : ~Unfinished(t)
    /\ rail' = [rail EXCEPT ![p] = [phase |-> "returning", tasks |-> {},
                                    goals |-> rail[p].goals \cap RowsOf(p)]]
    /\ UNCHANGED <<row, run, issued, proc, paused, charged>>

RailHoldRow(p, g) ==
    /\ rail[p].phase = "returning" /\ g \in rail[p].goals
    /\ HoldRow(p, g)
    /\ rail' = [rail EXCEPT ![p].goals = @ \ {g}]
    /\ UNCHANGED <<run, issued, proc, paused, charged>>

RailDone(p) ==
    /\ rail[p].phase = "returning" /\ rail[p].goals = {}
    /\ rail' = [rail EXCEPT ![p].phase = "idle"]
    /\ UNCHANGED <<row, run, issued, proc, paused, charged>>

-----------------------------------------------------------------------------
(* A run: its heartbeat and how it ends *)

Finish(t, ph) == run' = [run EXCEPT ![t].phase = ph]

CanRecord(t) == run[t].phase = "live" /\ Serving(run[t].pid)

(* The heartbeat found its claim: lock, token and status all match. *)
HeartbeatRenews(t) ==
    /\ run[t].phase \in {"live", "cut"} /\ Serving(run[t].pid)
    /\ Holds(t) /\ row[run[t].goal].lock = run[t].pid
    /\ row[run[t].goal].lease = "expired"
    /\ row' = [row EXCEPT ![run[t].goal].lease = "live"]
    /\ UNCHANGED <<run, issued, proc, rail, paused, charged>>

(* It did not: the old run is stopped. *)
HeartbeatLost(t) ==
    /\ CanRecord(t)
    /\ ~(Holds(t) /\ row[run[t].goal].lock = run[t].pid)
    /\ Finish(t, "cut")
    /\ UNCHANGED <<row, issued, proc, rail, paused, charged>>

RecordSuccess(t) ==
    /\ CanRecord(t)
    /\ row' = IF Holds(t)
              THEN [row EXCEPT ![run[t].goal] = [Released(@) EXCEPT
                       !.status = "done", !.failures = 0, !.deferrals = 0]]
              ELSE row
    /\ Finish(t, "over")
    /\ UNCHANGED <<issued, proc, rail, paused, charged>>

FailedRun(r) == [Failed(r) EXCEPT !.deferrals = 0]

RecordFailure(t) ==
    /\ CanRecord(t)
    /\ IF Holds(t)
       THEN /\ row' = [row EXCEPT ![run[t].goal] = FailedRun(@)]
            /\ charged' = Charge(t)
       ELSE UNCHANGED <<row, charged>>
    /\ Finish(t, "over")
    /\ UNCHANGED <<issued, proc, rail, paused>>

(* An agent-declared BLOCKED: record_failure, then block_from_ready when   *)
(* the row is ready under this run's token - also a row that a sweep or a  *)
(* hold returned before, which record_failure missed.                      *)
DeclareBlocked(t) ==
    /\ CanRecord(t)
    /\ IF Holds(t)
       THEN row' = [row EXCEPT ![run[t].goal] = FailedRun(@)] /\ charged' = Charge(t)
       ELSE UNCHANGED <<row, charged>>
    /\ Finish(t, IF row'[run[t].goal].token = t /\ row'[run[t].goal].status = "ready"
                 THEN "blocking" ELSE "over")
    /\ UNCHANGED <<issued, proc, rail, paused>>

(* Variant of BlockFromReady: no status = 'ready' in the UPDATE. *)
BlockUnguarded(t) ==
    /\ run[t].phase = "blocking"
    /\ row' = [row EXCEPT ![run[t].goal] = [Released(@) EXCEPT !.status = "blocked"]]
    /\ Finish(t, "over")
    /\ UNCHANGED <<issued, proc, rail, paused, charged>>

BlockFromReady(t) ==
    /\ run[t].phase = "blocking"
    /\ row' = IF row[run[t].goal].status = "ready"
              THEN [row EXCEPT ![run[t].goal] = [Released(@) EXCEPT !.status = "blocked"]]
              ELSE row
    /\ Finish(t, "over")
    /\ UNCHANGED <<issued, proc, rail, paused, charged>>

Deferred(r) == [Requeued(r) EXCEPT !.deferrals = r.deferrals + 1, !.notBefore = TRUE]

(* Variant of DeferRun: no MAX_RUN_DEFERRALS. *)
DeferUncapped(t) ==
    /\ CanRecord(t) /\ Holds(t)
    /\ row' = [row EXCEPT ![run[t].goal] = Deferred(@)]
    /\ Finish(t, "over")
    /\ UNCHANGED <<issued, proc, rail, paused, charged>>

(* A rate guard cut the run short.  A stale claim or a spent deferral      *)
(* budget falls through to record_failure: RecordFailure.                  *)
DeferRun(t) ==
    /\ CanRecord(t) /\ Holds(t)
    /\ row[run[t].goal].deferrals < MaxRunDeferrals
    /\ row' = [row EXCEPT ![run[t].goal] = Deferred(@)]
    /\ Finish(t, "over")
    /\ UNCHANGED <<issued, proc, rail, paused, charged>>

(* The run ends and writes nothing: a rail yield asked for it, or the      *)
(* board write itself raised and was swallowed.                            *)
EndUnrecorded(t) ==
    /\ CanRecord(t)
    /\ Finish(t, "over")
    /\ UNCHANGED <<row, issued, proc, rail, paused, charged>>

(* A cancelled run has unwound. *)
Unwind(t) ==
    /\ run[t].phase = "cut" /\ Serving(run[t].pid)
    /\ Finish(t, "over")
    /\ UNCHANGED <<row, issued, proc, rail, paused, charged>>

-----------------------------------------------------------------------------
(* The owner and the clock *)

(* An owner verb runs in some process; that process stops its own run of   *)
(* the goal, any other finds out at its next heartbeat.                    *)
CancelLocalRun(g) ==
    \/ UNCHANGED run
    \/ \E p \in Pid : Serving(p) /\ run' = Cut({t \in Token : IsTask(p, g, t)})

Cancel(g) ==
    /\ row[g].status \notin Terminal
    /\ row' = [row EXCEPT ![g].status = "cancelled", ![g].lock = NoPid, ![g].token = NoToken]
    /\ CancelLocalRun(g)
    /\ UNCHANGED <<issued, proc, rail, paused, charged>>

Pause(g) ==
    /\ row[g].status \in {"ready", "running", "blocked"}
    /\ row' = [row EXCEPT ![g] = [Forgotten(@) EXCEPT !.status = "paused"]]
    /\ CancelLocalRun(g)
    /\ UNCHANGED <<issued, proc, rail, paused, charged>>

(* /goal retry: a paused or blocked goal back to ready, failures cleared. *)
Retry(g) ==
    /\ row[g].status \in {"paused", "blocked"}
    /\ row' = [row EXCEPT ![g] = [Forgotten(@) EXCEPT !.status = "ready", !.failures = 0]]
    /\ UNCHANGED <<run, issued, proc, rail, paused, charged>>

(* Variant of Unblock: consecutive_failures is not reset. *)
UnblockKeepsFailures(g) ==
    /\ row[g].status = "blocked"
    /\ row' = [row EXCEPT ![g] = Requeued(@)]
    /\ UNCHANGED <<run, issued, proc, rail, paused, charged>>

(* unblock, an approved ask, or the provider-outage requeue. *)
Unblock(g) ==
    /\ row[g].status = "blocked"
    /\ row' = [row EXCEPT ![g] = [Requeued(@) EXCEPT !.failures = 0]]
    /\ UNCHANGED <<run, issued, proc, rail, paused, charged>>

AgeOut(g) ==
    /\ row[g].status = "blocked"
    /\ row' = [row EXCEPT ![g].status = "cancelled"]
    /\ UNCHANGED <<run, issued, proc, rail, paused, charged>>

(* The owner pauses or resumes every autonomous rail. *)
PauseAll ==
    /\ paused' \in BOOLEAN
    /\ UNCHANGED <<row, run, issued, proc, rail, charged>>

(* claim_expires passes.  With TimelyHeartbeats only a claim nobody renews *)
(* lapses; without, a stalled loop or a busy database delays the renewal.  *)
LeaseExpires(g) ==
    /\ row[g].status = "running" /\ row[g].lease = "live"
    /\ TimelyHeartbeats => ~(row[g].token \in Token /\ Unfinished(row[g].token))
    /\ row' = [row EXCEPT ![g].lease = "expired"]
    /\ UNCHANGED <<run, issued, proc, rail, paused, charged>>

(* payload.not_before passes. *)
DeferralElapses(g) ==
    /\ row[g].notBefore
    /\ row' = [row EXCEPT ![g].notBefore = FALSE]
    /\ UNCHANGED <<run, issued, proc, rail, paused, charged>>

-----------------------------------------------------------------------------
ProcessStep(p) ==
    \/ Boot(p) \/ BootDone(p) \/ Crash(p)
    \/ Tick(p) \/ GatePaused(p) \/ GateOpen(p) \/ GateClosed(p) \/ ReadReady(p)
    \/ TickDone(p) \/ HoldRows(p) \/ PauseHoldDone(p)
    \/ RailDue(p) \/ RailCut(p) \/ RailHoldRows(p) \/ RailDone(p)
    \/ \E g \in Goal : \/ BootRow(p, g) \/ ReclaimRow(p, g)
                       \/ Claim(p, g) \/ Skip(p, g)
                       \/ PauseHoldRow(p, g) \/ RailHoldRow(p, g)

RunStep(t) ==
    \/ HeartbeatRenews(t) \/ HeartbeatLost(t)
    \/ RecordSuccess(t) \/ RecordFailure(t) \/ DeclareBlocked(t) \/ BlockFromReady(t)
    \/ DeferRun(t) \/ EndUnrecorded(t) \/ Unwind(t)

OwnerStep(g) == Cancel(g) \/ Pause(g) \/ Retry(g) \/ Unblock(g) \/ AgeOut(g)

ClockStep(g) == LeaseExpires(g) \/ DeferralElapses(g)

Next ==
    \/ \E p \in Pid : ProcessStep(p)
    \/ \E t \in Token : RunStep(t)
    \/ \E g \in Goal : OwnerStep(g) \/ ClockStep(g)
    \/ PauseAll

Spec == Init /\ [][Next]_vars

(* The service manager restarts a process that died: weak fairness.  The   *)
(* event loop of a process runs every task that is ready before it runs    *)
(* one again, however often a synchronous stretch of another task keeps it *)
(* waiting: strong fairness for its tickers, its rail, a cancelled run and *)
(* a lost heartbeat.  A claim nobody renews lapses with the clock.  Nothing*)
(* makes a run end, a tick claim, the owner act or a process crash.        *)
TickerStep(p) ==
    \/ BootDone(p) \/ Tick(p) \/ GatePaused(p) \/ GateOpen(p) \/ GateClosed(p)
    \/ TickDone(p) \/ HoldRows(p) \/ PauseHoldDone(p)
    \/ \E g \in Goal : BootRow(p, g) \/ ReclaimRow(p, g) \/ Skip(p, g) \/ PauseHoldRow(p, g)

RailStep(p) ==
    \/ RailCut(p) \/ RailHoldRows(p) \/ RailDone(p)
    \/ \E g \in Goal : RailHoldRow(p, g)

OrphanExpires(g) ==
    /\ row[g].token \in Token /\ run[row[g].token].phase \in {"over", "dead"}
    /\ LeaseExpires(g)

Fairness ==
    /\ \A p \in Pid : WF_vars(Boot(p)) /\ SF_vars(TickerStep(p)) /\ SF_vars(RailStep(p))
    /\ \A t \in Token : /\ SF_vars(Unwind(t)) /\ SF_vars(HeartbeatLost(t))
                         /\ WF_vars(BlockFromReady(t))
    /\ \A g \in Goal : WF_vars(OrphanExpires(g))

FairSpec == Spec /\ Fairness

-----------------------------------------------------------------------------
(* Invariants *)

TypeOK ==
    /\ row \in [Goal -> Row]
    /\ run \in [Token -> Run]
    /\ issued \in 0..MaxClaims
    /\ proc \in [Pid -> Proc]
    /\ rail \in [Pid -> Rail]
    /\ paused \in BOOLEAN
    /\ charged \in [Token -> Nat]

(* A running row names one live claim - a lock, an expiry and the token of *)
(* a run of this very goal in that very process - and a ready row carries  *)
(* no lock.  claim() takes only rows with claim_lock NULL, so a path that  *)
(* returns a goal and forgets the lock strands it; a running row without   *)
(* an expiry is one no sweep can ever reclaim.                             *)
RunningRowIsClaimed(g) ==
    row[g].status = "running" =>
        /\ row[g].lock \in Pid
        /\ row[g].lease # "none"
        /\ row[g].token \in 1..issued
        /\ run[row[g].token].goal = g
        /\ run[row[g].token].pid = row[g].lock

ReadyRowIsFree(g) == row[g].status = "ready" => row[g].lock = NoPid

ClaimShape == \A g \in Goal : RunningRowIsClaimed(g) /\ ReadyRowIsFree(g)

(* A goal whose circuit breaker has tripped is never served again before   *)
(* an owner verb or an outage requeue gave it a fresh budget, whichever of *)
(* the record, reclaim, hold, boot and retry paths returned the row.  (The *)
(* completion of a prerequisite does serve it: GoalDeps, ServedWithBudget) *)
BreakerHolds ==
    \A g \in Goal : row[g].status \in {"ready", "running"} => row[g].failures < MaxRetries

(* One execution costs a goal at most one failure: the run's own           *)
(* record_failure and the sweep that took its claim for dead never both    *)
(* count, however late the run ends.                                       *)
FailureChargedOnce == \A t \in Token : charged[t] <= 1

(* A process never keeps two uncancelled runs of one goal: a goal that     *)
(* came back (owner retry, reclaim, hold) and was claimed again stops its  *)
(* previous run.                                                           *)
OneLiveRunPerProcess ==
    \A t, u \in Token :
        /\ run[t].phase = "live" /\ run[u].phase = "live"
        /\ run[t].pid = run[u].pid /\ run[t].goal = run[u].goal
        => t = u

(* The goals that a run executes under the claim their row still names.    *)
ExecutingUnderClaim ==
    {g \in Goal : row[g].status = "running" /\ Unfinished(row[g].token)}

(* GOAL_MAX_CONCURRENT over all processes: two ticks of two processes, a   *)
(* hold or a reclaim in between never add up to more goals executing under *)
(* their rows' claims than the cap.  It does not bound the runs: one whose *)
(* row the owner paused, cancelled or retried goes on until its heartbeat  *)
(* or its unwinding notices; the tick's count of running rows leaves it    *)
(* out, and another process may claim into its slot meanwhile.  The count  *)
(* also leaves out rows whose lease has expired, so this needs every live  *)
(* run to renew in time (TimelyHeartbeats).                                *)
WithinConcurrency == TimelyHeartbeats => Cardinality(ExecutingUnderClaim) <= MaxConcurrent

-----------------------------------------------------------------------------
(* Action properties *)

(* A run whose goal has been claimed again since changes nothing when it   *)
(* ends: the claim token fences it out.                                    *)
LateOutcomeIgnored ==
    [][\A t \in Token :
          /\ run[t].phase = "live" /\ run'[t].phase \in {"over", "blocking"}
          /\ row' # row
          => \A u \in (t + 1)..issued : run[u].goal # run[t].goal]_vars

(* done and cancelled are final: no late outcome, hold, requeue or sweep   *)
(* resurrects a goal the owner cancelled or the board completed.           *)
TerminalIsFinal ==
    [][\A g \in Goal : row[g].status \in Terminal => row'[g].status = row[g].status]_vars

(* The owner's pause of a goal is lifted by the owner alone, and the       *)
(* result of a run that was in flight when he paused it is not recorded.   *)
PauseHeldUntilOwner ==
    [][\A g \in Goal :
          row[g].status = "paused" /\ row'[g] # row[g] =>
              \/ Retry(g) \/ Cancel(g) \/ DeferralElapses(g)]_vars

(* The hold that answers the owner's pause returns a goal only once its     *)
(* run has unwound ("returning a still-running goal would double-dispatch   *)
(* it"): no run still executes when its row comes back.                    *)
PauseHoldReturnsStoppedRuns ==
    [][\A p \in Pid, g \in Goal :
          /\ proc[p].phase = "returning" /\ g \in proc[p].todo \ proc'[p].todo
          /\ row[g].status = "running" /\ row'[g].status = "ready"
          => ~Unfinished(row[g].token)]_vars

(* The board grants each goal to one claim at a time, whatever crashes,    *)
(* expires, restarts or is cancelled meanwhile: ExclusiveClaim.            *)
Place(status) == CASE status = "ready" -> "open"
                   [] status = "running" -> "held"
                   [] status \in {"blocked", "paused"} -> "parked"
                   [] OTHER -> "closed"

BoardPlace == [g \in Goal |-> Place(row[g].status)]
BoardHolder == [g \in Goal |-> IF row[g].status = "running" THEN row[g].token ELSE 0]
BoardSpent == [g \in Goal |-> row[g].failures]

Board == INSTANCE ExclusiveClaim WITH
    Budget <- MaxRetries, place <- BoardPlace, holder <- BoardHolder,
    granted <- issued, spent <- BoardSpent

BoardGrantsExclusively == Board!ESpec

-----------------------------------------------------------------------------
(* Liveness *)

EveryProcessCrashLoops == \A p \in Pid : []<><<Crash(p)>>_vars

OwnerDead(g) ==
    /\ row[g].status = "running" /\ row[g].token \in Token
    /\ run[row[g].token].phase \in {"dead", "over"}

(* A row whose run is gone - its process crashed, or the run ended without *)
(* a record - does not stay running, as long as one process of the fleet   *)
(* does not crash for ever.                                                *)
StaleClaimRecovers ==
    EveryProcessCrashLoops \/ \A g \in Goal : OwnerDead(g) ~> ~OwnerDead(g)

(* Under a lasting pause every run ends, also one claimed by a tick that   *)
(* had already passed the gate when the owner paused.                      *)
PauseStopsRuns == <>[]paused => <>[](\A t \in Token : ~Unfinished(t))

-----------------------------------------------------------------------------
(* What the comments promise and the code does not keep *)

(* board.py requeue_running_on_boot: a restarted process's predecessor is  *)
(* dead, so its goals come back immediately.  Once the boot sweep of p is  *)
(* over, no row is still held by a run that died with an earlier process   *)
(* of the same pid.                                                        *)
PredecessorClaimsReturned ==
    \A p \in Pid, g \in Goal :
        /\ proc[p].phase \in {"idle", "sweeping", "gated", "claiming"}
        /\ row[g].status = "running" /\ row[g].lock = p
        => run[row[g].token].phase # "dead"
=============================================================================
