------------------------------ MODULE CronJobs ------------------------------
(***************************************************************************)
(* The cron scheduler and its job store: ticks of several processes under  *)
(* the tick lock, the leased claim of each due job, the end of its run,    *)
(* and the owner's verbs on the same rows.                                 *)
(*                                                                         *)
(* Sources: cron/scheduler.py, cron/jobs.py, cron/job_machine.py,          *)
(* core/cron_rearm.py.                                                     *)
(*                                                                         *)
(* The lock of module TickLock can end up held twice: what keeps a job     *)
(* from running twice is the lease on its row.  One SQL statement is one   *)
(* step; a tick awaits its run, so everything else may happen meanwhile.   *)
(*                                                                         *)
(* Abstractions.                                                           *)
(*  - A claim is identified by its number: run_owner (pid, start time,     *)
(*    boot id) and lease_until are written and compared together.          *)
(*  - next_run_at is a slot number, a new one with every computed instant, *)
(*    and due says that it has passed; 0 is NULL.  The now of a tick is    *)
(*    the present.                                                         *)
(*  - enabled is derived from status, as job_machine.py states.            *)
(*  - Rows without a lease, payload, lanes and pre-emption are left out.   *)
(***************************************************************************)
EXTENDS TickLock, Sequences

CONSTANTS
    Job,        \* cron job ids
    OneShot,    \* the jobs created as one-shots
    MaxRuns,    \* bound of the model: claims
    MaxVerbs,   \* bound of the model: verbs of the owner but resume
    MaxMishaps  \* bound of the model: crashes, closed gates, late heartbeats, overruns, errors

ASSUME CronJobsAssumption ==
    /\ OneShot \subseteq Job /\ IsFiniteSet(Proc)
    /\ MaxRuns \in Nat /\ MaxVerbs \in Nat /\ MaxMishaps \in Nat

Status == {"scheduled", "running", "paused", "done", "failed", "cancelled"}
Run == 1..MaxRuns
Slot == 0..(Cardinality(Proc) + 2)

(* claim: run_owner and lease_until, 0 when both are NULL *)
Row == [status : Status, oneShot : BOOLEAN, slot : Slot, due : BOOLEAN, claim : 0..MaxRuns]

(* What the claim returned (proc, job, slot, oneShot), and what became of  *)
(* it.  expired: lease_until has passed; orphan: its process is gone.      *)
RunState == [proc : Proc, job : Job, slot : Slot, oneShot : BOOLEAN,
             live : BOOLEAN, expired : BOOLEAN, orphan : BOOLEAN]

TickOps == {"none", "reclaim", "due", "run", "record", "giveBack"}

VARIABLES
    row,      \* cron_jobs
    run,      \* the runs claimed so far
    tick,     \* op, the rows its last SELECT returned, the run it awaits
    ousted,   \* history: claims whose row the owner paused
    verbs, mishaps

jobVars == <<row, run, tick, ousted>>
vars == <<lockVars, jobVars, verbs, mishaps>>
bounds == <<verbs, mishaps>>

TickState == [op : TickOps, todo : SUBSET (Job \X (0..MaxRuns)), run : 0..MaxRuns]

NoTick == [op |-> "none", todo |-> {}, run |-> 0]

-----------------------------------------------------------------------------
Runs == DOMAIN run

(* lease_is_live: of a row whose claim is t *)
LeaseLive(t) == ~run[t].expired /\ ~run[t].orphan

Running(j, t) == row[j].status = "running" /\ row[j].claim = t

Due(j) == row[j].status = "scheduled" /\ row[j].slot # 0 /\ row[j].due

(* A next_run_at that neither the row nor a tick that awaits a run knows. *)
Known(j) == {row[j].slot} \cup {run[tick[p].run].slot : p \in {q \in Proc : tick[q].run # 0}}

FreshSlot(j) == CHOOSE n \in Slot \ {0} : n \notin Known(j)

Mishap == mishaps < MaxMishaps /\ mishaps' = mishaps + 1

Verb == verbs < MaxVerbs /\ verbs' = verbs + 1

InTick(p, op) == locker[p] = "in" /\ tick[p].op = op

RowTo(j, r) == row' = [row EXCEPT ![j] = r]

(* run_owner and lease_until are NULL again. *)
Unclaimed(j, st) == [row[j] EXCEPT !.status = st, !.claim = 0]

TickTo(p, op) == tick' = [tick EXCEPT ![p].op = op]

(* The tick is over, whatever it had left to do. *)
EndTick(p) == tick' = [tick EXCEPT ![p] = NoTick] /\ GoesTo(p, "leave")

-----------------------------------------------------------------------------
Init ==
    /\ LockInit
    /\ row = [j \in Job |-> [status |-> "scheduled", oneShot |-> j \in OneShot, slot |-> 1,
                             due |-> FALSE, claim |-> 0]]
    /\ run = <<>>
    /\ tick = [p \in Proc |-> NoTick]
    /\ ousted = {}
    /\ verbs = 0 /\ mishaps = 0

-----------------------------------------------------------------------------
(* A tick *)

Lock(p) == LockStep(p) /\ UNCHANGED <<jobVars, bounds>>

(* A human turn, pressure or a drain: the tick does nothing. *)
GateClosed(p) ==
    /\ InTick(p, "none") /\ Mishap
    /\ EndTick(p)
    /\ UNCHANGED <<file, row, run, ousted, verbs>>

(* The heartbeat starts; reclaim_stale_running reads the running rows. *)
GateOpen(p) ==
    /\ InTick(p, "none")
    /\ tick' = [tick EXCEPT ![p] =
          [op |-> "reclaim", run |-> 0,
           todo |-> {<<j, row[j].claim>> : j \in {k \in Job : row[k].status = "running"}}]]
    /\ UNCHANGED <<lockVars, row, run, ousted, bounds>>

(* Each by its verdict on the claim it read: the row goes back, or stays. *)
Reclaim(p, Verdict(_, _), left) ==
    /\ InTick(p, "reclaim")
    /\ \E x \in tick[p].todo :
          /\ tick' = [tick EXCEPT ![p].todo = @ \ {x}]
          /\ IF Verdict(x[1], x[2]) THEN RowTo(x[1], Unclaimed(x[1], left)) ELSE UNCHANGED row
    /\ UNCHANGED <<lockVars, run, ousted, bounds>>

(* Variants of ReclaimRow: a lock holder takes every running row; the row  *)
(* loses its claim and keeps its status; only dead processes lose rows.    *)
ReclaimAny(p) == Reclaim(p, Running, "scheduled")
ReclaimHalf(p) == LET Out(j, t) == ~LeaseLive(t) /\ Running(j, t) IN Reclaim(p, Out, "running")
ReclaimDead(p) == LET Dead(j, t) == run[t].orphan /\ Running(j, t) IN Reclaim(p, Dead, "scheduled")

(* Judged by its lease, written by a CAS on the claim that was judged. *)
ReclaimRow(p) ==
    LET Orphan(j, t) == ~LeaseLive(t) /\ Running(j, t) IN Reclaim(p, Orphan, "scheduled")

(* store.due(now) *)
ReadDue(p) ==
    /\ InTick(p, "reclaim") /\ tick[p].todo = {}
    /\ tick' = [tick EXCEPT ![p].op = "due", ![p].todo = {<<j, 0>> : j \in {k \in Job : Due(k)}}]
    /\ UNCHANGED <<lockVars, row, run, ousted, bounds>>

(* claim_for_run: the candidate may have been claimed, moved or paused. *)
Claim(p) ==
    /\ InTick(p, "due")
    /\ \E x \in tick[p].todo :
          LET j == x[1]
              t == Len(run) + 1
              rest == tick[p].todo \ {x}
          IN \/ /\ Due(j) /\ t \in Run
                /\ RowTo(j, [row[j] EXCEPT !.status = "running", !.claim = t])
                /\ run' = Append(run, [proc |-> p, job |-> j, slot |-> row[j].slot,
                                       oneShot |-> row[j].oneShot, live |-> TRUE,
                                       expired |-> FALSE, orphan |-> FALSE])
                /\ tick' = [tick EXCEPT ![p] = [op |-> "run", todo |-> rest, run |-> t]]
             \/ /\ ~Due(j)
                /\ tick' = [tick EXCEPT ![p].todo = rest]
                /\ UNCHANGED <<row, run>>
    /\ UNCHANGED <<lockVars, ousted, bounds>>

TickDone(p) ==
    /\ InTick(p, "due") /\ (tick[p].todo = {} \/ Len(run) = MaxRuns)
    /\ EndTick(p)
    /\ UNCHANGED <<file, row, run, ousted, bounds>>

-----------------------------------------------------------------------------
(* The end of a run: it finished, failed or hit its cap ("record"), or it  *)
(* was cut by an owner pause or a shutdown ("giveBack").                   *)

RunEnds(p) ==
    /\ InTick(p, "run")
    /\ run' = [run EXCEPT ![tick[p].run].live = FALSE]
    /\ \E op \in {"record", "giveBack"} : TickTo(p, op)
    /\ UNCHANGED <<lockVars, row, ousted, bounds>>

(* What _record asks for: a one-shot is done or failed, or kept due while  *)
(* the owner's approval is open; a recurring job gets its next slot, which *)
(* may be the present (an ask answered during the run), or is done.        *)
Ends(t) ==
    IF run[t].oneShot
    THEN {[status |-> "done", next |-> "none"], [status |-> "failed", next |-> "none"],
          [status |-> "scheduled", next |-> "kept"]}
    ELSE {[status |-> "scheduled", next |-> "computed"], [status |-> "done", next |-> "none"]}

AsAsked(j, end) ==
    [row[j] EXCEPT !.status = end.status, !.claim = 0,
                   !.slot = CASE end.next = "none" -> 0 [] end.next = "kept" -> @
                              [] end.next = "computed" -> FreshSlot(j),
                   !.due = @ /\ end.next = "kept"]

(* Variant of AfterRun: the end of the run knows better than the row. *)
AfterRunBlind(j, t, end) == AsAsked(j, end)

(* update_after_run on a row that still carries the claim: a schedule the  *)
(* owner edited during the run stands.                                     *)
AfterRun(j, t, end) ==
    IF row[j].slot # run[t].slot \/ row[j].oneShot # run[t].oneShot
    THEN Unclaimed(j, "scheduled")
    ELSE AsAsked(j, end)

RecordIf(p, Holds(_, _)) ==
    /\ InTick(p, "record")
    /\ LET t == tick[p].run
           j == run[t].job
       IN \/ /\ Holds(j, t)
             /\ \E end \in Ends(t) : RowTo(j, AfterRun(j, t, end))
          \/ ~Holds(j, t) /\ UNCHANGED row
    /\ tick' = [tick EXCEPT ![p].op = "due", ![p].run = 0]
    /\ UNCHANGED <<lockVars, run, ousted, bounds>>

(* Variant of Record: the CAS is on the status only. *)
RecordByStatus(p) == LET AnyRun(j, t) == row[j].status = "running" IN RecordIf(p, AnyRun)

Record(p) == RecordIf(p, Running)

(* The claim of this process, whichever of its runs it was. *)
Mine(p, j) == row[j].claim # 0 /\ run[row[j].claim].proc = p /\ ~run[row[j].claim].orphan

GiveBackIf(p, Holds(_)) ==
    /\ InTick(p, "giveBack")
    /\ LET j == run[tick[p].run].job
       IN IF Holds(j) THEN RowTo(j, Unclaimed(j, "scheduled")) ELSE UNCHANGED row
    /\ EndTick(p)
    /\ UNCHANGED <<file, run, ousted, bounds>>

(* Variant of GiveBack: a paused row of this process, too. *)
GiveBackMine(p) == LET Held(j) == Mine(p, j) IN GiveBackIf(p, Held)

(* set_status: a CAS on a running row of this process; the tick ends. *)
GiveBack(p) ==
    LET Held(j) == row[j].status = "running" /\ Mine(p, j) IN GiveBackIf(p, Held)

(* The store raises: the tick ends without a word about the run. *)
RecordRaises(p) ==
    /\ tick[p].op \in {"record", "giveBack"} /\ Mishap
    /\ EndTick(p)
    /\ UNCHANGED <<file, row, run, ousted, verbs>>

-----------------------------------------------------------------------------
(* The owner *)

Pause(j) ==
    /\ row[j].status \in {"scheduled", "running"} /\ Verb
    /\ RowTo(j, [row[j] EXCEPT !.status = "paused", !.slot = 0, !.due = FALSE])
    /\ ousted' = IF row[j].status = "running" THEN ousted \cup {row[j].claim} ELSE ousted
    /\ UNCHANGED <<lockVars, run, tick, mishaps>>

(* resume, and release_scope_paused of a tick *)
Resume(j) ==
    /\ row[j].status = "paused"
    /\ RowTo(j, [row[j] EXCEPT !.status = "scheduled", !.slot = FreshSlot(j)])
    /\ UNCHANGED <<lockVars, run, tick, ousted, bounds>>

Cancel(j) ==
    /\ row[j].status # "cancelled" /\ Verb
    /\ RowTo(j, Unclaimed(j, "cancelled"))
    /\ UNCHANGED <<lockVars, run, tick, ousted, mishaps>>

SetSchedule(j) ==
    /\ row[j].status \in {"scheduled", "running", "paused"} /\ Verb
    /\ \E once \in BOOLEAN :
          RowTo(j, [row[j] EXCEPT !.oneShot = once, !.due = FALSE,
                                  !.slot = IF row[j].status = "paused" THEN 0 ELSE FreshSlot(j)])
    /\ UNCHANGED <<lockVars, run, tick, ousted, mishaps>>

(* run_now, and the approval of an ask the job raised (rearm_job) *)
RunNow(j) ==
    /\ row[j].status = "scheduled" /\ Verb
    /\ RowTo(j, [row[j] EXCEPT !.slot = FreshSlot(j), !.due = TRUE])
    /\ UNCHANGED <<lockVars, run, tick, ousted, mishaps>>

-----------------------------------------------------------------------------
(* Time and crashes *)

(* Only a scheduled row is asked whether it is due. *)
SlotDue(j) ==
    /\ row[j].status = "scheduled" /\ row[j].slot # 0 /\ ~row[j].due
    /\ RowTo(j, [row[j] EXCEPT !.due = TRUE])
    /\ UNCHANGED <<lockVars, run, tick, ousted, bounds>>

(* The heartbeat of a tick keeps the file young, its own or not: it has to *)
(* be late for the file to be found stale while a tick is past its gates.  *)
FileStale(p) ==
    /\ JudgeStale(p)
    /\ IF \E q \in Proc : tick[q].op # "none" THEN Mishap ELSE UNCHANGED mishaps
    /\ UNCHANGED <<jobVars, verbs>>

(* The lease covers the longest run: a live one outlasts it by a mishap.  *)
(* Only a running row is asked for its lease.                              *)
LeaseExpires(t) ==
    /\ ~run[t].expired /\ \E j \in Job : Running(j, t)
    /\ IF run[t].live THEN Mishap ELSE UNCHANGED mishaps
    /\ run' = [run EXCEPT ![t].expired = TRUE]
    /\ UNCHANGED <<lockVars, row, tick, ousted, verbs>>

(* The runs of p end with it; the file and the rows stay as they are. *)
Crash(p) ==
    /\ locker[p] # "down" /\ Mishap
    /\ GoesTo(p, "down")
    /\ tick' = [tick EXCEPT ![p] = NoTick]
    /\ run' = [t \in Runs |-> IF run[t].proc = p
                              THEN [run[t] EXCEPT !.live = FALSE, !.orphan = TRUE] ELSE run[t]]
    /\ UNCHANGED <<file, row, ousted, verbs>>

Boot(p) ==
    /\ locker[p] = "down"
    /\ GoesTo(p, "out")
    /\ UNCHANGED <<file, jobVars, bounds>>

-----------------------------------------------------------------------------
TickStep(p) ==
    \/ GateClosed(p) \/ GateOpen(p) \/ ReclaimRow(p) \/ ReadDue(p) \/ Claim(p) \/ TickDone(p)
    \/ RunEnds(p) \/ Record(p) \/ GiveBack(p)

OwnerStep(j) == Pause(j) \/ Resume(j) \/ Cancel(j) \/ SetSchedule(j) \/ RunNow(j)

Next ==
    \/ \E p \in Proc : Lock(p) \/ FileStale(p) \/ TickStep(p) \/ RecordRaises(p)
                       \/ Crash(p) \/ Boot(p)
    \/ \E j \in Job : OwnerStep(j) \/ SlotDue(j)
    \/ \E t \in Runs : LeaseExpires(t)

Spec == Init /\ [][Next]_vars

(* Tickers are served and a run ends by its cap; a dead process is started *)
(* again; a lease nobody renews runs out, and a file no tick keeps young   *)
(* is one day found stale by a process that goes on looking at it.         *)
FairSpec ==
    /\ Spec
    /\ \A p \in Proc : /\ WF_vars(Lock(p) \/ TickStep(p) \/ Boot(p))
                       /\ SF_vars((\A q \in Proc : tick[q].op = "none") /\ FileStale(p))
    /\ \A t \in Run : WF_vars(t \in Runs /\ ~run[t].live /\ LeaseExpires(t))

-----------------------------------------------------------------------------
(* Properties *)

(* Every row, run and tick keeps its shape; a running row names its claim. *)
TypeOK ==
    /\ LockTypeOK
    /\ row \in [Job -> Row]
    /\ run \in Seq(RunState) /\ Len(run) <= MaxRuns
    /\ tick \in [Proc -> TickState]
    /\ ousted \subseteq Run
    /\ verbs \in 0..MaxVerbs /\ mishaps \in 0..MaxMishaps
    /\ \A j \in Job : row[j].status = "running" => row[j].claim \in Runs

(* No job runs twice at a time, even while two processes hold the tick     *)
(* lock: only a lease that ran out, or an owner who paused and resumed the *)
(* job, lets a second run start beside the first (job_machine.py, "a       *)
(* stolen tick lock can no longer reset a live run and run it twice").     *)
OneLiveRun ==
    \A t, u \in Runs : t < u /\ run[t].live /\ run[u].live /\ run[t].job = run[u].job
                       => run[t].expired \/ t \in ousted

(* A running row is ended by the tick that awaits its run, by the owner,   *)
(* or by a reclaim of a lease that is not live: a run that lost its claim  *)
(* ends without a trace on the row of the next one.                        *)
ClaimEndsItself ==
    [][\A j \in Job : row[j].status = "running" /\ row'[j].claim # row[j].claim =>
          LET t == row[j].claim IN
             \/ ~LeaseLive(t)
             \/ OwnerStep(j)
             \/ tick[run[t].proc].run = t /\ tick'[run[t].proc].run # t]_vars

(* The slot of a job is used up by a run that was claimed at it: a         *)
(* schedule the owner set during a run is not overwritten by its end.      *)
SlotUsedByItsRun ==
    [][\A j \in Job : row'[j].slot # row[j].slot =>
          \/ OwnerStep(j)
          \/ \E p \in Proc : LET t == tick[p].run IN
                t # 0 /\ run[t].job = j /\ run[t].slot = row[j].slot /\ ~run[t].live]_vars

(* What the owner stopped stays stopped: no end of a run, no reclaim and   *)
(* no claim takes a job out of paused, cancelled, done or failed.          *)
StoppedStays ==
    [][\A j \in Job : row[j].status \in {"paused", "cancelled", "done", "failed"}
                      /\ row'[j].status # row[j].status => OwnerStep(j)]_vars

(* A running row without a run: it crashed, or its end was not recorded. *)
Orphaned(j) == row[j].status = "running" /\ ~run[row[j].claim].live
               /\ \A p \in Proc : tick[p].run # row[j].claim

(* It is returned, lock file left behind or not. *)
OrphanReturns == \A j \in Job : Orphaned(j) ~> ~Orphaned(j)
=============================================================================
