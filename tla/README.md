# POLYROB's autonomy: a TLA+ verification project

POLYROB is a Python agent runtime that works while nobody watches. Its autonomy
rests on a few SQLite tables: goals that dispatcher processes claim, run, retry
and hand back; questions and approvals that wait for the owner; scheduled jobs;
and a ledger of the money it spends. Rows are moved by guarded `UPDATE`s from
`asyncio` tasks that may be cancelled at any `await`, in several processes that
are restarted at any time, while the owner pauses, approves, edits and cancels
from any surface. This project models those protocols, checks them with TLC and
proves every safety property the runs check, for any number of goals, processes,
jobs, spends and claims, with TLAPS. Paths below are relative to the repository.

## 1. Inventory

The repository has about 5,500 files; its own logic is in `agents/`, `core/`,
`cron/`, `tools/` and `polyrob/`. Components, with the state they keep:

| component | state | operations | what makes it correct |
|---|---|---|---|
| Goal board, claims (`agents/task/goals/board.py`, `claim_liveness.py`) | `goals` rows: status, claim_lock, claim_token, claim_expires, consecutive_failures, run_deferrals, not_before | claim, heartbeat, record_success/failure, defer_run, block_from_ready, reclaim_stale, requeue_running_on_boot, hold_running, unblock, cancel, transition, age_out_blocked | one holder per goal; late results change nothing; the breaker cannot be bypassed; terminal is terminal; a dead claim is recovered |
| Goal board, prerequisites (`board_deps.py`, `board.py` create, reconcile_waiting) | `goal_edges`, status `waiting`, `payload.block_kind` | create, completion sweep, dep_failed cascade, reconcile_waiting, resume | served only when every prerequisite is done; nothing waits for ever |
| Dispatcher (`dispatcher.py`, `goal_run.py`, `run_cancel.py`) | `_goal_tasks`, `_inflight`, `_paused_seen`, `_yield_requested` per process | tick, heartbeat task, hold_inflight, yield_for_rail, run and settle | at most GOAL_MAX_CONCURRENT; a goal comes back only when its run stopped; a pause stops all runs |
| Owner verbs and pause (`core/goal_owner_verbs.py`, `core/autonomy_control.py`) | a snapshot, then one guarded write; a pause file | pause, retry, unblock, cancel, pause/resume all | the owner's decision wins over a run in flight |
| Owner asks (`board_asks.py`, `escalation.py`) | ask rows whose `blocks` hold goals | create, widen, decide, expire, close, release | an open ask holds exactly its goals; a decided ask frees them |
| Approvals (`tools/controller/approval_queue.py`, `core/wake_queue.py`) | ask rows with decision, grant_consumed, poller_gone; `session_wakes` rows | request, poll, time-out, decide, redeem, late send, drain | an approval buys one execution; none falls between the run that gives up and the owner who decides |
| Cron (`cron/scheduler.py`, `jobs.py`, `job_machine.py`, `runner.py`) | lock file; `cron_jobs` rows with owner and lease | tick lock, claim_for_run, reclaim, re-arm, pre-emption of goal runs | one run per due job; a crashed run is re-armed once |
| State library (`core/state/`, `core/sqlite_util.py`) | state machines, compare-and-set, process identity, once-files | cas_transition, ProcIdentity, execute_retry | a lost race is a miss and never an overwrite |
| Money (`core/money/`, `core/signer/`, `core/wallet/`, `core/payments/`) | spend ledger, caps, approvals, pending receipts | reserve, check, record, resolve receipt, sign | the rolling cap counts every spend once |
| Commerce, app service, sessions, surfaces, LLM seats | orders; supervised apps; resident sessions; outbound queue; credit latches | see `PROJECT.json` | per component |
| Agent loop, messages, tools, API, CLI, web console, packs, prompts | conversation data, adapters | | data and external I/O |

Interaction: the autonomy runtime (`polyrob/app/autonomy_runtime.py`) starts a
goal ticker and a cron ticker in each process. The goal ticker sweeps, passes
its gates, takes the tick lock and claims; each claim becomes an `asyncio` task.
The cron ticker of the same process may pre-empt those tasks
(`yield_for_rail`). Other processes and the owner meet them only through the
rows of `goals.db` and the pause file.

Hard to test here: what the row looks like at the `UPDATE` when it was judged
at the `SELECT`; runs that outlive their claim; cancellation that arrives while
a result is being written; a restart between any two statements; a pause that
lands while a tick is past its gate; a list that is stale when its entries are
written; a thread that goes on after its task was cut. `PROJECT.json` lists these hazards at
their lines, with the property that covers each.

## 2. Modules

| module | what it is |
|---|---|
| `ExclusiveClaim` | the abstract promise: a goal has one holder at a time, every grant is new, a goal whose budget is used up is not granted until it is reopened, a closed goal stays closed |
| `GoalClaims` | the claim protocol: rows, runs, tickers, rails, owner, clock |
| `MCGoalClaims` | its instances for TLC |
| `GoalClaimsProofs` | theorems about its rows: shapes, breaker, charges, the refinement |
| `GoalClaimsRunsProofs` | theorems about its runs: fencing, pauses, the cap |
| `GoalDeps` | prerequisites: every call as the sequence of statements it is |
| `MCGoalDeps` | its instances for TLC |
| `GoalDepsProofs` | theorems about `GoalDeps` |
| `GoalAsks` | asks that hold goals: creation with its two dedups, decision, closing, escalation |
| `MCGoalAsks` | its instance for TLC |
| `GoalAsksProofs` | theorems about `GoalAsks` |
| `OneShotGrant` | the abstract promise of an approval: answered once, spent once, executed at most once |
| `Approvals` | the approval queue, its polls and late sends, and the wake queue that carries them |
| `MCApprovals` | its instance for TLC |
| `ApprovalsProofs` | theorems about `Approvals` |
| `TickLock` | the cron lock file, one step per system call; a part that `CronJobs` extends |
| `CronJobs` | scheduler ticks under that lock, leased job rows, ends of runs, owner verbs |
| `MCCronJobs` | its instance for TLC |
| `CronJobsProofs` | theorems about `CronJobs` |
| `MoneyLedger` | the capped ledger, the submission journal, the operator's release, the receipt watcher |
| `MCMoneyLedger` | its instance for TLC |
| `MoneyLedgerProofs` | theorems about `MoneyLedger` |

An operator whose comment begins with *Variant of* is a deliberately wrong form
of the definition after it (a dropped guard, a missing reset, a wrong order).
No specification uses one: replacing the definition by its variant must make
TLC refute the property named with it under `mutants` in `PROJECT.json`, which
shows that the property depends on that line of the code.

### GoalClaims and the code

`row` is the table, one record per goal. `run[t]` is the `asyncio` task of claim
`t`; tokens (uuid4 in the code) are claim numbers, so a token is fresh and names
its claim. `proc[p]` is where the goal ticker of process `p` stands, `rail[p]`
where its `yield_for_rail` stands, `paused` the owner's pause of all work.
`charged` is history: the failures each claim cost its goal.

| code | actions |
|---|---|
| start-up, `requeue_running_on_boot` | `Boot`, `BootRow` per row, `BootDone` |
| death of a process | `Crash` |
| `dispatch_once` | `Tick` (SELECT of `reclaim_stale`), `ReclaimRow` per row, `GatePaused`/`GateOpen`, `GateClosed` for every later gate, `ReadReady` under the tick lock, `Claim`/`Skip` per goal, `TickDone` |
| `hold_inflight` at a pause | `GatePaused` cancels, `HoldRows` once all unwound, `PauseHoldRow`, `PauseHoldDone` |
| `yield_for_rail` | `RailDue`, `RailCut`, `RailHoldRows`, `RailHoldRow`, `RailDone` |
| `_heartbeat_claim` | `HeartbeatRenews`, `HeartbeatLost` |
| how `_run_goal` ends | `RecordSuccess`, `RecordFailure`, `DeclareBlocked` then `BlockFromReady`, `DeferRun`, `EndUnrecorded`, `Unwind` |
| owner, ageing | `Cancel`, `Pause`, `Retry`, `Unblock`, `AgeOut`, `PauseAll` |
| time | `LeaseExpires`, `DeferralElapses` |

Granularity. One SQL statement is one step: `execute_retry` runs each in its own
transaction. A SELECT followed by a guarded UPDATE per row is one step per row
when the UPDATE repeats the columns that were read. Between `await`s an event
loop runs nothing else; `Busy` says when a process is inside such a stretch, and
other tasks of that process wait (`Serving`), while other processes go on. That
is what makes `record_failure` and `block_from_ready` of one run two steps that
another process, or the owner in another process, can come between, and what
keeps a cancellation from landing between them.

### GoalDeps and the code

`row[g]` has the status, whether `payload.block_kind` is `dep_failed`, and
whether the breaker is spent. `edges` is `goal_edges`. `call[c]` is a call into
the board that spans several statements, with what it has read and what it has
still to visit: `create` (`CreateRead`, `CreateInsert`, `CreateEdge`), the
completion sweep (`SweepList`, `SweepCheck`, `SweepFlip`, `SweepRevive`), the
cascade (`CascadeList`, `CascadeRow`), `reconcile_waiting` (`Reconcile`,
`ReconcileCheck`, `ReconcileMove`), `/goal retry` of a paused goal
(`ResumeRead`, `ResumeMove`); `Die` ends a call anywhere. The claim protocol
appears as `Claim`, `Requeue`, `Complete`, `Trip`, `BlockFromReady`,
`ProviderRetry`; the owner as `Pause`, `Unblock`, `Retry`, `Cancel`. History:
`forced` holds goals the owner put back in service himself (his verb overrides
the prerequisites by design), `torn` goals some path judged without all of their
edges. The two modules are not composed: `GoalClaims` goals have no
prerequisites, and the running part of `GoalDeps` is the outcome of
`GoalClaims`.

### GoalAsks and the code

`ask` has the rows of kind `ask`: status, `payload.blocks`, and whether the ask is
the dispatcher's own (`auto_unblock`), an agent's, or a tool approval. `goal` and
`heard` are the status of each goal and the decisions in its `owner_answers`.
`call[c]` is a call that spans several statements, with the list it made and works
through. `lost` is history: asks whose decider died on the way.

| code | actions |
|---|---|
| `create_ask` | `AskOwner`, `AskApproval` or `Trip` start it; `ListOpen`, `Dedupe` (`Supersede`, `Refresh`, `Missed`), `Insert` (a new row, or the open one with a similar title) |
| `add_ask_blocked_goals` | `Reask` |
| `decide_ask` | `Decide` (the CAS), `DecideRead`, then `Answer` and, for an approval, `Flip` per goal |
| `close_asks_for_goal` | `Finish` (every ask) or `Requeue` (the dispatcher's own) start it; `ListClose`, `CloseOne` per ask |
| `obsolete_ask`, `expire_open_asks` | `Retire` |
| `_maybe_escalate_blocked` | `Trip`: the await between its read and its ask is the gap between two steps of the call |
| `ready` with `_drop_held` | `Serve` |

### Approvals and the code

`ask` is the row of a tool approval, `wake` the row that `approved_outbound:<ask>`
names, `req[r]`, `seat[s]` and `drain[d]` where a run's `request()`, an owner
seat's `decide_tool_approval` and a drain tick stand. All requests are the same
request, since requests with different hashes share nothing; `stored` says whether
its text fits on the ask row (`_card_params` keeps none above 64,000 characters).
History: `executed`, `lost` (asks whose actor failed), and `told`, asks of which the
owner was told that their text was too long to send late.

| code | actions |
|---|---|
| `OwnerQueueApprover.request` | `Request`, `Redeem`/`NothingToRedeem`, `Find`, `Create`, `Poll`, `InBandConsume`, `Granted` |
| its time-out (`_poller_gone`) | `Leave` (write `poller_gone`), `Reread`, `LeaverEnqueues` |
| `decide_tool_approval` | `Decide` (the CAS), `DecideRoute` (read `poller_gone`), `DeciderEnqueues` |
| `WakeQueue` and its drain | `ReclaimStale`, `PruneAged`, `ClaimWake`, `Renew`, `Send`, `MarkDelivered`, `Fail` |
| `run_approved_outbound` | `RunOutbound`: no sender yet (retried), no text to send (the owner is told, the grant stays), the grant taken, or the grant used already |
| time, errors, deaths | `AskLate`, `Expire`, `GrantLapses`, `ClaimStale`; `StoreError`, `CutAfterConsume`, `RunDies`, `SeatDies`, `DrainDies` |

### CronJobs, TickLock and the code

`file` is the lock file and the pid in it, `locker[p]` where process `p` stands
between its system calls. `row` is `cron_jobs`; `run[t]` claim number `t`, which
stands for the pair (`run_owner`, `lease_until`); `tick[p]` the locals of
`_run_due`. `ousted` is history: claims whose row the owner paused.

| code | actions |
|---|---|
| `TickLock.acquire`, `_is_stale`, `release` | `Acquire`, `JudgeYoung`/`JudgeStale`, `Steal`, `ReleaseCheck`, `ReleaseUnlink`; `FileStale` says when the heartbeat lets a file get old |
| `CronScheduler.tick` | `GateClosed`, `GateOpen`, `ReclaimRow` per row, `ReadDue`, `Claim` per candidate, `TickDone` |
| `_run_one`, `_record`, `update_after_run` | `RunEnds`, then `Record`, `GiveBack` or `RecordRaises` |
| owner | `Pause`, `Resume`, `Cancel`, `SetSchedule`, `RunNow` |
| time, crashes | `SlotDue`, `LeaseExpires`, `Crash`, `Boot` |

The tick lock does not exclude: two processes that both judged the file stale
unlink in turn, the second one the file that the first has just created. What
keeps a job from running twice is the lease on its row, and `OneLiveRun` is checked
with two processes inside the lock (the comment at `cron/scheduler.py:328-331`
predates the lease). `workspace_turn_lock` is taken as not configured.

### MoneyLedger and the code

`log` is the ledger file, `old` how many of its entries have left the window, `seen`
how many each process has folded in. `journal` is the submission journal, `chain`
what became of each transaction, `verb` where each call stands, `stray` the calls
whose task was cut while their thread goes on, `mute` the entries whose receipt cannot
be read at the moment (an RPC error, an unknown chain, a chain-id mismatch).

| code | actions |
|---|---|
| a guarded verb | `Authorize` (`reserve`, `check`), `Reserve` (`reserve_signing`), `Bind` (`bind_signed_hash`), `Send`/`SendRejected`, `Record`, `Mark`; `Cut` |
| `release_submission` | `PlanRelease`, `ReleaseBook`, `ReleaseMark`, `ReleaseDies` |
| `resolve_pending_receipts` | `ReadReceipt`, `NoteReceipt` |
| chain, node, time, crashes | `Land`, `NodeTurns`, `Age`, `Crash` |

`PlanRelease` takes the amount the operator gives. `plan_release` refuses
`--never-sent` for what is final and succeeded, and nothing else: `--charge-usd 0` of a
landed transaction is accepted and booked. A read that raises (`receipt_resolver.py:83-88`)
leaves its entry pending, however old it is. `Record` chooses between a charge with and
without `receipt_state`: most verbs note a pending receipt, while
`transfer_verb.py:199-204` and `wrap_verb` book a timed-out one without it, and nothing
resolves that. A watcher sees the entries its
process has folded in (`receipt_resolver.py:75`), no others.

## 3. Runs

| run | instance | shows |
|---|---|---|
| `goal_claims` | 1 goal, 2 processes, 2 claims, 2 retries, late heartbeats, reused pids | types; `ClaimShape`; `BreakerHolds`; `FailureChargedOnce`; `LateOutcomeIgnored`; `TerminalIsFinal`; `PauseHeldUntilOwner`; `PauseHoldReturnsStoppedRuns`; `GoalClaims` implements `ExclusiveClaim` (`BoardGrantsExclusively`) |
| `goal_claims_cap` | 2 goals, 2 processes, 1 slot, timely heartbeats | `WithinConcurrency` |
| `goal_claims_live` | 1 goal, 1 process with a rail, restarted under its pid, fairness | `OneLiveRunPerProcess`, `StaleClaimRecovers`, `PauseStopsRuns` |
| `goal_claims_same_pid` | 1 goal, 1 process | refutes `PredecessorClaimsReturned` |
| `goal_deps` | a goal that needs two others, 2 concurrent calls, an owner verb or the death of a call, fairness | types, `PrerequisitesFirst`, `PausedByOwner`, `StrandedRecovers` |
| `goal_deps_torn` | a goal that needs another, no verbs | refutes `PrerequisitesAlwaysFirst` |
| `goal_deps_budget` | a goal that needs another, 1 call, 2 incidents | refutes `ServedWithBudget` |
| `goal_asks` | 2 goals, 2 asks, 2 callers, 1 of which may die | types (a decision that is carried around stands); `AnswerReachesAll`, `ListedHoldEndsForCause`, `AskedIsHeld`, `ClosedStaysClosed` |
| `goal_asks_joined` | the same without deaths | refutes `HoldEndsForCause` |
| `approvals` | 3 identical requests of 2 runs, 1 ask, 1 seat, 2 drains, 2 attempts, 1 mishap, fairness | types; `ApprovalAttended`, `DeliveredMeansUsed`, `ClaimantDisposes`, `ApprovalCarriedOut`; `Approvals` implements `OneShotGrant` (`GrantSpentOnce`) |
| `cron_jobs` | 1 job, 2 processes, 2 runs, 1 verb, 1 mishap, fairness | types; `OneLiveRun`, `ClaimEndsItself`, `SlotUsedByItsRun`, `StoppedStays`, `OrphanReturns` |
| `money` | 2 spends of 2 processes, a cap of one of them, 2 watchers, 1 crash or outage of the node, fairness | types (no row is taken from under a sending call); `NothingUnaccounted`, `CapHolds`, `BookedOnce`, `ReceiptsSettle` |

Bounds. `MaxClaims`, `MaxDeaths`, `MaxVerbs`, `MaxMishaps` and `MaxIncidents` bound the
models and nothing in the code. Two claims are an old run and the one that supersedes it, which is what
every fencing property is about; two processes are the holder and the one that
sweeps, boots or claims meanwhile; two retries give both a failure that returns
the goal and one that trips the breaker. A second goal matters only where goals
share a resource, the slots of `goal_claims_cap`. Two calls give every race of
two sweeps, a sweep and a reconciliation, a creation and a reconciliation, a
resume and a cascade. One incident in `goal_deps` is the death of
a call, after which its place is free again, or a verb of the owner: a pause (its resume
is a call and not counted), a retry, an unblock or a cancel. What several of them add to
the safety properties is left to the proofs. Two asks are an ask and the one that
supersedes it or is merged into it; two goals and two callers give a goal that joins an ask another
caller has listed. In `approvals` one ask is enough because asks do not interact
but through the run that redeems one; the third request is the one that redeems
what neither of the others used; two attempts give a retry and the end of them. In
`cron_jobs` two runs are a live one and the one that would start beside it, and
the owner may edit the recurring job into a one-shot. Two spends are one that is
accounted for and one that must be refused; an instance with three is larger than
is checked here. A mishap is one of several faults (a death, a store error, a late
heartbeat, a claim that went stale under a live owner, a node that errs), so one bound
of 1 gives each of them in turn and no pair of them. The theorems of section 4 remove
these bounds for the safety properties they cover. Goals and processes (calls in
`goal_deps_torn`; goals, asks and callers in `goal_asks`) are symmetric; runs that check liveness use no symmetry. Deadlock is checked
everywhere but in `goal_asks` and `money`, whose instances stop by their bounds:
asks are used up and goals have ended, every spend was made once.

Assumptions of single runs. `WithinConcurrency` counts the goals that execute under the
claim their row still names. A run whose row the owner paused, cancelled or retried, in
this or another process, executes on until its heartbeat or its unwinding notices; the
tick counts running rows, leaves it out as the property does, and another process may
claim into its slot meanwhile, so for that while more runs than the cap may execute.
(For a pause of everything, `PauseStopsRuns` says that they stop.) The property also
needs `TimelyHeartbeats`:
`count_running` leaves rows out whose lease expired, so a claim renewed late is
counted again only after its slot was given away. It also takes the tick lock to
exclude, and `TickLock` shows that it may not (section 2): with a stolen lock two
dispatchers can count before either has claimed. The goal board has no lease of the
tick that would make up for it. `CapHolds` leaves out
spends in `late`: a verb that is cut between `check` and the reservation its thread
makes has given the file lock back (`ledger.py:138-141`, `trade_tool.py:583`), so
another verb can pass the cap beside it. `ApprovalCarriedOut` and `ApprovalAttended`
leave out `lost`, approvals whose actor died, failed or was cut at a step that
consumes them; they and `DeliveredMeansUsed` leave out `Unsendable` ones, whose owner was
told that the text is too long to send late. `OrphanReturns` lets the gates of cron close
`MaxMishaps` times only: it takes the owner's pause and the other gates to open again.
`PrerequisitesFirst` leaves out `torn`, which covers a goal judged between its row and its
edges (`goal_deps_torn`) and one whose prerequisites could not be read
(`goal_owner_verbs.py:96`: the resume then serves it); `AnswerReachesAll` leaves out
those whose decider died.

Fairness. `FairSpec` of `GoalClaims`: a service manager restarts a dead process
(weak fairness of `Boot`); tickers, rails, the unwinding of a cancelled run and
the heartbeat that finds its claim gone are strongly fair, since the event loop
runs every ready task before it runs one again, however often another task's
synchronous stretch makes it wait; a claim nobody renews lapses with the clock.
Nothing makes a run end, a tick claim, the owner act or a process crash.
`StaleClaimRecovers` excludes only behaviours in which every process crashes
infinitely often. `FairSpec` of `GoalDeps`: a call that began goes on, and the
ticker calls `reconcile_waiting` again and again. `FairSpec` of `Approvals`: a
request goes on and leaves at its time-out, a decision goes on, every drain goes on (so
there is one: `autonomy_runtime.py:128-137` builds it only where self-wake is on, which
it is not by default, and without it `ApprovalCarriedOut` is not claimed),
every tick claims all that is pending (so a pending wake is claimed though other
steps disable the claim again and again: strong fairness), and an orphaned claim
gets old; the owner need not decide. Of `CronJobs`: tickers are served, a run ends by
its cap, a dead process is started again, a lease nobody renews runs out, and a lock
file no tick keeps young is found stale some day. Of `MoneyLedger`: every wait of a
verb has a time limit, watchers tick, days pass, so while one of these can go on one of
them does; nothing makes a transaction land or the node answer, and `ReceiptsSettle`
speaks of the receipts that can be read only.
`GoalAsks` has no liveness property: nothing in it must happen by itself.

### What the refuting runs show

- `goal_claims_same_pid`: the liveness probe knows a claim by its pid only. In the
  container image the process is pid 1 (`Dockerfile:34`) and `docker-compose.yml:10`
  keeps the volume, so after a restart the probe finds the new process itself and
  leaves the predecessor's rows running until `reclaim_stale` charges the restart
  as a failure; `board.py:490-492` promises the opposite. (`cron/job_machine.py`
  identifies owners by more than the pid.)
- `goal_deps_torn`: `create` inserts the row, then its edges. A row without edges
  satisfies `deps_satisfied`, so a reconciliation in between serves it, against
  `board.py:31-36`.
- `goal_deps_budget`: `/goal retry` keeps `payload.block_kind`. When the goal later
  trips its breaker it still reads `dep_failed`, and the completion of a
  prerequisite serves it again with its failures at the limit, against the
  reasoning at `board_deps.py:238-242`. `BreakerHolds` of `GoalClaims` is about the
  claim protocol, in which nothing completes a prerequisite.
- `goal_asks_joined`: `close_asks_for_goal` closes an ask by the list it read. One goal
  finishes and its call lists the ask as blocking that goal alone; another goal joins
  the ask (`add_ask_blocked_goals`); the call closes the ask, and the other goal is held
  by nothing, against "An ask blocking SEVERAL goals stays open until the last one
  resolves" (`board_asks.py:385-387`). What the code keeps is
  `ListedHoldEndsForCause`: goals that were on the list are let go for their own reasons
  only. The other closes of a call (the supersession in `create_ask`) have the same gap.

### Gaps that the passing runs of the new modules leave open

Behaviour met while modelling that a property above has to excuse, so that a reader
does not take the property for more than it says.

- *Asks.* The escalation may create its ask for a goal that was requeued or ended during
  its await (`dispatcher.py:1142`, against `board.py:639-641`); only the owner can
  release that. The close that follows a requeue may also close the ask that a newer
  trip has just refreshed.
- `decide_ask` does not release the dispatcher's own ask about a goal that it moves
  to ready, and between the obsoletion and the insertion of a superseding ask the
  goal is held by nobody.
- The dedup of `create_ask` tests `kind`, which a tool approval does not carry (it has
  `ask_kind`): an agent's question about the same goal is merged into an open
  approval. "One open ask per blocked goal" (`board_asks.py:194`) does not hold for
  calls that overlap.
- *Approvals.* When the text was not stored, the drain tells the owner that the approved
  call "was not sent" without a look at the grant (`approval_queue.py:824-830`): an
  identical request may have redeemed it already, or may do so later.
- *Money.* "So the caps always count the worst case" (`submission_release.py:10`) holds
  as far as the operator gives it:
  `--charge-usd 0` frees the cap of a landed transaction. One release at a time is
  modelled, though two operators may release at once (a test of the repository does).
  The `late` spends above; receipts booked without a state, which are never
  confirmed or voided; a reservation released at $0 is never sent afterwards (`Bind`
  fails), which `NothingUnaccounted` checks.

## 4. Proofs

| theorem | says, for all constants |
|---|---|
| `GoalClaimsProofs!TypeCorrect` | `Spec => []TypeOK` |
| `ClaimsWellFormed` | `Spec => []ClaimShape` |
| `BreakerNeverBypassed` | `Spec => []BreakerHolds`, for the claim protocol; the completion of a prerequisite is outside it (`goal_deps_budget`) |
| `ChargedAtMostOnce` | `Spec => []FailureChargedOnce` |
| `TerminalNeverLeft` | `Spec => TerminalIsFinal` |
| `BoardImplementsExclusiveClaim` | `Spec => BoardGrantsExclusively`, the refinement |
| `GoalClaimsRunsProofs!OneLiveRunEach` | `Spec => []OneLiveRunPerProcess` |
| `LateOutcomesFenced` | `Spec => LateOutcomeIgnored` |
| `PauseLiftedByOwner` | `Spec => PauseHeldUntilOwner` |
| `PauseReturnsStoppedRuns` | `Spec => PauseHoldReturnsStoppedRuns` |
| `CapOverAllProcesses` | `Spec => []WithinConcurrency`, with any number of processes claiming in turn: goals executing under the claim of their row |
| `GoalDepsProofs!TypeCorrect` | `Spec => []TypeOK` |
| `PrerequisitesNeverSkipped` | `Spec => []PrerequisitesFirst`, for every graph and any number of calls |
| `PauseIsKept` | `Spec => PausedByOwner` |
| `GoalAsksProofs!TypeCorrect` | `Spec => []TypeOK` |
| `AnswersReachAll` | `Spec => []AnswerReachesAll` |
| `ClosedNeverChange` | `Spec => ClosedStaysClosed` |
| `ListedHoldsEndForCause` | `Spec => ListedHoldEndsForCause` |
| `AskedAreHeld` | `Spec => AskedIsHeld` |
| `ApprovalsProofs!TypeCorrect` | `Spec => []TypeOK`: among the rest, one execution for one approval |
| `GrantsSpentOnce` | `Spec => GrantSpentOnce`, the refinement of `OneShotGrant` |
| `ApprovalsAttended` | `Spec => []ApprovalAttended`: attended, or reported to the owner as too long |
| `DeliveredWereUsed` | `Spec => []DeliveredMeansUsed`: used, or reported to the owner as too long |
| `ClaimantsDispose` | `Spec => ClaimantDisposes` |
| `CronJobsProofs!JobsTyped` | `Spec => []TypeOK` |
| `JobRunsOnce` | `Spec => []OneLiveRun`, however many processes hold the tick lock |
| `OnlyItsTickEndsAClaim` | `Spec => ClaimEndsItself` |
| `OnlyItsRunUsesASlot` | `Spec => SlotUsedByItsRun` |
| `OwnerStopsForGood` | `Spec => StoppedStays` |
| `MoneyLedgerProofs!LedgerTyped` | `Spec => []TypeOK` |
| `MoneyAccounted` | `Spec => []NothingUnaccounted`: a row, or a charge that names the transaction |
| `BookedOnceEach` | `Spec => []BookedOnce` |
| `CapKept` | `Spec => []CapHolds`, for every cap and any number of spends |

Assumptions: `GoalClaimsAssumption`, `GoalDepsAssumption`, `AsksAssumption`,
`ApprovalsAssumption`, `CronJobsAssumption`, `NoFileAssumption` and `MoneyAssumption`
(types of the constants, `MaxRetries` and `MaxAttempts` positive, `DependsOn` a
function into sets of goals, `None` no ask and no drain, `NoFile` no process). Two of
them say that a set is finite: `FiniteGoals`, because `WithinConcurrency` counts
goals, and the processes in `CronJobsAssumption`, because a new slot differs from
those the waiting ticks know. TLC evaluates them in every run.

*GoalClaims.* `Inv` is `TypeOK /\ ClaimShape /\ BreakerHolds`. None is inductive
alone: that `Failed` keeps `failures` in `0..MaxRetries` needs `BreakerHolds` (a
running row has budget left), and `BreakerHolds` needs the type. `ClaimShape` is
what lets a sweep charge `row[g].token`, a token that exists. Row writes are
sorted into a few kinds (requeue, failure, release, claim, reopening, parking) and
one lemma per kind shows that it keeps the row well formed; actions then only
say which kind they are. The refinement uses the same `Inv`: every kind maps to
one action of `ExclusiveClaim` or to a stutter. `FailureChargedOnce` needs more:
`ChargedInv` says that a claim already charged is no longer the token of a running
row, and that tokens are drawn in order, so that no later claim revives it.

`GoalClaimsRunsProofs` looks at runs. A step starts one run, by a claim, or it only
brings runs nearer to their end (`Quiet`). `LiveIsNewest`: a live run is the newest of
its goal in its process, since a claim cancels what it finds in `_goal_tasks`.
`NewestHolds`: the claim a running row names is the newest of its goal, so a run that
still holds its row has no successor, which is `LateOutcomeIgnored`.
`ReturningIsStopped`: a process that hands rows back has no run left. The cap needs
the most: the board counts rows whose lease has not lapsed, so a lapsed row must have
no run left (`LapsedIsStopped`, the one place that needs `TimelyHeartbeats`); one
process claims at a time (`OneClaimer`, the tick lock); and what is counted and what
it has left to claim fit into the cap together (`RoomForBatch`), which is not kept by
the bound on the count alone.

*GoalDeps.* `PrerequisitesFirst` depends on what calls in progress have already
decided: `SweepFlip`, `SweepRevive`, `ReconcileMove` and `ResumeMove` act on a
read that may be stale. `Inv` therefore says of every row that is served, or that
is blocked and may return without another look at its prerequisites (`Serves`:
blocked other than by `dep_failed`), that its prerequisites are done or that it is
in `forced` or `torn` (`Vouched`); of each call the same about the dependent it is
about to serve (`CallHolds`); and that a goal being inserted has one creator
(`SoleCreator`). The argument is that `done` is final, so a read that found every
prerequisite done stays true until it is used.

*GoalAsks.* Every step is first shown to be `Shaped`: each ask row stays as it is or
is written in a way that `Writes` allows, each call stays or `Moves`. Five theorems
then follow without looking at an action again. `Inv` adds to the types what a call
in progress says of the rows (`CallHolds`: a decision it carries was made; what it
listed to close is what it may close), and that every goal of a decided ask has heard
the decision or is still to be told. What makes it inductive is that no statement
writes an ask that is not open, so what a call has read of a decided ask stays true.

*Approvals.* Again every action is first shown to be `Shaped`, by what it may do to an
ask row (open, close, approve, consume, set a flag), a run, a seat, a drain, a wake
and `executed`. Three parts of `Inv` carry the argument. `SoleHolder`: one actor at
most, run or drain, is between the consumption of a grant and its use, since a new
holder saw `consumed` still false; with that, what a holder knows (`ReqHolds`,
`DrainHolds`: consumed, not yet executed) bounds `executed` by one and gives the
refinement, each step moving at most one grant (`OneGrant`). `Waited`: an unused ask
whose `poller_gone` is not set has a run that waits for it. `ApprovalAttended` is not
inductive without it: a seat that reads `poller_gone` as false leaves the approval to a
run, and `Waited` says that there is one; a run that has set the flag reads the
decision afterwards, and one that finds none leaves it to a seat that will see the flag.
A drain gives up an unused grant only of an ask whose text was not stored, and `told` then
has that ask; `stored` never changes.

*CronJobs.* The tick lock does not appear in the invariant: it is not needed. What a
process knows across its awaits is `TicksAwait`: a tick that waits for a run, or has
its end to write, names one of its own claims, the newest of them, live exactly while
it runs; and `LiveAwaited` says that every live run has such a tick. `NewestClaim`:
the claim of a running row is the newest of its job. `LiveHeld`: a live run still has
its row, or its lease ran out, the owner paused the job under it, or the job is
cancelled. `OneLiveRun` alone is not inductive: that a claim finds no live run beside it
comes from `LiveHeld`, since a row that is scheduled is neither running nor cancelled.
`ClaimEndsItself` is the one that needs both orders: `set_status` goes by process and
not by claim, so the row it gives back might be another claim of the same process;
`TicksAwait` bounds the claim from above, `NewestClaim` from below. A new slot always
exists (`FreshSlotExists`), by counting the waiting ticks.

*MoneyLedger.* `LockSole`: one call at a time is between its check and its mark under the
ledger's lock, and none beside a release that is about to mark its row. `Stages`:
where a call can stand with its row and its transaction; nothing reaches the chain
before its row is prepared, and no row of money that may have moved is settled without
a charge. `ReleaseJustified`: what the operator's release read before it took its
locks still holds when it writes, because a mined transaction stays mined.
`EntriesTrue` and `HeardTrue`: a voided charge means that the chain refused the
transaction, and a charge of $0 that names one was booked when it was final, either way.
`WrittenOnce`: no two entries say the same of one spend. `CapHolds` needs a
second invariant: at most one row is unresolved (`OneUnresolved`), what is charged or may
still be charged is within the cap, and a call that was checked and has not reserved has
room for itself (`RoomLeft`). The ledger counts entries and the cap is about spends: the
two meet in a surjection from the entries of the window to the spends they charge
(`CountedIsRolling`).

Only model-checked: the liveness properties (`StaleClaimRecovers`, `PauseStopsRuns`,
`StrandedRecovers`, `ApprovalCarriedOut`, `OrphanReturns`, `ReceiptsSettle`): fairness
and ENABLED are beyond the prover. The four refuted statements stay with TLC by
nature: it shows the behaviour.

## 5. Not modelled

Row contents that no guard reads (titles, results, artefacts, cost), the event
log, tenants, priorities, triage goals, `add_dependencies` on existing goals, the
work of a run between claim and outcome, completion judging, notifications. Of asks:
the rail of a session, the text of answers. Of approvals: those that wake a session,
re-arm a job or unblock a goal, which end at the decision. Of cron: rows without a
lease, pruning, payload edits, pre-emption for money. Of money: nonces, venues, replay
keys, the per-transaction cap, damaged ledgers, the separate signer.
Components left out, and why, are in `PROJECT.json`. The gates of
`dispatch_once` after the pause gate (credit sentinel, owner turn, drain, quota,
memory pressure, cron headroom, pre-flight) are one action, `GateClosed`, that
may always end a tick: they can only stop work from starting.

The goal board and everything that meets in its rows, the owner's two queues, cron
and the ledger are a small part of the repository by size. Most of the rest is
adapters to external services (packs, surfaces, tools), vendored clients, rendering
and prompts, whose control is a request, a reply and an error.

## 6. Plan

Models. `GoalAsks`, `CronJobs` with `TickLock`, `MoneyLedger` and `Approvals` of the
first plan are built. Candidates that are left, in order: `add_dependencies` in
`GoalDeps` (two calls that each add half of a cycle), the signer beside the ledger,
the outbound queue of the surfaces, orders and their settlement.

Proofs. Every invariant and every action property the runs check is now a theorem.
What is left, in this order.

1. An abstract specification of a job (claimed, run, over; one run at a time unless it
   was let go of) with `CronJobs` as its refinement, and one of a spend (authorized,
   sent, booked or released) with `MoneyLedger` as its refinement: the parts of `Inv`
   that the two mappings need are proved.
2. The lock file of `TickLock` by itself: who may believe to hold it, and that a process
   which never judges a file stale finds it exclusive.
