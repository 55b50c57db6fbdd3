--------------------------- MODULE CronJobsProofs ----------------------------
(* Theorems about CronJobs, for every number of processes and jobs, of     *)
(* runs, of verbs of the owner and of mishaps.                             *)
EXTENDS CronJobs, FiniteSetTheorems, SequenceTheorems, TLAPS

USE NoFileAssumption, CronJobsAssumption

-----------------------------------------------------------------------------
(* The inductive invariant.  A run that is live is awaited by the tick     *)
(* that claimed it; a row that is running names the newest run of its job; *)
(* and a live run that has lost its row lost it by its lease or its owner. *)

Awaiting == {"run", "record", "giveBack"}

TicksAwait ==
    \A p \in Proc :
       /\ tick[p].run # 0 <=> tick[p].op \in Awaiting
       /\ tick[p].run # 0 =>
             /\ tick[p].run \in Runs /\ run[tick[p].run].proc = p
             /\ run[tick[p].run].live <=> tick[p].op = "run"
             /\ \A u \in Runs : run[u].proc = p => u <= tick[p].run

LiveAwaited ==
    \A t \in Runs : run[t].live => tick[run[t].proc].run = t /\ ~run[t].orphan

NewestClaim ==
    \A j \in Job : row[j].status = "running" =>
       /\ row[j].claim \in Runs /\ run[row[j].claim].job = j
       /\ \A u \in Runs : run[u].job = j => u <= row[j].claim

(* The lease ran out, or the owner paused the job under the run.           *)
LetGo(t) == run[t].expired \/ t \in ousted

LiveHeld ==
    \A t \in Runs : run[t].live =>
       LetGo(t) \/ Running(run[t].job, t) \/ row[run[t].job].status = "cancelled"

LiveOutlived ==
    \A t, u \in Runs : t < u /\ run[t].live /\ run[t].job = run[u].job => LetGo(t)

Inv == TypeOK /\ TicksAwait /\ LiveAwaited /\ NewestClaim /\ LiveHeld /\ LiveOutlived

(* It holds of a new store, before any process has done a step.            *)
THEOREM InitInv == Init => Inv
<1> SUFFICES ASSUME Init PROVE Inv
  OBVIOUS
<1>1. run = <<>> /\ Len(run) = 0 /\ Runs = {} /\ run \in Seq(RunState)
  BY DEF Init, Runs
<1>2. \A j \in Job : row[j].status = "scheduled" /\ row[j] \in Row
  <2>1. \A j \in Job : row[j] = [status |-> "scheduled", oneShot |-> j \in OneShot, slot |-> 1,
                                 due |-> FALSE, claim |-> 0]
    BY DEF Init
  <2>2. Cardinality(Proc) \in Nat
    BY FS_CardinalityType
  <2>3. 1 \in Slot /\ 0 \in 0..MaxRuns
    BY <2>2 DEF Slot
  <2>4. ASSUME NEW j \in Job, NEW b \in BOOLEAN,
               row[j] = [status |-> "scheduled", oneShot |-> b, slot |-> 1, due |-> FALSE,
                         claim |-> 0]
        PROVE  row[j].status = "scheduled" /\ row[j] \in Row
    BY <2>3, <2>4 DEF Row, Status
  <2> SUFFICES ASSUME NEW j \in Job PROVE row[j].status = "scheduled" /\ row[j] \in Row
    OBVIOUS
  <2>5. (j \in OneShot) \in BOOLEAN
    OBVIOUS
  <2> QED
    BY Zenon, <2>1, <2>4, <2>5
<1>3. \A p \in Proc : tick[p] = NoTick
  BY DEF Init
<1>4. NoTick \in TickState /\ NoTick.run = 0 /\ NoTick.op = "none"
  BY DEF NoTick, TickState, TickOps
<1>5. row \in [Job -> Row] /\ tick \in [Proc -> TickState]
  BY <1>2, <1>3, <1>4 DEF Init
<1>6. LockTypeOK
  BY DEF Init, LockInit, LockTypeOK, LockerState
<1>7. TypeOK
  BY <1>1, <1>2, <1>5, <1>6 DEF TypeOK, Init
<1>8. TicksAwait
  BY <1>3, <1>4 DEF TicksAwait, Awaiting
<1> QED
  BY <1>1, <1>2, <1>7, <1>8 DEF Inv, LiveAwaited, NewestClaim, LiveHeld, LiveOutlived

-----------------------------------------------------------------------------
(* A slot is always left: the row and the ticks know one each at most.     *)

LEMMA FreshSlotExists ==
    ASSUME TypeOK, TicksAwait, NEW j \in Job
    PROVE  FreshSlot(j) \in Slot \ {0}
<1> DEFINE Q == {q \in Proc : tick[q].run # 0}
           f == [p \in Q |-> run[tick[p].run].slot]
           K == {run[tick[p].run].slot : p \in Q}
           n == Cardinality(Proc)
<1>1. n \in Nat /\ IsFiniteSet(Q) /\ Cardinality(Q) \in Nat /\ Cardinality(Q) <= n
  <2>1. Q \in SUBSET Proc
    OBVIOUS
  <2> HIDE DEF Q
  <2> QED
    BY <2>1, FS_CardinalityType, FS_Subset
<1>2. f \in Surjection(Q, K)
  BY DEF Surjection
<1> HIDE DEF Q, f
<1>3. IsFiniteSet(K) /\ Cardinality(K) \in Nat /\ Cardinality(K) <= n
  <2> HIDE DEF K
  <2>1. IsFiniteSet(K) /\ Cardinality(K) <= Cardinality(Q)
    BY <1>1, <1>2, FS_Surjection
  <2> QED
    BY <1>1, <2>1, FS_CardinalityType
<1>4. Known(j) = K \cup {row[j].slot}
  BY DEF Known, Q
<1> HIDE DEF K
<1>5. /\ IsFiniteSet(Known(j)) /\ Cardinality(Known(j)) \in Nat
      /\ Cardinality(Known(j)) <= n + 1
  <2>1. IsFiniteSet(K \cup {row[j].slot})
        /\ Cardinality(K \cup {row[j].slot}) =
               IF row[j].slot \in K THEN Cardinality(K) ELSE Cardinality(K) + 1
    BY <1>3, FS_AddElement
  <2> QED
    BY <1>1, <1>3, <1>4, <2>1
<1>6. Slot \ {0} = 1..(n + 2)
  BY <1>1 DEF Slot
<1>7. Cardinality(1..(n + 2)) = n + 2
  BY <1>1, FS_Interval
<1>8. \E m \in Slot \ {0} : m \notin Known(j)
  <2> SUFFICES ASSUME Slot \ {0} \subseteq Known(j) PROVE FALSE
    OBVIOUS
  <2>1. Cardinality(1..(n + 2)) <= Cardinality(Known(j))
    BY <1>5, <1>6, FS_Subset
  <2> HIDE DEF n
  <2> QED
    BY <1>1, <1>5, <1>7, <2>1
<1> QED
  BY <1>8 DEF FreshSlot

-----------------------------------------------------------------------------
(* The steps that are written with operators, with what these stand for.   *)

LEMMA ReclaimStep ==
    ASSUME TypeOK, NEW p \in Proc, ReclaimRow(p)
    PROVE  /\ InTick(p, "reclaim") /\ UNCHANGED <<lockVars, run, ousted, bounds>>
           /\ \E rest \in SUBSET (Job \X (0..MaxRuns)) : tick' = [tick EXCEPT ![p].todo = rest]
           /\ \/ row' = row
              \/ \E j \in Job : \E t : /\ ~LeaseLive(t) /\ Running(j, t)
                                       /\ RowTo(j, Unclaimed(j, "scheduled"))
<1>1. PICK x \in tick[p].todo :
         /\ tick' = [tick EXCEPT ![p].todo = @ \ {x}]
         /\ \/ row' = row
            \/ /\ ~LeaseLive(x[2]) /\ Running(x[1], x[2])
               /\ RowTo(x[1], Unclaimed(x[1], "scheduled"))
  BY DEF ReclaimRow, Reclaim
<1>2. tick[p] \in TickState /\ tick \in [Proc -> TickState]
  BY DEF TypeOK
<1>3. tick[p].todo \in SUBSET (Job \X (0..MaxRuns))
  BY <1>2 DEF TickState
<1>4. x[1] \in Job
  BY <1>3
<1>5. tick' = [tick EXCEPT ![p].todo = tick[p].todo \ {x}]
  BY <1>1, <1>2
<1>6. tick[p].todo \ {x} \in SUBSET (Job \X (0..MaxRuns))
  BY <1>3
<1> QED
  BY <1>1, <1>4, <1>5, <1>6 DEF ReclaimRow, Reclaim

NewRun(p, j) ==
    [proc |-> p, job |-> j, slot |-> row[j].slot, oneShot |-> row[j].oneShot, live |-> TRUE,
     expired |-> FALSE, orphan |-> FALSE]

Claims(p, j, rest) ==
    /\ InTick(p, "due") /\ Due(j) /\ Len(run) + 1 \in Run
    /\ RowTo(j, [row[j] EXCEPT !.status = "running", !.claim = Len(run) + 1])
    /\ run' = Append(run, NewRun(p, j))
    /\ tick' = [tick EXCEPT ![p] = [op |-> "run", todo |-> rest, run |-> Len(run) + 1]]

LEMMA ClaimStep ==
    ASSUME TypeOK, NEW p \in Proc, Claim(p)
    PROVE  /\ InTick(p, "due") /\ UNCHANGED <<lockVars, ousted, bounds>>
           /\ \E rest \in SUBSET (Job \X (0..MaxRuns)) :
                 \/ \E j \in Job : Claims(p, j, rest)
                 \/ tick' = [tick EXCEPT ![p].todo = rest] /\ row' = row /\ run' = run
<1>1. PICK x \in tick[p].todo :
         \/ Claims(p, x[1], tick[p].todo \ {x})
         \/ tick' = [tick EXCEPT ![p].todo = tick[p].todo \ {x}] /\ row' = row /\ run' = run
  BY Zenon DEF Claim, Claims, NewRun
<1>2. tick[p] \in TickState
  BY DEF TypeOK
<1>3. tick[p].todo \in SUBSET (Job \X (0..MaxRuns))
  BY <1>2 DEF TickState
<1>4. x[1] \in Job /\ tick[p].todo \ {x} \in SUBSET (Job \X (0..MaxRuns))
  BY <1>3
<1> QED
  BY <1>1, <1>4 DEF Claim

LEMMA RecordStep ==
    ASSUME NEW p \in Proc, Record(p)
    PROVE  LET t == tick[p].run
               j == run[t].job
           IN  /\ InTick(p, "record") /\ UNCHANGED <<lockVars, run, ousted, bounds>>
               /\ tick' = [tick EXCEPT ![p].op = "due", ![p].run = 0]
               /\ \/ /\ Running(j, t)
                     /\ \E end \in Ends(t) : RowTo(j, AfterRun(j, t, end))
                  \/ row' = row
BY DEF Record, RecordIf

LEMMA GiveBackStep ==
    ASSUME NEW p \in Proc, GiveBack(p)
    PROVE  LET j == run[tick[p].run].job
           IN  /\ InTick(p, "giveBack") /\ UNCHANGED <<file, run, ousted, bounds>>
               /\ EndTick(p)
               /\ \/ /\ row[j].status = "running" /\ Mine(p, j)
                     /\ RowTo(j, Unclaimed(j, "scheduled"))
                  \/ row' = row
BY DEF GiveBack, GiveBackIf

(* The steps of a process that leave rows and runs alone, and no new wait. *)
Idle(p) ==
    \/ Lock(p) \/ FileStale(p) \/ GateClosed(p) \/ GateOpen(p) \/ ReadDue(p) \/ TickDone(p)
    \/ Boot(p)

LEMMA IdleStep ==
    ASSUME TypeOK, NEW p \in Proc, Idle(p)
    PROVE  /\ row' = row /\ run' = run /\ ousted' = ousted
           /\ tick' \in [Proc -> TickState]
           /\ \/ tick' = tick
              \/ /\ tick[p].op \notin Awaiting /\ tick'[p].op \notin Awaiting
                 /\ tick'[p].run \in {0, tick[p].run}
                 /\ \A q \in Proc : q # p => tick'[q] = tick[q]
<1>1. tick \in [Proc -> TickState] /\ tick[p] \in TickState
      /\ NoTick \in TickState /\ NoTick.op = "none" /\ NoTick.run = 0
  BY DEF TypeOK, NoTick, TickState, TickOps
<1>2. CASE Lock(p) \/ FileStale(p) \/ Boot(p)
  BY <1>1, <1>2 DEF Lock, FileStale, Boot, jobVars
<1>3. CASE GateClosed(p) \/ TickDone(p)
  BY <1>1, <1>3 DEF GateClosed, TickDone, EndTick, InTick, Awaiting
<1>4. CASE GateOpen(p)
  <2>1. PICK todo : /\ tick' = [tick EXCEPT ![p] = [op |-> "reclaim", run |-> 0, todo |-> todo]]
                    /\ todo = {<<j, row[j].claim>> : j \in {k \in Job : row[k].status = "running"}}
    BY <1>4 DEF GateOpen
  <2>2. \A j \in Job : row[j].claim \in 0..MaxRuns
    BY DEF TypeOK, Row
  <2>3. todo \in SUBSET (Job \X (0..MaxRuns))
    BY <2>1, <2>2
  <2>4. [op |-> "reclaim", run |-> 0, todo |-> todo] \in TickState
    BY <2>3 DEF TickState, TickOps
  <2> QED
    BY <1>1, <1>4, <2>1, <2>4 DEF GateOpen, InTick, Awaiting
<1>5. CASE ReadDue(p)
  <2>1. PICK todo : /\ tick' = [tick EXCEPT ![p].op = "due", ![p].todo = todo]
                    /\ todo = {<<j, 0>> : j \in {k \in Job : Due(k)}}
    BY <1>5 DEF ReadDue
  <2>2. todo \in SUBSET (Job \X (0..MaxRuns))
    BY <2>1
  <2>3. [tick[p] EXCEPT !.op = "due", !.todo = todo] \in TickState
    BY <1>1, <2>2 DEF TickState, TickOps
  <2>4. tick' = [tick EXCEPT ![p] = [tick[p] EXCEPT !.op = "due", !.todo = todo]]
    BY <1>1, <2>1 DEF TickState
  <2>5. tick'[p].run = tick[p].run /\ tick'[p].op = "due"
    BY <1>1, <2>4 DEF TickState
  <2> QED
    BY <1>1, <1>5, <2>3, <2>4, <2>5 DEF ReadDue, InTick, Awaiting
<1> QED
  BY <1>2, <1>3, <1>4, <1>5 DEF Idle

(* What a verb of the owner, or the clock, makes of its row.               *)
PausedRow(j) == [row[j] EXCEPT !.status = "paused", !.slot = 0, !.due = FALSE]
ResumedRow(j) == [row[j] EXCEPT !.status = "scheduled", !.slot = FreshSlot(j)]
EditedRow(j, once, slot) == [row[j] EXCEPT !.oneShot = once, !.due = FALSE, !.slot = slot]
HurriedRow(j) == [row[j] EXCEPT !.slot = FreshSlot(j), !.due = TRUE]
DueRow(j) == [row[j] EXCEPT !.due = TRUE]

OwnerRow(j, r) ==
    \/ row[j].status = "running" /\ r = PausedRow(j) /\ ousted' = ousted \cup {row[j].claim}
    \/ /\ ousted' = ousted
       /\ \/ row[j].status = "scheduled" /\ r \in {PausedRow(j), HurriedRow(j), DueRow(j)}
          \/ row[j].status = "paused" /\ r = ResumedRow(j)
          \/ r = Unclaimed(j, "cancelled")
          \/ /\ row[j].status \in {"scheduled", "running", "paused"}
             /\ \E once \in BOOLEAN, slot \in {0, FreshSlot(j)} : r = EditedRow(j, once, slot)

LEMMA OwnerLeaves ==
    ASSUME NEW j \in Job, OwnerStep(j) \/ SlotDue(j)
    PROVE  UNCHANGED <<lockVars, run, tick>>
<1>1. CASE Pause(j) \/ Resume(j) \/ Cancel(j)
  BY <1>1 DEF Pause, Resume, Cancel
<1>2. CASE SetSchedule(j) \/ RunNow(j) \/ SlotDue(j)
  BY Zenon, <1>2 DEF SetSchedule, RunNow, SlotDue
<1> QED
  BY <1>1, <1>2 DEF OwnerStep

LEMMA OwnerWrites ==
    ASSUME NEW j \in Job, OwnerStep(j) \/ SlotDue(j)
    PROVE  \E r : OwnerRow(j, r) /\ RowTo(j, r)
<1>1. CASE Pause(j)
  <2>1. /\ RowTo(j, PausedRow(j)) /\ row[j].status \in {"scheduled", "running"}
        /\ ousted' = IF row[j].status = "running" THEN ousted \cup {row[j].claim} ELSE ousted
    BY <1>1 DEF Pause, PausedRow
  <2> QED
    BY <2>1 DEF OwnerRow
<1>2. CASE Resume(j)
  <2>1. RowTo(j, ResumedRow(j)) /\ row[j].status = "paused" /\ ousted' = ousted
    BY <1>2 DEF Resume, ResumedRow
  <2> QED
    BY <2>1 DEF OwnerRow
<1>3. CASE Cancel(j)
  BY <1>3 DEF Cancel, OwnerRow
<1>4. CASE SetSchedule(j)
  <2>1. /\ row[j].status \in {"scheduled", "running", "paused"} /\ ousted' = ousted
        /\ \E once \in BOOLEAN :
              RowTo(j, EditedRow(j, once, IF row[j].status = "paused" THEN 0 ELSE FreshSlot(j)))
    BY Zenon, <1>4 DEF SetSchedule, EditedRow
  <2>2. (IF row[j].status = "paused" THEN 0 ELSE FreshSlot(j)) \in {0, FreshSlot(j)}
    OBVIOUS
  <2> QED
    BY <2>1, <2>2 DEF OwnerRow
<1>5. CASE RunNow(j)
  <2>1. RowTo(j, HurriedRow(j)) /\ row[j].status = "scheduled" /\ ousted' = ousted
    BY <1>5 DEF RunNow, HurriedRow
  <2> QED
    BY <2>1 DEF OwnerRow
<1>6. CASE SlotDue(j)
  <2>1. RowTo(j, DueRow(j)) /\ row[j].status = "scheduled" /\ ousted' = ousted
    BY <1>6 DEF SlotDue, DueRow
  <2> QED
    BY <2>1 DEF OwnerRow
<1> QED
  BY <1>1, <1>2, <1>3, <1>4, <1>5, <1>6 DEF OwnerStep

-----------------------------------------------------------------------------
(* The runs: a new one by a claim only, and an old one never comes to life *)
(* again.                                                                  *)

LEMMA FunctionAsSeq ==
    ASSUME NEW S, NEW n \in Nat, NEW f \in [1..n -> S]
    PROVE  f \in Seq(S) /\ Len(f) = n /\ DOMAIN f = 1..n
<1>1. f \in Seq(S)
  BY SeqDef
<1>2. 1..n = 1..Len(f) /\ Len(f) \in Nat
  BY <1>1, LenProperties
<1> QED
  BY <1>1, <1>2

(* What a step may do to a run.                                            *)
Ages(r, s) ==
    /\ s \in RunState
    /\ s.proc = r.proc /\ s.job = r.job /\ s.slot = r.slot
    /\ s.live => r.live
    /\ r.expired => s.expired
    /\ s.orphan => r.orphan \/ ~s.live

Over(r) == [r EXCEPT !.live = FALSE]
Lapsed(r) == [r EXCEPT !.expired = TRUE]
Dead(r) == [r EXCEPT !.live = FALSE, !.orphan = TRUE]

LEMMA AgesBy ==
    ASSUME NEW r \in RunState
    PROVE  Ages(r, r) /\ Ages(r, Over(r)) /\ Ages(r, Lapsed(r)) /\ Ages(r, Dead(r))
BY DEF Ages, RunState, Over, Lapsed, Dead

LEMMA RunsAreSeq ==
    ASSUME TypeOK
    PROVE  /\ Len(run) \in Nat /\ Runs = 1..Len(run) /\ run \in [1..Len(run) -> RunState]
           /\ \A t \in Runs : run[t] \in RunState
BY LenProperties DEF TypeOK, Runs

LEMMA NewRunTyped ==
    ASSUME TypeOK, NEW p \in Proc, NEW j \in Job
    PROVE  /\ NewRun(p, j) \in RunState
           /\ NewRun(p, j).proc = p /\ NewRun(p, j).job = j /\ NewRun(p, j).live
           /\ ~NewRun(p, j).orphan
BY DEF NewRun, RunState, TypeOK, Row

RunsAge ==
    /\ run' \in [Runs -> RunState] /\ Runs' = Runs
    /\ \A t \in Runs : Ages(run[t], run'[t])

LEMMA RunsAgeBy ==
    ASSUME TypeOK, run' \in [Runs -> RunState],
           \A t \in Runs : run'[t] \in {run[t], Over(run[t]), Lapsed(run[t]), Dead(run[t])}
    PROVE  RunsAge
<1>1. Runs' = Runs
  BY DEF Runs
<1>2. ASSUME NEW t \in Runs PROVE Ages(run[t], run'[t])
  BY RunsAreSeq, AgesBy
<1> QED
  BY <1>1, <1>2 DEF RunsAge

LEMMA AgesAreRuns ==
    ASSUME TypeOK
    PROVE  \A t \in Runs : {run[t], Over(run[t]), Lapsed(run[t]), Dead(run[t])} \subseteq RunState
BY RunsAreSeq, AgesBy DEF Ages

LEMMA OneRunAges ==
    ASSUME TypeOK, NEW k \in Runs, NEW r \in {Over(run[k]), Lapsed(run[k])},
           run' = [run EXCEPT ![k] = r]
    PROVE  RunsAge /\ run'[k] = r /\ \A t \in Runs : t # k => run'[t] = run[t]
<1>1. r \in RunState /\ run \in [Runs -> RunState]
  BY RunsAreSeq, AgesAreRuns
<1>2. run' \in [Runs -> RunState]
  BY <1>1
<1>3. \A t \in Runs : run'[t] = IF t = k THEN r ELSE run[t]
  BY <1>1
<1> QED
  BY <1>2, <1>3, RunsAgeBy

LEMMA RunEnded ==
    ASSUME TypeOK, TicksAwait, NEW p \in Proc, RunEnds(p)
    PROVE  LET k == tick[p].run
           IN  /\ k \in Runs /\ run' = [run EXCEPT ![k] = Over(run[k])]
               /\ RunsAge /\ ~run'[k].live /\ \A t \in Runs : t # k => run'[t] = run[t]
<1> DEFINE k == tick[p].run
<1>1. k \in Runs /\ run \in [Runs -> RunState] /\ run[k] \in RunState
  BY RunsAreSeq DEF RunEnds, InTick, TicksAwait, Awaiting
<1>2. run' = [run EXCEPT ![k] = Over(run[k])]
  BY <1>1 DEF RunEnds, Over
<1>3. ~Over(run[k]).live
  BY <1>1 DEF Over, RunState
<1> QED
  BY <1>1, <1>2, <1>3, OneRunAges

LEMMA LeaseLapsed ==
    ASSUME TypeOK, NEW k \in Runs, LeaseExpires(k)
    PROVE  /\ RunsAge
           /\ run'[k].live <=> run[k].live
           /\ \A t \in Runs : t # k => run'[t] = run[t]
<1>1. run \in [Runs -> RunState] /\ run[k] \in RunState
  BY RunsAreSeq
<1>2. run' = [run EXCEPT ![k] = Lapsed(run[k])]
  BY <1>1 DEF LeaseExpires, Lapsed
<1>3. Lapsed(run[k]).live <=> run[k].live
  BY <1>1 DEF Lapsed, RunState
<1> QED
  BY <1>2, <1>3, OneRunAges

LEMMA RunsDied ==
    ASSUME TypeOK, NEW p \in Proc, Crash(p)
    PROVE  /\ RunsAge
           /\ \A t \in Runs : run'[t] = IF run[t].proc = p THEN Dead(run[t]) ELSE run[t]
<1>1. run' = [t \in Runs |-> IF run[t].proc = p THEN Dead(run[t]) ELSE run[t]]
  BY Zenon DEF Crash, Dead
<1>2. run' \in [Runs -> RunState]
  BY <1>1, RunsAreSeq, AgesAreRuns
<1>3. \A t \in Runs : run'[t] \in {run[t], Dead(run[t])}
  BY <1>1
<1> QED
  BY <1>1, <1>2, <1>3, RunsAgeBy

LEMMA RunsKept ==
    ASSUME Inv, [Next]_vars
    PROVE  RunsAge \/ \E p \in Proc, j \in Job : \E rest : Claims(p, j, rest)
<1>1. TypeOK /\ TicksAwait /\ run \in [Runs -> RunState]
  BY RunsAreSeq DEF Inv
<1>2. ASSUME run' = run PROVE RunsAge
  BY <1>1, <1>2, RunsAgeBy
<1>3. ASSUME NEW p \in Proc, Claim(p)
      PROVE  run' = run \/ \E j \in Job : \E rest : Claims(p, j, rest)
  BY <1>1, <1>3, ClaimStep
<1>4. ASSUME NEW p \in Proc, RunEnds(p) \/ Crash(p) PROVE RunsAge
  BY <1>1, <1>4, RunEnded, RunsDied
<1>5. ASSUME NEW t \in Runs, LeaseExpires(t) PROVE RunsAge
  BY <1>1, <1>5, LeaseLapsed
<1>6. ASSUME NEW p \in Proc, Idle(p) PROVE run' = run
  BY <1>1, <1>6, IdleStep
<1>7. ASSUME NEW p \in Proc, ReclaimRow(p) PROVE run' = run
  BY <1>1, <1>7, ReclaimStep
<1>8. ASSUME NEW p \in Proc, Record(p) \/ GiveBack(p) PROVE run' = run
  BY <1>8, RecordStep, GiveBackStep
<1>9. ASSUME NEW p \in Proc, RecordRaises(p) PROVE run' = run
  BY <1>9 DEF RecordRaises
<1>10. ASSUME NEW j \in Job, OwnerStep(j) \/ SlotDue(j) PROVE run' = run
  BY <1>10, OwnerLeaves
<1>11. ASSUME UNCHANGED vars PROVE run' = run
  BY <1>11 DEF vars, jobVars
<1> QED
  BY <1>2, <1>3, <1>4, <1>5, <1>6, <1>7, <1>8, <1>9, <1>10, <1>11
  DEF Next, TickStep, Idle

(* A claim makes one run, the newest.                                      *)
LEMMA ClaimedRun ==
    ASSUME Inv, NEW p \in Proc, NEW j \in Job, NEW rest, Claims(p, j, rest)
    PROVE  /\ Len(run) + 1 \in Nat /\ Runs' = Runs \cup {Len(run) + 1}
           /\ \A t \in Runs : t < Len(run) + 1 /\ run'[t] = run[t]
           /\ run'[Len(run) + 1] = NewRun(p, j) /\ NewRun(p, j) \in RunState
           /\ run' \in Seq(RunState) /\ Len(run') = Len(run) + 1 /\ Len(run') <= MaxRuns
<1>1. run \in Seq(RunState) /\ NewRun(p, j) \in RunState
      /\ Len(run) \in Nat /\ Runs = 1..Len(run) /\ Len(run) + 1 \in 1..MaxRuns
  BY RunsAreSeq, NewRunTyped DEF Inv, TypeOK, Claims, Run
<1>2. run' = Append(run, NewRun(p, j))
  BY DEF Claims
<1> HIDE DEF NewRun
<1>3. /\ run' \in Seq(RunState) /\ Len(run') = Len(run) + 1
      /\ run'[Len(run) + 1] = NewRun(p, j) /\ \A t \in 1..Len(run) : run'[t] = run[t]
  BY <1>1, <1>2, AppendProperties
<1>4. Runs' = 1..(Len(run) + 1)
  BY <1>3, LenProperties DEF Runs
<1> QED
  BY <1>1, <1>3, <1>4

LEMMA NextRuns ==
    ASSUME Inv, [Next]_vars
    PROVE  run' \in Seq(RunState) /\ Len(run') <= MaxRuns
<1>1. CASE RunsAge
  <2>1. Len(run) \in Nat /\ Runs = 1..Len(run) /\ Len(run) <= MaxRuns
    BY RunsAreSeq DEF Inv, TypeOK
  <2>2. run' \in [1..Len(run) -> RunState]
    BY <1>1, <2>1 DEF RunsAge
  <2>3. run' \in Seq(RunState) /\ Len(run') = Len(run)
    BY <2>1, <2>2, FunctionAsSeq
  <2> QED
    BY <2>1, <2>3
<1>2. CASE \E p \in Proc, j \in Job : \E rest : Claims(p, j, rest)
  BY <1>2, ClaimedRun
<1> QED
  BY <1>1, <1>2, RunsKept

-----------------------------------------------------------------------------
(* The rows: what each writer may make of one.                             *)

LEMMA RowTyped ==
    ASSUME TypeOK, NEW j \in Job
    PROVE  /\ row[j] \in Row
           /\ row[j].status \in Status /\ row[j].oneShot \in BOOLEAN /\ row[j].slot \in Slot
           /\ row[j].due \in BOOLEAN /\ row[j].claim \in 0..MaxRuns
BY DEF TypeOK, Row

LEMMA SlotTyped == 0 \in Slot
<1>1. Cardinality(Proc) \in Nat
  BY FS_CardinalityType
<1> QED
  BY <1>1 DEF Slot

LEMMA UnclaimedRow ==
    ASSUME TypeOK, NEW j \in Job, NEW st \in Status
    PROVE  /\ Unclaimed(j, st) \in Row /\ Unclaimed(j, st).status = st
           /\ Unclaimed(j, st).claim = 0 /\ Unclaimed(j, st).slot = row[j].slot
<1>1. PICK r \in Row : r = row[j]
  BY RowTyped
<1>2. 0 \in 0..MaxRuns
  OBVIOUS
<1>3. Unclaimed(j, st) = [r EXCEPT !.status = st, !.claim = 0]
  BY <1>1 DEF Unclaimed
<1>4. LET s == [r EXCEPT !.status = st, !.claim = 0]
      IN  s \in Row /\ s.status = st /\ s.claim = 0 /\ s.slot = r.slot
  BY <1>2 DEF Row
<1> QED
  BY <1>1, <1>3, <1>4

LEMMA OwnerRowTyped ==
    ASSUME TypeOK, TicksAwait, NEW j \in Job, NEW r, OwnerRow(j, r)
    PROVE  /\ r \in Row
           /\ r.status = "running" => row[j].status = "running" /\ r.claim = row[j].claim
           /\ row[j].status = "running" => \/ r.status \in {"running", "cancelled"}
                                           \/ row[j].claim \in ousted'
           /\ row[j].status = "cancelled" => r.status = "cancelled"
<1>1. PICK s \in Row : s = row[j]
  BY RowTyped
<1>2. /\ 0 \in Slot /\ FreshSlot(j) \in Slot
      /\ {"paused", "scheduled", "cancelled"} \subseteq Status
  BY SlotTyped, FreshSlotExists DEF Status
<1>3. /\ PausedRow(j) \in Row /\ PausedRow(j).status = "paused"
      /\ ResumedRow(j) \in Row /\ ResumedRow(j).status = "scheduled"
  <2>1. PausedRow(j) = [s EXCEPT !.status = "paused", !.slot = 0, !.due = FALSE]
    BY <1>1 DEF PausedRow
  <2>2. ResumedRow(j) = [s EXCEPT !.status = "scheduled", !.slot = FreshSlot(j)]
    BY <1>1 DEF ResumedRow
  <2> QED
    BY <1>2, <2>1, <2>2 DEF Row
<1>4. /\ HurriedRow(j) \in Row /\ HurriedRow(j).status = row[j].status
      /\ DueRow(j) \in Row /\ DueRow(j).status = row[j].status
  <2>1. HurriedRow(j) = [s EXCEPT !.slot = FreshSlot(j), !.due = TRUE]
    BY <1>1 DEF HurriedRow
  <2>2. DueRow(j) = [s EXCEPT !.due = TRUE]
    BY <1>1 DEF DueRow
  <2> QED
    BY <1>1, <1>2, <2>1, <2>2 DEF Row
<1>5. ASSUME NEW once \in BOOLEAN, NEW slot \in Slot
      PROVE  /\ EditedRow(j, once, slot) \in Row
             /\ EditedRow(j, once, slot).status = row[j].status
             /\ EditedRow(j, once, slot).claim = row[j].claim
  <2>1. EditedRow(j, once, slot) = [s EXCEPT !.oneShot = once, !.due = FALSE, !.slot = slot]
    BY <1>1 DEF EditedRow
  <2> QED
    BY <1>1, <2>1 DEF Row
<1>6. Unclaimed(j, "cancelled") \in Row /\ Unclaimed(j, "cancelled").status = "cancelled"
  BY <1>2, UnclaimedRow
<1>7. CASE row[j].status = "running" /\ r = PausedRow(j) /\ ousted' = ousted \cup {row[j].claim}
  BY <1>3, <1>7
<1>8. CASE row[j].status = "scheduled" /\ r \in {PausedRow(j), HurriedRow(j), DueRow(j)}
  BY <1>3, <1>4, <1>8
<1>9. CASE row[j].status = "paused" /\ r = ResumedRow(j)
  BY <1>3, <1>9
<1>10. CASE r = Unclaimed(j, "cancelled")
  BY <1>6, <1>10
<1>11. ASSUME row[j].status \in {"scheduled", "running", "paused"},
              NEW once \in BOOLEAN, NEW slot \in {0, FreshSlot(j)}, r = EditedRow(j, once, slot)
       PROVE  r \in Row /\ r.status = row[j].status /\ r.claim = row[j].claim
  BY <1>2, <1>5, <1>11
<1> QED
  BY <1>7, <1>8, <1>9, <1>10, <1>11 DEF OwnerRow

(* The end of a run: the row is no longer running, and its slot is used up *)
(* only if it is still the one the run was claimed at.                     *)
LEMMA AfterRunRow ==
    ASSUME TypeOK, TicksAwait, NEW j \in Job, NEW t \in Runs, NEW end \in Ends(t)
    PROVE  LET r == AfterRun(j, t, end)
           IN  /\ r \in Row /\ r.status # "running"
               /\ r.slot # row[j].slot => row[j].slot = run[t].slot
<1> DEFINE r == AfterRun(j, t, end)
           slot == CASE end.next = "none" -> 0 [] end.next = "kept" -> row[j].slot
                     [] end.next = "computed" -> FreshSlot(j)
           due == row[j].due /\ end.next = "kept"
<1>1. /\ end.status \in {"done", "failed", "scheduled"}
      /\ end.next \in {"none", "kept", "computed"}
  BY DEF Ends
<1>2. PICK s \in Row : s = row[j]
  BY RowTyped
<1>3. CASE row[j].slot # run[t].slot \/ row[j].oneShot # run[t].oneShot
  <2>1. r = Unclaimed(j, "scheduled")
    BY <1>3 DEF AfterRun
  <2> QED
    BY <2>1, UnclaimedRow DEF Status
<1>4. CASE row[j].slot = run[t].slot /\ row[j].oneShot = run[t].oneShot
  <2>1. slot \in Slot /\ due \in BOOLEAN /\ 0 \in 0..MaxRuns /\ end.status \in Status
    BY <1>1, SlotTyped, FreshSlotExists, RowTyped DEF Status
  <2>2. r = [s EXCEPT !.status = end.status, !.claim = 0, !.slot = slot, !.due = due]
    BY Zenon, <1>2, <1>4 DEF AfterRun, AsAsked
  <2> HIDE DEF slot, due
  <2>3. r \in Row /\ r.status = end.status
    BY <2>1, <2>2 DEF Row
  <2> QED
    BY <1>1, <1>4, <2>3
<1> QED
  BY <1>3, <1>4

(* A row starts to run by a claim; it ends by the owner, or when its run   *)
(* is over or has outlived its lease; and what is cancelled stays so.      *)
RowGoes(j, r) ==
    /\ r.status = "running" => \/ row[j].status = "running" /\ r.claim = row[j].claim
                               \/ \E p \in Proc : \E rest : Claims(p, j, rest)
    /\ row[j].status = "running" => \/ r.status \in {"running", "cancelled"}
                                    \/ row[j].claim \in ousted'
                                    \/ ~run[row[j].claim].live
                                    \/ run[row[j].claim].expired
    /\ row[j].status = "cancelled" => r.status = "cancelled"

LEMMA RowWrites ==
    ASSUME Inv, [Next]_vars
    PROVE  /\ ousted \subseteq ousted' /\ ousted' \subseteq Run
           /\ \/ row' = row
              \/ \E j \in Job : \E r \in Row : RowTo(j, r) /\ RowGoes(j, r)
<1>1. TypeOK /\ TicksAwait /\ LiveAwaited /\ ousted \subseteq Run
      /\ \A j \in Job : row[j].status = "running" => row[j].claim \in Runs
  BY DEF Inv, TypeOK
<1>2. Runs \subseteq Run
  BY <1>1, RunsAreSeq DEF TypeOK, Run
<1>3. ASSUME NEW j \in Job, OwnerStep(j) \/ SlotDue(j)
      PROVE  /\ ousted \subseteq ousted' /\ ousted' \subseteq Run
             /\ \E r \in Row : RowTo(j, r) /\ RowGoes(j, r)
  <2>1. PICK r : OwnerRow(j, r) /\ RowTo(j, r)
    BY <1>3, OwnerWrites
  <2>2. /\ r \in Row
        /\ r.status = "running" => row[j].status = "running" /\ r.claim = row[j].claim
        /\ row[j].status = "running" => \/ r.status \in {"running", "cancelled"}
                                        \/ row[j].claim \in ousted'
        /\ row[j].status = "cancelled" => r.status = "cancelled"
    BY <1>1, <2>1, OwnerRowTyped
  <2>3. \/ ousted' = ousted
        \/ row[j].status = "running" /\ ousted' = ousted \cup {row[j].claim}
    BY <2>1 DEF OwnerRow
  <2> QED
    BY <1>1, <1>2, <2>1, <2>2, <2>3 DEF RowGoes
<1>4. ASSUME NEW p \in Proc, ReclaimRow(p)
      PROVE  /\ ousted' = ousted
             /\ \/ row' = row
                \/ \E j \in Job : \E r \in Row : RowTo(j, r) /\ RowGoes(j, r)
  <2>1. ousted' = ousted
    BY <1>1, <1>4, ReclaimStep
  <2>2. ASSUME NEW j \in Job, NEW t, ~LeaseLive(t), Running(j, t),
               RowTo(j, Unclaimed(j, "scheduled"))
        PROVE  \E r \in Row : RowTo(j, r) /\ RowGoes(j, r)
    <3>1. /\ Unclaimed(j, "scheduled") \in Row
          /\ Unclaimed(j, "scheduled").status = "scheduled"
      BY <1>1, UnclaimedRow DEF Status
    <3>2. row[j].status = "running" /\ t = row[j].claim /\ t \in Runs
      BY <1>1, <2>2 DEF Running
    <3>3. run[t].expired \/ ~run[t].live
      BY <1>1, <2>2, <3>2 DEF LeaseLive, LiveAwaited
    <3> QED
      BY <2>2, <3>1, <3>2, <3>3 DEF RowGoes
  <2> QED
    BY <1>1, <1>4, <2>1, <2>2, ReclaimStep
<1>5. ASSUME NEW p \in Proc, Claim(p)
      PROVE  /\ ousted' = ousted
             /\ \/ row' = row
                \/ \E j \in Job : \E r \in Row : RowTo(j, r) /\ RowGoes(j, r)
  <2>1. ousted' = ousted
    BY <1>1, <1>5, ClaimStep
  <2>2. ASSUME NEW j \in Job, NEW rest, Claims(p, j, rest)
        PROVE  \E r \in Row : RowTo(j, r) /\ RowGoes(j, r)
    <3>1. PICK s \in Row : s = row[j]
      BY <1>1, RowTyped
    <3>2. Len(run) + 1 \in 0..MaxRuns
      BY <1>1, <2>2, RunsAreSeq DEF Claims, Run
    <3>3. PICK n \in 0..MaxRuns : n = Len(run) + 1
      BY <3>2
    <3>4. PICK r : r = [s EXCEPT !.status = "running", !.claim = n]
      OBVIOUS
    <3>5. RowTo(j, r) /\ row[j].status = "scheduled"
      BY <2>2, <3>1, <3>3, <3>4 DEF Claims, Due
    <3>6. r \in Row /\ r.status = "running"
      BY <3>4 DEF Row, Status
    <3> QED
      BY <2>2, <3>5, <3>6 DEF RowGoes
  <2> QED
    BY <1>1, <1>5, <2>1, <2>2, ClaimStep
<1>6. ASSUME NEW p \in Proc, Record(p)
      PROVE  /\ ousted' = ousted
             /\ \/ row' = row
                \/ \E j \in Job : \E r \in Row : RowTo(j, r) /\ RowGoes(j, r)
  <2> DEFINE t == tick[p].run
             j == run[t].job
  <2>1. /\ tick[p].op = "record" /\ ousted' = ousted
        /\ \/ Running(j, t) /\ \E end \in Ends(t) : RowTo(j, AfterRun(j, t, end))
           \/ row' = row
    BY <1>6, RecordStep DEF InTick
  <2>2. t \in Runs /\ ~run[t].live
    BY <1>1, <2>1 DEF TicksAwait, Awaiting
  <2>3. j \in Job
    BY <1>1, <2>2, RunsAreSeq DEF RunState
  <2> HIDE DEF t, j
  <2>4. ASSUME NEW end \in Ends(t), Running(j, t), RowTo(j, AfterRun(j, t, end))
        PROVE  \E r \in Row : RowTo(j, r) /\ RowGoes(j, r)
    <3>1. AfterRun(j, t, end) \in Row /\ AfterRun(j, t, end).status # "running"
      BY <1>1, <2>2, <2>3, AfterRunRow
    <3> QED
      BY <2>2, <2>4, <3>1 DEF RowGoes, Running
  <2> QED
    BY <2>1, <2>3, <2>4
<1>7. ASSUME NEW p \in Proc, GiveBack(p)
      PROVE  /\ ousted' = ousted
             /\ \/ row' = row
                \/ \E j \in Job : \E r \in Row : RowTo(j, r) /\ RowGoes(j, r)
  <2> DEFINE t == tick[p].run
             j == run[t].job
  <2>1. /\ tick[p].op = "giveBack" /\ ousted' = ousted
        /\ \/ /\ row[j].status = "running" /\ Mine(p, j)
              /\ RowTo(j, Unclaimed(j, "scheduled"))
           \/ row' = row
    BY <1>7, GiveBackStep DEF InTick
  <2>2. t \in Runs /\ ~run[t].live
    BY <1>1, <2>1 DEF TicksAwait, Awaiting
  <2>3. j \in Job
    BY <1>1, <2>2, RunsAreSeq DEF RunState
  <2>4. \A u \in Runs : run[u].proc = p => ~run[u].live
    BY <1>1, <2>2 DEF LiveAwaited
  <2> HIDE DEF t, j
  <2>5. ASSUME row[j].status = "running", Mine(p, j), RowTo(j, Unclaimed(j, "scheduled"))
        PROVE  \E r \in Row : RowTo(j, r) /\ RowGoes(j, r)
    <3>1. /\ Unclaimed(j, "scheduled") \in Row
          /\ Unclaimed(j, "scheduled").status = "scheduled"
      BY <1>1, <2>3, UnclaimedRow DEF Status
    <3>2. ~run[row[j].claim].live
      BY <1>1, <2>3, <2>4, <2>5 DEF Mine
    <3> QED
      BY <2>5, <3>1, <3>2 DEF RowGoes
  <2> QED
    BY <2>1, <2>3, <2>5
<1>8. ASSUME NEW p \in Proc, Idle(p) PROVE row' = row /\ ousted' = ousted
  BY <1>1, <1>8, IdleStep
<1>9. ASSUME NEW p \in Proc, RecordRaises(p) \/ RunEnds(p) \/ Crash(p)
      PROVE  row' = row /\ ousted' = ousted
  BY Zenon, <1>9 DEF RecordRaises, RunEnds, Crash
<1>10. ASSUME NEW t \in Runs, LeaseExpires(t) PROVE row' = row /\ ousted' = ousted
  BY <1>10 DEF LeaseExpires
<1>11. ASSUME UNCHANGED vars PROVE row' = row /\ ousted' = ousted
  BY <1>11 DEF vars, jobVars
<1> QED
  BY <1>1, <1>3, <1>4, <1>5, <1>6, <1>7, <1>8, <1>9, <1>10, <1>11 DEF Next, TickStep, Idle

-----------------------------------------------------------------------------
(* The shape of the rest                                                   *)

LEMMA NextLockTyped ==
    ASSUME Inv, [Next]_vars
    PROVE  LockTypeOK'
<1>1. file \in Proc \cup {NoFile} /\ locker \in [Proc -> LockerState]
  BY DEF Inv, TypeOK, LockTypeOK
<1>2. ASSUME UNCHANGED lockVars PROVE LockTypeOK'
  BY <1>1, <1>2 DEF lockVars, LockTypeOK
<1>3. ASSUME NEW p \in Proc, NEW st \in LockerState, GoesTo(p, st), file' \in {file, p, NoFile}
      PROVE  LockTypeOK'
  BY <1>1, <1>3 DEF GoesTo, LockTypeOK
<1>4. {"out", "judge", "unlink", "in", "leave", "remove", "down"} = LockerState
  BY DEF LockerState
<1>5. ASSUME NEW p \in Proc, Lock(p) \/ FileStale(p) PROVE LockTypeOK'
  <2>1. file' \in {file, p, NoFile} /\ \E st \in LockerState : GoesTo(p, st)
    BY <1>4, <1>5 DEF Lock, FileStale, LockStep, Acquire, JudgeYoung, JudgeStale, Steal,
                      ReleaseCheck, ReleaseUnlink
  <2> QED
    BY <1>3, <2>1
<1>6. ASSUME NEW p \in Proc, GateClosed(p) \/ TickDone(p) \/ RecordRaises(p)
      PROVE  LockTypeOK'
  BY <1>3, <1>4, <1>6 DEF GateClosed, TickDone, RecordRaises, EndTick
<1>7. ASSUME NEW p \in Proc, GiveBack(p) PROVE LockTypeOK'
  BY <1>3, <1>4, <1>7, GiveBackStep DEF EndTick
<1>8. ASSUME NEW p \in Proc, Crash(p) PROVE LockTypeOK'
  <2>1. GoesTo(p, "down") /\ file' = file
    BY Zenon, <1>8 DEF Crash
  <2> QED
    BY <1>3, <1>4, <2>1
<1>9. ASSUME NEW p \in Proc, Boot(p) PROVE LockTypeOK'
  BY <1>3, <1>4, <1>9 DEF Boot
<1>10. ASSUME NEW p \in Proc, GateOpen(p) \/ ReadDue(p) \/ RunEnds(p)
       PROVE  UNCHANGED lockVars
  BY <1>10 DEF GateOpen, ReadDue, RunEnds
<1>11. ASSUME NEW p \in Proc, ReclaimRow(p) \/ Claim(p) \/ Record(p)
       PROVE  UNCHANGED lockVars
  BY <1>11, ReclaimStep, ClaimStep, RecordStep DEF Inv
<1>12. ASSUME NEW j \in Job, OwnerStep(j) \/ SlotDue(j) PROVE UNCHANGED lockVars
  BY <1>12, OwnerLeaves
<1>13. ASSUME NEW t \in Runs, LeaseExpires(t) PROVE UNCHANGED lockVars
  BY <1>13 DEF LeaseExpires
<1>14. ASSUME UNCHANGED vars PROVE UNCHANGED lockVars
  BY <1>14 DEF vars
<1> QED
  BY <1>2, <1>5, <1>6, <1>7, <1>8, <1>9, <1>10, <1>11, <1>12, <1>13, <1>14 DEF Next, TickStep

LEMMA NextBounds ==
    ASSUME Inv, [Next]_vars
    PROVE  verbs' \in 0..MaxVerbs /\ mishaps' \in 0..MaxMishaps
<1>1. verbs \in 0..MaxVerbs /\ mishaps \in 0..MaxMishaps /\ TypeOK
  BY DEF Inv, TypeOK
<1>2. ASSUME UNCHANGED bounds PROVE verbs' \in 0..MaxVerbs /\ mishaps' \in 0..MaxMishaps
  BY <1>1, <1>2 DEF bounds
<1>3. Verb => verbs' \in 0..MaxVerbs
  BY <1>1 DEF Verb
<1>4. Mishap => mishaps' \in 0..MaxMishaps
  BY <1>1 DEF Mishap
<1>5. ASSUME NEW p \in Proc,
             \/ Lock(p) \/ GateOpen(p) \/ ReadDue(p) \/ TickDone(p) \/ RunEnds(p) \/ Boot(p)
      PROVE  UNCHANGED bounds
  BY <1>5 DEF Lock, GateOpen, ReadDue, TickDone, RunEnds, Boot
<1>6. ASSUME NEW p \in Proc, ReclaimRow(p) \/ Claim(p) \/ Record(p) \/ GiveBack(p)
      PROVE  UNCHANGED bounds
  BY <1>1, <1>6, ReclaimStep, ClaimStep, RecordStep, GiveBackStep
<1>7. ASSUME NEW p \in Proc, FileStale(p) \/ GateClosed(p) \/ RecordRaises(p) \/ Crash(p)
      PROVE  verbs' = verbs /\ (mishaps' = mishaps \/ Mishap)
  BY Zenon, <1>7 DEF FileStale, GateClosed, RecordRaises, Crash
<1>8. ASSUME NEW j \in Job, Pause(j) \/ Cancel(j) \/ SetSchedule(j) \/ RunNow(j)
      PROVE  mishaps' = mishaps /\ Verb
  BY Zenon, <1>8 DEF Pause, Cancel, SetSchedule, RunNow
<1>9. ASSUME NEW j \in Job, Resume(j) \/ SlotDue(j) PROVE UNCHANGED bounds
  BY <1>9 DEF Resume, SlotDue
<1>10. ASSUME NEW t \in Runs, LeaseExpires(t)
       PROVE  verbs' = verbs /\ (mishaps' = mishaps \/ Mishap)
  BY <1>10 DEF LeaseExpires
<1>11. ASSUME UNCHANGED vars PROVE UNCHANGED bounds
  BY <1>11 DEF vars, bounds
<1> QED
  BY <1>1, <1>2, <1>3, <1>4, <1>5, <1>6, <1>7, <1>8, <1>9, <1>10, <1>11
  DEF Next, TickStep, OwnerStep

-----------------------------------------------------------------------------
(* The ticks                                                               *)

WaitAt(q) ==
    /\ tick[q].run # 0 <=> tick[q].op \in Awaiting
    /\ tick[q].run # 0 =>
          /\ tick[q].run \in Runs /\ run[tick[q].run].proc = q
          /\ run[tick[q].run].live <=> tick[q].op = "run"
          /\ \A u \in Runs : run[u].proc = q => u <= tick[q].run

LEMMA WaitsAsBefore ==
    ASSUME NEW q \in Proc, WaitAt(q), RunsAge,
           tick'[q].run = tick[q].run, tick'[q].op = tick[q].op,
           tick[q].run # 0 => (run'[tick[q].run].live <=> run[tick[q].run].live)
    PROVE  WaitAt(q)'
<1>1. Runs' = Runs /\ \A t \in Runs : run'[t].proc = run[t].proc
  BY DEF RunsAge, Ages
<1> QED
  BY <1>1 DEF WaitAt

LEMMA WaitsForNone ==
    ASSUME NEW q \in Proc, tick'[q].run = 0, tick'[q].op \notin Awaiting
    PROVE  WaitAt(q)'
BY DEF WaitAt

(* A step that has no new run keeps every wait, or ends it.                *)
LEMMA EndedTick ==
    ASSUME TypeOK, NEW p \in Proc, EndTick(p)
    PROVE  /\ tick' \in [Proc -> TickState] /\ tick'[p].run = 0 /\ tick'[p].op \notin Awaiting
           /\ \A q \in Proc : q # p => tick'[q] = tick[q]
<1>1. tick \in [Proc -> TickState] /\ NoTick \in TickState
      /\ NoTick.op = "none" /\ NoTick.run = 0
  BY DEF TypeOK, NoTick, TickState, TickOps
<1>2. tick' = [tick EXCEPT ![p] = NoTick]
  BY DEF EndTick
<1> HIDE DEF NoTick
<1> QED
  BY <1>1, <1>2 DEF Awaiting

LEMMA TicksKept ==
    ASSUME Inv, run' = run, NEW p \in Proc, tick' \in [Proc -> TickState],
           \A q \in Proc : q # p => tick'[q] = tick[q],
           \/ tick'[p].run = 0 /\ tick'[p].op \notin Awaiting
           \/ tick'[p].run = tick[p].run /\ tick'[p].op = tick[p].op
    PROVE  \A q \in Proc : WaitAt(q)'
<1>1. \A q \in Proc : WaitAt(q)
  BY DEF Inv, TicksAwait, WaitAt
<1>2. Runs' = Runs
  BY DEF Runs
<1>3. ASSUME NEW q \in Proc, tick'[q].run = tick[q].run, tick'[q].op = tick[q].op
      PROVE  WaitAt(q)'
  BY <1>1, <1>2, <1>3 DEF WaitAt
<1> QED
  BY <1>3, WaitsForNone

LEMMA ClaimTicks ==
    ASSUME Inv, NEW p \in Proc, NEW j \in Job, NEW rest \in SUBSET (Job \X (0..MaxRuns)),
           Claims(p, j, rest)
    PROVE  /\ tick' \in [Proc -> TickState] /\ \A q \in Proc : WaitAt(q)'
           /\ \A q \in Proc : q # p => tick'[q] = tick[q]
<1> DEFINE n == Len(run) + 1
           new == [op |-> "run", todo |-> rest, run |-> n]
<1>1. /\ n \in Nat /\ Runs' = Runs \cup {n} /\ n \in 0..MaxRuns /\ n # 0
      /\ \A t \in Runs : t < n /\ run'[t] = run[t]
      /\ run'[n].proc = p /\ run'[n].live
  <2>1. /\ Len(run) \in Nat /\ n \in Run /\ Runs' = Runs \cup {n}
        /\ \A t \in Runs : t < n /\ run'[t] = run[t]
        /\ run'[n] = NewRun(p, j) /\ TypeOK
    <3>1. n \in Run
      BY Zenon DEF Claims
    <3> QED
      BY <3>1, ClaimedRun, RunsAreSeq DEF Inv
  <2>2. NewRun(p, j).proc = p /\ NewRun(p, j).live
    BY <2>1, NewRunTyped
  <2>3. n \in 0..MaxRuns /\ n # 0
    BY <2>1 DEF Run
  <2> QED
    BY <2>1, <2>2, <2>3
<1>2. tick' = [tick EXCEPT ![p] = new] /\ tick \in [Proc -> TickState]
  BY DEF Claims, Inv, TypeOK
<1>3. \A q \in Proc : WaitAt(q)
  BY DEF Inv, TicksAwait, WaitAt
<1> HIDE DEF n
<1>4. new \in TickState /\ new.op = "run" /\ new.run = n
  BY <1>1 DEF TickState, TickOps
<1> HIDE DEF new
<1>5. /\ tick' \in [Proc -> TickState] /\ tick'[p] = new
      /\ \A q \in Proc : q # p => tick'[q] = tick[q]
  BY <1>2, <1>4
<1>6. WaitAt(p)'
  <2>1. \A t \in Runs' : t <= n
    BY <1>1, RunsAreSeq DEF Inv
  <2> QED
    BY <1>1, <1>4, <1>5, <2>1 DEF WaitAt, Awaiting
<1>7. ASSUME NEW q \in Proc, q # p PROVE WaitAt(q)'
  <2>1. tick'[q] = tick[q] /\ WaitAt(q)
    BY <1>3, <1>5, <1>7
  <2>2. \A t \in Runs' : run'[t].proc = q => t \in Runs
    BY <1>1, <1>7
  <2> QED
    BY <1>1, <2>1, <2>2 DEF WaitAt
<1> QED
  BY <1>5, <1>6, <1>7

Leaves(q) == tick'[q].run # tick[q].run

LEMMA NextTicks ==
    ASSUME Inv, [Next]_vars
    PROVE  /\ tick' \in [Proc -> TickState] /\ TicksAwait'
           /\ \A q \in Proc : Leaves(q) => tick[q].op # "run" \/ Crash(q)
<1>1. TypeOK /\ TicksAwait /\ tick \in [Proc -> TickState] /\ \A q \in Proc : WaitAt(q)
  BY DEF Inv, TypeOK, TicksAwait, WaitAt
<1> DEFINE Goal == /\ tick' \in [Proc -> TickState] /\ \A q \in Proc : WaitAt(q)'
                   /\ \A q \in Proc : Leaves(q) => tick[q].op # "run" \/ Crash(q)
<1>2. ASSUME tick' = tick, run' = run PROVE Goal
  <2>1. Runs' = Runs
    BY <1>2 DEF Runs
  <2> QED
    BY <1>1, <1>2, <2>1 DEF WaitAt, Leaves
<1>3. ASSUME NEW p \in Proc, NEW rest \in SUBSET (Job \X (0..MaxRuns)), run' = run,
             tick' = [tick EXCEPT ![p].todo = rest]
      PROVE  Goal
  <2>1. PICK s \in TickState : s = tick[p]
    BY <1>1
  <2>2. PICK w : w = [s EXCEPT !.todo = rest]
    OBVIOUS
  <2>3. w \in TickState /\ w.run = s.run /\ w.op = s.op
    BY <2>2 DEF TickState
  <2>4. tick' = [tick EXCEPT ![p] = w]
    BY <1>1, <1>3, <2>1, <2>2
  <2>5. /\ tick' \in [Proc -> TickState] /\ \A q \in Proc : q # p => tick'[q] = tick[q]
        /\ tick'[p].run = tick[p].run /\ tick'[p].op = tick[p].op
    BY <1>1, <2>1, <2>3, <2>4
  <2> QED
    BY <1>1, <1>3, <2>5, TicksKept DEF Leaves
<1>4. ASSUME NEW p \in Proc, Idle(p) PROVE Goal
  <2>1. tick'[p].run = 0 \/ tick' = tick
    BY <1>1, <1>4, IdleStep DEF WaitAt
  <2> QED
    BY <1>1, <1>2, <1>4, <2>1, IdleStep, TicksKept DEF Leaves, Awaiting
<1>5. ASSUME NEW p \in Proc, ReclaimRow(p) PROVE Goal
  BY <1>1, <1>3, <1>5, ReclaimStep
<1>6. ASSUME NEW p \in Proc, Claim(p) PROVE Goal
  <2>1. tick[p].op # "run"
    BY <1>1, <1>6, ClaimStep DEF InTick
  <2> QED
    BY <1>1, <1>3, <1>6, <2>1, ClaimStep, ClaimTicks DEF Leaves
<1>7. ASSUME NEW p \in Proc, Record(p) PROVE Goal
  <2>1. /\ tick' = [tick EXCEPT ![p].op = "due", ![p].run = 0] /\ run' = run
        /\ tick[p].op = "record"
    BY <1>7, RecordStep DEF InTick
  <2>2. PICK s \in TickState : s = tick[p]
    BY <1>1
  <2>3. PICK w : w = [s EXCEPT !.op = "due", !.run = 0]
    OBVIOUS
  <2>4. w \in TickState /\ w.run = 0 /\ w.op = "due"
    <3>1. 0 \in 0..MaxRuns /\ "due" \in TickOps
      BY DEF TickOps
    <3> QED
      BY <2>3, <3>1 DEF TickState
  <2>5. tick' = [tick EXCEPT ![p] = w]
    BY <1>1, <2>1, <2>2, <2>3
  <2>6. /\ tick' \in [Proc -> TickState] /\ \A q \in Proc : q # p => tick'[q] = tick[q]
        /\ tick'[p].run = 0 /\ tick'[p].op \notin Awaiting
    BY <1>1, <2>4, <2>5 DEF Awaiting
  <2> QED
    BY <1>1, <2>1, <2>6, TicksKept DEF Leaves
<1>8. ASSUME NEW p \in Proc, GiveBack(p) PROVE Goal
  <2>1. EndTick(p) /\ run' = run /\ tick[p].op = "giveBack"
    BY <1>8, GiveBackStep DEF InTick
  <2> QED
    BY <1>1, <2>1, EndedTick, TicksKept DEF Leaves
<1>9. ASSUME NEW p \in Proc, RecordRaises(p) PROVE Goal
  <2>1. EndTick(p) /\ run' = run /\ tick[p].op # "run"
    BY <1>9 DEF RecordRaises
  <2> QED
    BY <1>1, <2>1, EndedTick, TicksKept DEF Leaves
<1>10. ASSUME NEW p \in Proc, RunEnds(p) PROVE Goal
  <2>1. PICK op \in {"record", "giveBack"} : tick' = [tick EXCEPT ![p].op = op]
    BY <1>10 DEF RunEnds, TickTo
  <2>2. PICK s \in TickState : s = tick[p]
    BY <1>1
  <2>3. PICK w : w = [s EXCEPT !.op = op]
    OBVIOUS
  <2>4. w \in TickState /\ w.run = s.run /\ w.op = op
    BY <2>3 DEF TickState, TickOps
  <2>5. tick' = [tick EXCEPT ![p] = w]
    BY <1>1, <2>1, <2>2, <2>3
  <2>6. /\ tick' \in [Proc -> TickState] /\ \A q \in Proc : q # p => tick'[q] = tick[q]
        /\ tick'[p].run = tick[p].run /\ tick'[p].op = op
    BY <1>1, <2>2, <2>4, <2>5
  <2>7. /\ RunsAge /\ tick[p].run \in Runs /\ ~run'[tick[p].run].live
        /\ \A t \in Runs : t # tick[p].run => run'[t] = run[t]
    BY <1>1, <1>10, RunEnded
  <2>8. WaitAt(p)'
    <3>1. Runs' = Runs /\ \A t \in Runs : run'[t].proc = run[t].proc
      BY <2>7 DEF RunsAge, Ages
    <3>2. WaitAt(p) /\ tick[p].op = "run"
      BY <1>1, <1>10 DEF RunEnds, InTick
    <3> QED
      BY <2>6, <2>7, <3>1, <3>2 DEF WaitAt, Awaiting
  <2>9. ASSUME NEW q \in Proc, q # p PROVE WaitAt(q)'
    <3>1. WaitAt(p) /\ WaitAt(q) /\ tick'[q] = tick[q]
      BY <1>1, <2>6, <2>9
    <3>2. tick[q].run # 0 => tick[q].run \in Runs /\ tick[q].run # tick[p].run
      BY <2>7, <2>9, <3>1, RunsAreSeq, <1>1 DEF WaitAt
    <3> QED
      BY <2>7, <3>1, <3>2, WaitsAsBefore
  <2> QED
    BY <2>6, <2>8, <2>9 DEF Leaves
<1>11. ASSUME NEW p \in Proc, Crash(p) PROVE Goal
  <2>1. tick' = [tick EXCEPT ![p] = NoTick]
    BY Zenon, <1>11 DEF Crash
  <2>2. NoTick \in TickState /\ NoTick.op = "none" /\ NoTick.run = 0
    BY DEF NoTick, TickState, TickOps
  <2>3. /\ tick' \in [Proc -> TickState] /\ \A q \in Proc : q # p => tick'[q] = tick[q]
        /\ tick'[p].run = 0 /\ tick'[p].op \notin Awaiting
    BY <1>1, <2>1, <2>2 DEF Awaiting
  <2>4. RunsAge /\ \A t \in Runs : run[t].proc # p => run'[t] = run[t]
    BY <1>1, <1>11, RunsDied
  <2>5. ASSUME NEW q \in Proc, q # p PROVE WaitAt(q)'
    <3>1. WaitAt(q) /\ tick'[q] = tick[q]
      BY <1>1, <2>3, <2>5
    <3>2. tick[q].run # 0 => tick[q].run \in Runs /\ run[tick[q].run].proc = q
      BY <3>1 DEF WaitAt
    <3> QED
      BY <2>4, <2>5, <3>1, <3>2, WaitsAsBefore
  <2> QED
    BY <1>11, <2>3, <2>5, WaitsForNone DEF Leaves
<1>12. ASSUME NEW k \in Runs, LeaseExpires(k) PROVE Goal
  <2>1. tick' = tick
    BY <1>12 DEF LeaseExpires
  <2>2. RunsAge /\ \A t \in Runs : (run'[t].live <=> run[t].live)
    BY <1>1, <1>12, LeaseLapsed
  <2>3. \A q \in Proc : tick[q].run # 0 => tick[q].run \in Runs
    BY <1>1 DEF WaitAt
  <2> QED
    BY <1>1, <2>1, <2>2, <2>3, WaitsAsBefore DEF Leaves
<1>13. ASSUME NEW j \in Job, OwnerStep(j) \/ SlotDue(j) PROVE Goal
  BY <1>2, <1>13, OwnerLeaves
<1>14. ASSUME UNCHANGED vars PROVE Goal
  BY <1>2, <1>14 DEF vars, jobVars
<1>15. Goal
  BY <1>4, <1>5, <1>6, <1>7, <1>8, <1>9, <1>10, <1>11, <1>12, <1>13, <1>14
  DEF Next, TickStep, Idle
<1> QED
  BY <1>15 DEF TicksAwait, WaitAt

LEMMA NextLiveAwaited ==
    ASSUME Inv, [Next]_vars
    PROVE  LiveAwaited'
<1>1. /\ TypeOK /\ LiveAwaited /\ \A t \in Runs : run[t] \in RunState
      /\ \A q \in Proc : WaitAt(q) /\ WaitAt(q)' /\ (Leaves(q) => tick[q].op # "run" \/ Crash(q))
  BY RunsAreSeq, NextTicks DEF Inv, TicksAwait, WaitAt
<1>2. ASSUME RunsAge, NEW t \in Runs, run'[t].live
      PROVE  tick'[run'[t].proc].run = t /\ ~run'[t].orphan
  <2>1. /\ run[t].live /\ run'[t].proc = run[t].proc /\ run[t].proc \in Proc
        /\ run'[t].orphan => run[t].orphan
    BY <1>1, <1>2 DEF RunsAge, Ages, RunState
  <2>2. tick[run[t].proc].run = t /\ ~run[t].orphan
    BY <1>1, <2>1 DEF LiveAwaited
  <2>3. tick[run[t].proc].op = "run"
    <3>1. t # 0
      BY <1>1, RunsAreSeq
    <3> QED
      BY <1>1, <2>1, <2>2, <3>1 DEF WaitAt
  <2>4. ~Crash(run[t].proc)
    <3> SUFFICES ASSUME Crash(run[t].proc) PROVE FALSE
      OBVIOUS
    <3>1. run'[t] = Dead(run[t])
      BY <1>1, <2>1, RunsDied
    <3>2. ~Dead(run[t]).live
      BY <1>1 DEF Dead, RunState
    <3> QED
      BY <1>2, <3>1, <3>2
  <2> QED
    BY <1>1, <2>1, <2>2, <2>3, <2>4 DEF Leaves
<1>3. CASE RunsAge
  BY <1>2, <1>3 DEF RunsAge, LiveAwaited
<1>4. ASSUME NEW p \in Proc, NEW j \in Job, NEW rest, Claims(p, j, rest) PROVE LiveAwaited'
  <2> DEFINE n == Len(run) + 1
  <2>1. /\ Runs' = Runs \cup {n} /\ run'[n] = NewRun(p, j) /\ n \in Nat /\ n > 0
        /\ \A t \in Runs : t < n /\ run'[t] = run[t]
    BY <1>1, <1>4, ClaimedRun, RunsAreSeq
  <2> HIDE DEF n
  <2>2. run'[n].proc = p /\ ~run'[n].orphan /\ run'[n].live
    BY <1>1, <2>1, NewRunTyped
  <2>3. /\ tick[p].op = "due" /\ tick'[p].run = n
        /\ \A q \in Proc : q # p => tick'[q] = tick[q]
    <3>1. PICK new : new = [op |-> "run", todo |-> rest, run |-> n]
      OBVIOUS
    <3>2. tick' = [tick EXCEPT ![p] = new] /\ tick[p].op = "due"
      BY <1>4, <3>1 DEF Claims, InTick, n
    <3> QED
      BY <1>1, <3>1, <3>2 DEF TypeOK
  <2>4. ASSUME NEW t \in Runs, run'[t].live
        PROVE  tick'[run'[t].proc].run = t /\ ~run'[t].orphan
    <3>1. run[t].live /\ run[t].proc \in Proc /\ t # 0
      BY <1>1, <2>1, <2>4, RunsAreSeq DEF RunState
    <3>2. tick[run[t].proc].run = t /\ ~run[t].orphan
      BY <1>1, <3>1 DEF LiveAwaited
    <3>3. run[t].proc # p
      BY <1>1, <2>3, <3>1, <3>2 DEF WaitAt, Awaiting
    <3> QED
      BY <2>1, <2>3, <3>1, <3>2, <3>3
  <2> QED
    BY <2>1, <2>2, <2>3, <2>4 DEF LiveAwaited
<1> QED
  BY <1>3, <1>4, RunsKept

-----------------------------------------------------------------------------
(* The runs and the rows of a step, side by side                           *)

LEMMA RunsGo ==
    ASSUME Inv, [Next]_vars
    PROVE  /\ Runs \subseteq Runs' /\ \A t \in Runs : Ages(run[t], run'[t])
           /\ \A t \in Runs' \ Runs :
                 /\ t \in Nat /\ \A u \in Runs' : u <= t
                 /\ \E p \in Proc, j \in Job : \E rest :
                       Claims(p, j, rest) /\ t = Len(run) + 1 /\ run'[t].job = j
<1>1. TypeOK /\ \A t \in Runs : run[t] \in RunState /\ t \in Nat
  BY RunsAreSeq DEF Inv
<1>2. CASE RunsAge
  BY <1>2 DEF RunsAge
<1>3. ASSUME NEW p \in Proc, NEW j \in Job, NEW rest, Claims(p, j, rest)
      PROVE  /\ Runs \subseteq Runs' /\ \A t \in Runs : Ages(run[t], run'[t])
             /\ \A t \in Runs' \ Runs :
                 /\ t \in Nat /\ \A u \in Runs' : u <= t
                 /\ t = Len(run) + 1 /\ run'[t].job = j
  <2>1. /\ Len(run) + 1 \in Nat /\ Runs' = Runs \cup {Len(run) + 1}
        /\ \A t \in Runs : t < Len(run) + 1 /\ run'[t] = run[t]
        /\ run'[Len(run) + 1] = NewRun(p, j) /\ NewRun(p, j).job = j
    BY <1>1, <1>3, ClaimedRun, NewRunTyped
  <2>2. \A t \in Runs : Ages(run[t], run'[t])
    BY <1>1, <2>1, AgesBy
  <2> QED
    BY <1>1, <2>1, <2>2
<1> QED
  BY <1>2, <1>3, RunsKept

LEMMA ClaimedRow ==
    ASSUME TypeOK, NEW p \in Proc, NEW j \in Job, NEW rest, Claims(p, j, rest)
    PROVE  /\ row[j].status = "scheduled"
           /\ row'[j].status = "running" /\ row'[j].claim = Len(run) + 1
           /\ \A k \in Job : k # j => row'[k] = row[k]
<1>1. PICK s \in Row : s = row[j]
  BY RowTyped
<1>2. PICK n : n = Len(run) + 1
  OBVIOUS
<1>3. PICK r : r = [s EXCEPT !.status = "running", !.claim = n]
  OBVIOUS
<1>4. row' = [row EXCEPT ![j] = r] /\ row[j].status = "scheduled" /\ row \in [Job -> Row]
  BY <1>1, <1>2, <1>3 DEF Claims, RowTo, Due, TypeOK
<1>5. r.status = "running" /\ r.claim = n
  BY <1>3 DEF Row
<1>6. row'[j].status = "running" /\ row'[j].claim = n
  BY <1>4, <1>5
<1> QED
  BY <1>2, <1>4, <1>6

LEMMA RowsGo ==
    ASSUME Inv, [Next]_vars
    PROVE  /\ row' \in [Job -> Row] /\ ousted \subseteq ousted' /\ ousted' \subseteq Run
           /\ \A j \in Job : row'[j] = row[j] \/ RowGoes(j, row'[j])
<1>1. row \in [Job -> Row]
  BY DEF Inv, TypeOK
<1>2. CASE row' = row
  BY <1>1, <1>2, RowWrites
<1>3. ASSUME NEW k \in Job, NEW r \in Row, RowTo(k, r), RowGoes(k, r)
      PROVE  /\ row' \in [Job -> Row]
             /\ \A j \in Job : row'[j] = row[j] \/ RowGoes(j, row'[j])
  BY <1>1, <1>3 DEF RowTo
<1> QED
  BY <1>2, <1>3, RowWrites

LEMMA NextNewest ==
    ASSUME Inv, [Next]_vars
    PROVE  NewestClaim'
<1>1. TypeOK /\ NewestClaim /\ row \in [Job -> Row] /\ \A t \in Runs : t \in Nat
  BY RunsAreSeq DEF Inv, TypeOK
<1>2. \A t \in Runs : t \in Runs' /\ run'[t].job = run[t].job
  BY RunsGo DEF Ages
<1>3. ASSUME NEW j \in Job, row'[j].status = "running"
      PROVE  /\ row'[j].claim \in Runs' /\ run'[row'[j].claim].job = j
             /\ \A u \in Runs' : run'[u].job = j => u <= row'[j].claim
  <2>1. CASE row[j].status = "running" /\ row'[j].claim = row[j].claim
    <3>1. /\ row'[j].claim \in Runs /\ run[row'[j].claim].job = j
          /\ \A u \in Runs : run[u].job = j => u <= row'[j].claim
      BY <1>1, <2>1 DEF NewestClaim
    <3>2. \A u \in Runs' \ Runs : run'[u].job # j
      BY <1>1, <2>1, RunsGo, ClaimedRow
    <3> QED
      BY <1>2, <3>1, <3>2
  <2>2. ASSUME NEW p \in Proc, NEW rest, Claims(p, j, rest)
        PROVE  /\ row'[j].claim \in Runs' /\ run'[row'[j].claim].job = j
               /\ \A u \in Runs' : run'[u].job = j => u <= row'[j].claim
    <3>1. /\ Runs' = Runs \cup {Len(run) + 1} /\ Len(run) + 1 \in Nat
          /\ \A t \in Runs : t < Len(run) + 1
          /\ run'[Len(run) + 1] = NewRun(p, j) /\ NewRun(p, j).job = j
      BY <1>1, <2>2, ClaimedRun, NewRunTyped
    <3>2. row'[j].claim = Len(run) + 1
      BY <1>1, <2>2, ClaimedRow
    <3> QED
      BY <1>1, <3>1, <3>2
  <2> QED
    BY <1>3, <2>1, <2>2, RowsGo DEF RowGoes
<1> QED
  BY <1>3 DEF NewestClaim

LEMMA NextLetGo ==
    ASSUME Inv, [Next]_vars, NEW t \in Runs, LetGo(t)
    PROVE  LetGo(t)'
BY RunsGo, RowsGo DEF LetGo, Ages

LEMMA NextLiveHeld ==
    ASSUME Inv, [Next]_vars
    PROVE  LiveHeld'
<1>1. TypeOK /\ LiveHeld /\ \A t \in Runs : run[t].job \in Job
  BY RunsAreSeq DEF Inv, RunState
<1>2. ASSUME NEW t \in Runs, run'[t].live
      PROVE  (LetGo(t) \/ Running(run[t].job, t) \/ row[run[t].job].status = "cancelled")'
  <2> DEFINE j == run[t].job
  <2>1. /\ run[t].live /\ run'[t].job = j /\ j \in Job
        /\ run[t].expired => run'[t].expired
    BY <1>1, <1>2, RunsGo DEF Ages
  <2> HIDE DEF j
  <2>2. LetGo(t) \/ Running(j, t) \/ row[j].status = "cancelled"
    BY <1>1, <2>1 DEF LiveHeld, j
  <2>3. CASE LetGo(t)
    BY <2>3, NextLetGo
  <2>4. CASE row[j].status = "cancelled"
    BY <2>1, <2>4, RowsGo DEF RowGoes
  <2>5. CASE Running(j, t) /\ row'[j] = row[j]
    BY <2>1, <2>5 DEF Running
  <2>6. CASE Running(j, t) /\ RowGoes(j, row'[j])
    <3>1. row[j].status = "running" /\ row[j].claim = t
      BY <2>6 DEF Running
    <3>2. \/ row'[j].status \in {"running", "cancelled"}
          \/ t \in ousted' \/ run'[t].expired
      BY <2>1, <2>6, <3>1 DEF RowGoes
    <3>3. row'[j].status = "running" => row'[j].claim = t
      BY <1>1, <2>1, <2>6, <3>1, ClaimedRow DEF RowGoes
    <3> QED
      BY <2>1, <3>2, <3>3 DEF LetGo, Running
  <2> QED
    BY <2>1, <2>2, <2>3, <2>4, <2>5, <2>6, RowsGo
<1>3. ASSUME NEW t \in Runs' \ Runs PROVE Running(run[t].job, t)'
  <2>1. PICK p \in Proc, j \in Job : \E rest :
              Claims(p, j, rest) /\ t = Len(run) + 1 /\ run'[t].job = j
    BY <1>3, RunsGo
  <2>2. row'[j].status = "running" /\ row'[j].claim = t
    BY <1>1, <2>1, ClaimedRow
  <2> QED
    BY <2>1, <2>2 DEF Running
<1> QED
  BY <1>2, <1>3 DEF LiveHeld

LEMMA NextLiveOutlived ==
    ASSUME Inv, [Next]_vars
    PROVE  LiveOutlived'
<1>1. TypeOK /\ LiveHeld /\ LiveOutlived /\ \A t \in Runs : t \in Nat
  BY RunsAreSeq DEF Inv
<1>2. SUFFICES ASSUME NEW t \in Runs', NEW u \in Runs', t < u, run'[t].live,
                      run'[t].job = run'[u].job
               PROVE  LetGo(t)'
  BY DEF LiveOutlived
<1>3. t \in Runs
  BY <1>1, <1>2, RunsGo
<1>4. run[t].live /\ run'[t].job = run[t].job
  BY <1>2, <1>3, RunsGo DEF Ages
<1>5. CASE u \in Runs
  BY <1>1, <1>2, <1>3, <1>4, <1>5, RunsGo, NextLetGo DEF Ages, LiveOutlived
<1>6. CASE u \notin Runs
  <2>1. row[run[t].job].status = "scheduled"
    <3>1. PICK p \in Proc, j \in Job : \E rest : Claims(p, j, rest) /\ run'[u].job = j
      BY <1>6, RunsGo
    <3>2. row[j].status = "scheduled"
      BY <1>1, <3>1, ClaimedRow
    <3> QED
      BY <1>2, <1>4, <3>1, <3>2
  <2> QED
    BY <1>1, <1>3, <1>4, <2>1, NextLetGo DEF LiveHeld, Running
<1> QED
  BY <1>5, <1>6

LEMMA NextInv == Inv /\ [Next]_vars => Inv'
<1> SUFFICES ASSUME Inv, [Next]_vars PROVE Inv'
  OBVIOUS
<1>1. NewestClaim' /\ \A j \in Job : row'[j].status = "running" => row'[j].claim \in Runs'
  BY NextNewest DEF NewestClaim
<1>2. TypeOK'
  BY <1>1, NextLockTyped, NextRuns, RowsGo, NextTicks, NextBounds DEF TypeOK
<1> QED
  BY <1>1, <1>2, NextTicks, NextLiveAwaited, NextLiveHeld, NextLiveOutlived DEF Inv

(* The invariant, of every reachable state.                                *)
THEOREM InvHolds == Spec => []Inv
<1> QED
  BY InitInv, NextInv, PTL DEF Spec

(* Every row, run and tick keeps its shape; a running row names its claim  *)
(* (cron_jobs and what scheduler.tick holds across its awaits).            *)
THEOREM JobsTyped == Spec => []TypeOK
<1>1. Inv => TypeOK
  BY DEF Inv
<1> QED
  BY <1>1, InvHolds, PTL

(* No job runs twice at a time, whoever holds the tick lock, unless the    *)
(* first run outlasted its lease or the owner paused it (claim_for_run,    *)
(* reclaim_stale_running and update_after_run of cron/jobs.py).            *)
THEOREM JobRunsOnce == Spec => []OneLiveRun
<1>1. Inv => OneLiveRun
  BY DEF Inv, LiveOutlived, LetGo, OneLiveRun
<1> QED
  BY <1>1, InvHolds, PTL

-----------------------------------------------------------------------------
(* Who writes a row, by what right, and with what.                         *)

Writes(j) ==
    \/ OwnerStep(j)
    \/ row[j].status = "scheduled" /\ RowTo(j, DueRow(j))
    \/ \E t : ~LeaseLive(t) /\ Running(j, t) /\ RowTo(j, Unclaimed(j, "scheduled"))
    \/ \E p \in Proc : \E rest : Claims(p, j, rest)
    \/ \E p \in Proc : \E t \in Runs :
          /\ tick[p].run = t /\ run[t].job = j /\ ~run[t].live /\ tick'[p].run = 0
          /\ \/ Running(j, t) /\ \E end \in Ends(t) : RowTo(j, AfterRun(j, t, end))
             \/ /\ row[j].status = "running" /\ Mine(p, j)
                /\ RowTo(j, Unclaimed(j, "scheduled"))

LEMMA RowWriters ==
    ASSUME Inv, [Next]_vars, NEW j \in Job, row'[j] # row[j]
    PROVE  Writes(j)
<1>1. TypeOK /\ TicksAwait /\ row \in [Job -> Row] /\ tick \in [Proc -> TickState]
      /\ \A t \in Runs : run[t].job \in Job
  BY RunsAreSeq DEF Inv, TypeOK, RunState
<1>2. ASSUME NEW k \in Job, NEW r, RowTo(k, r) PROVE k = j
  BY <1>1, <1>2 DEF RowTo
<1>3. ASSUME NEW k \in Job, OwnerStep(k) PROVE Writes(j)
  BY <1>2, <1>3, OwnerWrites DEF Writes
<1>4. ASSUME NEW k \in Job, SlotDue(k) PROVE Writes(j)
  <2>1. RowTo(k, DueRow(k)) /\ row[k].status = "scheduled"
    BY <1>4 DEF SlotDue, DueRow
  <2> QED
    BY <1>2, <2>1 DEF Writes
<1>5. ASSUME NEW p \in Proc, ReclaimRow(p) PROVE Writes(j)
  <2>1. PICK k \in Job : \E t : /\ ~LeaseLive(t) /\ Running(k, t)
                                /\ RowTo(k, Unclaimed(k, "scheduled"))
    BY <1>1, <1>5, ReclaimStep
  <2> QED
    BY <1>2, <2>1 DEF Writes
<1>6. ASSUME NEW p \in Proc, Claim(p) PROVE Writes(j)
  <2>1. PICK k \in Job : \E rest : Claims(p, k, rest)
    BY <1>1, <1>6, ClaimStep
  <2>2. k = j
    BY <1>1, <2>1, ClaimedRow
  <2> QED
    BY <2>1, <2>2 DEF Writes
<1>7. ASSUME NEW p \in Proc, Record(p) PROVE Writes(j)
  <2> DEFINE t == tick[p].run
             k == run[t].job
  <2>1. /\ tick[p].op = "record" /\ tick' = [tick EXCEPT ![p].op = "due", ![p].run = 0]
        /\ Running(k, t) /\ \E end \in Ends(t) : RowTo(k, AfterRun(k, t, end))
    BY <1>7, RecordStep DEF InTick
  <2>2. t \in Runs /\ ~run[t].live
    BY <1>1, <2>1 DEF TicksAwait, Awaiting
  <2>3. tick'[p].run = 0
    BY <1>1, <2>1 DEF TickState
  <2>4. k = j
    BY <1>1, <1>2, <2>1, <2>2
  <2> HIDE DEF t
  <2> QED
    BY <2>1, <2>2, <2>3, <2>4 DEF Writes, t
<1>8. ASSUME NEW p \in Proc, GiveBack(p) PROVE Writes(j)
  <2> DEFINE t == tick[p].run
             k == run[t].job
  <2>1. /\ tick[p].op = "giveBack" /\ EndTick(p)
        /\ row[k].status = "running" /\ Mine(p, k) /\ RowTo(k, Unclaimed(k, "scheduled"))
    BY <1>8, GiveBackStep DEF InTick
  <2>2. t \in Runs /\ ~run[t].live
    BY <1>1, <2>1 DEF TicksAwait, Awaiting
  <2>3. tick'[p].run = 0
    BY <1>1, <2>1, EndedTick
  <2>4. k = j
    BY <1>1, <1>2, <2>1, <2>2
  <2> QED
    BY <2>1, <2>2, <2>3, <2>4 DEF Writes
<1>9. ASSUME NEW p \in Proc, Idle(p) PROVE FALSE
  BY <1>1, <1>9, IdleStep
<1>10. ASSUME NEW p \in Proc, RecordRaises(p) \/ RunEnds(p) \/ Crash(p) PROVE FALSE
  BY Zenon, <1>10 DEF RecordRaises, RunEnds, Crash
<1>11. ASSUME NEW t \in Runs, LeaseExpires(t) PROVE FALSE
  BY <1>11 DEF LeaseExpires
<1>12. ASSUME UNCHANGED vars PROVE FALSE
  BY <1>12 DEF vars, jobVars
<1> QED
  BY <1>3, <1>4, <1>5, <1>6, <1>7, <1>8, <1>9, <1>10, <1>11, <1>12 DEF Next, TickStep, Idle

(* A row that the owner paused or cancelled, or that is done, is left      *)
(* alone by every end of a run, every reclaim and every claim.             *)
THEOREM OwnerStopsForGood == Spec => StoppedStays
<1>1. Inv /\ [Next]_vars
        => \A j \in Job : row[j].status \in {"paused", "cancelled", "done", "failed"}
                         /\ row'[j].status # row[j].status => OwnerStep(j)
  BY RowWriters, ClaimedRow DEF Writes, Running, Inv
<1> QED
  BY <1>1, InvHolds, PTL DEF Spec, StoppedStays

(* The claim on a running row goes with the tick that awaits its run, with *)
(* a lease that is not live, or with the owner: a tick that gives back     *)
(* "its" row by process gives back the claim it awaits.                    *)
THEOREM OnlyItsTickEndsAClaim == Spec => ClaimEndsItself
<1>1. Inv /\ [Next]_vars
        => \A j \in Job : row[j].status = "running" /\ row'[j].claim # row[j].claim =>
             LET t == row[j].claim IN
                \/ ~LeaseLive(t)
                \/ OwnerStep(j)
                \/ tick[run[t].proc].run = t /\ tick'[run[t].proc].run # t
  <2> SUFFICES ASSUME Inv, [Next]_vars, NEW j \in Job, row[j].status = "running",
                      row'[j].claim # row[j].claim, LeaseLive(row[j].claim), ~OwnerStep(j)
               PROVE  LET t == row[j].claim
                      IN  tick[run[t].proc].run = t /\ tick'[run[t].proc].run # t
    BY Zenon
  <2>1. TypeOK /\ TicksAwait /\ NewestClaim /\ \A t \in Runs : t \in Nat /\ t # 0
    BY RunsAreSeq DEF Inv
  <2>2. PICK p \in Proc, t \in Runs :
          /\ tick[p].run = t /\ run[t].job = j /\ tick'[p].run = 0
          /\ Running(j, t) \/ Mine(p, j)
    BY <2>1, RowWriters, ClaimedRow DEF Writes, Running
  <2>3. run[t].proc = p /\ \A u \in Runs : run[u].proc = p => u <= t
    BY <2>1, <2>2 DEF TicksAwait
  <2>4. /\ row[j].claim \in Runs /\ t <= row[j].claim
    BY <2>1, <2>2 DEF NewestClaim
  <2>5. row[j].claim = t
    BY <2>1, <2>2, <2>3, <2>4 DEF Running, Mine
  <2> QED
    BY <2>1, <2>2, <2>3, <2>5
<1> QED
  BY <1>1, InvHolds, PTL DEF Spec, ClaimEndsItself

(* A next_run_at the owner set while a run was going on outlives that run: *)
(* update_after_run moves only the slot its run was claimed at.            *)
THEOREM OnlyItsRunUsesASlot == Spec => SlotUsedByItsRun
<1>1. Inv /\ [Next]_vars
        => \A j \in Job : row'[j].slot # row[j].slot =>
             \/ OwnerStep(j)
             \/ \E p \in Proc : LET t == tick[p].run IN
                   t # 0 /\ run[t].job = j /\ run[t].slot = row[j].slot /\ ~run[t].live
  <2> SUFFICES ASSUME Inv, [Next]_vars, NEW j \in Job, row'[j].slot # row[j].slot, ~OwnerStep(j)
               PROVE  \E p \in Proc : LET t == tick[p].run IN
                         t # 0 /\ run[t].job = j /\ run[t].slot = row[j].slot /\ ~run[t].live
    BY Zenon
  <2>1. /\ TypeOK /\ TicksAwait /\ row \in [Job -> Row] /\ row[j] \in Row
        /\ \A t \in Runs : t # 0
    BY RunsAreSeq DEF Inv, TypeOK
  <2>2. \A r : RowTo(j, r) => row'[j] = r
    BY <2>1 DEF RowTo
  <2>3. ~RowTo(j, Unclaimed(j, "scheduled"))
    BY <2>1, <2>2, UnclaimedRow DEF Status
  <2>4. ~RowTo(j, DueRow(j))
    BY <2>1, <2>2 DEF DueRow, Row
  <2>5. ASSUME NEW p \in Proc, NEW rest, Claims(p, j, rest) PROVE FALSE
    <3>1. PICK s \in Row : s = row[j]
      BY <2>1
    <3>2. PICK n : n = Len(run) + 1
      OBVIOUS
    <3>3. PICK r : r = [s EXCEPT !.status = "running", !.claim = n]
      OBVIOUS
    <3>4. RowTo(j, r)
      BY <2>5, <3>1, <3>2, <3>3 DEF Claims
    <3> QED
      BY <2>2, <3>1, <3>3, <3>4 DEF Row
  <2>6. PICK p \in Proc, t \in Runs :
          /\ tick[p].run = t /\ run[t].job = j /\ ~run[t].live
          /\ \E end \in Ends(t) : RowTo(j, AfterRun(j, t, end))
    BY <2>3, <2>4, <2>5, RowWriters DEF Writes
  <2>7. row[j].slot = run[t].slot
    BY <2>1, <2>2, <2>6, AfterRunRow
  <2> QED
    BY <2>1, <2>6, <2>7
<1> QED
  BY <1>1, InvHolds, PTL DEF Spec, SlotUsedByItsRun
=============================================================================
