------------------------------ MODULE GoalDeps ------------------------------
(***************************************************************************)
(* Prerequisites between goals: goals.db::goal_edges and the paths that    *)
(* move a goal when one of its prerequisites moves - the creation of a     *)
(* goal, the completion sweep, the dep_failed cascade, the reconciliation  *)
(* of waiting rows and the owner's verbs on such goals.                    *)
(*                                                                         *)
(* Sources: agents/task/goals/board_deps.py, agents/task/goals/board.py,   *)
(* core/goal_owner_verbs.py.                                               *)
(*                                                                         *)
(* Every one of these is a sequence of separate SQLite statements, run by  *)
(* calls of several processes at a time; each statement here is one step,  *)
(* and a call may die between any two of them.                             *)
(*                                                                         *)
(* Abstractions.                                                           *)
(*  - GoalClaims has claims, leases and the failure count: here a running  *)
(*    goal ends in one of the ways a run or the reclaim sweep ends it, and *)
(*    spent says consecutive_failures >= max_retries.                      *)
(*  - kind is payload.block_kind; every kind but dep_failed is none.       *)
(*  - create reads its prerequisites one by one, a resume too: here each   *)
(*    is one read.                                                         *)
(*  - reconcile_waiting reads at most 50 rows a sweep: instances are       *)
(*    smaller than that.                                                   *)
(*  - Tenants, asks and triage goals are left out.                         *)
(***************************************************************************)
EXTENDS Naturals, FiniteSets

CONSTANTS
    Goal,       \* goal ids
    Call,       \* concurrent calls into the board
    NoGoal,     \* the goal of an idle call
    DependsOn,  \* the depends_on each goal is created with
    MaxIncidents  \* bound of the model: verbs of the owner and calls that die half-way

ASSUME GoalDepsAssumption ==
    /\ NoGoal \notin Goal
    /\ DependsOn \in [Goal -> SUBSET Goal]
    /\ MaxIncidents \in Nat

Status == {"absent", "waiting", "ready", "running", "blocked", "paused", "done", "cancelled"}

Terminal == {"done", "cancelled"}

(* kind: payload.block_kind *)
Row == [status : Status, kind : {"none", "dep_failed"}, spent : BOOLEAN]

(* op: what the call does next.  goal: the goal it was made for; on: the   *)
(* row its last read was about; todo: rows (or edges) still to visit; to:  *)
(* the status its read decided on.                                         *)
CallState == [op   : {"idle", "insert", "edges", "list", "sweep", "flip", "revive",
                      "cascading", "cascade", "reconcile", "move"},
              goal : Goal \cup {NoGoal},
              on   : Goal \cup {NoGoal},
              todo : SUBSET Goal,
              to   : Status]

Idle == [op |-> "idle", goal |-> NoGoal, on |-> NoGoal, todo |-> {}, to |-> "absent"]

VARIABLES
    row,        \* the goals table
    edges,      \* goal_edges: <<goal, prerequisite>>
    call,       \* the calls in progress
    incidents,  \* verbs the owner gave and calls that died
    forced,     \* history: goals the owner put back in service himself
    torn        \* history: goals judged without all their edges

vars == <<row, edges, call, incidents, forced, torn>>
history == <<forced, torn>>

-----------------------------------------------------------------------------
Present == {g \in Goal : row[g].status # "absent"}

Prerequisites(g) == {d \in Goal : <<g, d>> \in edges}

Dependents(d) == {g \in Goal : <<g, d>> \in edges}

(* A fresh join of the edges with the status of their prerequisites. *)
DepsSatisfied(g) == \A d \in Prerequisites(g) : row[d].status = "done"

(* It can never reach done by itself: cancelled, or its breaker tripped. *)
Dead(d) == row[d].status = "cancelled" \/ (row[d].status = "blocked" /\ row[d].spent)

Torn(g) == IF Prerequisites(g) # DependsOn[g] THEN torn \cup {g} ELSE torn

Set(g, status) == row' = [row EXCEPT ![g].status = status]

(* The owner gives a verb, or a call dies. *)
Incident == incidents < MaxIncidents /\ incidents' = incidents + 1

Idles(c) == call' = [call EXCEPT ![c] = Idle]

(* The call has visited h. *)
Visited(c, h) == call' = [call EXCEPT ![c].todo = @ \ {h}]

-----------------------------------------------------------------------------
Init ==
    /\ row = [g \in Goal |-> [status |-> "absent", kind |-> "none", spent |-> FALSE]]
    /\ edges = {}
    /\ call = [c \in Call |-> Idle]
    /\ incidents = 0
    /\ forced = {}
    /\ torn = {}

-----------------------------------------------------------------------------
(* create: read the prerequisites, insert the row, insert the edges *)

CreateRead(c, g) ==
    /\ call[c].op = "idle" /\ row[g].status = "absent" /\ DependsOn[g] \subseteq Present
    /\ \A b \in Call : call[b].op = "insert" => call[b].goal # g
    /\ call' = [call EXCEPT ![c] =
          [op |-> "insert", goal |-> g, on |-> NoGoal, todo |-> DependsOn[g],
           to |-> IF \E d \in DependsOn[g] : Dead(d) THEN "blocked"
                  ELSE IF \E d \in DependsOn[g] : row[d].status # "done" THEN "waiting"
                  ELSE "ready"]]
    /\ UNCHANGED <<row, edges, incidents, history>>

(* No edges are written when every prerequisite is already done. *)
CreateInsert(c) ==
    /\ call[c].op = "insert"
    /\ LET g == call[c].goal IN
          row' = [row EXCEPT ![g].status = call[c].to,
                             ![g].kind = IF call[c].to = "blocked" THEN "dep_failed" ELSE "none"]
    /\ IF call[c].to = "ready" THEN Idles(c) ELSE call' = [call EXCEPT ![c].op = "edges", ![c].to = "absent"]
    /\ UNCHANGED <<edges, incidents, history>>

CreateEdge(c) ==
    /\ call[c].op = "edges"
    /\ \E d \in call[c].todo :
          /\ edges' = edges \cup {<<call[c].goal, d>>}
          /\ IF call[c].todo = {d} THEN Idles(c) ELSE Visited(c, d)
    /\ UNCHANGED <<row, incidents, history>>

-----------------------------------------------------------------------------
(* A goal is run *)

Claim(g) ==
    /\ row[g].status = "ready"
    /\ Set(g, "running")
    /\ UNCHANGED <<edges, call, incidents, history>>

(* The run is held, deferred, requeued or fails with budget left. *)
Requeue(g) ==
    /\ row[g].status = "running"
    /\ Set(g, "ready")
    /\ UNCHANGED <<edges, call, incidents, history>>

(* block_from_ready: the run declared that retrying will not help. *)
BlockFromReady(g) ==
    /\ row[g].status = "ready"
    /\ Set(g, "blocked")
    /\ UNCHANGED <<edges, call, incidents, history>>

(* age_out_blocked requeues a goal its provider's outage had blocked. *)
ProviderRetry(g) ==
    /\ row[g].status = "blocked" /\ row[g].kind # "dep_failed"
    /\ row' = [row EXCEPT ![g].status = "ready", ![g].spent = FALSE]
    /\ UNCHANGED <<edges, call, incidents, history>>

(* record_success, then the completion sweep. *)
Complete(c, g) ==
    /\ call[c].op = "idle" /\ row[g].status = "running"
    /\ row' = [row EXCEPT ![g].status = "done", ![g].spent = FALSE]
    /\ call' = [call EXCEPT ![c] = [Idle EXCEPT !.op = "list", !.goal = g]]
    /\ UNCHANGED <<edges, incidents, history>>

(* record_failure or reclaim_stale trips the breaker, then cascades.  A    *)
(* block_kind the row still carries stays: stamps are only_if_absent.      *)
Trip(c, g) ==
    /\ call[c].op = "idle" /\ row[g].status = "running"
    /\ row' = [row EXCEPT ![g].status = "blocked", ![g].spent = TRUE]
    /\ call' = [call EXCEPT ![c] = [Idle EXCEPT !.op = "cascading", !.goal = g]]
    /\ UNCHANGED <<edges, incidents, history>>

(* The owner cancels the goal, or age_out_blocked does. *)
Cancel(c, g) ==
    /\ Incident
    /\ call[c].op = "idle" /\ row[g].status \notin Terminal \cup {"absent"}
    /\ Set(g, "cancelled")
    /\ call' = [call EXCEPT ![c] = [Idle EXCEPT !.op = "cascading", !.goal = g]]
    /\ UNCHANGED <<edges, history>>

-----------------------------------------------------------------------------
(* _sweep_dependents_on_completion *)

SweepList(c) ==
    /\ call[c].op = "list"
    /\ call' = [call EXCEPT ![c] = [Idle EXCEPT !.op = "sweep", !.todo = Dependents(call[c].goal)]]
    /\ UNCHANGED <<row, edges, incidents, history>>

(* Variant of SweepCheck: trusts that the completed goal was the last one. *)
SweepUnchecked(c) ==
    /\ call[c].op = "sweep"
    /\ \E h \in call[c].todo : call' = [call EXCEPT ![c].op = "flip", ![c].on = h]
    /\ UNCHANGED <<row, edges, incidents, history>>

SweepCheck(c) ==
    /\ call[c].op = "sweep"
    /\ \E h \in call[c].todo :
          IF DepsSatisfied(h)
          THEN /\ call' = [call EXCEPT ![c].op = "flip", ![c].on = h]
               /\ torn' = Torn(h)
          ELSE Visited(c, h) /\ UNCHANGED torn
    /\ UNCHANGED <<row, edges, incidents, forced>>

(* waiting -> ready; a miss goes on to the dep_failed revival. *)
SweepFlip(c) ==
    /\ call[c].op = "flip"
    /\ LET h == call[c].on IN
       IF row[h].status = "waiting"
       THEN /\ Set(h, "ready")
            /\ call' = [call EXCEPT ![c].op = "sweep", ![c].on = NoGoal, ![c].todo = @ \ {h}]
       ELSE /\ call' = [call EXCEPT ![c].op = "revive"]
            /\ UNCHANGED row
    /\ UNCHANGED <<edges, incidents, history>>

SweepRevive(c) ==
    /\ call[c].op = "revive"
    /\ LET h == call[c].on IN
          /\ row' = IF row[h].status = "blocked" /\ row[h].kind = "dep_failed"
                    THEN [row EXCEPT ![h].status = "ready", ![h].kind = "none"] ELSE row
          /\ call' = [call EXCEPT ![c].op = "sweep", ![c].on = NoGoal, ![c].todo = @ \ {h}]
    /\ UNCHANGED <<edges, incidents, history>>

-----------------------------------------------------------------------------
(* _cascade_dep_failed *)

CascadeList(c) ==
    /\ call[c].op = "cascading"
    /\ call' = [call EXCEPT ![c] = [Idle EXCEPT !.op = "cascade", !.todo = Dependents(call[c].goal)]]
    /\ UNCHANGED <<row, edges, incidents, history>>

(* Variant of FailDependent: the block kind lands in the status column. *)
FailDependentStatus(h) ==
    row' = IF row[h].status = "waiting" THEN [row EXCEPT ![h].status = "dep_failed"] ELSE row

FailDependent(h) ==
    row' = IF row[h].status = "waiting"
           THEN [row EXCEPT ![h].status = "blocked", ![h].kind = "dep_failed"] ELSE row

CascadeRow(c) ==
    /\ call[c].op = "cascade"
    /\ \E h \in call[c].todo : FailDependent(h) /\ Visited(c, h)
    /\ UNCHANGED <<edges, incidents, history>>

-----------------------------------------------------------------------------
(* reconcile_waiting, once per tick *)

Reconcile(c) ==
    /\ call[c].op = "idle"
    /\ call' = [call EXCEPT ![c] = [Idle EXCEPT !.op = "reconcile",
                                        !.todo = {g \in Goal : row[g].status = "waiting"}]]
    /\ UNCHANGED <<row, edges, incidents, history>>

(* Variant of ReconcileCheck: without the dead-prerequisite half. *)
ReconcileDoneOnly(c) ==
    /\ call[c].op = "reconcile"
    /\ \E h \in call[c].todo :
          IF DepsSatisfied(h)
          THEN /\ call' = [call EXCEPT ![c].op = "move", ![c].on = h, ![c].to = "ready"]
               /\ torn' = Torn(h)
          ELSE Visited(c, h) /\ UNCHANGED torn
    /\ UNCHANGED <<row, edges, incidents, forced>>

ReconcileCheck(c) ==
    /\ call[c].op = "reconcile"
    /\ \E h \in call[c].todo :
          \/ /\ DepsSatisfied(h)
             /\ call' = [call EXCEPT ![c].op = "move", ![c].on = h, ![c].to = "ready"]
             /\ torn' = Torn(h)
          \/ /\ ~DepsSatisfied(h) /\ \E d \in Prerequisites(h) : Dead(d)
             /\ call' = [call EXCEPT ![c].op = "move", ![c].on = h, ![c].to = "blocked"]
             /\ UNCHANGED torn
          \/ /\ ~DepsSatisfied(h) /\ \A d \in Prerequisites(h) : ~Dead(d)
             /\ Visited(c, h)
             /\ UNCHANGED torn
    /\ UNCHANGED <<row, edges, incidents, forced>>

(* Variant of ReconcileMove: a status the read no longer vouches for. *)
ReconcileUnguarded(c) ==
    /\ call[c].op = "move" /\ call[c].goal = NoGoal
    /\ LET h == call[c].on IN
          /\ row' = IF call[c].to = "ready" THEN [row EXCEPT ![h].status = "ready"]
                    ELSE [row EXCEPT ![h].status = "blocked", ![h].kind = "dep_failed"]
          /\ call' = [call EXCEPT ![c] = [Idle EXCEPT !.op = "reconcile", !.todo = call[c].todo \ {h}]]
    /\ UNCHANGED <<edges, incidents, history>>

ReconcileMove(c) ==
    /\ call[c].op = "move" /\ call[c].goal = NoGoal
    /\ LET h == call[c].on IN
          /\ IF call[c].to = "ready"
             THEN row' = IF row[h].status = "waiting"
                         THEN [row EXCEPT ![h].status = "ready"] ELSE row
             ELSE FailDependent(h)
          /\ call' = [call EXCEPT ![c] = [Idle EXCEPT !.op = "reconcile", !.todo = call[c].todo \ {h}]]
    /\ UNCHANGED <<edges, incidents, history>>

-----------------------------------------------------------------------------
(* The owner *)

Pause(g) ==
    /\ Incident
    /\ row[g].status \in {"waiting", "ready", "running", "blocked"}
    /\ Set(g, "paused")
    /\ UNCHANGED <<edges, call, history>>

(* unblock: the owner overrides the prerequisites. *)
Unblock(g) ==
    /\ Incident
    /\ row[g].status = "blocked"
    /\ row' = [row EXCEPT ![g] = [status |-> "ready", kind |-> "none", spent |-> FALSE]]
    /\ forced' = forced \cup {g}
    /\ UNCHANGED <<edges, call, torn>>

(* /goal retry of a blocked goal. *)
Retry(g) ==
    /\ Incident
    /\ row[g].status = "blocked"
    /\ row' = [row EXCEPT ![g].status = "ready", ![g].spent = FALSE]
    /\ forced' = forced \cup {g}
    /\ UNCHANGED <<edges, call, torn>>

(* /goal retry of a paused goal: reads what it still waits for, then moves *)
(* it if it is still paused.  A read of the edges that raises is taken for *)
(* no prerequisites.                                                       *)
ResumeRead(c, g) ==
    /\ call[c].op = "idle" /\ row[g].status = "paused"
    /\ \E raised \in BOOLEAN :
          /\ call' = [call EXCEPT ![c] = [Idle EXCEPT !.op = "move", !.goal = g, !.on = g,
                         !.to = IF raised \/ DepsSatisfied(g) THEN "ready" ELSE "waiting"]]
          /\ torn' = IF raised THEN torn \cup {g} ELSE Torn(g)
    /\ UNCHANGED <<row, edges, incidents, forced>>

ResumeMove(c) ==
    /\ call[c].op = "move" /\ call[c].goal \in Goal
    /\ row' = IF row[call[c].on].status = "paused"
              THEN [row EXCEPT ![call[c].on].status = call[c].to, ![call[c].on].spent = FALSE]
              ELSE row
    /\ Idles(c)
    /\ UNCHANGED <<edges, incidents, history>>

-----------------------------------------------------------------------------
CallDone(c) ==
    /\ call[c].op \in {"sweep", "cascade", "reconcile"} /\ call[c].todo = {}
    /\ Idles(c)
    /\ UNCHANGED <<row, edges, incidents, history>>

(* The process of the call dies, or the statement raises. *)
Die(c) ==
    /\ call[c].op # "idle" /\ Incident
    /\ Idles(c)
    /\ UNCHANGED <<row, edges, history>>

CallStep(c) ==
    \/ CreateInsert(c) \/ CreateEdge(c)
    \/ SweepList(c) \/ SweepCheck(c) \/ SweepFlip(c) \/ SweepRevive(c)
    \/ CascadeList(c) \/ CascadeRow(c)
    \/ ReconcileCheck(c) \/ ReconcileMove(c) \/ ResumeMove(c) \/ CallDone(c)

Next ==
    \/ \E c \in Call : CallStep(c) \/ Reconcile(c) \/ Die(c)
    \/ \E c \in Call, g \in Goal : \/ CreateRead(c, g) \/ Complete(c, g) \/ Trip(c, g)
                                   \/ Cancel(c, g) \/ ResumeRead(c, g)
    \/ \E g \in Goal : Claim(g) \/ Requeue(g) \/ Pause(g) \/ Unblock(g) \/ Retry(g)
                    \/ BlockFromReady(g) \/ ProviderRetry(g)

Spec == Init /\ [][Next]_vars

(* A call that has begun goes on, and the ticker calls reconcile_waiting   *)
(* again and again, however busy the board is.                             *)
FairSpec ==
    /\ Spec
    /\ \A c \in Call : WF_vars(CallStep(c)) /\ SF_vars(Reconcile(c))

-----------------------------------------------------------------------------
TypeOK ==
    /\ row \in [Goal -> Row]
    /\ edges \subseteq Goal \X Goal
    /\ call \in [Call -> CallState]
    /\ incidents \in 0..MaxIncidents
    /\ forced \subseteq Goal /\ torn \subseteq Goal

Served == {"ready", "running"}

(* A goal is served only when everything it depends on is done, unless the *)
(* owner put it back himself or a path judged it without its edges (its    *)
(* creation was still writing them, or the read raised): two sweeps, the   *)
(* reconciliation and a resume never serve it early between them.          *)
PrerequisitesFirst ==
    \A g \in Goal \ (forced \cup torn) :
        row[g].status \in Served => \A d \in DependsOn[g] : row[d].status = "done"

(* board.py: a waiting goal flips to ready only when every prerequisite    *)
(* lands done - for every goal the owner did not put back himself.         *)
PrerequisitesAlwaysFirst ==
    \A g \in Goal \ forced :
        row[g].status \in Served => \A d \in DependsOn[g] : row[d].status = "done"

(* board.py record_failure: the breaker stops a goal that used up its      *)
(* retries, until the owner gives it a fresh budget.                       *)
ServedWithBudget == \A g \in Goal : row[g].status \in Served => ~row[g].spent

(* Only the owner takes a goal out of his hold. *)
PausedByOwner ==
    [][\A g \in Goal :
          row[g].status = "paused" /\ row'[g].status # "paused" =>
              row'[g].status = "cancelled" \/ \E c \in Call : call[c].goal = g /\ ResumeMove(c)]_vars

(* A waiting row that nothing will move any more: all it waits for is done *)
(* or some of it is dead.                                                  *)
Stranded(g) ==
    /\ row[g].status = "waiting"
    /\ DepsSatisfied(g) \/ \E d \in Prerequisites(g) : Dead(d)

(* No row stays stranded, also when the call that should have moved it     *)
(* died between its two statements or raced with a pause.  (Only goals     *)
(* that are created with prerequisites ever wait.)                         *)
StrandedRecovers ==
    \A g \in {h \in Goal : DependsOn[h] # {}} : Stranded(g) ~> ~Stranded(g)
=============================================================================
