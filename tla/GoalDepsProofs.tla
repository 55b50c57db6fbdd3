--------------------------- MODULE GoalDepsProofs ---------------------------
(* Theorems about GoalDeps, for every set of goals, every prerequisite     *)
(* relation between them and any number of concurrent calls.               *)
EXTENDS GoalDeps, TLAPS

USE GoalDepsAssumption

DepsDone(g) == \A d \in DependsOn[g] : row[d].status = "done"

(* What justifies serving g. *)
Vouched(g) == g \in forced \/ g \in torn \/ DepsDone(g)

(* A row in this shape is served, or may come back to service without any  *)
(* further look at its prerequisites: a run that tripped the breaker or    *)
(* declared itself blocked is requeued when the provider is back.          *)
Serves(r) == r.status \in Served \/ (r.status = "blocked" /\ r.kind = "none")

(* What the state of a call says about the board: the reads it has made    *)
(* still hold when it acts on them, because done is final, the edges of a  *)
(* judged goal are complete unless it is torn, and no other call creates   *)
(* the same goal.                                                          *)
CallHolds(s) ==
    /\ s.op = "insert" => /\ s.goal \in Goal
                          /\ row[s.goal].status = "absent"
                          /\ s.to \in {"ready", "waiting", "blocked"}
                          /\ s.to = "ready" => DepsDone(s.goal)
    /\ s.op = "edges" => s.goal \in Goal
    /\ s.op \in {"flip", "revive"} => s.on \in Goal /\ Vouched(s.on)
    /\ s.op = "reconcile" => s.goal = NoGoal
    /\ s.op = "move" => /\ s.on \in Goal
                        /\ s.to = "ready" => Vouched(s.on)
                        /\ s.goal \in Goal => s.goal = s.on /\ s.to \in {"ready", "waiting"}

SoleCreator ==
    \A b, c \in Call :
        call[b].op = "insert" /\ call[c].op = "insert" /\ call[b].goal = call[c].goal => b = c

(* The inductive invariant behind TypeOK and PrerequisitesFirst. *)
Inv ==
    /\ TypeOK
    /\ \A g \in Goal : Serves(row[g]) => Vouched(g)
    /\ \A c \in Call : CallHolds(call[c])
    /\ SoleCreator

(* Every step writes at most one row, in the way Writes describes. *)
Justified(g) == g \in forced' \/ g \in torn' \/ DepsDone(g)

Writes(g, new) ==
    /\ new \in Row
    /\ row' = [row EXCEPT ![g] = new]
    /\ row[g].status # "done"
    /\ new.status # "absent"
    /\ Serves(new) => Justified(g)
    /\ row[g].status = "absent" =>
          \E c \in Call : /\ call[c].op = "insert" /\ call[c].goal = g
                          /\ call'[c].op # "insert"

RowStep == row' = row \/ \E g \in Goal, new \in Row : Writes(g, new)

(* Every step changes at most one call, in the way Calls describes. *)
Calls(c, new) ==
    /\ new \in CallState
    /\ call' = [call EXCEPT ![c] = new]
    /\ new.op = "insert" => /\ row' = row
                            /\ CallHolds(new)
                            /\ \A b \in Call : call[b].op = "insert" => call[b].goal # new.goal
    /\ new.op = "edges" => new.goal \in Goal
    /\ new.op \in {"flip", "revive"} => new.on \in Goal /\ Justified(new.on)
    /\ new.op = "reconcile" => new.goal = NoGoal
    /\ new.op = "move" => /\ new.on \in Goal
                          /\ new.to = "ready" => Justified(new.on)
                          /\ new.goal \in Goal =>
                                new.goal = new.on /\ new.to \in {"ready", "waiting"}

CallsStep == call' = call \/ \E c \in Call, new \in CallState : Calls(c, new)

HistoryGrows == forced \subseteq forced' /\ torn \subseteq torn' /\ forced' \subseteq Goal /\ torn' \subseteq Goal

Step == RowStep /\ CallsStep /\ HistoryGrows /\ edges' \subseteq Goal \X Goal
        /\ incidents' \in 0..MaxIncidents

-----------------------------------------------------------------------------
THEOREM InitInv == Init => Inv
<1> SUFFICES ASSUME Init PROVE Inv
  OBVIOUS
<1>1. row \in [Goal -> Row]
  BY DEF Init, Row, Status
<1>2. call \in [Call -> CallState]
  BY DEF Init, CallState, Idle, Status
<1>3. incidents \in 0..MaxIncidents
  BY SMT DEF Init
<1>4. edges \subseteq Goal \X Goal /\ forced \subseteq Goal /\ torn \subseteq Goal
  BY DEF Init
<1>5. \A g \in Goal : ~Serves(row[g])
  BY DEF Init, Serves, Served
<1>6. SoleCreator /\ \A c \in Call : CallHolds(call[c])
  BY DEF Init, Idle, SoleCreator, CallHolds
<1> QED
  BY <1>1, <1>2, <1>3, <1>4, <1>5, <1>6 DEF Inv, TypeOK

(* A step of that shape keeps the invariant. *)
LEMMA StepKeepsInv == ASSUME Inv, Step PROVE Inv'
<1>1. row' \in [Goal -> Row] /\ call' \in [Call -> CallState]
  BY DEF Inv, TypeOK, Step, RowStep, Writes, CallsStep, Calls
<1>2. TypeOK'
  BY <1>1 DEF Inv, TypeOK, Step, HistoryGrows
<1>3. \A g \in Goal : row[g].status = "done" => row'[g].status = "done"
  BY DEF Inv, TypeOK, Step, RowStep, Writes
<1>4. \A g \in Goal : DependsOn[g] \subseteq Goal
  OBVIOUS
<1>5. \A g \in Goal : (DepsDone(g) => DepsDone(g)') /\ (Justified(g) => Vouched(g)')
                       /\ (Vouched(g) => Vouched(g)')
  BY <1>3, <1>4 DEF DepsDone, Justified, Vouched, Step, HistoryGrows
<1>6. ASSUME NEW g \in Goal, Serves(row'[g]) PROVE Vouched(g)'
  <2>1. CASE row'[g] = row[g]
    BY <1>5, <1>6, <2>1 DEF Inv
  <2>2. ASSUME NEW h \in Goal, NEW new \in Row, Writes(h, new), row'[g] # row[g]
        PROVE  Vouched(g)'
    <3>1. g = h /\ row'[g] = new
      BY <2>2 DEF Writes, Inv, TypeOK
    <3> QED
      BY <1>5, <1>6, <2>2, <3>1 DEF Writes
  <2> QED
    BY <2>1, <2>2 DEF Step, RowStep
(* A call that does not move keeps what it knows; only its own insert ends *)
(* the absence of the goal it creates.                                     *)
<1>7. ASSUME NEW c \in Call, NEW s \in CallState, s = call[c], s = call'[c]
      PROVE  CallHolds(s)'
  <2>1. CallHolds(s)
    BY <1>7 DEF Inv
  <2>2. ASSUME s.op = "insert" PROVE row'[s.goal].status = "absent"
    <3>1. s.goal \in Goal /\ row[s.goal].status = "absent"
      BY <2>1, <2>2 DEF CallHolds
    <3>2. ASSUME NEW h \in Goal, NEW new \in Row, Writes(h, new) PROVE h # s.goal
      BY <1>7, <2>2, <3>1, <3>2 DEF Writes, Inv, SoleCreator
    <3> QED
      BY <3>1, <3>2 DEF Step, RowStep, Writes, Inv, TypeOK
  <2>3. s.op = "insert" =>
            /\ s.goal \in Goal /\ s.to \in {"ready", "waiting", "blocked"}
            /\ s.to = "ready" => DepsDone(s.goal)'
    BY <1>5, <2>1 DEF CallHolds
  <2>4. s.op \in {"flip", "revive"} => s.on \in Goal /\ Vouched(s.on)'
    BY <1>5, <2>1 DEF CallHolds
  <2>5. s.op = "move" => s.on \in Goal /\ (s.to = "ready" => Vouched(s.on)')
    BY <1>5, <2>1 DEF CallHolds
  <2>6. /\ s.op = "edges" => s.goal \in Goal
        /\ s.op = "reconcile" => s.goal = NoGoal
        /\ s.op = "move" /\ s.goal \in Goal => s.goal = s.on /\ s.to \in {"ready", "waiting"}
    BY <2>1 DEF CallHolds
  <2> QED
    BY <2>2, <2>3, <2>4, <2>5, <2>6 DEF CallHolds
<1>8. ASSUME NEW c \in Call, NEW new \in CallState, Calls(c, new) PROVE CallHolds(new)'
  <2>1. CASE new.op = "insert"
    <3>1. row' = row /\ CallHolds(new)
      BY <1>8, <2>1 DEF Calls
    <3> QED
      BY <1>5, <2>1, <3>1 DEF CallHolds
  <2>2. CASE new.op # "insert"
    BY <1>5, <1>8, <2>2 DEF Calls, CallHolds
  <2> QED
    BY <2>1, <2>2
<1>9. ASSUME NEW c \in Call PROVE CallHolds(call[c])'
  <2>1. \A s \in CallState : s = call'[c] /\ s = call[c] => CallHolds(s)'
    BY <1>7
  <2>2. call[c] \in CallState /\ call'[c] \in CallState
    BY <1>1 DEF Inv, TypeOK
  <2>3. \A s \in CallState : s = call'[c] => CallHolds(s)'
    BY <1>8, <2>1, <2>2 DEF Step, CallsStep, Calls, Inv, TypeOK
  <2> QED
    BY <2>2, <2>3
<1>10. SoleCreator'
  <2>1. CASE call' = call
    BY <2>1 DEF Inv, SoleCreator
  <2>2. ASSUME NEW c \in Call, NEW new \in CallState, Calls(c, new) PROVE SoleCreator'
    <3>1. \A b \in Call : call'[b] = IF b = c THEN new ELSE call[b]
      BY <2>2 DEF Calls, Inv, TypeOK
    <3> QED
      BY <2>2, <3>1 DEF Calls, Inv, SoleCreator
  <2> QED
    BY <2>1, <2>2 DEF Step, CallsStep
<1> QED
  BY <1>2, <1>6, <1>9, <1>10 DEF Inv

-----------------------------------------------------------------------------
(* The histories, the edges and the bounds. *)

LEMMA TornGrows ==
    ASSUME Inv, NEW g \in Goal
    PROVE  torn \subseteq Torn(g) /\ Torn(g) \subseteq Goal
BY DEF Torn, Inv, TypeOK

LEMMA NextHistory == ASSUME Inv, [Next]_vars PROVE HistoryGrows
<1>0. forced \subseteq Goal /\ torn \subseteq Goal
  BY DEF Inv, TypeOK
<1>1. CASE UNCHANGED vars
  BY <1>0, <1>1 DEF vars, HistoryGrows
<1>2. ASSUME NEW c \in Call, CallStep(c) \/ Reconcile(c) \/ Die(c) PROVE HistoryGrows
  <2>1. forced' = forced
    BY <1>2 DEF CallStep, CreateInsert, CreateEdge, SweepList, SweepCheck, SweepFlip, SweepRevive,
                CascadeList, CascadeRow, ReconcileCheck, ReconcileMove, ResumeMove, CallDone,
                Reconcile, Die, history
  <2>2. torn' = torn \/ \E h \in call[c].todo : torn' = Torn(h)
    BY <1>2 DEF CallStep, CreateInsert, CreateEdge, SweepList, SweepCheck, SweepFlip, SweepRevive,
                CascadeList, CascadeRow, ReconcileCheck, ReconcileMove, ResumeMove, CallDone,
                Reconcile, Die, history
  <2>3. call[c].todo \subseteq Goal
    BY DEF Inv, TypeOK, CallState
  <2> QED
    BY <1>0, <2>1, <2>2, <2>3, TornGrows DEF HistoryGrows
<1>3. ASSUME NEW c \in Call, NEW g \in Goal, CreateRead(c, g) \/ Complete(c, g) \/ Trip(c, g)
                                             \/ Cancel(c, g) \/ ResumeRead(c, g)
      PROVE  HistoryGrows
  <2>1. forced' = forced /\ torn' \in {torn, torn \cup {g}, Torn(g)}
    BY <1>3 DEF CreateRead, Complete, Trip, Cancel, ResumeRead, history
  <2> QED
    BY <1>0, <2>1, TornGrows DEF HistoryGrows
<1>4. ASSUME NEW g \in Goal, \/ Claim(g) \/ Requeue(g) \/ Pause(g) \/ Unblock(g) \/ Retry(g)
                             \/ BlockFromReady(g) \/ ProviderRetry(g)
      PROVE  HistoryGrows
  BY <1>0, <1>4 DEF Claim, Requeue, Pause, Unblock, Retry, BlockFromReady, ProviderRetry, history,
                    HistoryGrows
<1> QED
  BY <1>1, <1>2, <1>3, <1>4 DEF Next

LEMMA NextEdges == ASSUME Inv, [Next]_vars PROVE edges' \subseteq Goal \X Goal
<1>1. edges \subseteq Goal \X Goal
  BY DEF Inv, TypeOK
<1>2. CASE UNCHANGED vars
  BY <1>1, <1>2 DEF vars
<1>3. ASSUME NEW c \in Call, CreateEdge(c) PROVE edges' \subseteq Goal \X Goal
  <2>1. call[c].goal \in Goal /\ call[c].todo \subseteq Goal
    BY <1>3 DEF CreateEdge, Inv, TypeOK, CallState, CallHolds
  <2> QED
    BY <1>1, <1>3, <2>1 DEF CreateEdge
<1>4. ASSUME Next, \A c \in Call : ~CreateEdge(c) PROVE edges' = edges
  BY <1>4 DEF Next, CallStep, CreateInsert, SweepList, SweepCheck, SweepFlip, SweepRevive,
              CascadeList, CascadeRow, ReconcileCheck, ReconcileMove, ResumeMove, CallDone,
              Reconcile, Die, CreateRead, Complete, Trip, Cancel, ResumeRead,
              Claim, Requeue, Pause, Unblock, Retry, BlockFromReady, ProviderRetry
<1> QED
  BY <1>1, <1>2, <1>3, <1>4

LEMMA NextBounds ==
    ASSUME Inv, [Next]_vars
    PROVE  incidents' \in 0..MaxIncidents
<1>1. incidents \in 0..MaxIncidents
  BY DEF Inv, TypeOK
<1>2. incidents' = incidents \/ Incident
  BY DEF vars, Next, CallStep, CreateInsert, CreateEdge, SweepList, SweepCheck, SweepFlip,
         SweepRevive, CascadeList, CascadeRow, ReconcileCheck, ReconcileMove, ResumeMove, CallDone,
         Reconcile, Die, CreateRead, Complete, Trip, Cancel, ResumeRead,
         Claim, Requeue, Pause, Unblock, Retry, BlockFromReady, ProviderRetry
<1> QED
  BY <1>1, <1>2 DEF Incident

-----------------------------------------------------------------------------
(* The calls. *)

LEMMA JudgedDeps ==
    ASSUME NEW g \in Goal, DepsSatisfied(g), torn' = Torn(g)
    PROVE  Justified(g)
BY DEF DepsSatisfied, Torn, Justified, DepsDone

LEMMA VouchedIsJustified ==
    ASSUME Inv, [Next]_vars, NEW g \in Goal, Vouched(g)
    PROVE  Justified(g)
BY NextHistory DEF Vouched, Justified, HistoryGrows

LEMMA IdleCalls ==
    ASSUME NEW c \in Call, Idles(c)
    PROVE  CallsStep
<1>1. Idle \in CallState /\ Idle.op = "idle"
  BY DEF Idle, CallState, Status
<1> QED
  BY <1>1 DEF Idles, CallsStep, Calls

(* A call that goes on with the same goal, row and decision, and neither   *)
(* creates, flips nor moves next.                                          *)
LEMMA OnCalls ==
    ASSUME NEW c \in Call, NEW new \in CallState, call' = [call EXCEPT ![c] = new],
           new.op \in {"idle", "list", "sweep", "cascading", "cascade", "reconcile"},
           new.op = "reconcile" => new.goal = NoGoal
    PROVE  CallsStep
BY DEF CallsStep, Calls

LEMMA VisitedCalls ==
    ASSUME Inv, NEW c \in Call, NEW h, Visited(c, h),
           call[c].op \in {"edges", "sweep", "cascade", "reconcile"}
    PROVE  CallsStep
<1> DEFINE new == [call[c] EXCEPT !.todo = call[c].todo \ {h}]
<1>1. call[c] \in CallState /\ CallHolds(call[c])
  BY DEF Inv, TypeOK
<1>2. new \in CallState /\ new.op = call[c].op /\ new.goal = call[c].goal
  BY <1>1 DEF CallState
<1>3. call' = [call EXCEPT ![c] = new]
  BY DEF Visited
<1>4. /\ new.op = "edges" => new.goal \in Goal
      /\ new.op = "reconcile" => new.goal = NoGoal
  BY <1>1, <1>2 DEF CallHolds
<1> QED
  BY <1>2, <1>3, <1>4 DEF CallsStep, Calls

LEMMA CreateCalls ==
    ASSUME Inv, NEW c \in Call, NEW g \in Goal,
           CreateRead(c, g) \/ CreateInsert(c) \/ CreateEdge(c)
    PROVE  CallsStep
<1>0. call[c] \in CallState /\ CallHolds(call[c])
  BY DEF Inv, TypeOK
<1>1. CASE CreateRead(c, g)
  <2> DEFINE to == IF \E d \in DependsOn[g] : Dead(d) THEN "blocked"
                   ELSE IF \E d \in DependsOn[g] : row[d].status # "done" THEN "waiting"
                   ELSE "ready"
             new == [op |-> "insert", goal |-> g, on |-> NoGoal, todo |-> DependsOn[g], to |-> to]
  <2>1. to \in {"ready", "waiting", "blocked"} /\ (to = "ready" => DepsDone(g))
    BY DEF DepsDone
  <2>2. call' = [call EXCEPT ![c] = new] /\ row' = row /\ row[g].status = "absent"
        /\ \A b \in Call : call[b].op = "insert" => call[b].goal # g
    BY <1>1 DEF CreateRead
  <2> HIDE DEF to
  <2>3. new \in CallState
    BY <2>1 DEF CallState, Status
  <2>4. CallHolds(new)
    BY <2>1, <2>2 DEF CallHolds
  <2> QED
    BY <2>2, <2>3, <2>4 DEF CallsStep, Calls
<1>2. CASE CreateInsert(c) /\ ~Idles(c)
  <2> DEFINE new == [call[c] EXCEPT !.op = "edges", !.to = "absent"]
  <2>1. call' = [call EXCEPT ![c] = new] /\ call[c].op = "insert"
    BY <1>2 DEF CreateInsert
  <2>2. new \in CallState /\ new.op = "edges" /\ new.goal = call[c].goal
    BY <1>0 DEF CallState, Status
  <2>3. new.goal \in Goal
    BY <1>0, <2>1, <2>2 DEF CallHolds
  <2> HIDE DEF new
  <2> QED
    BY <2>1, <2>2, <2>3 DEF CallsStep, Calls
<1>3. CASE CreateEdge(c)
  BY <1>3, IdleCalls, VisitedCalls DEF CreateEdge
<1> QED
  BY <1>1, <1>2, <1>3, IdleCalls

LEMMA SweepCalls ==
    ASSUME Inv, [Next]_vars, NEW c \in Call,
           SweepList(c) \/ SweepCheck(c) \/ SweepFlip(c) \/ SweepRevive(c)
    PROVE  CallsStep
<1>0. call[c] \in CallState /\ CallHolds(call[c])
  BY DEF Inv, TypeOK
<1>1. CASE SweepList(c)
  <2> DEFINE new == [Idle EXCEPT !.op = "sweep", !.todo = Dependents(call[c].goal)]
  <2>1. new \in CallState /\ new.op = "sweep"
    BY DEF Idle, CallState, Dependents, Status
  <2> QED
    BY <1>1, <2>1, OnCalls DEF SweepList
<1>2. ASSUME SweepCheck(c), NEW h \in call[c].todo,
             DepsSatisfied(h), call' = [call EXCEPT ![c].op = "flip", ![c].on = h],
             torn' = Torn(h)
      PROVE  CallsStep
  <2> DEFINE new == [call[c] EXCEPT !.op = "flip", !.on = h]
  <2>1. h \in Goal
    BY <1>0 DEF CallState
  <2>2. new \in CallState /\ new.op = "flip" /\ new.on = h
    BY <1>0, <2>1 DEF CallState
  <2>3. Justified(new.on)
    BY <1>2, <2>1, <2>2, JudgedDeps
  <2>4. call' = [call EXCEPT ![c] = new]
    BY <1>2
  <2> HIDE DEF new
  <2> QED
    BY <2>1, <2>2, <2>3, <2>4 DEF CallsStep, Calls
<1>3. CASE SweepCheck(c)
  BY <1>2, <1>3, VisitedCalls DEF SweepCheck
<1>4. CASE SweepFlip(c) \/ SweepRevive(c)
  <2> DEFINE h == call[c].on
             next == [call[c] EXCEPT !.op = "sweep", !.on = NoGoal, !.todo = call[c].todo \ {h}]
             miss == [call[c] EXCEPT !.op = "revive"]
  <2>1. h \in Goal /\ Justified(h)
    BY <1>0, <1>4, VouchedIsJustified DEF CallHolds, SweepFlip, SweepRevive
  <2>2. next \in CallState /\ next.op = "sweep"
    BY <1>0 DEF CallState
  <2>3. miss \in CallState /\ miss.op = "revive" /\ miss.on = h
    BY <1>0 DEF CallState
  <2>4. call' = [call EXCEPT ![c] = next] \/ call' = [call EXCEPT ![c] = miss]
    BY <1>4 DEF SweepFlip, SweepRevive
  <2> HIDE DEF next, miss
  <2> QED
    BY <2>1, <2>2, <2>3, <2>4, OnCalls DEF CallsStep, Calls
<1> QED
  BY <1>1, <1>3, <1>4

LEMMA CascadeCalls ==
    ASSUME Inv, NEW c \in Call, CascadeList(c) \/ CascadeRow(c)
    PROVE  CallsStep
<1> DEFINE new == [Idle EXCEPT !.op = "cascade", !.todo = Dependents(call[c].goal)]
<1>1. new \in CallState /\ new.op = "cascade"
  BY DEF Idle, CallState, Dependents, Status
<1>2. CascadeList(c) => CallsStep
  BY <1>1, OnCalls DEF CascadeList
<1> QED
  BY <1>2, VisitedCalls DEF CascadeRow

LEMMA ReconcileCalls ==
    ASSUME Inv, [Next]_vars, NEW c \in Call,
           Reconcile(c) \/ ReconcileCheck(c) \/ ReconcileMove(c)
    PROVE  CallsStep
<1>0. call[c] \in CallState /\ CallHolds(call[c])
  BY DEF Inv, TypeOK
<1>1. ASSUME NEW S \in SUBSET Goal
      PROVE  LET new == [Idle EXCEPT !.op = "reconcile", !.todo = S]
             IN  new \in CallState /\ new.op = "reconcile" /\ new.goal = NoGoal
  BY DEF Idle, CallState, Status
<1>2. CASE Reconcile(c)
  BY <1>1, <1>2, OnCalls DEF Reconcile
<1>3. CASE ReconcileMove(c)
  <2>1. call[c].todo \ {call[c].on} \in SUBSET Goal
    BY <1>0 DEF CallState
  <2> QED
    BY <1>1, <1>3, <2>1, OnCalls DEF ReconcileMove
<1>4. ASSUME NEW h \in call[c].todo, NEW to \in {"ready", "blocked"},
             call' = [call EXCEPT ![c].op = "move", ![c].on = h, ![c].to = to],
             to = "ready" => Justified(h), call[c].op = "reconcile"
      PROVE  CallsStep
  <2> DEFINE new == [call[c] EXCEPT !.op = "move", !.on = h, !.to = to]
  <2>1. h \in Goal
    BY <1>0 DEF CallState
  <2>2. /\ new \in CallState /\ new.op = "move" /\ new.on = h /\ new.to = to
        /\ new.goal \notin Goal
    BY <1>0, <1>4, <2>1 DEF CallState, CallHolds, Status
  <2>3. call' = [call EXCEPT ![c] = new]
    BY <1>4
  <2> HIDE DEF new
  <2> QED
    BY <1>4, <2>1, <2>2, <2>3 DEF CallsStep, Calls
<1>5. CASE ReconcileCheck(c)
  <2>1. call[c].todo \subseteq Goal
    BY <1>0 DEF CallState
  <2> QED
    BY <1>4, <1>5, <2>1, JudgedDeps, VisitedCalls DEF ReconcileCheck
<1> QED
  BY <1>2, <1>3, <1>5

LEMMA EndCalls ==
    ASSUME Inv, NEW c \in Call, NEW g \in Goal,
           Complete(c, g) \/ Trip(c, g) \/ Cancel(c, g)
    PROVE  CallsStep
<1>1. ASSUME NEW op \in {"list", "cascading"}
      PROVE  LET new == [Idle EXCEPT !.op = op, !.goal = g]
             IN  new \in CallState /\ new.op = op
  BY DEF Idle, CallState, Status
<1> QED
  BY <1>1, OnCalls DEF Complete, Trip, Cancel

LEMMA ResumeCalls ==
    ASSUME Inv, NEW c \in Call, NEW g \in Goal, ResumeRead(c, g)
    PROVE  CallsStep
<1>1. PICK raised \in BOOLEAN :
        /\ call' = [call EXCEPT ![c] = [Idle EXCEPT !.op = "move", !.goal = g, !.on = g,
                       !.to = IF raised \/ DepsSatisfied(g) THEN "ready" ELSE "waiting"]]
        /\ torn' = IF raised THEN torn \cup {g} ELSE Torn(g)
  BY DEF ResumeRead
<1> DEFINE to == IF raised \/ DepsSatisfied(g) THEN "ready" ELSE "waiting"
           new == [Idle EXCEPT !.op = "move", !.goal = g, !.on = g, !.to = to]
<1>2. to \in {"ready", "waiting"} /\ (to = "ready" => Justified(g))
  BY <1>1, JudgedDeps DEF Justified
<1>3. call' = [call EXCEPT ![c] = new]
  BY <1>1
<1> HIDE DEF to
<1>4. new \in CallState /\ new.op = "move" /\ new.on = g /\ new.goal = g /\ new.to = to
  BY <1>2 DEF Idle, CallState, Status
<1> HIDE DEF new
<1> QED
  BY <1>2, <1>3, <1>4 DEF CallsStep, Calls

LEMMA NextCalls == ASSUME Inv, [Next]_vars PROVE CallsStep
<1>1. CASE UNCHANGED vars
  BY <1>1 DEF vars, CallsStep
<1>2. ASSUME NEW c \in Call, CallStep(c) \/ Reconcile(c) \/ Die(c) PROVE CallsStep
  <2>1. CASE CreateInsert(c) \/ CreateEdge(c)
    <3>1. Goal # {}
      BY <2>1 DEF CreateInsert, CreateEdge, Inv, CallHolds
    <3> QED
      BY <2>1, <3>1, CreateCalls
  <2>2. CASE ResumeMove(c) \/ CallDone(c) \/ Die(c)
    BY <2>2, IdleCalls DEF ResumeMove, CallDone, Die
  <2> QED
    BY <1>2, <2>1, <2>2, SweepCalls, CascadeCalls, ReconcileCalls DEF CallStep
<1>3. ASSUME NEW g \in Goal, \/ Claim(g) \/ Requeue(g) \/ Pause(g) \/ Unblock(g) \/ Retry(g)
                             \/ BlockFromReady(g) \/ ProviderRetry(g)
      PROVE  CallsStep
  BY <1>3 DEF Claim, Requeue, Pause, Unblock, Retry, BlockFromReady, ProviderRetry, CallsStep
<1> QED
  BY <1>1, <1>2, <1>3, CreateCalls, EndCalls, ResumeCalls DEF Next

-----------------------------------------------------------------------------
(* The rows. *)

(* A write to a row that exists and is not done. *)
LEMMA WritesRow ==
    ASSUME NEW g \in Goal, NEW new \in Row, row' = [row EXCEPT ![g] = new],
           row[g].status \notin {"absent", "done"}, new.status # "absent",
           Serves(new) => Justified(g)
    PROVE  RowStep
BY DEF RowStep, Writes

LEMMA FailedDependent ==
    ASSUME Inv, NEW h \in Goal, FailDependent(h)
    PROVE  RowStep
<1> DEFINE new == [row[h] EXCEPT !.status = "blocked", !.kind = "dep_failed"]
<1>1. new \in Row /\ new.status = "blocked" /\ new.kind = "dep_failed"
  BY DEF Inv, TypeOK, Row, Status
<1>2. row' = row \/ (row[h].status = "waiting" /\ row' = [row EXCEPT ![h] = new])
  BY DEF FailDependent
<1> HIDE DEF new
<1>3. ~Serves(new)
  BY <1>1 DEF Serves, Served
<1> QED
  BY <1>1, <1>2, <1>3, WritesRow DEF RowStep

LEMMA CreateRows ==
    ASSUME Inv, NEW c \in Call, CreateInsert(c)
    PROVE  RowStep
<1> DEFINE g == call[c].goal
           kind == IF call[c].to = "blocked" THEN "dep_failed" ELSE "none"
           new == [row[g] EXCEPT !.status = call[c].to, !.kind = kind]
<1>1. /\ g \in Goal /\ row[g].status = "absent"
      /\ call[c].to \in {"ready", "waiting", "blocked"}
      /\ call[c].to = "ready" => DepsDone(g)
  BY DEF CreateInsert, Inv, CallHolds
<1>2. kind \in {"none", "dep_failed"} /\ (call[c].to = "blocked" => kind = "dep_failed")
  OBVIOUS
<1>3. row' = [row EXCEPT ![g] = new]
  BY DEF CreateInsert
<1> HIDE DEF kind
<1>4. new \in Row /\ new.status = call[c].to /\ new.kind = kind
  BY <1>1, <1>2 DEF Inv, TypeOK, Row, Status
<1>5. Serves(new) => Justified(g)
  BY <1>1, <1>2, <1>4 DEF Serves, Served, Justified
<1>6. call[c].op = "insert" /\ call'[c].op # "insert"
  BY DEF CreateInsert, Idles, Idle, Inv, TypeOK, CallState
<1> HIDE DEF new, g
<1>7. Writes(g, new)
  BY <1>1, <1>3, <1>4, <1>5, <1>6 DEF Writes, g
<1> QED
  BY <1>1, <1>4, <1>7 DEF RowStep

LEMMA CallRows ==
    ASSUME Inv, [Next]_vars, NEW c \in Call,
           \/ SweepFlip(c) \/ SweepRevive(c) \/ ReconcileMove(c) \/ ResumeMove(c)
    PROVE  RowStep
<1> DEFINE h == call[c].on
<1>0. CallHolds(call[c]) /\ call[c] \in CallState
  BY DEF Inv, TypeOK
<1>1. h \in Goal
  BY <1>0 DEF CallHolds, SweepFlip, SweepRevive, ReconcileMove, ResumeMove
<1>2. row[h] \in Row
  BY <1>1 DEF Inv, TypeOK
<1>3. CASE SweepFlip(c) \/ SweepRevive(c)
  <2>1. Justified(h)
    BY <1>0, <1>1, <1>3, VouchedIsJustified DEF CallHolds, SweepFlip, SweepRevive
  <2> DEFINE flipped == [row[h] EXCEPT !.status = "ready"]
             revived == [row[h] EXCEPT !.status = "ready", !.kind = "none"]
  <2>2. flipped \in Row /\ flipped.status = "ready" /\ revived \in Row /\ revived.status = "ready"
    BY <1>2 DEF Row, Status
  <2>3. \/ row' = row
        \/ /\ row[h].status \in {"waiting", "blocked"}
           /\ row' = [row EXCEPT ![h] = flipped] \/ row' = [row EXCEPT ![h] = revived]
    BY <1>3 DEF SweepFlip, SweepRevive, Set
  <2> HIDE DEF flipped, revived
  <2> QED
    BY <1>1, <2>1, <2>2, <2>3, WritesRow DEF RowStep
<1>4. CASE ReconcileMove(c) /\ call[c].to # "ready"
  BY <1>1, <1>4, FailedDependent DEF ReconcileMove
<1>5. CASE ReconcileMove(c) /\ call[c].to = "ready"
  <2>1. Justified(h)
    BY <1>0, <1>1, <1>5, VouchedIsJustified DEF CallHolds, ReconcileMove
  <2> DEFINE new == [row[h] EXCEPT !.status = "ready"]
  <2>2. new \in Row /\ new.status = "ready"
    BY <1>2 DEF Row, Status
  <2>3. row' = row \/ (row[h].status = "waiting" /\ row' = [row EXCEPT ![h] = new])
    BY <1>5 DEF ReconcileMove
  <2> HIDE DEF new
  <2> QED
    BY <1>1, <2>1, <2>2, <2>3, WritesRow DEF RowStep
<1>6. CASE ResumeMove(c)
  <2> DEFINE new == [row[h] EXCEPT !.status = call[c].to, !.spent = FALSE]
  <2>1. call[c].to \in {"ready", "waiting"} /\ (call[c].to = "ready" => Justified(h))
    BY <1>0, <1>1, <1>6, VouchedIsJustified DEF CallHolds, ResumeMove
  <2>2. new \in Row /\ new.status = call[c].to
    BY <1>2, <2>1 DEF Row, Status
  <2>3. row' = row \/ (row[h].status = "paused" /\ row' = [row EXCEPT ![h] = new])
    BY <1>6 DEF ResumeMove
  <2> HIDE DEF new
  <2>4. Serves(new) => Justified(h)
    BY <2>1, <2>2 DEF Serves, Served
  <2> QED
    BY <1>1, <2>1, <2>2, <2>3, <2>4, WritesRow DEF RowStep
<1> QED
  BY <1>3, <1>4, <1>5, <1>6

LEMMA RunRows ==
    ASSUME Inv, [Next]_vars, NEW c, NEW g \in Goal,
           \/ Claim(g) \/ Requeue(g) \/ BlockFromReady(g) \/ ProviderRetry(g)
           \/ Complete(c, g) \/ Trip(c, g)
    PROVE  RowStep
<1>1. row[g] \in Row /\ (Serves(row[g]) => Justified(g))
  BY VouchedIsJustified DEF Inv, TypeOK
<1>2. row[g].status \in {"ready", "running", "blocked"} /\ Serves(row[g])
  BY <1>1 DEF Claim, Requeue, BlockFromReady, ProviderRetry, Complete, Trip, Serves, Served, Row
<1>3. \E new \in Row : row' = [row EXCEPT ![g] = new] /\ new.status # "absent"
  <2>1. ASSUME NEW status \in {"ready", "running", "blocked"}
        PROVE  LET new == [row[g] EXCEPT !.status = status] IN new \in Row /\ new.status = status
    BY <1>1 DEF Row, Status
  <2>2. CASE Trip(c, g)
    <3> DEFINE new == [row[g] EXCEPT !.status = "blocked", !.spent = TRUE]
    <3>1. new \in Row /\ new.status = "blocked"
      BY <1>1 DEF Row, Status
    <3>2. row' = [row EXCEPT ![g] = new]
      BY <2>2 DEF Trip
    <3> HIDE DEF new
    <3> QED
      BY <3>1, <3>2
  <2>3. CASE Complete(c, g) \/ ProviderRetry(g)
    <3> DEFINE new(status) == [row[g] EXCEPT !.status = status, !.spent = FALSE]
    <3>1. ASSUME NEW status \in {"ready", "done"}
          PROVE  new(status) \in Row /\ new(status).status = status
      BY <1>1 DEF Row, Status
    <3>2. row' = [row EXCEPT ![g] = new("done")] \/ row' = [row EXCEPT ![g] = new("ready")]
      BY <2>3 DEF Complete, ProviderRetry
    <3> HIDE DEF new
    <3> QED
      BY <3>1, <3>2
  <2>4. CASE Claim(g) \/ Requeue(g) \/ BlockFromReady(g)
    BY <2>1, <2>4 DEF Claim, Requeue, BlockFromReady, Set
  <2> QED
    BY <2>2, <2>3, <2>4
<1> QED
  BY <1>1, <1>2, <1>3, WritesRow

LEMMA OwnerRows ==
    ASSUME Inv, NEW c, NEW g \in Goal,
           Pause(g) \/ Unblock(g) \/ Retry(g) \/ Cancel(c, g)
    PROVE  RowStep
<1>1. row[g] \in Row
  BY DEF Inv, TypeOK
<1>2. row[g].status \notin {"absent", "done"}
  BY DEF Pause, Unblock, Retry, Cancel, Terminal
<1>3. CASE Pause(g) \/ Cancel(c, g)
  <2>1. ASSUME NEW status \in {"paused", "cancelled"}
        PROVE  LET new == [row[g] EXCEPT !.status = status] IN new \in Row /\ new.status = status
    BY <1>1 DEF Row, Status
  <2>2. \E new \in Row : row' = [row EXCEPT ![g] = new] /\ new.status \in {"paused", "cancelled"}
    BY <1>3, <2>1 DEF Pause, Cancel, Set
  <2> QED
    BY <1>2, <2>2, WritesRow DEF Serves, Served
<1>4. CASE Unblock(g) \/ Retry(g)
  <2>1. [status |-> "ready", kind |-> "none", spent |-> FALSE] \in Row
    BY DEF Row, Status
  <2> DEFINE retried == [row[g] EXCEPT !.status = "ready", !.spent = FALSE]
  <2>2. retried \in Row /\ retried.status = "ready"
    BY <1>1 DEF Row, Status
  <2>3. \E new \in Row : row' = [row EXCEPT ![g] = new] /\ new.status = "ready"
    BY <1>4, <2>1, <2>2 DEF Unblock, Retry
  <2>4. Justified(g)
    BY <1>4 DEF Unblock, Retry, Justified
  <2> QED
    BY <1>2, <2>3, <2>4, WritesRow
<1> QED
  BY <1>3, <1>4

LEMMA NextRows == ASSUME Inv, [Next]_vars PROVE RowStep
<1>1. CASE UNCHANGED vars
  BY <1>1 DEF vars, RowStep
<1>2. ASSUME NEW c \in Call, CallStep(c) \/ Reconcile(c) \/ Die(c) PROVE RowStep
  <2>1. CASE CascadeRow(c)
    <3>1. call[c].todo \subseteq Goal
      BY DEF Inv, TypeOK, CallState
    <3> QED
      BY <2>1, <3>1, FailedDependent DEF CascadeRow
  <2>2. CASE \/ CreateEdge(c) \/ SweepList(c) \/ SweepCheck(c) \/ CascadeList(c)
             \/ ReconcileCheck(c) \/ CallDone(c) \/ Reconcile(c) \/ Die(c)
    BY <2>2 DEF CreateEdge, SweepList, SweepCheck, CascadeList, ReconcileCheck, CallDone,
                Reconcile, Die, RowStep
  <2> QED
    BY <1>2, <2>1, <2>2, CreateRows, CallRows DEF CallStep
<1>3. ASSUME NEW c \in Call, NEW g \in Goal, CreateRead(c, g) \/ ResumeRead(c, g)
      PROVE  RowStep
  BY <1>3 DEF CreateRead, ResumeRead, RowStep
<1>4. ASSUME NEW g \in Goal, \/ Claim(g) \/ Requeue(g) \/ BlockFromReady(g) \/ ProviderRetry(g)
                             \/ Pause(g) \/ Unblock(g) \/ Retry(g)
      PROVE  RowStep
  BY <1>4, RunRows, OwnerRows
<1> QED
  BY <1>1, <1>2, <1>3, <1>4, RunRows, OwnerRows DEF Next

-----------------------------------------------------------------------------
LEMMA NextInv == Inv /\ [Next]_vars => Inv'
BY NextRows, NextCalls, NextHistory, NextEdges, NextBounds, StepKeepsInv DEF Step

(* Rows, edges and calls stay well-formed whichever calls interleave.      *)
THEOREM TypeCorrect == Spec => []TypeOK
<1>1. Inv => TypeOK
  BY DEF Inv
<1> QED
  BY <1>1, InitInv, NextInv, PTL DEF Spec

(* No interleaving of creations, sweeps, cascades, reconciliations and     *)
(* owner verbs serves a goal before its prerequisites are done, unless the *)
(* owner forced it or it was judged without all its edges.                 *)
THEOREM PrerequisitesNeverSkipped == Spec => []PrerequisitesFirst
<1>1. Inv => PrerequisitesFirst
  BY DEF Inv, PrerequisitesFirst, Serves, Vouched, DepsDone
<1> QED
  BY <1>1, InitInv, NextInv, PTL DEF Spec

(* The owner's hold ends by his own verbs alone: what a sweep, a cascade,  *)
(* a reconciliation or a run that is still writing found out about the     *)
(* goal before the pause never undoes it.                                  *)
Lifts(g) == row'[g].status = "cancelled" \/ \E c \in Call : call[c].goal = g /\ ResumeMove(c)

THEOREM PauseIsKept == Spec => PausedByOwner
<1> DEFINE Kept == \A g \in Goal : row[g].status = "paused" /\ row'[g].status # "paused" => Lifts(g)
<1>1. ASSUME Inv, [Next]_vars PROVE Kept
  <2> SUFFICES ASSUME NEW g \in Goal, row[g].status = "paused", row'[g] # row[g],
                      row'[g].status # "paused"
               PROVE  Lifts(g)
    OBVIOUS
  <2>1. row \in [Goal -> Row]
    BY <1>1 DEF Inv, TypeOK
  <2>2. ASSUME NEW c \in Call, CallStep(c), ~ResumeMove(c) PROVE FALSE
    <3>1. CASE CreateInsert(c)
      <4>1. call[c].goal \in Goal /\ row[call[c].goal].status = "absent"
        BY <1>1, <3>1 DEF Inv, CallHolds, CreateInsert
      <4> QED
        BY <2>1, <3>1, <4>1 DEF CreateInsert
    <3>2. CASE SweepFlip(c) \/ SweepRevive(c)
      BY <2>1, <3>2 DEF SweepFlip, SweepRevive, Set
    <3>3. CASE CascadeRow(c) \/ ReconcileMove(c)
      BY <2>1, <3>3 DEF CascadeRow, ReconcileMove, FailDependent
    <3> QED
      BY <2>2, <3>1, <3>2, <3>3 DEF CallStep, CreateEdge, SweepList, SweepCheck, CascadeList,
                                    ReconcileCheck, CallDone
  <2>3. ASSUME NEW c \in Call, ResumeMove(c) PROVE Lifts(g)
    <3>1. call[c].goal = call[c].on /\ call[c].goal \in Goal
      BY <1>1, <2>3 DEF Inv, CallHolds, ResumeMove
    <3>2. call[c].on = g
      BY <2>1, <2>3, <3>1 DEF ResumeMove
    <3> QED
      BY <2>3, <3>1, <3>2 DEF Lifts
  <2>4. ASSUME NEW c \in Call, NEW h \in Goal, Cancel(c, h) PROVE Lifts(g)
    BY <2>1, <2>4 DEF Cancel, Set, Lifts
  <2>5. ASSUME NEW c \in Call, NEW h \in Goal,
               CreateRead(c, h) \/ Complete(c, h) \/ Trip(c, h) \/ ResumeRead(c, h)
        PROVE  FALSE
    BY <2>1, <2>5 DEF CreateRead, Complete, Trip, ResumeRead
  <2>6. ASSUME NEW h \in Goal, \/ Claim(h) \/ Requeue(h) \/ Pause(h) \/ Unblock(h) \/ Retry(h)
                               \/ BlockFromReady(h) \/ ProviderRetry(h)
        PROVE  FALSE
    BY <2>1, <2>6 DEF Claim, Requeue, Pause, Unblock, Retry, BlockFromReady, ProviderRetry, Set
  <2>7. ASSUME NEW c \in Call, Reconcile(c) \/ Die(c) PROVE FALSE
    BY <2>7 DEF Reconcile, Die
  <2>8. ~UNCHANGED vars
    BY DEF vars
  <2> QED
    BY <1>1, <2>2, <2>3, <2>4, <2>5, <2>6, <2>7, <2>8 DEF Next
<1> QED
  BY <1>1, InitInv, NextInv, PTL DEF Spec, PausedByOwner, Lifts
=============================================================================
