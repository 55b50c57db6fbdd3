--------------------------- MODULE GoalAsksProofs ---------------------------
(* Theorems about GoalAsks, for any number of goals, asks, callers and     *)
(* deaths.                                                                 *)
EXTENDS GoalAsks, TLAPS

USE AsksAssumption

AskRow == [status : AskStatus, kind : AskKind, blocks : SUBSET Goal]

Begun == [op : Steps, goals : SUBSET Goal, kind : AskKind, listed : [Ask -> SUBSET Goal],
          ask : Ask \cup {None}]

Decided == {"fulfilled", "rejected"}
Telling == {"read", "answer", "flip"}
Asking == {"list", "dedupe", "insert"}

(* What a call in state s says of the ask rows: a decision it carries was  *)
(* made; a call that closes is about one goal, and the asks it has listed  *)
(* for a requeue are the dispatcher's own.                                 *)
CallHolds(s, rows) ==
    /\ s.op \in Telling => s.ask \in Ask /\ rows[s.ask].status \in Decided
    /\ s.op \in {"listClose", "close"} => \E g \in Goal : s.goals = {g}
    /\ s.op = "close" /\ s.kind = "auto" =>
          \A a \in Ask : s.listed[a] # {} => rows[a].status # "absent" /\ rows[a].kind = "auto"

(* A call in state s is still to tell goal g of the decision on ask a. *)
Tells(s, a, g) == s.op \in Telling /\ s.ask = a /\ (s.op = "read" \/ g \in s.goals)

Told(a) == \A g \in ask[a].blocks : a \in heard[g] \/ \E c \in Caller : Tells(call[c], a, g)

(* The inductive invariant. *)
Inv ==
    /\ TypeOK
    /\ \A c \in Caller : CallHolds(call[c], ask)
    /\ \A a \in Ask \ lost : ask[a].status \in Decided => Told(a)

(* What a step may do to an ask row: nothing to one that was decided or    *)
(* closed; a decision has a caller to spread it; a goal that is let go has *)
(* a cause.                                                                *)
Writes(a) ==
    /\ ask[a].status \in {"absent", "open"}
    /\ ask'[a].status # "absent"
    /\ ask[a].status = "open" => ask'[a].kind = ask[a].kind
    /\ ask'[a].status \in Decided =>
          \E c \in Caller : call'[c].op = "read" /\ call'[c].ask = a
    /\ \A g \in Goal : Holds(a, g) =>
          (ask'[a].status = "open" /\ g \in ask'[a].blocks) \/ CauseToEnd(a, g) \/ JoinedSince(a, g)

AskStep == ask' \in [Ask -> AskRow] /\ \A a \in Ask : ask'[a] = ask[a] \/ Writes(a)

HeldNext(g) == \E a \in Ask : ask'[a].status = "open" /\ g \in ask'[a].blocks

(* What a step may do to a call: it takes up what is so, it drops a        *)
(* decision only when its goals have heard it or its process has died, and *)
(* it ends a request with the goals held.                                  *)
Moves(c) ==
    /\ CallHolds(call'[c], ask')
    /\ call[c].op \in Telling =>
          \/ call[c].ask \in lost'
          \/ \A g \in Goal : Tells(call[c], call[c].ask, g) /\ g \in ask[call[c].ask].blocks =>
                call[c].ask \in heard'[g] \/ Tells(call'[c], call[c].ask, g)
    /\ call[c].op \in Asking /\ call'[c].op \notin Asking /\ deaths' = deaths =>
          \A g \in call[c].goals : HeldNext(g)

CallStep == call' \in [Caller -> Call] /\ \A c \in Caller : call'[c] = call[c] \/ Moves(c)

GoalStep == goal' \in [Goal -> GoalStatus] /\ heard' \in [Goal -> SUBSET Ask]
            /\ \A g \in Goal : heard[g] \subseteq heard'[g]

HistoryStep == lost \subseteq lost' /\ lost' \subseteq Ask /\ deaths' \in 0..MaxDeaths

Shaped == AskStep /\ CallStep /\ GoalStep /\ HistoryStep

-----------------------------------------------------------------------------
THEOREM InitInv == Init => Inv
<1> SUFFICES ASSUME Init PROVE Inv
  OBVIOUS
<1>1. ask \in [Ask -> AskRow] /\ call \in [Caller -> Call]
  BY DEF Init, AskRow, AskStatus, AskKind, Call
<1>2. goal \in [Goal -> GoalStatus] /\ heard \in [Goal -> SUBSET Ask]
  BY DEF Init, GoalStatus
<1>3. lost \subseteq Ask /\ deaths \in 0..MaxDeaths
  BY SMT DEF Init
<1>4. \A c \in Caller : call[c].op = "idle"
  BY DEF Init, Idle
<1>5. \A a \in Ask : ask[a].status = "absent"
  BY DEF Init
<1> QED
  BY <1>1, <1>2, <1>3, <1>4, <1>5 DEF Inv, TypeOK, AskRow, CallHolds, Telling, Decided

LEMMA Typed ==
    ASSUME Inv
    PROVE  /\ ask \in [Ask -> AskRow] /\ call \in [Caller -> Call]
           /\ goal \in [Goal -> GoalStatus] /\ heard \in [Goal -> SUBSET Ask]
           /\ lost \subseteq Ask /\ deaths \in 0..MaxDeaths
BY DEF Inv, TypeOK, AskRow

(* What was decided or closed stays as it is, and an ask keeps its kind.   *)
LEMMA AskStepKeeps ==
    ASSUME Inv, AskStep, NEW a \in Ask
    PROVE  /\ ask[a].status \notin {"absent", "open"} => ask'[a] = ask[a]
           /\ ask[a].status # "absent" => ask'[a].status # "absent" /\ ask'[a].kind = ask[a].kind
           /\ ask[a].status \in Decided => ask'[a] = ask[a]
BY Typed DEF AskStep, Writes, AskRow, AskStatus, Decided

(* A step of that shape keeps the invariant. *)
LEMMA ShapedKeepsInv == ASSUME Inv, Shaped PROVE Inv'
<1>1. ASSUME NEW c \in Caller PROVE CallHolds(call'[c], ask')
  <2>1. CallHolds(call[c], ask)
    BY DEF Inv
  <2>2. CASE call'[c] = call[c]
    BY <2>1, <2>2, AskStepKeeps DEF CallHolds, Shaped
  <2> QED
    BY <2>2 DEF Shaped, CallStep, Moves
<1>2. TypeOK'
  BY <1>1 DEF Shaped, AskStep, CallStep, GoalStep, HistoryStep, TypeOK, AskRow, CallHolds,
              Telling, Decided
<1>3. ASSUME NEW a \in Ask, a \notin lost', ask'[a].status \in Decided,
             NEW g \in ask'[a].blocks
      PROVE  a \in heard'[g] \/ \E c \in Caller : Tells(call'[c], a, g)
  <2>1. g \in Goal
    BY <1>3 DEF Shaped, AskStep, AskRow
  <2>2. CASE ask'[a] # ask[a]
    BY <1>3, <2>2 DEF Shaped, AskStep, Writes, Tells, Telling
  <2>3. CASE ask'[a] = ask[a]
    <3>1. a \notin lost /\ Told(a)
      BY <1>3, <2>3 DEF Shaped, HistoryStep, Inv
    <3>2. CASE a \in heard[g]
      BY <2>1, <3>2 DEF Shaped, GoalStep
    <3>3. ASSUME NEW c \in Caller, Tells(call[c], a, g)
          PROVE  a \in heard'[g] \/ Tells(call'[c], a, g)
      <4>1. CASE call'[c] = call[c]
        BY <3>3, <4>1
      <4>2. CASE Moves(c)
        BY <1>3, <2>1, <2>3, <3>3, <4>2 DEF Moves, Tells
      <4> QED
        BY <4>1, <4>2 DEF Shaped, CallStep
    <3> QED
      BY <1>3, <2>3, <3>1, <3>2, <3>3 DEF Told
  <2> QED
    BY <2>2, <2>3
<1> QED
  BY <1>1, <1>2, <1>3 DEF Inv, Told

-----------------------------------------------------------------------------
(* Calls *)

(* A call that is not idle has the fields of one. *)
LEMMA CallAt ==
    ASSUME Inv, NEW c \in Caller, call[c].op # "idle"
    PROVE  call[c] \in Begun
BY Typed DEF Call, Idle, Begun

LEMMA BegunFields ==
    ASSUME NEW s \in Begun
    PROVE  /\ s = [op |-> s.op, goals |-> s.goals, kind |-> s.kind, listed |-> s.listed,
                   ask |-> s.ask]
           /\ s.op \in Steps /\ s.goals \in SUBSET Goal /\ s.kind \in AskKind
           /\ s.listed \in [Ask -> SUBSET Goal] /\ s.ask \in Ask \cup {None}
BY DEF Begun

(* The calls that a step does not move. *)
LEMMA OneCallMoves ==
    ASSUME Inv, NEW c \in Caller, NEW s \in Call, call' = [call EXCEPT ![c] = s], Moves(c)
    PROVE  CallStep
BY Typed DEF CallStep

LEMMA NoCallMoves == ASSUME Inv, UNCHANGED call PROVE CallStep
BY Typed DEF CallStep

LEMMA NoAskWritten == ASSUME Inv, UNCHANGED ask PROVE AskStep
BY Typed DEF AskStep

LEMMA OneAskWritten ==
    ASSUME Inv, NEW a \in Ask, NEW r \in AskRow, ask' = [ask EXCEPT ![a] = r], Writes(a)
    PROVE  AskStep
BY Typed DEF AskStep

LEMMA GoalsKept == ASSUME Inv, UNCHANGED goalVars PROVE GoalStep
BY Typed DEF GoalStep, goalVars

LEMMA HistoryKept == ASSUME Inv, UNCHANGED <<lost, deaths>> PROVE HistoryStep
BY Typed DEF HistoryStep

(* A call begins. *)
LEMMA Starting ==
    ASSUME Inv, NEW c \in Caller, At(c, "idle"), NEW op \in {"list", "insert", "listClose"},
           NEW gs \in SUBSET Goal, NEW kind \in AskKind, Start(c, op, gs, kind),
           op = "listClose" => \E g \in Goal : gs = {g}
    PROVE  CallStep
<1> DEFINE s == [op |-> op, goals |-> gs, kind |-> kind, listed |-> NoAsks, ask |-> None]
<1>1. s \in Call
  BY DEF Call, Begun, Steps, NoAsks
<1>2. call' = [call EXCEPT ![c] = s] /\ call'[c] = s
  BY Typed DEF Start
<1>3. s.op = op /\ s.goals = gs
  OBVIOUS
<1> HIDE DEF s
<1>4. Moves(c)
  BY <1>2, <1>3 DEF Moves, CallHolds, At, Telling, Asking
<1> QED
  BY <1>1, <1>2, <1>4, OneCallMoves

(* A call returns, or its caller dies in it. *)
LEMMA Returning ==
    ASSUME Inv, NEW c \in Caller, Return(c),
           call[c].op \in Telling =>
              \/ call[c].ask \in lost'
              \/ \A g \in Goal : Tells(call[c], call[c].ask, g) /\ g \in ask[call[c].ask].blocks =>
                    call[c].ask \in heard'[g],
           call[c].op \in Asking =>
              deaths' # deaths \/ \A g \in call[c].goals : HeldNext(g)
    PROVE  CallStep
<1>1. call' = [call EXCEPT ![c] = Idle] /\ call'[c] = Idle /\ Idle \in Call
  BY Typed DEF Return, Call
<1>2. CallHolds(Idle, ask')
  BY DEF CallHolds, Idle, Telling
<1>3. Moves(c)
  BY <1>1, <1>2 DEF Moves
<1> QED
  BY <1>1, <1>3, OneCallMoves

-----------------------------------------------------------------------------
(* Ask rows *)

LEMMA Widening ==
    ASSUME Inv, NEW a \in Ask, NEW gs \in SUBSET Goal, Widen(a, gs)
    PROVE  AskStep /\ (Open(a) => \A g \in gs : HeldNext(g))
<1>1. CASE ~Open(a)
  BY <1>1, NoAskWritten DEF Widen
<1>2. CASE Open(a)
  <2> DEFINE r == [ask[a] EXCEPT !.blocks = @ \cup gs]
  <2>1. ask' = [ask EXCEPT ![a] = r] /\ ask'[a] = r
    BY <1>2, Typed DEF Widen
  <2>2. r \in AskRow /\ r.status = "open" /\ r.kind = ask[a].kind
        /\ r.blocks = ask[a].blocks \cup gs
    BY <1>2, Typed DEF Open, AskRow
  <2> HIDE DEF r
  <2>3. Writes(a)
    BY <1>2, <2>1, <2>2 DEF Writes, Holds, Open, Decided
  <2>4. AskStep
    BY <2>1, <2>2, <2>3, OneAskWritten
  <2>5. \A g \in gs : HeldNext(g)
    BY <2>1, <2>2 DEF HeldNext
  <2> QED
    BY <2>4, <2>5
<1> QED
  BY <1>1, <1>2

LEMMA Obsoleting ==
    ASSUME Inv, NEW a \in Ask, NEW gs \in SUBSET Goal, Obsolete(a, gs),
           \A g \in Goal : Holds(a, g) => CauseToEnd(a, g) \/ JoinedSince(a, g)
    PROVE  AskStep
<1>1. CASE ~Open(a)
  BY <1>1, NoAskWritten DEF Obsolete
<1>2. CASE Open(a)
  <2> DEFINE r == [ask[a] EXCEPT !.status = "obsolete", !.blocks = gs]
  <2>1. ask' = [ask EXCEPT ![a] = r] /\ ask'[a] = r
    BY <1>2, Typed DEF Obsolete
  <2>2. r \in AskRow /\ r.status = "obsolete" /\ r.kind = ask[a].kind
    BY <1>2, Typed DEF Open, AskRow, AskStatus
  <2> HIDE DEF r
  <2>3. Writes(a)
    BY <1>2, <2>1, <2>2 DEF Writes, Open, Decided
  <2> QED
    BY <2>1, <2>2, <2>3, OneAskWritten
<1> QED
  BY <1>1, <1>2

-----------------------------------------------------------------------------
(* Actions *)

(* The goal's own steps *)
LEMMA GoalMoves ==
    ASSUME Inv, NEW g \in Goal, NEW st \in GoalStatus, GoalTo(g, st), UNCHANGED heard
    PROVE  GoalStep
BY Typed DEF GoalTo, GoalStep

LEMMA ServeShaped == ASSUME Inv, NEW g \in Goal, Serve(g) \/ RunEnds(g) PROVE Shaped
<1>1. \E st \in GoalStatus : GoalTo(g, st)
  BY DEF Serve, RunEnds, GoalStatus
<1>2. UNCHANGED heard /\ UNCHANGED ask /\ UNCHANGED call /\ UNCHANGED <<lost, deaths>>
  BY DEF Serve, RunEnds, callVars
<1> QED
  BY <1>1, <1>2, GoalMoves, NoAskWritten, NoCallMoves, HistoryKept DEF Shaped

LEMMA StartersShaped ==
    ASSUME Inv, NEW c \in Caller, NEW g \in Goal,
           Trip(c, g) \/ Finish(c, g) \/ Requeue(c, g)
    PROVE  Shaped
<1>1. \E st \in GoalStatus : GoalTo(g, st)
  BY DEF Trip, Finish, Requeue, GoalStatus
<1>2. UNCHANGED heard /\ UNCHANGED ask /\ UNCHANGED <<lost, deaths>> /\ At(c, "idle")
  BY DEF Trip, Finish, Requeue
<1>3. \E op \in {"list", "insert", "listClose"}, kind \in AskKind : Start(c, op, {g}, kind)
  BY DEF Trip, Finish, Requeue, AskKind
<1>4. CallStep
  BY <1>2, <1>3, Starting
<1> QED
  BY <1>1, <1>2, <1>4, GoalMoves, NoAskWritten, HistoryKept DEF Shaped

LEMMA AskersShaped ==
    ASSUME Inv, NEW c \in Caller,
           (\E gs \in SUBSET Goal : AskOwner(c, gs)) \/ (\E g \in Goal : AskApproval(c, g))
    PROVE  Shaped
<1>1. UNCHANGED goalVars /\ UNCHANGED ask /\ UNCHANGED <<lost, deaths>> /\ At(c, "idle")
  BY DEF AskOwner, AskApproval
<1>2. \E op \in {"list", "insert", "listClose"}, kind \in AskKind, gs \in SUBSET Goal :
         op # "listClose" /\ Start(c, op, gs, kind)
  <2>1. ASSUME NEW gs \in SUBSET Goal, AskOwner(c, gs) PROVE Start(c, "list", gs, "agent")
    BY <2>1 DEF AskOwner
  <2>2. ASSUME NEW g \in Goal, AskApproval(c, g) PROVE Start(c, "insert", {g}, "approval")
    BY <2>2 DEF AskApproval
  <2>3. "agent" \in AskKind /\ "approval" \in AskKind
    BY DEF AskKind
  <2> QED
    BY <2>1, <2>2, <2>3
<1>3. CallStep
  BY <1>1, <1>2, Starting
<1> QED
  BY <1>1, <1>3, GoalsKept, NoAskWritten, HistoryKept DEF Shaped

LEMMA ReaskShaped == ASSUME Inv, NEW a \in Ask, NEW g \in Goal, Reask(a, g) PROVE Shaped
<1>1. Widen(a, {g}) /\ UNCHANGED goalVars /\ UNCHANGED call /\ UNCHANGED <<lost, deaths>>
  BY DEF Reask, callVars
<1> QED
  BY <1>1, Widening, GoalsKept, NoCallMoves, HistoryKept DEF Shaped

LEMMA RetireShaped == ASSUME Inv, NEW a \in Ask, Retire(a) PROVE Shaped
<1>1. UNCHANGED goalVars /\ UNCHANGED call /\ UNCHANGED <<lost, deaths>>
  BY DEF Retire, callVars
<1>2. Obsolete(a, ask[a].blocks) /\ ask[a].blocks \in SUBSET Goal
  BY Typed DEF Retire, AskRow
<1>3. \A g \in Goal : CauseToEnd(a, g)
  BY DEF CauseToEnd
<1>4. AskStep
  BY <1>2, <1>3, Obsoleting
<1> QED
  BY <1>1, <1>4, GoalsKept, NoCallMoves, HistoryKept DEF Shaped

(* A request goes on to its next step. *)
LEMMA AskingOn ==
    ASSUME Inv, NEW c \in Caller, NEW s \in Begun, call' = [call EXCEPT ![c] = s],
           call[c].op \in Asking, s.op \in Asking
    PROVE  CallStep
<1>1. call'[c] = s /\ s \in Call
  BY Typed DEF Call, Begun
<1>2. Moves(c)
  BY <1>1 DEF Moves, CallHolds, Asking, Telling
<1> QED
  BY <1>1, <1>2, OneCallMoves

LEMMA ListOpenShaped == ASSUME Inv, NEW c \in Caller, ListOpen(c) PROVE Shaped
<1> DEFINE same == {a \in Ask : Open(a) /\ ask[a].blocks \cap call[c].goals # {}}
           listed == [a \in Ask |-> IF a \in same THEN ask[a].blocks ELSE {}]
           s == [call[c] EXCEPT !.op = "dedupe", !.listed = listed]
<1>1. call[c] \in Begun /\ call[c].op \in Asking
  BY CallAt DEF ListOpen, At, Asking
<1>2. listed \in [Ask -> SUBSET Goal]
  BY Typed DEF AskRow
<1>3. call' = [call EXCEPT ![c] = s]
  BY Typed DEF ListOpen
<1>4. UNCHANGED goalVars /\ UNCHANGED ask /\ UNCHANGED <<lost, deaths>>
  BY DEF ListOpen
<1> HIDE DEF listed
<1>5. s \in Begun /\ s.op \in Asking
  BY <1>1, <1>2 DEF Begun, Steps, Asking
<1> HIDE DEF s
<1>6. CallStep
  BY <1>1, <1>3, <1>5, AskingOn
<1> QED
  BY <1>4, <1>6, GoalsKept, NoAskWritten, HistoryKept DEF Shaped

LEMMA SupersedeShaped ==
    ASSUME Inv, NEW c \in Caller, At(c, "dedupe"), NEW a \in Listed(c), Supersede(c, a)
    PROVE  AskStep /\ CallStep
<1> DEFINE s == [call[c] EXCEPT !.op = "insert", !.listed = NoAsks,
                                !.goals = @ \cup call[c].listed[a]]
<1>1. call[c] \in Begun /\ call[c].op \in Asking
  BY CallAt DEF At, Asking
<1>2. call[c].listed[a] \in SUBSET Goal /\ a \in Ask
  BY <1>1 DEF Begun, Listed
<1>3. call' = [call EXCEPT ![c] = s] /\ call'[c] = s
  BY Typed DEF Supersede
<1>4. s \in Begun /\ s.op = "insert" /\ call[c].listed[a] \subseteq s.goals
  BY <1>1, <1>2 DEF Begun, Steps, NoAsks
<1> HIDE DEF s
<1>5. CallStep
  BY <1>1, <1>3, <1>4, AskingOn DEF Asking
<1>6. call'[c] # call[c]
  BY <1>3, <1>4 DEF At
<1>7. \A g \in Goal : CauseToEnd(a, g) \/ JoinedSince(a, g)
  BY <1>3, <1>4, <1>6 DEF CauseToEnd, JoinedSince, At
<1>8. AskStep
  BY <1>2, <1>7, Obsoleting DEF Supersede
<1> QED
  BY <1>5, <1>8

LEMMA RefreshShaped ==
    ASSUME Inv, NEW c \in Caller, At(c, "dedupe"), NEW a \in Listed(c), Refresh(c, a)
    PROVE  AskStep /\ CallStep
<1>1. call[c] \in Begun /\ a \in Ask
  BY CallAt DEF At, Listed
<1>2. call[c].goals \in SUBSET Goal
  BY <1>1 DEF Begun
<1>3. AskStep /\ \A g \in call[c].goals : HeldNext(g)
  BY <1>1, <1>2, Widening DEF Refresh
<1>4. CallStep
  BY <1>3, Returning DEF Refresh, At, Telling
<1> QED
  BY <1>3, <1>4

LEMMA MissedShaped ==
    ASSUME Inv, NEW c \in Caller, At(c, "dedupe"), NEW a \in Listed(c), Missed(c, a)
    PROVE  AskStep /\ CallStep
<1> DEFINE s == [call[c] EXCEPT !.listed[a] = {}]
<1>1. call[c] \in Begun /\ call[c].op \in Asking /\ a \in Ask
  BY CallAt DEF At, Asking, Listed
<1>2. call' = [call EXCEPT ![c] = s]
  BY Typed DEF Missed
<1>3. s \in Begun /\ s.op = call[c].op
  BY <1>1 DEF Begun
<1> HIDE DEF s
<1>4. CallStep
  BY <1>1, <1>2, <1>3, AskingOn
<1> QED
  BY <1>4, NoAskWritten DEF Missed

LEMMA DedupeShaped == ASSUME Inv, NEW c \in Caller, Dedupe(c) PROVE Shaped
<1>1. At(c, "dedupe") /\ UNCHANGED goalVars /\ UNCHANGED <<lost, deaths>>
  BY DEF Dedupe, DedupeWith
<1>2. CASE Listed(c) = {}
  <2> DEFINE s == [call[c] EXCEPT !.op = "insert"]
  <2>1. call[c] \in Begun /\ call[c].op \in Asking
    BY <1>1, CallAt DEF At, Asking
  <2>2. call' = [call EXCEPT ![c] = s] /\ UNCHANGED ask
    BY <1>2, Typed DEF Dedupe, DedupeWith
  <2>3. s \in Begun /\ s.op \in Asking
    BY <2>1 DEF Begun, Steps, Asking
  <2> HIDE DEF s
  <2> QED
    BY <2>1, <2>2, <2>3, AskingOn, <1>1, GoalsKept, NoAskWritten, HistoryKept DEF Shaped
<1>3. CASE Listed(c) # {}
  <2>1. PICK a \in Listed(c) : Supersede(c, a) \/ Refresh(c, a) \/ Missed(c, a)
    BY <1>3 DEF Dedupe, DedupeWith
  <2>2. AskStep /\ CallStep
    BY <1>1, <2>1, SupersedeShaped, RefreshShaped, MissedShaped
  <2> QED
    BY <1>1, <2>2, GoalsKept, HistoryKept DEF Shaped
<1> QED
  BY <1>2, <1>3

LEMMA InsertShaped == ASSUME Inv, NEW c \in Caller, Insert(c) PROVE Shaped
<1>1. call[c] \in Begun /\ At(c, "insert")
  BY CallAt DEF Insert, At
<1>2. call[c].goals \in SUBSET Goal /\ call[c].kind \in AskKind
  BY <1>1 DEF Begun
<1>3. UNCHANGED goalVars /\ UNCHANGED <<lost, deaths>> /\ Return(c)
  BY DEF Insert
<1>4. AskStep /\ \A g \in call[c].goals : HeldNext(g)
  <2>1. ASSUME NEW a \in Ask, ask[a].status = "absent",
               ask' = [ask EXCEPT ![a] = [status |-> "open", kind |-> call[c].kind,
                                          blocks |-> call[c].goals]]
        PROVE  AskStep /\ \A g \in call[c].goals : HeldNext(g)
    <3> DEFINE r == [status |-> "open", kind |-> call[c].kind, blocks |-> call[c].goals]
    <3>1. r \in AskRow
      BY <1>2 DEF AskRow, AskStatus
    <3>2. ask'[a] = r /\ r.status = "open" /\ r.blocks = call[c].goals
      BY <2>1, Typed
    <3>3. Writes(a)
      BY <2>1, <3>2 DEF Writes, Holds, Open, Decided
    <3>4. AskStep
      BY <2>1, <3>1, <3>3, OneAskWritten
    <3> QED
      BY <3>2, <3>4 DEF HeldNext
  <2>2. ASSUME NEW a \in Ask, Open(a), Widen(a, call[c].goals)
        PROVE  AskStep /\ \A g \in call[c].goals : HeldNext(g)
    BY <1>2, <2>2, Widening
  <2> QED
    BY <2>1, <2>2 DEF Insert
<1>5. CallStep
  BY <1>1, <1>3, <1>4, Returning DEF At, Telling
<1> QED
  BY <1>3, <1>4, <1>5, GoalsKept, HistoryKept DEF Shaped

-----------------------------------------------------------------------------
(* Closing *)

LEMMA ListCloseShaped == ASSUME Inv, NEW c \in Caller, ListClose(c) PROVE Shaped
<1> DEFINE named == {a \in Ask : /\ Open(a) /\ call[c].goals \subseteq ask[a].blocks
                                 /\ call[c].kind = "auto" => ask[a].kind = "auto"}
           listed == [a \in Ask |-> IF a \in named THEN ask[a].blocks ELSE {}]
           s == [call[c] EXCEPT !.op = "close", !.listed = listed]
<1>1. call[c] \in Begun /\ call[c].op = "listClose"
  BY CallAt DEF ListClose, At
<1>2. listed \in [Ask -> SUBSET Goal]
  BY Typed DEF AskRow
<1>3. \A a \in Ask : listed[a] # {} /\ call[c].kind = "auto" =>
         ask[a].status # "absent" /\ ask[a].kind = "auto"
  BY DEF Open
<1>4. call' = [call EXCEPT ![c] = s] /\ call'[c] = s
  BY Typed DEF ListClose
<1>5. UNCHANGED goalVars /\ UNCHANGED ask /\ UNCHANGED <<lost, deaths>>
  BY DEF ListClose
<1> HIDE DEF listed
<1>6. s \in Begun /\ s.op = "close" /\ s.listed = listed /\ s.goals = call[c].goals
      /\ s.kind = call[c].kind
  BY <1>1, <1>2 DEF Begun, Steps
<1> HIDE DEF s
<1>7. \E g \in Goal : s.goals = {g}
  BY <1>1, <1>6 DEF Inv, CallHolds
<1>8. Moves(c)
  BY <1>1, <1>3, <1>4, <1>5, <1>6, <1>7 DEF Moves, CallHolds, Telling, Asking
<1>9. CallStep
  BY <1>4, <1>6, <1>8, OneCallMoves DEF Call, Begun
<1> QED
  BY <1>5, <1>9, GoalsKept, NoAskWritten, HistoryKept DEF Shaped

(* The ask row of a closing step *)
LEMMA CloseWrites ==
    ASSUME Inv, NEW c \in Caller, At(c, "close"), NEW a \in Listed(c), NEW g \in Goal,
           call[c].goals = {g}, call'[c] # call[c],
           IF call[c].listed[a] = {g} THEN Obsolete(a, {})
           ELSE ask' = IF Open(a) THEN [ask EXCEPT ![a].blocks = @ \ {g}] ELSE ask
    PROVE  AskStep
<1>1. a \in Ask
  BY DEF Listed
<1>2. call[c].kind = "auto" => ask[a].kind = "auto"
  BY <1>1 DEF Inv, CallHolds, At, Listed
<1>3. CauseToEnd(a, g)
  BY <1>2 DEF CauseToEnd, At
<1>4. CASE call[c].listed[a] = {g}
  <2>1. \A h \in Goal : CauseToEnd(a, h) \/ JoinedSince(a, h)
    BY <1>3, <1>4 DEF CauseToEnd, JoinedSince, At
  <2> QED
    BY <1>1, <1>4, <2>1, Obsoleting
<1>5. CASE call[c].listed[a] # {g} /\ Open(a)
  <2> DEFINE r == [ask[a] EXCEPT !.blocks = @ \ {g}]
  <2>1. ask' = [ask EXCEPT ![a] = r] /\ ask'[a] = r
    BY <1>1, <1>5, Typed
  <2>2. r \in AskRow /\ r.status = "open" /\ r.kind = ask[a].kind
        /\ r.blocks = ask[a].blocks \ {g}
    BY <1>1, <1>5, Typed DEF Open, AskRow
  <2> HIDE DEF r
  <2>3. Writes(a)
    BY <1>3, <1>5, <2>1, <2>2 DEF Writes, Holds, Open, Decided
  <2> QED
    BY <1>1, <2>1, <2>2, <2>3, OneAskWritten
<1>6. CASE call[c].listed[a] # {g} /\ ~Open(a)
  BY <1>6, NoAskWritten
<1> QED
  BY <1>4, <1>5, <1>6

LEMMA CloseOneShaped == ASSUME Inv, NEW c \in Caller, CloseOne(c) PROVE Shaped
<1>1. call[c] \in Begun /\ At(c, "close") /\ CallHolds(call[c], ask)
  BY CallAt DEF CloseOne, At, Inv
<1>2. UNCHANGED goalVars /\ UNCHANGED <<lost, deaths>>
  BY DEF CloseOne
<1>3. CASE Listed(c) = {}
  <2>1. Return(c) /\ UNCHANGED ask
    BY <1>3 DEF CloseOne
  <2>2. CallStep
    BY <1>1, <2>1, Returning DEF At, Telling, Asking
  <2> QED
    BY <1>2, <2>1, <2>2, GoalsKept, NoAskWritten, HistoryKept DEF Shaped
<1>4. CASE Listed(c) # {}
  <2>1. PICK g \in Goal : call[c].goals = {g}
    BY <1>1 DEF CallHolds, At
  <2>2. PICK a \in Listed(c) :
           /\ IF call[c].listed[a] = {g} THEN Obsolete(a, {})
              ELSE ask' = IF Open(a) THEN [ask EXCEPT ![a].blocks = @ \ {g}] ELSE ask
           /\ call' = [call EXCEPT ![c].listed[a] = {}]
    BY <1>4, <2>1 DEF CloseOne
  <2> DEFINE s == [call[c] EXCEPT !.listed[a] = {}]
  <2>3. call' = [call EXCEPT ![c] = s] /\ call'[c] = s
    BY <2>2, Typed
  <2>4. a \in Ask /\ call[c].listed[a] # {}
    BY DEF Listed
  <2>5. s \in Begun /\ s.op = "close" /\ s.goals = {g} /\ s.kind = call[c].kind
        /\ s.listed = [call[c].listed EXCEPT ![a] = {}]
    BY <1>1, <2>1, <2>4 DEF Begun, At
  <2> HIDE DEF s
  <2>6. \A b \in Ask : s.listed[b] # {} => call[c].listed[b] # {}
    BY <1>1, <2>4, <2>5 DEF Begun
  <2>7. call'[c] # call[c]
    BY <1>1, <2>3, <2>4, <2>5 DEF Begun
  <2>8. AskStep
    BY <1>1, <2>1, <2>2, <2>7, CloseWrites
  <2>9. Moves(c)
    <3>1. \A b \in Ask : s.listed[b] # {} /\ s.kind = "auto" =>
             ask'[b].status # "absent" /\ ask'[b].kind = "auto"
      BY <1>1, <2>5, <2>6, <2>8, AskStepKeeps DEF CallHolds, At
    <3> QED
      BY <1>1, <2>3, <2>5, <3>1 DEF Moves, CallHolds, At, Telling, Asking
  <2>10. CallStep
    BY <2>3, <2>5, <2>9, OneCallMoves DEF Call, Begun
  <2> QED
    BY <1>2, <2>8, <2>10, GoalsKept, HistoryKept DEF Shaped
<1> QED
  BY <1>3, <1>4

-----------------------------------------------------------------------------
(* Deciding *)

LEMMA DecideShaped == ASSUME Inv, NEW c \in Caller, NEW a \in Ask, Decide(c, a) PROVE Shaped
<1> DEFINE s == [op |-> "read", goals |-> {}, kind |-> ask[a].kind, listed |-> NoAsks,
                 ask |-> a]
<1>1. At(c, "idle") /\ Open(a) /\ UNCHANGED goalVars /\ UNCHANGED <<lost, deaths>>
  BY DEF Decide
<1>2. PICK st \in Decided : ask' = [ask EXCEPT ![a].status = st]
  BY DEF Decide, Decided
<1> DEFINE r == [ask[a] EXCEPT !.status = st]
<1>3. ask' = [ask EXCEPT ![a] = r] /\ ask'[a] = r
  BY <1>2, Typed
<1>4. r \in AskRow /\ r.status = st /\ r.kind = ask[a].kind
  BY Typed DEF AskRow, AskStatus, Decided
<1>5. s \in Call
  BY Typed DEF Call, Steps, NoAsks, AskRow
<1>6. call' = [call EXCEPT ![c] = s] /\ call'[c] = s
  BY Typed DEF Decide
<1>7. s.op = "read" /\ s.ask = a
  OBVIOUS
<1> HIDE DEF r, s
<1>8. Writes(a)
  BY <1>1, <1>3, <1>4, <1>6, <1>7 DEF Writes, Open, CauseToEnd, Decided
<1>9. AskStep
  BY <1>3, <1>4, <1>8, OneAskWritten
<1>10. Moves(c)
  BY <1>1, <1>3, <1>4, <1>6, <1>7 DEF Moves, CallHolds, At, Telling, Asking
<1>11. CallStep
  BY <1>5, <1>6, <1>10, OneCallMoves
<1> QED
  BY <1>1, <1>9, <1>11, GoalsKept, HistoryKept DEF Shaped

LEMMA DecideReadShaped == ASSUME Inv, NEW c \in Caller, DecideRead(c) PROVE Shaped
<1> DEFINE gs == ask[call[c].ask].blocks
<1>1. call[c] \in Begun /\ call[c].op = "read" /\ CallHolds(call[c], ask)
  BY CallAt DEF DecideRead, At, Inv
<1>2. UNCHANGED goalVars /\ UNCHANGED ask /\ UNCHANGED <<lost, deaths>>
  BY DEF DecideRead
<1>3. call[c].ask \in Ask /\ gs \in SUBSET Goal
  BY <1>1, Typed DEF CallHolds, AskRow, Telling
<1>4. CASE gs = {}
  <2>1. Return(c)
    BY <1>4 DEF DecideRead
  <2>2. CallStep
    BY <1>1, <1>4, <2>1, Returning DEF Asking
  <2> QED
    BY <1>2, <2>2, GoalsKept, NoAskWritten, HistoryKept DEF Shaped
<1>5. CASE gs # {}
  <2> DEFINE s == [call[c] EXCEPT !.op = "answer", !.goals = gs]
  <2>1. call' = [call EXCEPT ![c] = s] /\ call'[c] = s
    BY <1>5, Typed DEF DecideRead
  <2>2. s \in Begun /\ s.op = "answer" /\ s.goals = gs /\ s.ask = call[c].ask
    BY <1>1, <1>3 DEF Begun, Steps
  <2> HIDE DEF s
  <2>3. Moves(c)
    BY <1>1, <1>2, <2>1, <2>2 DEF Moves, CallHolds, Tells, Telling, Asking
  <2>4. CallStep
    BY <2>1, <2>2, <2>3, OneCallMoves DEF Call, Begun
  <2> QED
    BY <1>2, <2>4, GoalsKept, NoAskWritten, HistoryKept DEF Shaped
<1> QED
  BY <1>4, <1>5

(* A call that tells goals goes on, through with at most one that has heard. *)
LEMMA TellingOn ==
    ASSUME Inv, NEW c \in Caller, call[c].op \in {"answer", "flip"}, UNCHANGED ask,
           NEW g \in call[c].goals, call[c].ask \in heard'[g],
           NextGoal(c, g) \/ call' = [call EXCEPT ![c].op = "flip"]
    PROVE  CallStep
<1>1. call[c] \in Begun /\ CallHolds(call[c], ask)
  BY CallAt DEF Inv
<1>2. CASE Return(c)
  <2>1. CASE call[c].goals = {g}
    BY <1>2, <2>1, Returning DEF Tells, Asking
  <2>2. CASE call[c].goals # {g}
    <3> DEFINE s == [call[c] EXCEPT !.op = "answer", !.goals = @ \ {g}]
               f == [call[c] EXCEPT !.op = "flip"]
    <3>1. s \in Begun /\ f \in Begun /\ s.op # "idle" /\ f.op # "idle"
      BY <1>1 DEF Begun, Steps
    <3>2. call'[c] = s \/ call'[c] = f
      BY <2>2, Typed DEF NextGoal
    <3>3. call'[c].op = "idle"
      BY <1>2, Typed DEF Return, Idle
    <3> QED
      BY <3>1, <3>2, <3>3
  <2> QED
    BY <2>1, <2>2
<1>3. CASE ~Return(c)
  <2> DEFINE s == [call[c] EXCEPT !.op = "answer", !.goals = @ \ {g}]
             f == [call[c] EXCEPT !.op = "flip"]
  <2>1. PICK t \in {s, f} : call' = [call EXCEPT ![c] = t]
    BY <1>3, Typed DEF NextGoal
  <2>2. t \in Begun /\ t.op \in {"answer", "flip"} /\ t.ask = call[c].ask
        /\ call[c].goals \ {g} \subseteq t.goals
    BY <1>1, <2>1 DEF Begun, Steps
  <2>3. call'[c] = t
    BY <2>1, Typed
  <2>4. Moves(c)
    BY <1>1, <2>2, <2>3 DEF Moves, CallHolds, Tells, Telling, Asking
  <2> QED
    BY <2>1, <2>2, <2>4, OneCallMoves DEF Call, Begun
<1> QED
  BY <1>2, <1>3

LEMMA AnswerShaped == ASSUME Inv, NEW c \in Caller, Answer(c) PROVE Shaped
<1>1. call[c] \in Begun /\ call[c].op = "answer" /\ CallHolds(call[c], ask)
  BY CallAt DEF Answer, At, Inv
<1>2. UNCHANGED goal /\ UNCHANGED ask /\ UNCHANGED <<lost, deaths>>
  BY DEF Answer
<1>3. PICK g \in call[c].goals :
         /\ heard' = [heard EXCEPT ![g] = @ \cup {call[c].ask}]
         /\ NextGoal(c, g) \/ call' = [call EXCEPT ![c].op = "flip"]
  BY DEF Answer
<1>4. call[c].ask \in Ask /\ g \in Goal
  BY <1>1 DEF CallHolds, Telling, Begun
<1>5. GoalStep
  BY <1>2, <1>3, <1>4, Typed DEF GoalStep
<1>6. CallStep
  <2>1. call[c].ask \in heard'[g]
    BY <1>3, <1>4, Typed
  <2> QED
    BY <1>1, <1>2, <1>3, <2>1, TellingOn
<1> QED
  BY <1>2, <1>5, <1>6, NoAskWritten, HistoryKept DEF Shaped

LEMMA FlipShaped == ASSUME Inv, NEW c \in Caller, Flip(c) PROVE Shaped
<1>1. call[c] \in Begun /\ call[c].op = "flip"
  BY CallAt DEF Flip, At
<1>2. UNCHANGED heard /\ UNCHANGED ask /\ UNCHANGED <<lost, deaths>>
  BY DEF Flip
<1>3. PICK g \in call[c].goals :
         /\ call[c].ask \in heard[g]
         /\ goal' = IF goal[g] = "blocked" THEN [goal EXCEPT ![g] = "ready"] ELSE goal
         /\ NextGoal(c, g)
  BY DEF Flip
<1>4. GoalStep
  BY <1>2, <1>3, Typed DEF GoalStep, GoalStatus
<1>5. CallStep
  BY <1>1, <1>2, <1>3, TellingOn
<1> QED
  BY <1>2, <1>4, <1>5, NoAskWritten, HistoryKept DEF Shaped

LEMMA DieShaped == ASSUME Inv, NEW c \in Caller, Die(c) PROVE Shaped
<1>1. call[c] \in Begun /\ CallHolds(call[c], ask)
  BY CallAt DEF Die, At, Inv
<1>2. UNCHANGED goalVars /\ UNCHANGED ask /\ Return(c)
  BY DEF Die
<1>3. lost' = lost \cup ({call[c].ask} \ {None})
  BY DEF Die
<1>4. lost' \subseteq Ask /\ (call[c].op \in Telling => call[c].ask \in lost')
  BY <1>1, <1>3, Typed DEF Begun, CallHolds
<1>5. deaths' \in 0..MaxDeaths /\ deaths' # deaths
  BY Typed DEF Die
<1>6. CallStep
  BY <1>2, <1>4, <1>5, Returning
<1> QED
  BY <1>2, <1>3, <1>4, <1>5, <1>6, GoalsKept, NoAskWritten DEF Shaped, HistoryStep

-----------------------------------------------------------------------------
LEMMA NextShaped == ASSUME Inv, Next PROVE Shaped
<1>1. ASSUME NEW g \in Goal, Serve(g) \/ RunEnds(g) \/ \E a \in Ask : Reask(a, g)
      PROVE  Shaped
  BY <1>1, ServeShaped, ReaskShaped
<1>2. ASSUME NEW a \in Ask, Retire(a) PROVE Shaped
  BY <1>2, RetireShaped
<1>3. ASSUME NEW c \in Caller, Step(c) \/ Die(c) PROVE Shaped
  BY <1>3, ListOpenShaped, DedupeShaped, InsertShaped, ListCloseShaped, CloseOneShaped,
     DecideReadShaped, AnswerShaped, FlipShaped, DieShaped DEF Step
<1>4. ASSUME NEW c \in Caller, NEW g \in Goal,
             Trip(c, g) \/ Finish(c, g) \/ Requeue(c, g) \/ AskApproval(c, g)
      PROVE  Shaped
  BY <1>4, StartersShaped, AskersShaped
<1>5. ASSUME NEW c \in Caller, NEW gs \in SUBSET Goal \ {{}}, AskOwner(c, gs) PROVE Shaped
  BY <1>5, AskersShaped
<1>6. ASSUME NEW c \in Caller, NEW a \in Ask, Decide(c, a) PROVE Shaped
  BY <1>6, DecideShaped
<1> QED
  BY <1>1, <1>2, <1>3, <1>4, <1>5, <1>6 DEF Next

LEMMA StutterShaped == ASSUME Inv, UNCHANGED vars PROVE Shaped
<1>1. UNCHANGED goalVars /\ UNCHANGED ask /\ UNCHANGED call /\ UNCHANGED <<lost, deaths>>
  BY DEF vars, callVars
<1> QED
  BY <1>1, GoalsKept, NoAskWritten, NoCallMoves, HistoryKept DEF Shaped

LEMMA StepShaped == ASSUME Inv, [Next]_vars PROVE Shaped
BY NextShaped, StutterShaped

(* The inductive invariant holds in every reachable state. *)
THEOREM InvHolds == Spec => []Inv
<1>1. Inv /\ [Next]_vars => Inv'
  BY StepShaped, ShapedKeepsInv
<1> QED
  BY <1>1, InitInv, PTL DEF Spec

(* Goals, asks and calls keep their shape, and a decision that a call      *)
(* carries around was made and is not undone (decide_ask).                 *)
THEOREM TypeCorrect == Spec => []TypeOK
<1>1. Inv => TypeOK
  BY DEF Inv
<1> QED
  BY <1>1, InvHolds, PTL

(* decide_ask: every goal the ask is about hears the decision, or a call   *)
(* still has it to tell, unless the decider died.                          *)
THEOREM AnswersReachAll == Spec => []AnswerReachesAll
<1>1. Inv => AnswerReachesAll
  BY DEF Inv, AnswerReachesAll, Told, Tells, Telling, Decided, At
<1> QED
  BY <1>1, InvHolds, PTL

(* The guards of decide_ask, _obsolete_ask and update_key_cas keep an ask  *)
(* that was decided or closed as it is.                                    *)
THEOREM ClosedNeverChange == Spec => ClosedStaysClosed
<1>1. Inv /\ [Next]_vars =>
         [\A a \in Ask : ask[a].status \notin {"absent", "open"} => ask'[a] = ask[a]]_vars
  BY StepShaped, AskStepKeeps DEF Shaped
<1> QED
  BY <1>1, InvHolds, PTL DEF Spec, ClosedStaysClosed

(* An ask lets go of a goal that the closing call knew of only for a cause *)
(* that concerns this goal, whatever calls overlap.                        *)
THEOREM ListedHoldsEndForCause == Spec => ListedHoldEndsForCause
<1>1. ASSUME Inv, Shaped, NEW a \in Ask, NEW g \in Goal, Holds(a, g), ~Holds(a, g)'
      PROVE  CauseToEnd(a, g) \/ JoinedSince(a, g)
  BY <1>1 DEF Shaped, AskStep, Writes, Holds, Open
<1>2. Inv /\ [Next]_vars =>
         [\A a \in Ask, g \in Goal :
             Holds(a, g) /\ ~Holds(a, g)' => CauseToEnd(a, g) \/ JoinedSince(a, g)]_vars
  BY <1>1, StepShaped
<1> QED
  BY <1>2, InvHolds, PTL DEF Spec, ListedHoldEndsForCause

(* create_ask returns with its goals held by an open ask, the caller's or  *)
(* another one's.                                                          *)
THEOREM AskedAreHeld == Spec => AskedIsHeld
<1>1. ASSUME Inv, Shaped, NEW c \in Caller, Creating(c), ~Creating(c)', deaths' = deaths,
             NEW g \in call[c].goals
      PROVE  Held(g)'
  <2>1. Moves(c)
    BY <1>1 DEF Shaped, CallStep, Creating
  <2>2. HeldNext(g)
    BY <1>1, <2>1 DEF Moves, Creating, Asking
  <2> QED
    BY <2>2 DEF HeldNext, Held, Holds, Open
<1>2. Inv /\ [Next]_vars =>
         [\A c \in Caller : Creating(c) /\ ~Creating(c)' /\ deaths' = deaths =>
             \A g \in call[c].goals : Held(g)']_vars
  BY <1>1, StepShaped
<1> QED
  BY <1>2, InvHolds, PTL DEF Spec, AskedIsHeld
=============================================================================
