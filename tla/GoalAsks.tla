------------------------------- MODULE GoalAsks ------------------------------
(***************************************************************************)
(* The asks of the goal board: durable questions to the owner, each naming *)
(* the goals it blocks.  An open ask holds its goals out of dispatch; the  *)
(* owner's decision is written onto each of them; a goal that ends or is   *)
(* requeued lets go of the asks that were about it.                        *)
(*                                                                         *)
(* Sources: agents/task/goals/board_asks.py, the transitions of board.py   *)
(* that call it, and _maybe_escalate_blocked of dispatcher.py.             *)
(*                                                                         *)
(* Asks have no lock: a caller lists the open ones, decides from that      *)
(* list, and writes them one guarded statement at a time, while the others *)
(* do the same.  A step is one such statement.                             *)
(*                                                                         *)
(* Abstractions.                                                           *)
(*  - One tenant.  The claims and runs of goals are those of GoalClaims;   *)
(*    here a served goal is running, and serving it is one step.           *)
(*  - update_key_cas is one step: its retries suffice.                     *)
(*  - A session's rail, the text of an answer, the cap on kept answers and *)
(*    the events are left out, and so is _drop_held when it cannot read.   *)
(*  - Titles are similar or not as the case may be.                        *)
(***************************************************************************)
EXTENDS Naturals

CONSTANTS
    Goal, Ask, Caller,  \* a caller is a dispatcher, an agent or an owner seat
    MaxDeaths           \* bound of the model: callers that die in a call

GoalStatus == {"ready", "running", "blocked", "terminal"}
AskStatus == {"absent", "open", "fulfilled", "rejected", "obsolete"}

(* What payload says of the ask: the dispatcher's own (auto_unblock), one  *)
(* an agent filed, or a tool approval.                                     *)
AskKind == {"auto", "agent", "approval"}

Steps == {"list", "dedupe", "insert", "listClose", "close", "read", "answer", "flip"}

None == "none"

ASSUME AsksAssumption == None \notin Ask /\ MaxDeaths \in Nat

VARIABLES
    goal,     \* status of each goal
    heard,    \* the asks whose decision is on its payload.owner_answers
    ask,      \* the ask rows
    call,     \* where each caller stands in its call
    lost,     \* history: asks whose decider died before all goals heard it
    deaths

goalVars == <<goal, heard>>
callVars == <<call, lost, deaths>>
vars == <<goalVars, ask, callVars>>

NoAsks == [a \in Ask |-> {}]

(* kind is the kind of the ask to create, or of those to close ("agent":   *)
(* any); listed, the blocks the caller read of each open ask it considers. *)
Idle == [op |-> "idle"]
Call == {Idle} \cup
        [op : Steps, goals : SUBSET Goal, kind : AskKind, listed : [Ask -> SUBSET Goal],
         ask : Ask \cup {None}]

Open(a) == ask[a].status = "open"
Holds(a, g) == Open(a) /\ g \in ask[a].blocks

(* _held_by_open_ask *)
Held(g) == \E a \in Ask : Holds(a, g)

Start(c, op, gs, kind) ==
    call' = [call EXCEPT ![c] =
               [op |-> op, goals |-> gs, kind |-> kind, listed |-> NoAsks, ask |-> None]]

At(c, op) == call[c].op = op
Return(c) == call' = [call EXCEPT ![c] = Idle]
GoalTo(g, st) == goal' = [goal EXCEPT ![g] = st]

(* Variant of Widen: whatever has become of the ask. *)
WidenAny(a, gs) == ask' = [ask EXCEPT ![a].blocks = @ \cup gs]

(* update_key_cas with _widen: an ask that is no longer open is not touched. *)
Widen(a, gs) == ask' = IF Open(a) THEN [ask EXCEPT ![a].blocks = @ \cup gs] ELSE ask

(* Variant of Obsolete: from any status. *)
ObsoleteAny(a, gs) == ask' = [ask EXCEPT ![a].status = "obsolete", ![a].blocks = gs]

(* _obsolete_ask: the status moves from open only, and blocks rides along. *)
Obsolete(a, gs) ==
    ask' = IF Open(a) THEN [ask EXCEPT ![a].status = "obsolete", ![a].blocks = gs] ELSE ask

(* Bound of the model: a call that may create an ask has one to create. *)
Creating(c) == call[c].op \in {"list", "dedupe", "insert"}
Room == \E f \in [{c \in Caller : Creating(c)} \cup {None} -> {a \in Ask : ask[a].status = "absent"}] :
           \A x, y \in DOMAIN f : x # y => f[x] # f[y]

-----------------------------------------------------------------------------
Init ==
    /\ goal = [g \in Goal |-> "ready"]
    /\ heard = [g \in Goal |-> {}]
    /\ ask = [a \in Ask |-> [status |-> "absent", kind |-> "agent", blocks |-> {}]]
    /\ call = [c \in Caller |-> Idle]
    /\ lost = {} /\ deaths = 0

-----------------------------------------------------------------------------
(* Goals *)

(* ready() with _drop_held, and the claim. *)
Serve(g) ==
    /\ goal[g] = "ready" /\ ~Held(g)
    /\ GoalTo(g, "running")
    /\ UNCHANGED <<heard, ask, callVars>>

(* A failed run below the breaker, a yield, a release. *)
RunEnds(g) ==
    /\ goal[g] = "running"
    /\ GoalTo(g, "ready")
    /\ UNCHANGED <<heard, ask, callVars>>

(* The failure that trips the breaker.  The dispatcher escalates: after an *)
(* awaited push it creates the automatic ask, whatever the goal is by then. *)
Trip(c, g) ==
    /\ goal[g] = "running" /\ At(c, "idle") /\ Room
    /\ GoalTo(g, "blocked")
    /\ Start(c, "list", {g}, "auto")
    /\ UNCHANGED <<heard, ask, lost, deaths>>

(* Done or cancelled, and _release_asks *)
Finish(c, g) ==
    /\ goal[g] # "terminal" /\ At(c, "idle")
    /\ GoalTo(g, "terminal")
    /\ Start(c, "listClose", {g}, "agent")
    /\ UNCHANGED <<heard, ask, lost, deaths>>

(* unblock, transition to ready, a provider requeue, retry_goal: ready     *)
(* first, release_auto_unblock_asks after.                                 *)
Requeue(c, g) ==
    /\ goal[g] \in {"ready", "blocked"} /\ At(c, "idle")
    /\ GoalTo(g, "ready")
    /\ Start(c, "listClose", {g}, "auto")
    /\ UNCHANGED <<heard, ask, lost, deaths>>

-----------------------------------------------------------------------------
(* Creating an ask *)

(* The goal verb of an agent *)
AskOwner(c, gs) ==
    /\ At(c, "idle") /\ Room
    /\ Start(c, "list", gs, "agent")
    /\ UNCHANGED <<goalVars, ask, lost, deaths>>

(* A tool approval, asked for from a goal's run (force: no dedup). *)
AskApproval(c, g) ==
    /\ At(c, "idle") /\ goal[g] = "running" /\ Room
    /\ Start(c, "insert", {g}, "approval")
    /\ UNCHANGED <<goalVars, ask, lost, deaths>>

(* add_ask_blocked_goals: an approval asked for again, from another run.  *)
(* The caller has found the ask open; it may have been decided since.      *)
Reask(a, g) ==
    /\ ask[a].status # "absent" /\ ask[a].kind = "approval" /\ goal[g] = "running"
    /\ Widen(a, {g})
    /\ UNCHANGED <<goalVars, callVars>>

(* The open asks about the same goals, of whatever kind. *)
ListOpen(c) ==
    /\ At(c, "list")
    /\ LET same == {a \in Ask : Open(a) /\ ask[a].blocks \cap call[c].goals # {}} IN
          call' = [call EXCEPT ![c].op = "dedupe",
                               ![c].listed = [a \in Ask |-> IF a \in same THEN ask[a].blocks ELSE {}]]
    /\ UNCHANGED <<goalVars, ask, lost, deaths>>

Listed(c) == {a \in Ask : call[c].listed[a] # {}}

(* Variant of Supersede: the goals of the old ask are not taken over. *)
SupersedeForgets(c, a) ==
    /\ ask[a].kind = "auto" /\ call[c].kind = "agent"
    /\ Obsolete(a, call[c].listed[a])
    /\ call' = [call EXCEPT ![c].op = "insert", ![c].listed = NoAsks]

(* The agent's question replaces the dispatcher's, and takes over its goals. *)
Supersede(c, a) ==
    /\ ask[a].kind = "auto" /\ call[c].kind = "agent"
    /\ Obsolete(a, call[c].listed[a])
    /\ call' = [call EXCEPT ![c].op = "insert", ![c].listed = NoAsks,
                            ![c].goals = @ \cup call[c].listed[a]]

(* The need is known: the ask there is gets the goals. *)
Refresh(c, a) ==
    /\ ~(ask[a].kind = "auto" /\ call[c].kind = "agent") /\ Open(a)
    /\ Widen(a, call[c].goals) /\ Return(c)

(* Decided meanwhile: the next of the list *)
Missed(c, a) ==
    /\ ~(ask[a].kind = "auto" /\ call[c].kind = "agent") /\ ~Open(a)
    /\ call' = [call EXCEPT ![c].listed[a] = {}]
    /\ UNCHANGED ask

DedupeWith(c, Miss(_, _)) ==
    /\ At(c, "dedupe")
    /\ IF Listed(c) = {} THEN call' = [call EXCEPT ![c].op = "insert"] /\ UNCHANGED ask
       ELSE \E a \in Listed(c) : Supersede(c, a) \/ Refresh(c, a) \/ Miss(c, a)
    /\ UNCHANGED <<goalVars, lost, deaths>>

(* Variant of Dedupe: an ask that was decided meanwhile counts as found. *)
DedupeFound(c) ==
    LET Found(d, a) == ~Open(a) /\ Return(d) /\ UNCHANGED ask
    IN  DedupeWith(c, Found)

Dedupe(c) == DedupeWith(c, Missed)

(* No ask is about these goals: the new row, or an open ask with a title   *)
(* like it, of any kind.                                                   *)
Insert(c) ==
    /\ At(c, "insert")
    /\ \/ \E a \in Ask :
             /\ ask[a].status = "absent"
             /\ ask' = [ask EXCEPT ![a] = [status |-> "open", kind |-> call[c].kind,
                                           blocks |-> call[c].goals]]
       \/ \E a \in Ask : Open(a) /\ call[c].kind # "approval" /\ Widen(a, call[c].goals)
    /\ Return(c)
    /\ UNCHANGED <<goalVars, lost, deaths>>

-----------------------------------------------------------------------------
(* close_asks_for_goal *)

ListClose(c) ==
    /\ At(c, "listClose")
    /\ LET named == {a \in Ask : /\ Open(a) /\ call[c].goals \subseteq ask[a].blocks
                                 /\ call[c].kind = "auto" => ask[a].kind = "auto"} IN
          call' = [call EXCEPT ![c].op = "close",
                               ![c].listed = [a \in Ask |-> IF a \in named THEN ask[a].blocks ELSE {}]]
    /\ UNCHANGED <<goalVars, ask, lost, deaths>>

(* An ask that was read with other goals loses this one; one that was read *)
(* without any is closed.                                                  *)
CloseOne(c) ==
    /\ At(c, "close")
    /\ IF Listed(c) = {} THEN Return(c) /\ UNCHANGED ask
       ELSE \E a \in Listed(c) :
              /\ LET gs == call[c].goals IN
                    IF call[c].listed[a] = gs THEN Obsolete(a, {})
                    ELSE ask' = IF Open(a) THEN [ask EXCEPT ![a].blocks = @ \ gs] ELSE ask
              /\ call' = [call EXCEPT ![c].listed[a] = {}]
    /\ UNCHANGED <<goalVars, lost, deaths>>

(* obsolete_ask, expire_open_asks, close_settled_config_asks: the need     *)
(* went away, or its time is over.                                         *)
Retire(a) ==
    /\ Open(a)
    /\ Obsolete(a, ask[a].blocks)
    /\ UNCHANGED <<goalVars, callVars>>

-----------------------------------------------------------------------------
(* decide_ask *)

Decide(c, a) ==
    /\ At(c, "idle") /\ Open(a)
    /\ \E st \in {"fulfilled", "rejected"} : ask' = [ask EXCEPT ![a].status = st]
    /\ call' = [call EXCEPT ![c] = [op |-> "read", goals |-> {}, kind |-> ask[a].kind,
                                    listed |-> NoAsks, ask |-> a]]
    /\ UNCHANGED <<goalVars, lost, deaths>>

(* The row is read again: no goal can join a decided ask. *)
DecideRead(c) ==
    /\ At(c, "read")
    /\ LET gs == ask[call[c].ask].blocks IN
          IF gs = {} THEN Return(c)
          ELSE call' = [call EXCEPT ![c].op = "answer", ![c].goals = gs]
    /\ UNCHANGED <<goalVars, ask, lost, deaths>>

(* The goal is done with. *)
NextGoal(c, g) ==
    IF call[c].goals = {g} THEN Return(c)
    ELSE call' = [call EXCEPT ![c].op = "answer", ![c].goals = @ \ {g}]

(* The decision is appended to the goal, whatever its status. *)
Answer(c) ==
    /\ At(c, "answer")
    /\ \E g \in call[c].goals :
          /\ heard' = [heard EXCEPT ![g] = @ \cup {call[c].ask}]
          /\ IF ask[call[c].ask].status = "fulfilled"
             THEN call' = [call EXCEPT ![c].op = "flip"]
             ELSE NextGoal(c, g)
    /\ UNCHANGED <<goal, ask, lost, deaths>>

(* An approval unblocks the goals of the ask, if they are blocked still. *)
Flip(c) ==
    /\ At(c, "flip")
    /\ \E g \in call[c].goals :
          /\ call[c].ask \in heard[g]
          /\ goal' = IF goal[g] = "blocked" THEN [goal EXCEPT ![g] = "ready"] ELSE goal
          /\ NextGoal(c, g)
    /\ UNCHANGED <<heard, ask, lost, deaths>>

-----------------------------------------------------------------------------
(* The caller's process dies in its call. *)
Die(c) ==
    /\ ~At(c, "idle") /\ deaths < MaxDeaths
    /\ deaths' = deaths + 1
    /\ lost' = lost \cup ({call[c].ask} \ {None})
    /\ Return(c)
    /\ UNCHANGED <<goalVars, ask>>

Step(c) == \/ ListOpen(c) \/ Dedupe(c) \/ Insert(c) \/ ListClose(c) \/ CloseOne(c)
           \/ DecideRead(c) \/ Answer(c) \/ Flip(c)

Next ==
    \/ \E g \in Goal : Serve(g) \/ RunEnds(g) \/ \E a \in Ask : Reask(a, g)
    \/ \E a \in Ask : Retire(a)
    \/ \E c \in Caller :
          \/ Step(c) \/ Die(c)
          \/ \E g \in Goal : Trip(c, g) \/ Finish(c, g) \/ Requeue(c, g) \/ AskApproval(c, g)
          \/ \E gs \in SUBSET Goal \ {{}} : AskOwner(c, gs)
          \/ \E a \in Ask : Decide(c, a)

Spec == Init /\ [][Next]_vars

-----------------------------------------------------------------------------
(* Properties *)

(* Everything keeps its shape, and a call that carries a decision around   *)
(* has one to carry: its ask was decided and is never undone meanwhile.    *)
TypeOK ==
    /\ goal \in [Goal -> GoalStatus] /\ heard \in [Goal -> SUBSET Ask]
    /\ ask \in [Ask -> [status : AskStatus, kind : AskKind, blocks : SUBSET Goal]]
    /\ call \in [Caller -> Call]
    /\ \A c \in Caller : call[c].op \in {"read", "answer", "flip"} =>
          call[c].ask \in Ask /\ ask[call[c].ask].status \in {"fulfilled", "rejected"}
    /\ lost \subseteq Ask /\ deaths \in 0..MaxDeaths

(* What may end the hold of ask a on goal g in a step: the owner's         *)
(* decision; the need is withdrawn; g ended, or was requeued and the ask   *)
(* is the dispatcher's; an agent's ask that takes g over.                  *)
CauseToEnd(a, g) ==
    \/ ask'[a].status \in {"fulfilled", "rejected"}
    \/ Retire(a)
    \/ \E c \in Caller :
          /\ call[c].op \in {"dedupe", "close"} /\ a \in Listed(c) /\ call'[c] # call[c]
          /\ \/ At(c, "close") /\ call[c].goals = {g} /\ (call[c].kind = "auto" => ask[a].kind = "auto")
             \/ At(c, "dedupe") /\ g \in call'[c].goals

(* A call closes ask a, and g has joined a since the call made its list.   *)
JoinedSince(a, g) ==
    \E c \in Caller :
       /\ call[c].op \in {"dedupe", "close"} /\ a \in Listed(c) /\ call'[c] # call[c]
       /\ g \notin call[c].listed[a]

(* close_asks_for_goal: "An ask blocking SEVERAL goals stays open until    *)
(* the last one resolves - the need is still real for the others."  A goal *)
(* that waits for the owner is let go for a reason that concerns it, never *)
(* because of what happens to another goal of the same ask.  The code      *)
(* breaks this for a goal that joins the ask between its list and its      *)
(* close: goal_asks_joined refutes it.                                     *)
HoldEndsForCause ==
    [][\A a \in Ask, g \in Goal : Holds(a, g) /\ ~Holds(a, g)' => CauseToEnd(a, g)]_vars

(* What the code does keep: a goal that was on the ask when the call that  *)
(* closes it made its list is let go for a reason that concerns it, and    *)
(* not by a requeue that answers nothing, whichever calls overlap.         *)
ListedHoldEndsForCause ==
    [][\A a \in Ask, g \in Goal :
          Holds(a, g) /\ ~Holds(a, g)' => CauseToEnd(a, g) \/ JoinedSince(a, g)]_vars

(* decide_ask: every goal the ask is about gets the decision, also one     *)
(* that joined it while the owner was deciding, unless the owner's process *)
(* dies before it has told them all.                                       *)
AnswerReachesAll ==
    \A a \in Ask \ lost : ask[a].status \in {"fulfilled", "rejected"} =>
       \A g \in ask[a].blocks :
          \/ a \in heard[g]
          \/ \E c \in Caller :
                /\ call[c].op \in {"read", "answer", "flip"} /\ call[c].ask = a
                /\ At(c, "read") \/ g \in call[c].goals

(* create_ask: the caller returns with an open ask that names its goals,   *)
(* its own or the one it found, though that one may be decided or closed   *)
(* under its hands.  (_maybe_escalate_blocked: "ALWAYS leave a TRACKED ask *)
(* for a blocked goal".)                                                   *)
AskedIsHeld ==
    [][\A c \in Caller : Creating(c) /\ ~Creating(c)' /\ deaths' = deaths =>
          \A g \in call[c].goals : Held(g)']_vars

(* An ask that was decided or closed is history: no late close, refresh or *)
(* second decision changes its outcome or its goals.                       *)
ClosedStaysClosed ==
    [][\A a \in Ask : ask[a].status \notin {"absent", "open"} => ask'[a] = ask[a]]_vars
==============================================================================
