--------------------------- MODULE ApprovalsProofs --------------------------
(* Theorems about Approvals, for any number of asks, runs, seats, drains,  *)
(* requests and mishaps.                                                   *)
EXTENDS Approvals, TLAPS

USE ApprovalsAssumption

Waiting == {"poll", "consume"}
Attending == {"poll", "consume", "reread", "enqueue"}

(* What has been granted, and what an actor in state s has read or taken   *)
(* of it, by the ask rows, the wakes and the executions so far.            *)
GrantHolds(a) ==
    /\ ask[a].consumed => Approved(a)
    /\ executed[a] > 0 => ask[a].consumed

ReqHolds(s, rows, ex) ==
    /\ s.op = "redeem" => \A a \in s.todo : rows[a].status = "fulfilled"
    /\ s.op \in Attending \cup {"push"} => s.ask \in Ask
    /\ s.op \in {"consume", "enqueue"} => rows[s.ask].status = "fulfilled"
    /\ s.op = "push" => rows[s.ask].consumed /\ ex[s.ask] = 0

SeatHolds(s, rows) == s.op # "idle" => s.ask \in Ask /\ rows[s.ask].status = "fulfilled"

DrainHolds(s, rows, wakes, ex, tell) ==
    /\ \A a \in s.rows : wakes[a].status # "absent"
    /\ s.op \notin {"idle", "next"} => s.ask \in Ask /\ rows[s.ask].status = "fulfilled"
    /\ s.op = "send" => rows[s.ask].consumed
    /\ s.op = "done" => rows[s.ask].consumed \/ (s.ask \in tell /\ ~rows[s.ask].stored)
    /\ s.op = "send" => ex[s.ask] = 0

WakeHolds(a) ==
    /\ wake[a].status # "absent" => Approved(a)
    /\ wake[a].status = "delivered" => ask[a].consumed \/ Unsendable(a)
    /\ wake[a].status = "dropped" => a \in lost

(* One actor at most is between the consumption of a grant and its use. *)
Pushes(s, a) == s.op = "push" /\ s.ask = a
Sends(s, a) == s.op = "send" /\ s.ask = a

SoleHolder ==
    \A a \in Ask :
       /\ \A q, r \in Requester : Pushes(req[q], a) /\ Pushes(req[r], a) => q = r
       /\ \A d, e \in Drain : Sends(drain[d], a) /\ Sends(drain[e], a) => d = e
       /\ \A r \in Requester, d \in Drain : ~(Pushes(req[r], a) /\ Sends(drain[d], a))

(* As long as nobody has declared to be gone, somebody waits for the ask. *)
Waited ==
    \A a \in Ask \ lost :
       ask[a].status \in {"open", "fulfilled"} /\ ~ask[a].consumed /\ ~ask[a].gone =>
          \E r \in Requester : req[r].ask = a /\ req[r].op \in Waiting

(* The inductive invariant. *)
Inv ==
    /\ TypeOK
    /\ \A a \in Ask : GrantHolds(a) /\ WakeHolds(a)
    /\ \A r \in Requester : ReqHolds(req[r], ask, executed)
    /\ \A s \in Seat : SeatHolds(seat[s], ask)
    /\ \A d \in Drain : DrainHolds(drain[d], ask, wake, executed, told)
    /\ SoleHolder
    /\ Waited
    /\ ApprovalAttended

-----------------------------------------------------------------------------
(* What a step may do: to an ask row ... *)
Opens(a) ==
    /\ ask[a].status = "absent" /\ ask'[a].status = "open"
    /\ ask'[a].consumed = ask[a].consumed
    /\ \E r \in Requester : req'[r].ask = a /\ req'[r].op \in Waiting

Closes(a) ==
    /\ ask[a].status = "open" /\ ask'[a].status \in {"rejected", "obsolete"}
    /\ ask'[a].consumed = ask[a].consumed

Approves(a) ==
    /\ ask[a].status = "open" /\ ask'[a].status = "fulfilled"
    /\ ask'[a].consumed = ask[a].consumed /\ ask'[a].gone = ask[a].gone
    /\ \E s \in Seat : seat'[s].ask = a /\ seat'[s].op # "idle"

Consumes(a) ==
    /\ Approved(a) /\ ask'[a].status = ask[a].status
    /\ ~ask[a].consumed /\ ask'[a].consumed

Flags(a) ==
    /\ ask'[a].status = ask[a].status /\ ask'[a].consumed = ask[a].consumed
    /\ ask[a].gone => ask'[a].gone

AskMoves(a) == Opens(a) \/ Closes(a) \/ Approves(a) \/ Consumes(a) \/ Flags(a)

AskStep ==
    /\ ask' \in [Ask -> AskRow]
    /\ \A a \in Ask : ask'[a].stored = ask[a].stored /\ (ask'[a] = ask[a] \/ AskMoves(a))

(* ... to a run: a new holder has just consumed the grant, a run that      *)
(* waited or attended leaves the ask to somebody ...                       *)
Queued(a) == wake'[a].status # "absent"

ReqMoves(r) ==
    /\ \A q \in Requester : q # r => req'[q] = req[q]
    /\ drain' = drain
    /\ ReqHolds(req'[r], ask', executed')
    /\ req'[r].op = "push" => ~ask[req'[r].ask].consumed
    /\ req[r].op \in Waiting =>
          LET a == req[r].ask IN
             \/ a \in lost' \/ ask'[a].gone \/ ask'[a].consumed
             \/ ask'[a].status \notin {"open", "fulfilled"}
             \/ req'[r].ask = a /\ req'[r].op \in Waiting
    /\ req[r].op \in Attending =>
          LET a == req[r].ask IN
             \/ a \in lost' \/ ask'[a].consumed \/ ask[a].status # "fulfilled" \/ Queued(a)
             \/ req'[r].ask = a /\ req'[r].op \in Attending

ReqStep == req' \in [Requester -> ReqState] /\ \A r \in Requester : req'[r] = req[r] \/ ReqMoves(r)

(* ... to a seat ... *)
SeatMoves(s) ==
    /\ SeatHolds(seat'[s], ask')
    /\ seat[s].op # "idle" =>
          LET a == seat[s].ask IN
             \/ a \in lost' \/ Queued(a) \/ ~ask'[a].gone
             \/ seat'[s].ask = a /\ seat'[s].op # "idle"

SeatsStep == seat' \in [Seat -> SeatState] /\ \A s \in Seat : seat'[s] = seat[s] \/ SeatMoves(s)

(* ... to a drain ... *)
DrainMoves(d) ==
    /\ \A e \in Drain : e # d => drain'[e] = drain[e]
    /\ req' = req
    /\ DrainHolds(drain'[d], ask', wake', executed', told')
    /\ drain'[d].op = "send" => ~ask[drain'[d].ask].consumed

DrainsStep == drain' \in [Drain -> DrainState] /\ \A d \in Drain : drain'[d] = drain[d] \/ DrainMoves(d)

(* ... to a wake, and what the owner was told of it ... *)
LeftUnsendable(a) == a \in told' /\ ~ask'[a].stored

Disposes(a) ==
    wake[a].status = "claimed" /\ wake'[a].status # "claimed" =>
       \/ wake[a].stale /\ wake'[a].status = "pending"
       \/ wake'[a].status = "dropped"
       \/ drain[wake[a].by].ask = a /\ drain'[wake[a].by] # drain[wake[a].by]

WakeMoves(a) ==
    /\ Queued(a)
    /\ ask'[a].status = "fulfilled"
    /\ wake'[a].status = "delivered" => ask'[a].consumed \/ Unsendable(a)'
    /\ wake'[a].status = "dropped" => a \in lost'
    /\ Disposes(a)

WakeStep == wake' \in [Ask -> WakeRow] /\ \A a \in Ask : wake'[a] = wake[a] \/ WakeMoves(a)

(* ... and to what was executed: by a holder, who is one no longer. *)
Uses(a) ==
    /\ executed'[a] = executed[a] + 1
    /\ \/ \E r \in Requester : Pushes(req[r], a) /\ req'[r].op # "push"
       \/ \E d \in Drain : Sends(drain[d], a) /\ drain'[d].op # "send"

ExecStep ==
    /\ executed' \in [Ask -> Nat]
    /\ \A a \in Ask : executed'[a] = executed[a] \/ Uses(a)

GrantMoves(a) == ask'[a] # ask[a] \/ executed'[a] # executed[a]

OneGrant == \A a, b \in Ask : GrantMoves(a) /\ GrantMoves(b) => a = b

HistoryStep == /\ lost \subseteq lost' /\ lost' \subseteq Ask
               /\ told \subseteq told' /\ told' \subseteq Ask
               /\ requests' \in 0..MaxRequests /\ mishaps' \in 0..MaxMishaps

Shaped == AskStep /\ ReqStep /\ SeatsStep /\ DrainsStep /\ WakeStep /\ ExecStep /\ OneGrant
          /\ HistoryStep

-----------------------------------------------------------------------------
(* At the start nobody has asked: the invariant holds. *)
THEOREM InitInv == Init => Inv
<1> SUFFICES ASSUME Init PROVE Inv
  OBVIOUS
<1>1. ask \in [Ask -> AskRow] /\ wake \in [Ask -> WakeRow]
  BY DEF Init, AskRow, AskStatus, WakeRow, WakeStatus
<1>2. req \in [Requester -> ReqState] /\ seat \in [Seat -> SeatState]
      /\ drain \in [Drain -> DrainState]
  BY DEF Init, ReqState, SeatState, DrainState, IdleReq, IdleSeat, IdleDrain
<1>3. executed \in [Ask -> 0..1] /\ lost \subseteq Ask /\ told \subseteq Ask
      /\ requests \in 0..MaxRequests /\ mishaps \in 0..MaxMishaps
  BY SMT DEF Init
<1>4. \A a \in Ask : /\ ask[a].status = "absent" /\ ~ask[a].consumed
                     /\ executed[a] = 0 /\ wake[a].status = "absent"
  BY DEF Init
<1>5. /\ \A r \in Requester : req[r].op = "idle"
      /\ \A s \in Seat : seat[s].op = "idle"
      /\ \A d \in Drain : drain[d].op = "idle" /\ drain[d].rows = {}
  BY DEF Init, IdleReq, IdleSeat, IdleDrain
<1>6. \A a \in Ask : GrantHolds(a) /\ WakeHolds(a)
  BY <1>4 DEF GrantHolds, WakeHolds
<1>7. /\ \A r \in Requester : ReqHolds(req[r], ask, executed)
      /\ \A s \in Seat : SeatHolds(seat[s], ask)
      /\ \A d \in Drain : DrainHolds(drain[d], ask, wake, executed, told)
  BY <1>5 DEF ReqHolds, SeatHolds, DrainHolds, Attending
<1>8. SoleHolder /\ Waited /\ ApprovalAttended
  BY <1>4, <1>5 DEF SoleHolder, Pushes, Sends, Waited, ApprovalAttended, Approved
<1> QED
  BY <1>1, <1>2, <1>3, <1>6, <1>7, <1>8 DEF Inv, TypeOK

(* The invariant gives every variable its range. *)
LEMMA Typed ==
    ASSUME Inv
    PROVE  /\ ask \in [Ask -> AskRow] /\ wake \in [Ask -> WakeRow]
           /\ req \in [Requester -> ReqState] /\ seat \in [Seat -> SeatState]
           /\ drain \in [Drain -> DrainState]
           /\ executed \in [Ask -> 0..1] /\ lost \subseteq Ask /\ told \subseteq Ask
           /\ requests \in 0..MaxRequests /\ mishaps \in 0..MaxMishaps
BY DEF Inv, TypeOK

(* Approvals and consumptions are for good. *)
LEMMA GrantsKeep ==
    ASSUME Inv, Shaped, NEW a \in Ask
    PROVE  /\ Approved(a) => ask'[a].status = "fulfilled"
           /\ ask[a].consumed => ask'[a].consumed
           /\ ask[a].gone => ask'[a].gone \/ ask'[a].status # "fulfilled" \/ ask'[a].consumed
           /\ wake[a].status # "absent" => wake'[a].status # "absent"
BY Typed DEF Shaped, AskStep, AskMoves, Opens, Closes, Approves, Consumes, Flags, WakeStep,
             WakeMoves, Queued, Approved, AskRow

(* The owner is not untold, and the text does not appear later. *)
LEMMA UnsendableStays == ASSUME Shaped, NEW a \in Ask PROVE Unsendable(a) => Unsendable(a)'
BY DEF Shaped, AskStep, HistoryStep, Unsendable

(* The ranges are kept: only a holder executes, and its ask was not executed. *)
LEMMA ShapedKeepsTypes == ASSUME Inv, Shaped PROVE TypeOK'
<1>1. executed' \in [Ask -> 0..1]
  <2>1. ASSUME NEW a \in Ask PROVE executed'[a] \in 0..1
    <3>1. CASE executed'[a] = executed[a]
      BY <3>1, Typed
    <3>2. CASE Uses(a)
      <4>1. executed[a] = 0
        BY <3>2 DEF Uses, Inv, ReqHolds, DrainHolds, Pushes, Sends
      <4> QED
        BY <3>2, <4>1 DEF Uses
    <3> QED
      BY <3>1, <3>2 DEF Shaped, ExecStep
  <2> QED
    BY <2>1 DEF Shaped, ExecStep
<1> QED
  BY <1>1 DEF Shaped, AskStep, ReqStep, SeatsStep, DrainsStep, WakeStep, HistoryStep, TypeOK

(* Who holds a grant still holds it, unless it is the one that used it.    *)
LEMMA HolderKeeps ==
    ASSUME Inv, Shaped, NEW a \in Ask
    PROVE  /\ \A r \in Requester : Pushes(req[r], a) /\ req'[r] = req[r] => executed'[a] = 0
           /\ \A d \in Drain : Sends(drain[d], a) /\ drain'[d] = drain[d] => executed'[a] = 0
<1>1. \A r \in Requester : Pushes(req[r], a) => executed[a] = 0
  BY DEF Inv, ReqHolds, Pushes
<1>2. \A d \in Drain : Sends(drain[d], a) => executed[a] = 0
  BY DEF Inv, DrainHolds, Sends
<1>3. executed'[a] = executed[a] \/ Uses(a)
  BY DEF Shaped, ExecStep
<1>4. ASSUME NEW r \in Requester, Pushes(req[r], a), req'[r] = req[r], Uses(a) PROVE FALSE
  BY <1>4 DEF Uses, Inv, SoleHolder, Pushes
<1>5. ASSUME NEW d \in Drain, Sends(drain[d], a), drain'[d] = drain[d], Uses(a) PROVE FALSE
  BY <1>5 DEF Uses, Inv, SoleHolder, Sends
<1> QED
  BY <1>1, <1>2, <1>3, <1>4, <1>5

(* What runs, seats and drains know of the rows stays true. *)
LEMMA ShapedKeepsActors ==
    ASSUME Inv, Shaped
    PROVE  /\ \A r \in Requester : ReqHolds(req'[r], ask', executed')
           /\ \A s \in Seat : SeatHolds(seat'[s], ask')
           /\ \A d \in Drain : DrainHolds(drain'[d], ask', wake', executed', told')
<1>1. ASSUME NEW r \in Requester PROVE ReqHolds(req'[r], ask', executed')
  <2>1. CASE req'[r] = req[r]
    <3>1. ReqHolds(req[r], ask, executed) /\ req[r] \in ReqState
      BY Typed DEF Inv
    <3>2. req[r].op = "push" => executed'[req[r].ask] = 0
      BY <2>1, <3>1, HolderKeeps DEF ReqHolds, Pushes
    <3> QED
      BY <2>1, <3>1, <3>2, GrantsKeep DEF ReqHolds, ReqState, Approved, Attending
  <2> QED
    BY <2>1 DEF Shaped, ReqStep, ReqMoves
<1>2. ASSUME NEW s \in Seat PROVE SeatHolds(seat'[s], ask')
  <2>1. CASE seat'[s] = seat[s]
    BY <2>1, GrantsKeep DEF SeatHolds, Inv, Approved
  <2> QED
    BY <2>1 DEF Shaped, SeatsStep, SeatMoves
<1>3. ASSUME NEW d \in Drain PROVE DrainHolds(drain'[d], ask', wake', executed', told')
  <2>1. CASE drain'[d] = drain[d]
    <3>1. DrainHolds(drain[d], ask, wake, executed, told) /\ drain[d] \in DrainState
      BY Typed DEF Inv
    <3>2. drain[d].op = "send" => executed'[drain[d].ask] = 0
      BY <2>1, <3>1, HolderKeeps DEF DrainHolds, Sends
    <3>3. drain[d].rows \subseteq Ask
      BY <3>1 DEF DrainState
    <3> QED
      BY <2>1, <3>1, <3>2, <3>3, GrantsKeep, UnsendableStays DEF DrainHolds, Approved, Unsendable
  <2> QED
    BY <2>1 DEF Shaped, DrainsStep, DrainMoves
<1> QED
  BY <1>1, <1>2, <1>3

(* A use follows a consumption, a consumption or a wake an approval. *)
LEMMA ShapedKeepsRows ==
    ASSUME Inv, Shaped, NEW a \in Ask
    PROVE  GrantHolds(a)' /\ WakeHolds(a)'
<1>1. ask[a].consumed => ask[a].status = "fulfilled"
  BY DEF Inv, GrantHolds, Approved
<1>2. ask'[a].consumed => ask'[a].status = "fulfilled"
  BY <1>1, GrantsKeep DEF Shaped, AskStep, AskMoves, Opens, Closes, Approves, Consumes, Flags, Approved
<1>3. executed'[a] > 0 => ask'[a].consumed
  <2>1. CASE executed'[a] = executed[a]
    BY <2>1, GrantsKeep DEF Inv, GrantHolds
  <2>2. CASE Uses(a)
    <3>1. ask[a].consumed
      BY <2>2 DEF Uses, Inv, ReqHolds, DrainHolds, Pushes, Sends
    <3> QED
      BY <3>1, GrantsKeep
  <2> QED
    BY <2>1, <2>2 DEF Shaped, ExecStep
<1>4. WakeHolds(a)'
  <2>1. CASE wake'[a] = wake[a]
    BY <2>1, GrantsKeep, UnsendableStays DEF Inv, WakeHolds, Approved, Shaped, HistoryStep
  <2>2. CASE WakeMoves(a)
    BY <2>2 DEF WakeMoves, WakeHolds, Approved
  <2> QED
    BY <2>1, <2>2 DEF Shaped, WakeStep
<1> QED
  BY <1>2, <1>3, <1>4 DEF GrantHolds, Approved

(* A new holder saw the grant unconsumed: it is the only one. *)
LEMMA ShapedKeepsSoleHolder == ASSUME Inv, Shaped PROVE SoleHolder'
<1>1. \A r \in Requester : req[r].op = "push" => req[r].ask \in Ask /\ ask[req[r].ask].consumed
  BY DEF Inv, ReqHolds
<1>2. \A d \in Drain : drain[d].op = "send" => drain[d].ask \in Ask /\ ask[drain[d].ask].consumed
  BY DEF Inv, DrainHolds
<1>3. ASSUME NEW a \in Ask, NEW q \in Requester, NEW r \in Requester,
             Pushes(req'[q], a), Pushes(req'[r], a)
      PROVE  q = r
  <2>1. CASE req'[q] = req[q] /\ req'[r] = req[r]
    BY <1>3, <2>1 DEF Inv, SoleHolder
  <2>2. CASE req'[q] # req[q]
    BY <1>1, <1>3, <2>2 DEF Shaped, ReqStep, ReqMoves, Pushes
  <2>3. CASE req'[r] # req[r]
    BY <1>1, <1>3, <2>3 DEF Shaped, ReqStep, ReqMoves, Pushes
  <2> QED
    BY <2>1, <2>2, <2>3
<1>4. ASSUME NEW a \in Ask, NEW d \in Drain, NEW e \in Drain,
             Sends(drain'[d], a), Sends(drain'[e], a)
      PROVE  d = e
  <2>1. CASE drain'[d] = drain[d] /\ drain'[e] = drain[e]
    BY <1>4, <2>1 DEF Inv, SoleHolder
  <2>2. CASE drain'[d] # drain[d]
    BY <1>2, <1>4, <2>2 DEF Shaped, DrainsStep, DrainMoves, Sends
  <2>3. CASE drain'[e] # drain[e]
    BY <1>2, <1>4, <2>3 DEF Shaped, DrainsStep, DrainMoves, Sends
  <2> QED
    BY <2>1, <2>2, <2>3
<1>5. ASSUME NEW a \in Ask, NEW r \in Requester, NEW d \in Drain,
             Pushes(req'[r], a), Sends(drain'[d], a)
      PROVE  FALSE
  <2>1. CASE req'[r] = req[r] /\ drain'[d] = drain[d]
    BY <1>5, <2>1 DEF Inv, SoleHolder
  <2>2. CASE req'[r] # req[r]
    <3>1. drain'[d] = drain[d] /\ ~ask[a].consumed
      BY <1>5, <2>2 DEF Shaped, ReqStep, ReqMoves, Pushes
    <3> QED
      BY <1>2, <1>5, <3>1 DEF Sends
  <2>3. CASE drain'[d] # drain[d]
    <3>1. req'[r] = req[r] /\ ~ask[a].consumed
      BY <1>5, <2>3 DEF Shaped, DrainsStep, DrainMoves, Sends
    <3> QED
      BY <1>1, <1>5, <3>1 DEF Pushes
  <2> QED
    BY <2>1, <2>2, <2>3
<1> QED
  BY <1>3, <1>4, <1>5 DEF SoleHolder

(* Who stops waiting has set poller_gone, consumed, or is lost. *)
LEMMA ShapedKeepsWaited ==
    ASSUME Inv, Shaped, NEW a \in Ask \ lost', ask'[a].status \in {"open", "fulfilled"},
           ~ask'[a].consumed, ~ask'[a].gone
    PROVE  \E r \in Requester : req'[r].ask = a /\ req'[r].op \in Waiting
<1>1. CASE Opens(a)
  BY <1>1 DEF Opens
<1>2. CASE ask'[a] = ask[a] \/ (AskMoves(a) /\ ~Opens(a))
  <2>1. ask[a].status \in {"open", "fulfilled"} /\ ~ask[a].consumed /\ ~ask[a].gone
    BY <1>2 DEF AskMoves, Closes, Approves, Consumes, Flags, Approved
  <2>2. PICK r \in Requester : req[r].ask = a /\ req[r].op \in Waiting
    BY <2>1 DEF Inv, Waited, Shaped, HistoryStep
  <2>3. CASE req'[r] = req[r]
    BY <2>2, <2>3
  <2>4. CASE ReqMoves(r)
    BY <2>2, <2>4 DEF ReqMoves
  <2> QED
    BY <2>3, <2>4 DEF Shaped, ReqStep
<1> QED
  BY <1>1, <1>2 DEF Shaped, AskStep

(* Who stops attending to an approval leaves it to somebody else. *)
LEMMA ShapedKeepsAttended ==
    ASSUME Inv, Shaped, NEW a \in Ask \ lost', ask'[a].status = "fulfilled", ~ask'[a].consumed,
           ~Unsendable(a)'
    PROVE  Attended(a)'
<1>1. wake'[a].status # "absent" => wake'[a].status \in {"pending", "claimed"}
  <2>1. WakeHolds(a)' /\ wake'[a] \in WakeRow
    BY ShapedKeepsRows DEF Shaped, WakeStep
  <2> QED
    BY <2>1 DEF WakeHolds, WakeRow, WakeStatus
<1>2. CASE Approves(a)
  BY <1>2 DEF Approves, Attended
<1>3. CASE ask'[a] = ask[a] \/ (AskMoves(a) /\ ~Approves(a))
  <2>1. Approved(a) /\ ~ask[a].consumed
    BY <1>3 DEF AskMoves, Opens, Closes, Consumes, Flags, Approved
  <2>2. Attended(a)
    BY <2>1, UnsendableStays DEF Inv, ApprovalAttended, Shaped, HistoryStep
  <2>3. ASSUME NEW r \in Requester, req[r].ask = a, req[r].op \in Attending
        PROVE  Attended(a)'
    <3>1. CASE req'[r] = req[r]
      BY <2>3, <3>1 DEF Attended, Attending
    <3>2. CASE ReqMoves(r)
      BY <1>1, <2>1, <2>3, <3>2 DEF ReqMoves, Attended, Attending, Queued, Approved
    <3> QED
      BY <3>1, <3>2 DEF Shaped, ReqStep
  <2>4. ASSUME NEW s \in Seat, seat[s].ask = a, seat[s].op # "idle"
        PROVE  Attended(a)'
    <3>1. CASE seat'[s] = seat[s]
      BY <2>4, <3>1 DEF Attended
    <3>2. CASE ~ask'[a].gone
      BY <3>2, ShapedKeepsWaited DEF Attended, Waiting
    <3>3. CASE SeatMoves(s) /\ ask'[a].gone
      BY <1>1, <2>4, <3>3 DEF SeatMoves, Attended, Queued
    <3> QED
      BY <3>1, <3>2, <3>3 DEF Shaped, SeatsStep
  <2>5. CASE wake[a].status \in {"pending", "claimed"}
    BY <1>1, <2>5, GrantsKeep DEF Attended
  <2> QED
    BY <2>2, <2>3, <2>4, <2>5 DEF Attended, Attending
<1> QED
  BY <1>2, <1>3 DEF Shaped, AskStep

(* A step of that shape keeps the invariant. *)
LEMMA ShapedKeepsInv == ASSUME Inv, Shaped PROVE Inv'
<1>1. TypeOK' /\ SoleHolder'
  BY ShapedKeepsTypes, ShapedKeepsSoleHolder
<1>2. \A a \in Ask : GrantHolds(a)' /\ WakeHolds(a)'
  BY ShapedKeepsRows
<1>3. Waited'
  BY ShapedKeepsWaited DEF Waited
<1>4. ApprovalAttended'
  BY ShapedKeepsAttended DEF ApprovalAttended, Approved
<1> QED
  BY <1>1, <1>2, <1>3, <1>4, ShapedKeepsActors DEF Inv

-----------------------------------------------------------------------------
(* What a step leaves alone, and the one entry that it changes *)

(* No ask row and no execution changes. *)
LEMMA RowsKept ==
    ASSUME Inv, UNCHANGED ask, UNCHANGED executed
    PROVE  AskStep /\ ExecStep /\ OneGrant
BY Typed DEF AskStep, ExecStep, OneGrant, GrantMoves

(* One ask row changes. *)
LEMMA OneAsk ==
    ASSUME Inv, NEW a \in Ask, NEW n \in AskRow, ask' = [ask EXCEPT ![a] = n], AskMoves(a),
           n.stored = ask[a].stored, UNCHANGED executed
    PROVE  AskStep /\ ExecStep /\ OneGrant
BY Typed DEF AskStep, ExecStep, OneGrant, GrantMoves

(* A holder executes. *)
LEMMA OneUse ==
    ASSUME Inv, NEW a \in Ask, Executes(a), UNCHANGED ask,
           \/ \E r \in Requester : Pushes(req[r], a) /\ req'[r].op # "push"
           \/ \E d \in Drain : Sends(drain[d], a) /\ drain'[d].op # "send"
    PROVE  AskStep /\ ExecStep /\ OneGrant
<1>1. Uses(a)
  BY Typed DEF Uses, Executes
<1>2. executed' \in [Ask -> Nat] /\ \A b \in Ask : b # a => executed'[b] = executed[b]
  BY Typed DEF Executes
<1> QED
  BY <1>1, <1>2, Typed DEF AskStep, ExecStep, OneGrant, GrantMoves

(* No run moves. *)
LEMMA ReqsKept == ASSUME Inv, UNCHANGED req PROVE ReqStep
BY Typed DEF ReqStep

(* One run moves. *)
LEMMA OneReq ==
    ASSUME Inv, NEW r \in Requester, NEW t \in ReqState, req' = [req EXCEPT ![r] = t],
           req'[r] = t => ReqMoves(r)
    PROVE  ReqStep
BY Typed DEF ReqStep

(* No seat moves. *)
LEMMA SeatsKept == ASSUME Inv, UNCHANGED seat PROVE SeatsStep
BY Typed DEF SeatsStep

(* One seat moves. *)
LEMMA OneSeat ==
    ASSUME Inv, NEW s \in Seat, NEW t \in SeatState, seat' = [seat EXCEPT ![s] = t],
           seat'[s] = t => SeatMoves(s)
    PROVE  SeatsStep
BY Typed DEF SeatsStep

(* No drain moves. *)
LEMMA DrainsKept == ASSUME Inv, UNCHANGED drain PROVE DrainsStep
BY Typed DEF DrainsStep

(* One drain moves. *)
LEMMA OneDrain ==
    ASSUME Inv, NEW d \in Drain, NEW t \in DrainState, drain' = [drain EXCEPT ![d] = t],
           drain'[d] = t => DrainMoves(d)
    PROVE  DrainsStep
BY Typed DEF DrainsStep

(* No wake changes. *)
LEMMA WakesKept == ASSUME Inv, UNCHANGED wake PROVE WakeStep
BY Typed DEF WakeStep

(* One wake changes. *)
LEMMA OneWake ==
    ASSUME Inv, NEW a \in Ask, NEW w \in WakeRow, wake' = [wake EXCEPT ![a] = w],
           wake'[a] = w => WakeMoves(a)
    PROVE  WakeStep
BY Typed DEF WakeStep

(* Nothing is lost. *)
LEMMA HistoryKept == ASSUME Inv, UNCHANGED lost, UNCHANGED told, UNCHANGED bounds PROVE HistoryStep
BY Typed DEF HistoryStep, bounds

(* A mishap may cost the grants in a set. *)
LEMMA Mishaps ==
    ASSUME Inv, Mishap, UNCHANGED requests, UNCHANGED told, NEW x \in SUBSET Ask, lost' = lost \cup x
    PROVE  HistoryStep
BY Typed DEF HistoryStep, Mishap

(* A run goes to its next step, with the ask a. *)
LEMMA ReqGoes ==
    ASSUME Inv, NEW r \in Requester, NEW a \in Ask \cup {None},
           NEW op \in {"idle", "find", "create", "push", "reread", "enqueue"} \cup Waiting,
           ReqTo(r, op, a), UNCHANGED drain,
           op \in Attending \cup {"push"} => a \in Ask,
           op \in {"consume", "enqueue"} => ask'[a].status = "fulfilled",
           op = "push" => ask'[a].consumed /\ executed'[a] = 0 /\ ~ask[a].consumed,
           req[r].op \in Waiting =>
              LET b == req[r].ask IN
                 \/ b \in lost' \/ ask'[b].gone \/ ask'[b].consumed
                 \/ ask'[b].status \notin {"open", "fulfilled"}
                 \/ a = b /\ op \in Waiting,
           req[r].op \in Attending =>
              LET b == req[r].ask IN
                 \/ b \in lost' \/ ask'[b].consumed \/ ask[b].status # "fulfilled" \/ Queued(b)
                 \/ a = b /\ op \in Attending
    PROVE  ReqStep
<1> DEFINE t == [op |-> op, ask |-> a, todo |-> {}]
<1>1. t \in ReqState /\ t.op = op /\ t.ask = a
  BY DEF ReqState, Waiting
<1>2. req' = [req EXCEPT ![r] = t]
  BY DEF ReqTo
<1> HIDE DEF t
<1>3. ReqHolds(t, ask', executed')
  BY <1>1 DEF ReqHolds, Attending, Waiting
<1>4. req'[r] = t => ReqMoves(r)
  BY <1>1, <1>2, <1>3, Typed DEF ReqMoves
<1> QED
  BY <1>1, <1>2, <1>4, OneReq

-----------------------------------------------------------------------------
(* The steps of a run *)

(* A grant is consumed. *)
LEMMA Consuming ==
    ASSUME Inv, NEW a \in Ask, Approved(a), Consume(a), UNCHANGED executed
    PROVE  /\ AskStep /\ ExecStep /\ OneGrant
           /\ ask'[a].status = "fulfilled" /\ ask'[a].consumed /\ executed'[a] = 0
           /\ ~ask[a].consumed
<1> DEFINE n == [ask[a] EXCEPT !.consumed = TRUE]
<1>1. ask' = [ask EXCEPT ![a] = n] /\ ask'[a] = n /\ ~ask[a].consumed
  BY Typed DEF Consume
<1>2. n \in AskRow /\ n.status = "fulfilled" /\ n.consumed /\ n.stored = ask[a].stored
  <2>1. ask[a] \in AskRow
    BY Typed
  <2>2. n \in AskRow /\ n.status = "fulfilled"
    BY <2>1 DEF AskRow, Approved
  <2>3. n.consumed = TRUE
    BY <2>1 DEF AskRow
  <2>4. n.stored = ask[a].stored
    BY <2>1, Zenon DEF AskRow
  <2> QED
    BY <2>2, <2>3, <2>4
<1> HIDE DEF n
<1>3. AskMoves(a)
  BY <1>1, <1>2 DEF AskMoves, Consumes, Approved
<1>4. executed'[a] = 0
  BY <1>1, Typed DEF Inv, GrantHolds
<1> QED
  BY <1>1, <1>2, <1>3, <1>4, OneAsk

(* A list of approvals is read: all of them are approved. *)
LEMMA RequestShaped == ASSUME Inv, NEW r \in Requester, Request(r) PROVE Shaped
<1> DEFINE todo == {a \in Ask : Approved(a) /\ ~ask[a].consumed /\ ~ask[a].lapsed}
           t == [op |-> "redeem", ask |-> None, todo |-> todo]
<1>1. /\ req[r].op = "idle" /\ req' = [req EXCEPT ![r] = t]
      /\ UNCHANGED ask /\ UNCHANGED wake /\ UNCHANGED seat /\ UNCHANGED drain
      /\ UNCHANGED executed /\ UNCHANGED lost /\ UNCHANGED told
  BY DEF Request, history
<1>2. t \in ReqState /\ t.op = "redeem" /\ t.todo = todo
  BY DEF ReqState
<1>3. ReqHolds(t, ask', executed')
  BY <1>1, <1>2 DEF ReqHolds, Attending, Approved
<1> HIDE DEF t
<1>4. req'[r] = t => ReqMoves(r)
  BY <1>1, <1>2, <1>3, Typed DEF ReqMoves, Waiting, Attending
<1>5. HistoryStep
  BY <1>1, Typed DEF HistoryStep, Request
<1>6. ReqStep
  BY <1>1, <1>2, <1>4, OneReq
<1> QED
  BY <1>1, <1>5, <1>6, RowsKept, SeatsKept, DrainsKept, WakesKept DEF Shaped

(* A grant of the list is consumed, or found consumed and passed over. *)
LEMMA RedeemShaped == ASSUME Inv, NEW r \in Requester, Redeem(r) PROVE Shaped
<1>1. /\ req[r].op = "redeem"
      /\ UNCHANGED wake /\ UNCHANGED seat /\ UNCHANGED drain
      /\ UNCHANGED executed /\ UNCHANGED lost /\ UNCHANGED told /\ UNCHANGED bounds
  BY DEF Redeem, history
<1>2. PICK a \in req[r].todo :
         IF ask[a].consumed
         THEN req' = [req EXCEPT ![r].todo = @ \ {a}] /\ UNCHANGED ask
         ELSE Consume(a) /\ ReqTo(r, "push", a)
  BY DEF Redeem
<1>3. a \in Ask /\ Approved(a) /\ req[r] \in ReqState
  BY <1>1, Typed DEF Inv, ReqHolds, ReqState, Approved
<1>4. CASE ask[a].consumed
  <2> DEFINE t == [req[r] EXCEPT !.todo = @ \ {a}]
  <2>1. req' = [req EXCEPT ![r] = t]
    BY <1>2, <1>4, Typed
  <2>2. t \in ReqState /\ t.op = "redeem" /\ t.todo \subseteq req[r].todo
    BY <1>1, <1>3 DEF ReqState
  <2> HIDE DEF t
  <2>3. UNCHANGED ask /\ ReqHolds(t, ask', executed')
    BY <1>1, <1>2, <1>4, <2>2 DEF Inv, ReqHolds, Attending
  <2>4. req'[r] = t => ReqMoves(r)
    BY <1>1, <2>1, <2>2, <2>3, Typed DEF ReqMoves, Waiting, Attending
  <2>5. ReqStep
    BY <2>1, <2>2, <2>4, OneReq
  <2> QED
    BY <1>1, <2>3, <2>5, RowsKept, SeatsKept, DrainsKept, WakesKept, HistoryKept DEF Shaped
<1>5. CASE ~ask[a].consumed
  <2>1. Consume(a) /\ ReqTo(r, "push", a)
    BY <1>2, <1>5
  <2>2. /\ AskStep /\ ExecStep /\ OneGrant
        /\ ask'[a].status = "fulfilled" /\ ask'[a].consumed /\ executed'[a] = 0
    BY <1>1, <1>3, <2>1, Consuming
  <2>3. ReqStep
    BY <1>1, <1>3, <1>5, <2>1, <2>2, ReqGoes DEF Waiting, Attending
  <2> QED
    BY <1>1, <2>2, <2>3, SeatsKept, DrainsKept, WakesKept, HistoryKept DEF Shaped
<1> QED
  BY <1>4, <1>5

(* No grant was left. *)
LEMMA NothingToRedeemShaped == ASSUME Inv, NEW r \in Requester, NothingToRedeem(r) PROVE Shaped
<1>1. /\ req[r].op = "redeem" /\ ReqTo(r, "find", None)
      /\ UNCHANGED ask /\ UNCHANGED wake /\ UNCHANGED seat /\ UNCHANGED drain
      /\ UNCHANGED executed /\ UNCHANGED lost /\ UNCHANGED told /\ UNCHANGED bounds
  BY DEF NothingToRedeem, history
<1>2. ReqStep
  BY <1>1, ReqGoes DEF Waiting, Attending
<1> QED
  BY <1>1, <1>2, RowsKept, SeatsKept, DrainsKept, WakesKept, HistoryKept DEF Shaped

(* An open ask past its time is closed, by a run or by the sweep. *)
LEMMA Expiring ==
    ASSUME Inv, NEW a \in Ask, ask[a].status = "open",
           NEW st \in {"rejected", "obsolete"}, ask' = [ask EXCEPT ![a].status = st],
           UNCHANGED executed
    PROVE  AskStep /\ ExecStep /\ OneGrant
<1> DEFINE n == [ask[a] EXCEPT !.status = st]
<1>1. ask' = [ask EXCEPT ![a] = n] /\ ask'[a] = n
  BY Typed
<1>2. n \in AskRow /\ n.status = st /\ n.consumed = ask[a].consumed
  BY Typed DEF AskRow, AskStatus
<1>3. n.stored = ask[a].stored
  <2>1. ask[a] \in AskRow
    BY Typed
  <2> QED
    BY <2>1, Zenon DEF AskRow
<1> HIDE DEF n
<1>4. AskMoves(a)
  BY <1>1, <1>2 DEF AskMoves, Closes
<1> QED
  BY <1>1, <1>2, <1>3, <1>4, OneAsk

(* An expired ask is closed, or the run waits for a live one. *)
LEMMA FindShaped == ASSUME Inv, NEW r \in Requester, Find(r) PROVE Shaped
<1>1. /\ req[r].op = "find"
      /\ UNCHANGED wake /\ UNCHANGED seat /\ UNCHANGED drain
      /\ UNCHANGED executed /\ UNCHANGED lost /\ UNCHANGED told /\ UNCHANGED bounds
  BY DEF Find, history
<1>2. ASSUME NEW a \in Ask, ask[a].status = "open", UNCHANGED req,
             ask' = [ask EXCEPT ![a].status = "obsolete"]
      PROVE  AskStep /\ ExecStep /\ OneGrant /\ ReqStep
  BY <1>1, <1>2, Expiring, ReqsKept
<1>3. ASSUME NEW a \in Ask, ReqTo(r, "poll", a), UNCHANGED ask
      PROVE  AskStep /\ ExecStep /\ OneGrant /\ ReqStep
  BY <1>1, <1>3, RowsKept, ReqGoes DEF Waiting, Attending
<1>4. ASSUME ReqTo(r, "create", None), UNCHANGED ask
      PROVE  AskStep /\ ExecStep /\ OneGrant /\ ReqStep
  BY <1>1, <1>4, RowsKept, ReqGoes DEF Waiting, Attending
<1>5. AskStep /\ ExecStep /\ OneGrant /\ ReqStep
  BY <1>2, <1>3, <1>4 DEF Find
<1> QED
  BY <1>1, <1>5, SeatsKept, DrainsKept, WakesKept, HistoryKept DEF Shaped

(* A new ask has the run that waits for it. *)
LEMMA CreateShaped == ASSUME Inv, NEW r \in Requester, Create(r) PROVE Shaped
<1>1. /\ req[r].op = "create"
      /\ UNCHANGED wake /\ UNCHANGED seat /\ UNCHANGED drain
      /\ UNCHANGED executed /\ UNCHANGED lost /\ UNCHANGED told /\ UNCHANGED bounds
  BY DEF Create, history
<1>2. ASSUME NEW a \in Ask, ask[a].status = "absent", ReqTo(r, "poll", a),
             ask' = [ask EXCEPT ![a].status = "open"]
      PROVE  AskStep /\ ExecStep /\ OneGrant /\ ReqStep
  <2> DEFINE n == [ask[a] EXCEPT !.status = "open"]
  <2>1. ask' = [ask EXCEPT ![a] = n] /\ ask'[a] = n
    BY <1>2, Typed
  <2>2. n \in AskRow /\ n.status = "open" /\ n.consumed = ask[a].consumed
    BY Typed DEF AskRow, AskStatus
  <2>6. n.stored = ask[a].stored
    <3>1. ask[a] \in AskRow
      BY Typed
    <3> QED
      BY <3>1, Zenon DEF AskRow
  <2> HIDE DEF n
  <2>3. req'[r].ask = a /\ req'[r].op = "poll"
    BY <1>2, Typed DEF ReqTo
  <2>4. AskMoves(a)
    BY <1>2, <2>1, <2>2, <2>3 DEF AskMoves, Opens, Waiting
  <2>5. ReqStep
    BY <1>1, <1>2, ReqGoes DEF Waiting, Attending
  <2> QED
    BY <1>1, <2>1, <2>2, <2>4, <2>5, <2>6, OneAsk
<1>3. ASSUME ReqTo(r, "idle", None), UNCHANGED ask
      PROVE  AskStep /\ ExecStep /\ OneGrant /\ ReqStep
  BY <1>1, <1>3, RowsKept, ReqGoes DEF Waiting, Attending
<1>4. AskStep /\ ExecStep /\ OneGrant /\ ReqStep
  BY <1>2, <1>3 DEF Create
<1> QED
  BY <1>1, <1>4, SeatsKept, DrainsKept, WakesKept, HistoryKept DEF Shaped

(* An approval is read; anything else ends the request. *)
LEMMA PollShaped == ASSUME Inv, NEW r \in Requester, Poll(r) PROVE Shaped
<1> DEFINE a == req[r].ask
           t == IF Approved(a) THEN [req[r] EXCEPT !.op = "consume"] ELSE IdleReq
<1>1. /\ req[r].op = "poll" /\ ask[a].status # "open"
      /\ UNCHANGED ask /\ UNCHANGED wake /\ UNCHANGED seat /\ UNCHANGED drain
      /\ UNCHANGED executed /\ UNCHANGED lost /\ UNCHANGED told /\ UNCHANGED bounds
  BY DEF Poll, history
<1>2. req' = [req EXCEPT ![r] = t]
  BY Typed DEF Poll
<1>3. req[r] \in ReqState /\ a \in Ask
  BY <1>1, Typed DEF Inv, ReqHolds, Attending
<1>4. t \in ReqState /\ (Approved(a) => t.op = "consume" /\ t.ask = a)
      /\ (~Approved(a) => t.op = "idle")
  BY <1>3 DEF ReqState, IdleReq
<1> HIDE DEF t
<1>5. ReqHolds(t, ask', executed')
  BY <1>1, <1>3, <1>4 DEF ReqHolds, Attending, Approved
<1>6. req'[r] = t => ReqMoves(r)
  BY <1>1, <1>2, <1>4, <1>5, Typed DEF ReqMoves, Waiting, Attending, Approved
<1>7. ReqStep
  BY <1>2, <1>4, <1>6, OneReq
<1> QED
  BY <1>1, <1>7, RowsKept, SeatsKept, DrainsKept, WakesKept, HistoryKept DEF Shaped

(* The run that waited consumes the grant, or somebody has. *)
LEMMA InBandConsumeShaped == ASSUME Inv, NEW r \in Requester, InBandConsume(r) PROVE Shaped
<1> DEFINE a == req[r].ask
<1>1. /\ req[r].op = "consume"
      /\ UNCHANGED wake /\ UNCHANGED seat /\ UNCHANGED drain
      /\ UNCHANGED executed /\ UNCHANGED lost /\ UNCHANGED told /\ UNCHANGED bounds
  BY DEF InBandConsume, history
<1>2. a \in Ask /\ Approved(a)
  BY <1>1 DEF Inv, ReqHolds, Attending, Approved
<1>3. CASE Consume(a) /\ ReqTo(r, "push", a)
  <2>1. /\ AskStep /\ ExecStep /\ OneGrant
        /\ ask'[a].status = "fulfilled" /\ ask'[a].consumed /\ executed'[a] = 0
        /\ ~ask[a].consumed
    BY <1>1, <1>2, <1>3, Consuming
  <2>2. ReqStep
    BY <1>1, <1>2, <1>3, <2>1, ReqGoes DEF Waiting, Attending
  <2> QED
    BY <1>1, <2>1, <2>2, SeatsKept, DrainsKept, WakesKept, HistoryKept DEF Shaped
<1>4. CASE ask[a].consumed /\ ReqTo(r, "idle", None) /\ UNCHANGED ask
  <2>1. ReqStep
    BY <1>1, <1>4, ReqGoes DEF Waiting, Attending
  <2> QED
    BY <1>1, <1>4, <2>1, RowsKept, SeatsKept, DrainsKept, WakesKept, HistoryKept DEF Shaped
<1> QED
  BY <1>3, <1>4 DEF InBandConsume

(* A run dies, is cut or is denied: its ask is lost. *)
LEMMA RunMishapsShaped ==
    ASSUME Inv, NEW r \in Requester, StoreError(r) \/ CutAfterConsume(r) \/ RunDies(r)
    PROVE  Shaped
<1> DEFINE x == {req[r].ask} \ {None}
<1>1. /\ ReqTo(r, "idle", None) /\ Mishap
      /\ UNCHANGED ask /\ UNCHANGED wake /\ UNCHANGED seat /\ UNCHANGED drain
      /\ UNCHANGED executed /\ UNCHANGED told /\ UNCHANGED requests
  BY DEF StoreError, CutAfterConsume, RunDies
<1>2. req[r].op \in Attending \cup {"push"} => req[r].ask \in Ask
  BY DEF Inv, ReqHolds
<1>3. x \in SUBSET Ask
  BY Typed DEF ReqState
<1>4. lost' = lost \cup x
  BY <1>2 DEF StoreError, CutAfterConsume, RunDies, Attending
<1>5. HistoryStep
  BY <1>1, <1>3, <1>4, Mishaps
<1>6. ReqStep
  BY <1>1, <1>2, <1>4, ReqGoes DEF Waiting, Attending
<1> QED
  BY <1>1, <1>5, <1>6, RowsKept, SeatsKept, DrainsKept, WakesKept DEF Shaped

(* The run uses the grant that it holds. *)
LEMMA GrantedShaped == ASSUME Inv, NEW r \in Requester, Granted(r) PROVE Shaped
<1> DEFINE a == req[r].ask
<1>1. /\ req[r].op = "push" /\ Executes(a) /\ ReqTo(r, "idle", None)
      /\ UNCHANGED ask /\ UNCHANGED wake /\ UNCHANGED seat /\ UNCHANGED drain
      /\ UNCHANGED lost /\ UNCHANGED told /\ UNCHANGED bounds
  BY DEF Granted
<1>2. a \in Ask
  BY <1>1 DEF Inv, ReqHolds
<1>3. req'[r].op = "idle"
  BY <1>1, Typed DEF ReqTo
<1>4. AskStep /\ ExecStep /\ OneGrant
  BY <1>1, <1>2, <1>3, OneUse DEF Pushes
<1>5. ReqStep
  BY <1>1, ReqGoes DEF Waiting, Attending
<1> QED
  BY <1>1, <1>4, <1>5, SeatsKept, DrainsKept, WakesKept, HistoryKept DEF Shaped

(* poller_gone is set, and the run still has to read the decision. *)
LEMMA LeaveShaped == ASSUME Inv, NEW r \in Requester, Leave(r) PROVE Shaped
<1> DEFINE a == req[r].ask
           n == [ask[a] EXCEPT !.gone = TRUE]
<1>1. /\ req[r].op = "poll" /\ ReqTo(r, "reread", a)
      /\ UNCHANGED wake /\ UNCHANGED seat /\ UNCHANGED drain
      /\ UNCHANGED executed /\ UNCHANGED lost /\ UNCHANGED told /\ UNCHANGED bounds
  BY DEF Leave, history
<1>2. a \in Ask
  BY <1>1 DEF Inv, ReqHolds, Attending
<1>3. ask' = [ask EXCEPT ![a] = n] /\ ask'[a] = n
  BY <1>2, Typed DEF Leave
<1>4. n \in AskRow /\ n.status = ask[a].status /\ n.consumed = ask[a].consumed
      /\ n.stored = ask[a].stored
  <2>1. ask[a] \in AskRow
    BY <1>2, Typed
  <2>2. n \in AskRow
    BY <2>1 DEF AskRow
  <2>3. n.status = ask[a].status
    BY <2>1 DEF AskRow
  <2>4. n.consumed = ask[a].consumed /\ n.stored = ask[a].stored
    BY <2>1, Zenon DEF AskRow
  <2> QED
    BY <2>2, <2>3, <2>4
<1>5. n.gone = TRUE
  BY <1>2, Typed DEF AskRow
<1> HIDE DEF n
<1>6. AskMoves(a)
  BY <1>3, <1>4, <1>5 DEF AskMoves, Flags
<1>7. AskStep /\ ExecStep /\ OneGrant
  BY <1>1, <1>2, <1>3, <1>4, <1>6, OneAsk
<1>8. ReqStep
  BY <1>1, <1>2, <1>3, <1>5, ReqGoes DEF Waiting, Attending
<1> QED
  BY <1>1, <1>7, <1>8, SeatsKept, DrainsKept, WakesKept, HistoryKept DEF Shaped

(* The run queues the approval, or leaves an undecided ask to the seat. *)
LEMMA RereadShaped == ASSUME Inv, NEW r \in Requester, Reread(r) PROVE Shaped
<1> DEFINE a == req[r].ask
<1>1. /\ req[r].op = "reread"
      /\ UNCHANGED ask /\ UNCHANGED wake /\ UNCHANGED seat /\ UNCHANGED drain
      /\ UNCHANGED executed /\ UNCHANGED lost /\ UNCHANGED told /\ UNCHANGED bounds
  BY DEF Reread, history
<1>2. a \in Ask
  BY <1>1 DEF Inv, ReqHolds, Attending
<1>3. CASE Approved(a) /\ ~ask[a].consumed
  <2>1. ReqTo(r, "enqueue", a)
    BY <1>3 DEF Reread
  <2>2. ReqStep
    BY <1>1, <1>2, <1>3, <2>1, ReqGoes DEF Waiting, Attending, Approved
  <2> QED
    BY <1>1, <2>2, RowsKept, SeatsKept, DrainsKept, WakesKept, HistoryKept DEF Shaped
<1>4. CASE ~(Approved(a) /\ ~ask[a].consumed)
  <2>1. ReqTo(r, "idle", None)
    BY <1>4 DEF Reread
  <2>2. ReqStep
    BY <1>1, <1>4, <2>1, ReqGoes DEF Waiting, Attending, Approved
  <2> QED
    BY <1>1, <2>2, RowsKept, SeatsKept, DrainsKept, WakesKept, HistoryKept DEF Shaped
<1> QED
  BY <1>3, <1>4

(* A late send is queued, once. *)
LEMMA Enqueueing ==
    ASSUME Inv, NEW a \in Ask, Approved(a), UNCHANGED ask, Enqueue(a)
    PROVE  WakeStep /\ Queued(a)
<1>1. CASE wake[a].status # "absent"
  BY <1>1, WakesKept DEF Enqueue, Queued
<1>2. CASE wake[a].status = "absent"
  <2> DEFINE w == [wake[a] EXCEPT !.status = "pending"]
  <2>1. wake' = [wake EXCEPT ![a] = w] /\ wake'[a] = w
    BY <1>2, Typed DEF Enqueue
  <2>2. w \in WakeRow /\ w.status = "pending"
    BY Typed DEF WakeRow, WakeStatus
  <2> HIDE DEF w
  <2>3. WakeMoves(a)
    BY <1>2, <2>1, <2>2 DEF WakeMoves, Queued, Disposes, Approved
  <2> QED
    BY <2>1, <2>2, <2>3, OneWake DEF Queued
<1> QED
  BY <1>1, <1>2

(* The late send is queued by the run. *)
LEMMA LeaverEnqueuesShaped == ASSUME Inv, NEW r \in Requester, LeaverEnqueues(r) PROVE Shaped
<1> DEFINE a == req[r].ask
<1>1. /\ req[r].op = "enqueue" /\ Enqueue(a) /\ ReqTo(r, "idle", None)
      /\ UNCHANGED ask /\ UNCHANGED seat /\ UNCHANGED drain
      /\ UNCHANGED executed /\ UNCHANGED lost /\ UNCHANGED told /\ UNCHANGED bounds
  BY DEF LeaverEnqueues, history
<1>2. a \in Ask /\ Approved(a)
  BY <1>1 DEF Inv, ReqHolds, Attending, Approved
<1>3. WakeStep /\ Queued(a)
  BY <1>1, <1>2, Enqueueing
<1>4. ReqStep
  BY <1>1, <1>3, ReqGoes DEF Waiting, Attending
<1> QED
  BY <1>1, <1>3, <1>4, RowsKept, SeatsKept, DrainsKept, HistoryKept DEF Shaped

-----------------------------------------------------------------------------
(* The seats of the owner, and the clock of an ask *)

(* A seat goes to its next step, with the ask a. *)
LEMMA SeatGoes ==
    ASSUME Inv, NEW s \in Seat, NEW a \in Ask \cup {None}, NEW op \in {"idle", "check", "enqueue"},
           SeatTo(s, op, a),
           op # "idle" => a \in Ask /\ ask'[a].status = "fulfilled",
           seat[s].op # "idle" =>
              LET b == seat[s].ask IN
                 b \in lost' \/ Queued(b) \/ ~ask'[b].gone \/ (a = b /\ op # "idle")
    PROVE  SeatsStep
<1> DEFINE t == [op |-> op, ask |-> a]
<1>1. t \in SeatState /\ t.op = op /\ t.ask = a /\ seat' = [seat EXCEPT ![s] = t]
  BY DEF SeatState, SeatTo
<1> HIDE DEF t
<1>2. seat'[s] = t => SeatMoves(s)
  BY <1>1 DEF SeatMoves, SeatHolds
<1> QED
  BY <1>1, <1>2, OneSeat

(* An approval is in the hands of the seat; a rejection closes the ask. *)
LEMMA DecideShaped ==
    ASSUME Inv, NEW s \in Seat, NEW a \in Ask, NEW approved \in BOOLEAN, Decide(s, a, approved)
    PROVE  Shaped
<1>1. /\ seat[s].op = "idle" /\ ask[a].status = "open"
      /\ UNCHANGED wake /\ UNCHANGED req /\ UNCHANGED drain
      /\ UNCHANGED executed /\ UNCHANGED lost /\ UNCHANGED told /\ UNCHANGED bounds
  BY DEF Decide, history
<1>2. CASE approved
  <2> DEFINE n == [ask[a] EXCEPT !.status = "fulfilled"]
  <2>1. ask' = [ask EXCEPT ![a] = n] /\ ask'[a] = n /\ SeatTo(s, "check", a)
    BY <1>2, Typed DEF Decide
  <2>2. ask[a] \in AskRow
    BY Typed
  <2>3. n \in AskRow /\ n.status = "fulfilled"
    BY <2>2 DEF AskRow, AskStatus
  <2>4. n.consumed = ask[a].consumed /\ n.gone = ask[a].gone /\ n.stored = ask[a].stored
    BY <2>2, Zenon DEF AskRow
  <2> HIDE DEF n
  <2>5. seat'[s].ask = a /\ seat'[s].op = "check"
    BY <2>1, Typed DEF SeatTo
  <2>6. Approves(a)
    BY <1>1, <2>1, <2>3, <2>4, <2>5 DEF Approves
  <2>7. AskStep /\ ExecStep /\ OneGrant
    BY <1>1, <2>1, <2>3, <2>4, <2>6, OneAsk DEF AskMoves
  <2>8. SeatsStep
    BY <1>1, <2>1, <2>3, SeatGoes
  <2> QED
    BY <1>1, <2>7, <2>8, ReqsKept, DrainsKept, WakesKept, HistoryKept DEF Shaped
<1>3. CASE ~approved
  <2>1. ask' = [ask EXCEPT ![a].status = "rejected"] /\ UNCHANGED seat
    BY <1>3 DEF Decide
  <2>2. AskStep /\ ExecStep /\ OneGrant
    BY <1>1, <2>1, Expiring
  <2> QED
    BY <1>1, <2>1, <2>2, SeatsKept, ReqsKept, DrainsKept, WakesKept, HistoryKept DEF Shaped
<1> QED
  BY <1>2, <1>3

(* An ask past its time is closed. *)
LEMMA ExpireShaped == ASSUME Inv, NEW a \in Ask, Expire(a) PROVE Shaped
<1>1. /\ ask[a].status = "open" /\ ask' = [ask EXCEPT ![a].status = "obsolete"]
      /\ UNCHANGED wake /\ UNCHANGED req /\ UNCHANGED seat /\ UNCHANGED drain
      /\ UNCHANGED executed /\ UNCHANGED lost /\ UNCHANGED told /\ UNCHANGED bounds
  BY DEF Expire, history
<1>2. AskStep /\ ExecStep /\ OneGrant
  BY <1>1, Expiring
<1> QED
  BY <1>1, <1>2, ReqsKept, SeatsKept, DrainsKept, WakesKept, HistoryKept DEF Shaped

(* The clock sets a flag that changes no grant. *)
LEMMA ClockShaped == ASSUME Inv, NEW a \in Ask, AskLate(a) \/ GrantLapses(a) PROVE Shaped
<1>1. /\ UNCHANGED wake /\ UNCHANGED req /\ UNCHANGED seat /\ UNCHANGED drain
      /\ UNCHANGED executed /\ UNCHANGED lost /\ UNCHANGED told /\ UNCHANGED bounds
  BY DEF AskLate, GrantLapses, history
<1>2. ask[a] \in AskRow
  BY Typed
<1>3. PICK n \in {[ask[a] EXCEPT !.late = TRUE], [ask[a] EXCEPT !.lapsed = TRUE]} :
         ask' = [ask EXCEPT ![a] = n]
  BY Typed DEF AskLate, GrantLapses
<1>4. n \in AskRow /\ n.status = ask[a].status
  BY <1>2 DEF AskRow
<1>5. n.consumed = ask[a].consumed /\ n.gone = ask[a].gone /\ n.stored = ask[a].stored
  BY <1>2, Zenon DEF AskRow
<1>6. ask'[a] = n
  BY <1>3, Typed
<1>7. AskMoves(a)
  BY <1>4, <1>5, <1>6 DEF AskMoves, Flags
<1>8. AskStep /\ ExecStep /\ OneGrant
  BY <1>1, <1>3, <1>4, <1>5, <1>7, OneAsk
<1> QED
  BY <1>1, <1>8, ReqsKept, SeatsKept, DrainsKept, WakesKept, HistoryKept DEF Shaped

(* The seat leaves the approval to a run, if none has declared to be gone. *)
LEMMA DecideRouteShaped == ASSUME Inv, NEW s \in Seat, DecideRoute(s) PROVE Shaped
<1> DEFINE a == seat[s].ask
<1>1. /\ seat[s].op = "check"
      /\ UNCHANGED ask /\ UNCHANGED wake /\ UNCHANGED req /\ UNCHANGED drain
      /\ UNCHANGED executed /\ UNCHANGED lost /\ UNCHANGED told /\ UNCHANGED bounds
  BY DEF DecideRoute, history
<1>2. a \in Ask /\ ask[a].status = "fulfilled"
  BY <1>1 DEF Inv, SeatHolds
<1>3. SeatsStep
  <2>1. CASE ask[a].gone
    BY <1>1, <1>2, <2>1, SeatGoes DEF DecideRoute
  <2>2. CASE ~ask[a].gone
    BY <1>1, <1>2, <2>2, SeatGoes DEF DecideRoute
  <2> QED
    BY <2>1, <2>2
<1> QED
  BY <1>1, <1>3, RowsKept, ReqsKept, DrainsKept, WakesKept, HistoryKept DEF Shaped

(* The late send is queued by the seat. *)
LEMMA DeciderEnqueuesShaped == ASSUME Inv, NEW s \in Seat, DeciderEnqueues(s) PROVE Shaped
<1> DEFINE a == seat[s].ask
<1>1. /\ seat[s].op = "enqueue" /\ Enqueue(a) /\ SeatTo(s, "idle", None)
      /\ UNCHANGED ask /\ UNCHANGED req /\ UNCHANGED drain
      /\ UNCHANGED executed /\ UNCHANGED lost /\ UNCHANGED told /\ UNCHANGED bounds
  BY DEF DeciderEnqueues, history
<1>2. a \in Ask /\ Approved(a)
  BY <1>1 DEF Inv, SeatHolds, Approved
<1>3. WakeStep /\ Queued(a)
  BY <1>1, <1>2, Enqueueing
<1>4. SeatsStep
  BY <1>1, <1>3, SeatGoes
<1> QED
  BY <1>1, <1>3, <1>4, RowsKept, ReqsKept, DrainsKept, HistoryKept DEF Shaped

(* The ask of a seat that dies is lost. *)
LEMMA SeatDiesShaped == ASSUME Inv, NEW s \in Seat, SeatDies(s) PROVE Shaped
<1> DEFINE x == {seat[s].ask}
<1>1. /\ seat[s].op # "idle" /\ SeatTo(s, "idle", None) /\ Mishap /\ lost' = lost \cup x
      /\ UNCHANGED ask /\ UNCHANGED wake /\ UNCHANGED req /\ UNCHANGED drain
      /\ UNCHANGED executed /\ UNCHANGED told /\ UNCHANGED requests
  BY DEF SeatDies
<1>2. x \in SUBSET Ask
  BY <1>1 DEF Inv, SeatHolds
<1>3. HistoryStep
  BY <1>1, <1>2, Mishaps
<1>4. SeatsStep
  BY <1>1, SeatGoes
<1> QED
  BY <1>1, <1>3, <1>4, RowsKept, ReqsKept, DrainsKept, WakesKept DEF Shaped

-----------------------------------------------------------------------------
(* The wake drain *)

(* A wake row is written; the ask is the approved one it stands for. *)
LEMMA WakeGoes ==
    ASSUME Inv, NEW a \in Ask, UNCHANGED ask, wake[a].status # "absent",
           NEW w \in WakeRow, wake' = [wake EXCEPT ![a] = w],
           w.status # "absent",
           w.status = "delivered" => ask[a].consumed \/ LeftUnsendable(a),
           w.status = "dropped" => a \in lost',
           wake'[a] = w => Disposes(a)
    PROVE  WakeStep /\ \A b \in Ask : wake[b].status # "absent" => wake'[b].status # "absent"
<1>1. ask[a].status = "fulfilled"
  BY DEF Inv, WakeHolds, Approved
<1>2. wake'[a] = w => WakeMoves(a)
  BY <1>1 DEF WakeMoves, Queued, Unsendable, LeftUnsendable
<1> QED
  BY <1>2, OneWake, Typed

(* A drain goes to its next step, on row a. *)
LEMMA DrainGoes ==
    ASSUME Inv, NEW d \in Drain, NEW t \in DrainState, drain' = [drain EXCEPT ![d] = t],
           UNCHANGED req,
           t.rows \subseteq {a \in Ask : wake'[a].status # "absent"},
           t.op \notin {"idle", "next"} => t.ask \in Ask /\ ask'[t.ask].status = "fulfilled",
           t.op = "send" => ask'[t.ask].consumed /\ executed'[t.ask] = 0 /\ ~ask[t.ask].consumed,
           t.op = "done" => ask'[t.ask].consumed \/ LeftUnsendable(t.ask)
    PROVE  DrainsStep
<1>1. drain'[d] = t /\ \A e \in Drain : e # d => drain'[e] = drain[e]
  BY Typed
<1>2. DrainHolds(t, ask', wake', executed', told')
  BY DEF DrainHolds, LeftUnsendable
<1>3. DrainMoves(d)
  BY <1>1, <1>2 DEF DrainMoves
<1> QED
  BY <1>3, OneDrain

(* A drain claims wakes that exist. *)
LEMMA RowsQueued ==
    ASSUME Inv, NEW d \in Drain
    PROVE  drain[d].rows \subseteq {a \in Ask : wake[a].status # "absent"}
BY Typed DEF Inv, DrainHolds, DrainState

(* The drain is through with a row that it was at. *)
LEMMA Leaving ==
    ASSUME Inv, NEW d \in Drain, NEW a \in Ask, Leaves(d, a), UNCHANGED req,
           \A b \in Ask : wake[b].status # "absent" => wake'[b].status # "absent"
    PROVE  DrainsStep /\ drain'[d].op \in {"idle", "next"}
<1> DEFINE t == IF drain[d].rows = {a} THEN IdleDrain
                ELSE [op |-> "next", rows |-> drain[d].rows \ {a}, ask |-> None]
<1>1. drain' = [drain EXCEPT ![d] = t] /\ drain'[d] = t
  BY Typed DEF Leaves
<1>2. t \in DrainState /\ t.op \in {"idle", "next"} /\ t.rows \subseteq drain[d].rows
  BY Typed DEF DrainState, IdleDrain
<1> HIDE DEF t
<1>3. t.rows \subseteq {b \in Ask : wake'[b].status # "absent"}
  BY <1>2, RowsQueued
<1> QED
  BY <1>1, <1>2, <1>3, DrainGoes

(* A wake that nobody holds any more. *)
LEMMA Freed ==
    ASSUME Inv, NEW a \in Ask, NEW st \in WakeStatus
    PROVE  LET w == [wake[a] EXCEPT !.status = st, !.by = None, !.stale = FALSE]
           IN  w \in WakeRow /\ w.status = st
<1> DEFINE v == [wake[a] EXCEPT !.status = st, !.by = None]
           w == [v EXCEPT !.stale = FALSE]
<1>1. wake[a] \in WakeRow
  BY Typed
<1>2. v \in WakeRow /\ v.status = st
  BY <1>1 DEF WakeRow
<1>3. [wake[a] EXCEPT !.status = st, !.by = None, !.stale = FALSE] = w
  BY <1>1 DEF WakeRow
<1> HIDE DEF v
<1>4. w \in WakeRow
  BY <1>2 DEF WakeRow
<1>5. w.status = st
  BY <1>2 DEF WakeRow
<1> QED
  BY <1>3, <1>4, <1>5

(* A stale claim is taken back. *)
LEMMA ReclaimStaleShaped ==
    ASSUME Inv, NEW d \in Drain, NEW a \in Ask, ReclaimStale(d, a) PROVE Shaped
<1> DEFINE w == [wake[a] EXCEPT !.status = "pending", !.by = None, !.stale = FALSE]
<1>1. /\ wake[a].status = "claimed" /\ wake[a].stale
      /\ UNCHANGED ask /\ UNCHANGED req /\ UNCHANGED seat /\ UNCHANGED drain
      /\ UNCHANGED executed /\ UNCHANGED lost /\ UNCHANGED told /\ UNCHANGED bounds
  BY DEF ReclaimStale, history
<1>2. wake' = [wake EXCEPT ![a] = w]
  BY Typed DEF ReclaimStale
<1>3. w \in WakeRow /\ w.status = "pending"
  BY Freed DEF WakeStatus
<1> HIDE DEF w
<1>4. wake'[a] = w => Disposes(a)
  BY <1>1, <1>3 DEF Disposes
<1>5. WakeStep
  BY <1>1, <1>2, <1>3, <1>4, WakeGoes
<1> QED
  BY <1>1, <1>5, RowsKept, ReqsKept, SeatsKept, DrainsKept, HistoryKept DEF Shaped

(* A wake past its age is dropped, its ask lost. *)
LEMMA PruneAgedShaped == ASSUME Inv, NEW a \in Ask, PruneAged(a) PROVE Shaped
<1> DEFINE w == [wake[a] EXCEPT !.status = "dropped"]
<1>1. /\ wake[a].status # "absent" /\ Mishap /\ lost' = lost \cup {a}
      /\ UNCHANGED ask /\ UNCHANGED req /\ UNCHANGED seat /\ UNCHANGED drain
      /\ UNCHANGED executed /\ UNCHANGED told /\ UNCHANGED requests
  BY DEF PruneAged
<1>2. wake' = [wake EXCEPT ![a] = w]
  BY Typed DEF PruneAged
<1>3. w \in WakeRow /\ w.status = "dropped"
  BY Typed DEF WakeRow, WakeStatus
<1> HIDE DEF w
<1>4. wake'[a] = w => Disposes(a)
  BY <1>3 DEF Disposes
<1>5. WakeStep
  BY <1>1, <1>2, <1>3, <1>4, WakeGoes
<1>6. HistoryStep
  BY <1>1, Mishaps
<1> QED
  BY <1>1, <1>5, <1>6, RowsKept, ReqsKept, SeatsKept, DrainsKept DEF Shaped

(* A pending wake is claimed. *)
LEMMA ClaimWakeShaped ==
    ASSUME Inv, NEW d \in Drain, NEW a \in Ask, ClaimWake(d, a) PROVE Shaped
<1> DEFINE n == wake[a].attempts + 1
           w == [wake[a] EXCEPT !.status = "claimed", !.by = d, !.stale = FALSE, !.attempts = n]
           t == [drain[d] EXCEPT !.rows = @ \cup {a}]
<1>1. /\ wake[a].status = "pending" /\ drain[d].op = "idle"
      /\ UNCHANGED ask /\ UNCHANGED req /\ UNCHANGED seat
      /\ UNCHANGED executed /\ UNCHANGED lost /\ UNCHANGED told /\ UNCHANGED bounds
  BY DEF ClaimWake, history
<1>2. n \in Nat
  <2>1. wake[a].attempts \in Nat
    BY Typed DEF WakeRow
  <2> QED
    BY <2>1
<1>3. wake' = [wake EXCEPT ![a] = w]
  BY Typed DEF ClaimWake
<1> HIDE DEF n
<1>4. w \in WakeRow /\ w.status = "claimed"
  <2> DEFINE v == [wake[a] EXCEPT !.status = "claimed", !.by = d, !.attempts = n]
             u == [v EXCEPT !.stale = FALSE]
  <2>1. wake[a] \in WakeRow
    BY Typed
  <2>2. v \in WakeRow /\ v.status = "claimed"
    BY <1>2, <2>1 DEF WakeRow, WakeStatus
  <2>3. w = u
    BY <2>1 DEF WakeRow
  <2> HIDE DEF v, w
  <2>4. u \in WakeRow
    BY <2>2 DEF WakeRow
  <2>5. u.status = "claimed"
    BY <2>2 DEF WakeRow
  <2> QED
    BY <2>3, <2>4, <2>5
<1> HIDE DEF w
<1>5. wake'[a] = w => Disposes(a)
  BY <1>4 DEF Disposes
<1>6. WakeStep /\ \A b \in Ask : wake[b].status # "absent" => wake'[b].status # "absent"
  BY <1>1, <1>3, <1>4, <1>5, WakeGoes
<1>7. drain' = [drain EXCEPT ![d] = t]
  BY Typed DEF ClaimWake
<1>8. t \in DrainState /\ t.op = "idle" /\ t.rows = drain[d].rows \cup {a}
  BY <1>1, Typed DEF DrainState
<1> HIDE DEF t
<1>9. t.rows \subseteq {b \in Ask : wake'[b].status # "absent"}
  BY <1>1, <1>6, <1>8, RowsQueued
<1>10. DrainsStep
  BY <1>1, <1>7, <1>8, <1>9, DrainGoes
<1> QED
  BY <1>1, <1>6, <1>10, RowsKept, ReqsKept, SeatsKept, HistoryKept DEF Shaped

(* The claim is renewed, or was lost and the row is skipped. *)
LEMMA RenewShaped == ASSUME Inv, NEW d \in Drain, NEW a \in Ask, Renew(d, a) PROVE Shaped
<1>1. /\ a \in drain[d].rows
      /\ UNCHANGED ask /\ UNCHANGED req /\ UNCHANGED seat
      /\ UNCHANGED executed /\ UNCHANGED lost /\ UNCHANGED told /\ UNCHANGED bounds
  BY DEF Renew, history
<1>2. CASE HasClaim(d, a)
  <2> DEFINE w == [wake[a] EXCEPT !.stale = FALSE]
             t == [drain[d] EXCEPT !.op = "run", !.ask = a]
  <2>1. wake[a].status = "claimed" /\ ask[a].status = "fulfilled"
    BY <1>2 DEF HasClaim, Inv, WakeHolds, Approved
  <2>2. wake' = [wake EXCEPT ![a] = w]
    BY <1>2, Typed DEF Renew
  <2>3. w \in WakeRow /\ w.status = "claimed"
    BY <2>1, Typed DEF WakeRow, WakeStatus
  <2> HIDE DEF w
  <2>4. wake'[a] = w => Disposes(a)
    BY <2>3 DEF Disposes
  <2>5. WakeStep /\ \A b \in Ask : wake[b].status # "absent" => wake'[b].status # "absent"
    BY <1>1, <2>1, <2>2, <2>3, <2>4, WakeGoes
  <2>6. drain' = [drain EXCEPT ![d] = t]
    BY <1>2, Typed DEF Renew
  <2>7. t \in DrainState /\ t.op = "run" /\ t.ask = a /\ t.rows = drain[d].rows
    <3>1. drain[d] \in DrainState
      BY Typed
    <3> QED
      BY <3>1 DEF DrainState
  <2> HIDE DEF t
  <2>8. t.rows \subseteq {b \in Ask : wake'[b].status # "absent"}
    BY <2>5, <2>7, RowsQueued
  <2>9. DrainsStep
    BY <1>1, <2>1, <2>6, <2>7, <2>8, DrainGoes
  <2> QED
    BY <1>1, <2>5, <2>9, RowsKept, ReqsKept, SeatsKept, HistoryKept DEF Shaped
<1>3. CASE ~HasClaim(d, a)
  <2>1. Leaves(d, a) /\ UNCHANGED wake
    BY <1>3 DEF Renew
  <2>2. DrainsStep
    BY <1>1, <2>1, Leaving
  <2> QED
    BY <1>1, <2>1, <2>2, RowsKept, ReqsKept, SeatsKept, WakesKept, HistoryKept DEF Shaped
<1> QED
  BY <1>2, <1>3

(* A drain that stays at its row. *)
LEMMA DrainStays ==
    ASSUME Inv, NEW d \in Drain, NEW op \in {"send", "done", "retry"},
           drain[d].op \notin {"idle", "next"}, drain' = [drain EXCEPT ![d].op = op],
           UNCHANGED req, UNCHANGED wake,
           ask'[drain[d].ask].status = "fulfilled",
           op = "send" => /\ ask'[drain[d].ask].consumed /\ executed'[drain[d].ask] = 0
                          /\ ~ask[drain[d].ask].consumed,
           op = "done" => \/ ask'[drain[d].ask].consumed
                          \/ LeftUnsendable(drain[d].ask)
    PROVE  DrainsStep /\ drain'[d].op = op
<1> DEFINE a == drain[d].ask
           t == [drain[d] EXCEPT !.op = op]
<1>1. a \in Ask /\ drain[d] \in DrainState
  BY Typed DEF Inv, DrainHolds
<1>2. drain' = [drain EXCEPT ![d] = t] /\ drain'[d] = t
  BY Typed
<1>3. t \in DrainState /\ t.op = op /\ t.ask = a /\ t.rows = drain[d].rows
  BY <1>1 DEF DrainState
<1> HIDE DEF t
<1>4. t.rows \subseteq {b \in Ask : wake'[b].status # "absent"}
  BY <1>3, RowsQueued
<1>5. /\ t.op \notin {"idle", "next"}
      /\ t.ask \in Ask /\ ask'[t.ask].status = "fulfilled"
      /\ t.op = "send" => ask'[t.ask].consumed /\ executed'[t.ask] = 0 /\ ~ask[t.ask].consumed
      /\ t.op = "done" => ask'[t.ask].consumed \/ LeftUnsendable(t.ask)
  BY <1>1, <1>3
<1>6. DrainsStep
  BY <1>2, <1>3, <1>4, <1>5, DrainGoes
<1> QED
  BY <1>2, <1>3, <1>6

(* The drain has no sender yet, has no text, consumes the grant, or is too late. *)
LEMMA RunOutboundShaped == ASSUME Inv, NEW d \in Drain, RunOutbound(d) PROVE Shaped
<1> DEFINE a == drain[d].ask
<1>1. /\ drain[d].op = "run"
      /\ UNCHANGED wake /\ UNCHANGED req /\ UNCHANGED seat
      /\ UNCHANGED executed /\ UNCHANGED lost /\ UNCHANGED bounds
  BY DEF RunOutbound
<1>2. a \in Ask /\ ask[a].status = "fulfilled" /\ Approved(a)
  BY <1>1 DEF Inv, DrainHolds, Approved
<1>3. ASSUME UNCHANGED ask, UNCHANGED told, NEW op \in {"retry", "done"},
             drain' = [drain EXCEPT ![d].op = op], op = "done" => ask[a].consumed
      PROVE  Shaped
  <2>1. DrainsStep
    BY <1>1, <1>2, <1>3, DrainStays
  <2> QED
    BY <1>1, <1>3, <2>1, RowsKept, ReqsKept, SeatsKept, WakesKept, HistoryKept DEF Shaped
<1>4. ASSUME ~ask[a].stored, told' = told \cup {a}, UNCHANGED ask,
             drain' = [drain EXCEPT ![d].op = "done"]
      PROVE  Shaped
  <2>1. DrainsStep
    BY <1>1, <1>2, <1>4, DrainStays DEF LeftUnsendable
  <2>2. HistoryStep
    BY <1>1, <1>2, <1>4, Typed DEF HistoryStep, bounds
  <2> QED
    BY <1>1, <1>4, <2>1, <2>2, RowsKept, ReqsKept, SeatsKept, WakesKept DEF Shaped
<1>5. ASSUME Consume(a), UNCHANGED told, drain' = [drain EXCEPT ![d].op = "send"]
      PROVE  Shaped
  <2>1. /\ AskStep /\ ExecStep /\ OneGrant
        /\ ask'[a].status = "fulfilled" /\ ask'[a].consumed /\ executed'[a] = 0
        /\ ~ask[a].consumed
    BY <1>1, <1>2, <1>5, Consuming
  <2>2. DrainsStep
    BY <1>1, <1>5, <2>1, DrainStays
  <2> QED
    BY <1>1, <1>5, <2>1, <2>2, ReqsKept, SeatsKept, WakesKept, HistoryKept DEF Shaped
<1> QED
  BY <1>2, <1>3, <1>4, <1>5 DEF RunOutbound

(* The drain uses the grant that it holds. *)
LEMMA SendShaped == ASSUME Inv, NEW d \in Drain, Send(d) PROVE Shaped
<1> DEFINE a == drain[d].ask
<1>1. /\ drain[d].op = "send" /\ Executes(a) /\ drain' = [drain EXCEPT ![d].op = "done"]
      /\ UNCHANGED ask /\ UNCHANGED wake /\ UNCHANGED req /\ UNCHANGED seat
      /\ UNCHANGED lost /\ UNCHANGED told /\ UNCHANGED bounds
  BY DEF Send
<1>2. a \in Ask /\ ask[a].status = "fulfilled" /\ ask[a].consumed
  BY <1>1 DEF Inv, DrainHolds
<1>3. DrainsStep /\ drain'[d].op = "done"
  BY <1>1, <1>2, DrainStays
<1>4. AskStep /\ ExecStep /\ OneGrant
  BY <1>1, <1>2, <1>3, OneUse DEF Sends
<1> QED
  BY <1>1, <1>3, <1>4, ReqsKept, SeatsKept, WakesKept, HistoryKept DEF Shaped

(* The claimant marks a wake whose grant is consumed. *)
LEMMA MarkDeliveredShaped == ASSUME Inv, NEW d \in Drain, MarkDelivered(d) PROVE Shaped
<1> DEFINE a == drain[d].ask
           w == [wake[a] EXCEPT !.status = "delivered", !.stale = FALSE]
<1>1. /\ drain[d].op = "done" /\ Leaves(d, a)
      /\ UNCHANGED ask /\ UNCHANGED req /\ UNCHANGED seat
      /\ UNCHANGED executed /\ UNCHANGED lost /\ UNCHANGED told /\ UNCHANGED bounds
  BY DEF MarkDelivered, history
<1>2. a \in Ask /\ (ask[a].consumed \/ LeftUnsendable(a))
  BY <1>1 DEF Inv, DrainHolds, LeftUnsendable
<1>3. CASE HasClaim(d, a)
  <2>1. wake' = [wake EXCEPT ![a] = w]
    BY <1>2, <1>3, Typed DEF MarkDelivered
  <2>2. w \in WakeRow /\ w.status = "delivered"
    <3> DEFINE v == [wake[a] EXCEPT !.status = "delivered"]
    <3>1. wake[a] \in WakeRow
      BY <1>2, Typed
    <3>2. v \in WakeRow /\ v.status = "delivered"
      BY <3>1 DEF WakeRow, WakeStatus
    <3>3. w = [v EXCEPT !.stale = FALSE]
      BY <3>1 DEF WakeRow
    <3> HIDE DEF v, w
    <3>4. [v EXCEPT !.stale = FALSE] \in WakeRow
      BY <3>2 DEF WakeRow
    <3>5. [v EXCEPT !.stale = FALSE].status = "delivered"
      BY <3>2 DEF WakeRow
    <3> QED
      BY <3>3, <3>4, <3>5
  <2> HIDE DEF w
  <2>3. \A b \in Ask : wake[b].status # "absent" => wake'[b].status # "absent"
    BY <1>2, <2>1, <2>2, Typed
  <2>4. DrainsStep /\ drain'[d].op \in {"idle", "next"}
    BY <1>1, <1>2, <2>3, Leaving
  <2>5. wake'[a] = w => Disposes(a)
    BY <1>1, <1>3, <2>4 DEF Disposes, HasClaim
  <2>6. WakeStep
    BY <1>1, <1>2, <1>3, <2>1, <2>2, <2>5, WakeGoes DEF HasClaim
  <2> QED
    BY <1>1, <2>4, <2>6, RowsKept, ReqsKept, SeatsKept, HistoryKept DEF Shaped
<1>4. CASE ~HasClaim(d, a)
  <2>1. UNCHANGED wake
    BY <1>4 DEF MarkDelivered
  <2>2. DrainsStep
    BY <1>1, <1>2, <2>1, Leaving
  <2> QED
    BY <1>1, <2>1, <2>2, RowsKept, ReqsKept, SeatsKept, WakesKept, HistoryKept DEF Shaped
<1> QED
  BY <1>3, <1>4

(* The claimant puts the wake back, or drops it and its ask is lost. *)
LEMMA FailShaped == ASSUME Inv, NEW d \in Drain, Fail(d) PROVE Shaped
<1> DEFINE a == drain[d].ask
           spent == wake[a].attempts >= MaxAttempts
           st == IF spent THEN "dropped" ELSE "pending"
           w == [wake[a] EXCEPT !.status = st, !.by = None, !.stale = FALSE]
<1>1. /\ drain[d].op = "retry" /\ Leaves(d, a)
      /\ UNCHANGED ask /\ UNCHANGED req /\ UNCHANGED seat
      /\ UNCHANGED executed /\ UNCHANGED told /\ UNCHANGED bounds
  BY DEF Fail
<1>2. a \in Ask
  BY <1>1 DEF Inv, DrainHolds
<1>3. CASE HasClaim(d, a)
  <2>1. wake' = [wake EXCEPT ![a] = w] /\ lost' = IF spent THEN lost \cup {a} ELSE lost
    BY <1>2, <1>3, Typed DEF Fail
  <2>2. st \in {"dropped", "pending"} /\ (st = "dropped" => a \in lost')
    BY <2>1
  <2>3. HistoryStep
    BY <1>1, <1>2, <2>1, Typed DEF HistoryStep, bounds
  <2> HIDE DEF st
  <2>4. st \in WakeStatus
    BY <2>2 DEF WakeStatus
  <2>5. w \in WakeRow /\ w.status = st
    BY <1>2, <2>4, Freed
  <2> HIDE DEF w
  <2>6. \A b \in Ask : wake[b].status # "absent" => wake'[b].status # "absent"
    BY <1>2, <2>1, <2>2, <2>5, Typed
  <2>7. DrainsStep /\ drain'[d].op \in {"idle", "next"}
    BY <1>1, <1>2, <2>6, Leaving
  <2>8. wake'[a] = w => Disposes(a)
    BY <1>1, <1>3, <2>7 DEF Disposes, HasClaim
  <2>9. WakeStep
    BY <1>1, <1>2, <1>3, <2>1, <2>2, <2>5, <2>8, WakeGoes DEF HasClaim
  <2> QED
    BY <1>1, <2>3, <2>7, <2>9, RowsKept, ReqsKept, SeatsKept DEF Shaped
<1>4. CASE ~HasClaim(d, a)
  <2>1. UNCHANGED wake /\ UNCHANGED lost /\ UNCHANGED told
    BY <1>4 DEF Fail
  <2>2. DrainsStep
    BY <1>1, <1>2, <2>1, Leaving
  <2> QED
    BY <1>1, <2>1, <2>2, RowsKept, ReqsKept, SeatsKept, WakesKept, HistoryKept DEF Shaped
<1> QED
  BY <1>3, <1>4

(* A claim becomes stale. *)
LEMMA ClaimStaleShaped == ASSUME Inv, NEW a \in Ask, ClaimStale(a) PROVE Shaped
<1> DEFINE w == [wake[a] EXCEPT !.stale = TRUE]
<1>1. /\ wake[a].status = "claimed"
      /\ UNCHANGED ask /\ UNCHANGED req /\ UNCHANGED seat /\ UNCHANGED drain
      /\ UNCHANGED executed /\ UNCHANGED lost /\ UNCHANGED told /\ UNCHANGED requests
  BY DEF ClaimStale, history
<1>2. wake' = [wake EXCEPT ![a] = w]
  BY Typed DEF ClaimStale
<1>3. w \in WakeRow /\ w.status = "claimed"
  <2>1. wake[a] \in WakeRow
    BY Typed
  <2>2. w \in WakeRow
    BY <2>1 DEF WakeRow
  <2>3. w.status = "claimed"
    BY <1>1, <2>1 DEF WakeRow
  <2> QED
    BY <2>2, <2>3
<1> HIDE DEF w
<1>4. wake'[a] = w => Disposes(a)
  BY <1>3 DEF Disposes
<1>5. WakeStep
  BY <1>1, <1>2, <1>3, <1>4, WakeGoes
<1>6. HistoryStep
  BY <1>1, Typed DEF HistoryStep, ClaimStale, Mishap
<1> QED
  BY <1>1, <1>5, <1>6, RowsKept, ReqsKept, SeatsKept, DrainsKept DEF Shaped

(* A drain dies; a grant that it held is lost. *)
LEMMA DrainDiesShaped == ASSUME Inv, NEW d \in Drain, DrainDies(d) PROVE Shaped
<1> DEFINE x == IF drain[d].op = "send" THEN {drain[d].ask} ELSE {}
<1>1. /\ drain' = [drain EXCEPT ![d] = IdleDrain] /\ Mishap
      /\ UNCHANGED ask /\ UNCHANGED wake /\ UNCHANGED req /\ UNCHANGED seat
      /\ UNCHANGED executed /\ UNCHANGED told /\ UNCHANGED requests
  BY DEF DrainDies
<1>2. x \in SUBSET Ask
  BY DEF Inv, DrainHolds
<1>3. lost' = lost \cup x
  BY DEF DrainDies
<1>4. HistoryStep
  BY <1>1, <1>2, <1>3, Mishaps
<1>5. IdleDrain \in DrainState /\ IdleDrain.op = "idle" /\ IdleDrain.rows = {}
  BY DEF IdleDrain, DrainState
<1>6. DrainsStep
  BY <1>1, <1>5, DrainGoes
<1> QED
  BY <1>1, <1>4, <1>6, RowsKept, ReqsKept, SeatsKept, WakesKept DEF Shaped

-----------------------------------------------------------------------------
(* Nothing changes. *)
LEMMA StutterShaped == ASSUME Inv, UNCHANGED vars PROVE Shaped
<1>1. /\ UNCHANGED ask /\ UNCHANGED wake /\ UNCHANGED req /\ UNCHANGED seat /\ UNCHANGED drain
      /\ UNCHANGED executed /\ UNCHANGED lost /\ UNCHANGED told /\ UNCHANGED bounds
  BY DEF vars, bounds
<1> QED
  BY <1>1, RowsKept, ReqsKept, SeatsKept, DrainsKept, WakesKept, HistoryKept DEF Shaped

(* The steps of a run. *)
LEMMA RunStepShaped == ASSUME Inv, NEW r \in Requester, RunStep(r) PROVE Shaped
BY RedeemShaped, NothingToRedeemShaped, FindShaped, CreateShaped, PollShaped,
   InBandConsumeShaped, GrantedShaped, LeaveShaped, RereadShaped, LeaverEnqueuesShaped DEF RunStep

(* The steps of a drain. *)
LEMMA DrainStepShaped == ASSUME Inv, NEW d \in Drain, DrainStep(d) PROVE Shaped
BY ReclaimStaleShaped, ClaimWakeShaped, RenewShaped, RunOutboundShaped, SendShaped,
   MarkDeliveredShaped, FailShaped DEF DrainStep

(* Every step has that shape. *)
LEMMA StepShaped == ASSUME Inv, [Next]_vars PROVE Shaped
<1>1. CASE \E r \in Requester : Request(r) \/ RunStep(r) \/ StoreError(r) \/ CutAfterConsume(r)
                               \/ RunDies(r)
  BY <1>1, RequestShaped, RunStepShaped, RunMishapsShaped
<1>2. CASE \E s \in Seat : SeatStep(s) \/ SeatDies(s)
                          \/ \E a \in Ask, approved \in BOOLEAN : Decide(s, a, approved)
  BY <1>2, DecideRouteShaped, DeciderEnqueuesShaped, SeatDiesShaped, DecideShaped DEF SeatStep
<1>3. CASE \E d \in Drain : DrainStep(d) \/ DrainDies(d)
  BY <1>3, DrainStepShaped, DrainDiesShaped
<1>4. CASE \E a \in Ask : Expire(a) \/ PruneAged(a) \/ AskLate(a) \/ GrantLapses(a) \/ ClaimStale(a)
  BY <1>4, ExpireShaped, PruneAgedShaped, ClockShaped, ClaimStaleShaped
<1>5. CASE Quiet \/ UNCHANGED vars
  BY <1>5, StutterShaped DEF Quiet
<1> QED
  BY <1>1, <1>2, <1>3, <1>4, <1>5 DEF Next

(* The inductive invariant holds throughout. *)
THEOREM InvHolds == Spec => []Inv
<1>1. Inv /\ [Next]_vars => Inv'
  BY StepShaped, ShapedKeepsInv
<1> QED
  BY InitInv, <1>1, PTL DEF Spec

(* Every value keeps its shape: one execution of an approval at most. *)
THEOREM TypeCorrect == Spec => []TypeOK
<1>1. Inv => TypeOK
  BY DEF Inv
<1> QED
  BY InvHolds, <1>1, PTL

(* An unused approval is attended to, by a run, a seat or a wake, or the   *)
(* owner was told that its text is too long to send. *)
THEOREM ApprovalsAttended == Spec => []ApprovalAttended
<1>1. Inv => ApprovalAttended
  BY DEF Inv
<1> QED
  BY InvHolds, <1>1, PTL

(* A delivered wake is one whose grant was consumed, or whose text is too  *)
(* long to send and the owner was told (wake_queue.py, mark_delivered). *)
THEOREM DeliveredWereUsed == Spec => []DeliveredMeansUsed
<1>1. Inv => DeliveredMeansUsed
  BY DEF Inv, WakeHolds, DeliveredMeansUsed
<1> QED
  BY InvHolds, <1>1, PTL

(* A wake leaves its claimant through the claimant, staleness or age only. *)
THEOREM ClaimantsDispose == Spec => ClaimantDisposes
<1> DEFINE A == \A a \in Ask : wake[a].status = "claimed" /\ wake'[a].status # "claimed" =>
                   \/ wake[a].stale /\ wake'[a].status = "pending"
                   \/ wake'[a].status = "dropped"
                   \/ drain[wake[a].by].ask = a /\ drain'[wake[a].by] # drain[wake[a].by]
<1>1. ASSUME Inv, [Next]_vars PROVE A
  <2>1. \A a \in Ask : wake'[a] = wake[a] \/ Disposes(a)
    BY <1>1, StepShaped DEF Shaped, WakeStep, WakeMoves
  <2> QED
    BY <2>1 DEF Disposes
<1> HIDE DEF A
<1>2. Spec => [][A]_vars
  BY <1>1, InvHolds, PTL DEF Spec
<1> QED
  BY <1>2 DEF ClaimantDisposes, A

-----------------------------------------------------------------------------
(* The refinement of OneShotGrant: what GrantOf tells of an ask, before    *)
(* and after a step. *)
GrantTells(a) ==
    /\ executed[a] \in 0..1
    /\ executed[a] = 1 => ask[a].status = "fulfilled" /\ ask[a].consumed
    /\ ask[a].status = "absent" => GrantOf(a) = "none"
    /\ ask[a].status = "open" => GrantOf(a) = "open"
    /\ ask[a].status \in {"rejected", "obsolete"} => GrantOf(a) = "closed"
    /\ ask[a].status = "fulfilled" /\ ~ask[a].consumed => GrantOf(a) = "granted"
    /\ ask[a].status = "fulfilled" /\ ask[a].consumed /\ executed[a] = 0 => GrantOf(a) = "spent"
    /\ executed[a] = 1 => GrantOf(a) = "executed"

(* GrantOf, case by case. *)
LEMMA GrantValues == \A a \in Ask : Inv => GrantTells(a)
<1> SUFFICES ASSUME NEW a \in Ask, Inv PROVE GrantTells(a)
  OBVIOUS
<1>1. executed[a] \in 0..1
  BY Typed
<1>2. (executed[a] > 0 => ask[a].consumed) /\ (ask[a].consumed => Approved(a))
  BY DEF Inv, GrantHolds
<1> QED
  BY <1>1, <1>2 DEF GrantTells, GrantOf, Approved

(* The same after a step. *)
LEMMA GrantValuesNext == ASSUME NEW a \in Ask PROVE Inv' => GrantTells(a)'
<1>1. Inv => GrantTells(a)
  BY GrantValues
<1> QED
  BY <1>1, PTL

(* A step moves a grant along the life of a grant. *)
LEMMA GrantMovesOn ==
    ASSUME Inv, Shaped, NEW a \in Ask
    PROVE  \/ GrantOf(a)' = GrantOf(a)
           \/ GrantOf(a) = "none" /\ GrantOf(a)' = "open"
           \/ GrantOf(a) = "open" /\ GrantOf(a)' \in {"closed", "granted"}
           \/ GrantOf(a) = "granted" /\ GrantOf(a)' = "spent"
           \/ GrantOf(a) = "spent" /\ GrantOf(a)' = "executed"
<1>1. GrantTells(a) /\ GrantTells(a)'
  BY GrantValues, GrantValuesNext, ShapedKeepsInv
<1>2. ask[a].status \in AskStatus /\ ask'[a].status \in AskStatus
  BY Typed, ShapedKeepsInv DEF Inv, TypeOK, AskRow
<1> DEFINE g == GrantOf(a)
           h == GrantOf(a)'
<1>3. CASE executed'[a] # executed[a]
  <2>1. Uses(a)
    BY <1>3 DEF Shaped, ExecStep
  <2>2. executed[a] = 0 /\ executed'[a] = 1
    BY <1>1, <2>1 DEF Uses, GrantTells
  <2>3. ask[a].status = "fulfilled" /\ ask[a].consumed
    BY <2>1 DEF Uses, Inv, ReqHolds, DrainHolds, GrantHolds, Approved, Pushes, Sends
  <2> QED
    BY <1>1, <2>2, <2>3 DEF GrantTells
<1>4. CASE executed'[a] = executed[a] /\ ask'[a] = ask[a]
  BY <1>4 DEF GrantOf, Approved
<1>5. CASE executed'[a] = executed[a] /\ AskMoves(a)
  <2>1. CASE Opens(a)
    BY <1>1, <2>1 DEF Opens, GrantTells
  <2>2. CASE Closes(a)
    BY <1>1, <2>2 DEF Closes, GrantTells
  <2>3. CASE Approves(a)
    <3>1. ~ask'[a].consumed
      BY <2>3 DEF Approves, Inv, GrantHolds, Approved
    <3> QED
      BY <1>1, <2>3, <3>1 DEF Approves, GrantTells
  <2>4. CASE Consumes(a)
    <3>1. executed'[a] = 0
      BY <1>1, <1>5, <2>4 DEF Consumes, GrantTells
    <3> QED
      BY <1>1, <2>4, <3>1 DEF Consumes, GrantTells, Approved
  <2>5. CASE Flags(a)
    BY <1>5, <2>5 DEF Flags, GrantOf, Approved
  <2> QED
    BY <1>5, <2>1, <2>2, <2>3, <2>4, <2>5 DEF AskMoves
<1> QED
  BY <1>3, <1>4, <1>5 DEF Shaped, AskStep

(* One grant at a time: the others are what they were. *)
LEMMA GrantAlone ==
    ASSUME Inv, Shaped, NEW a \in Ask, GrantOf(a)' # GrantOf(a), NEW b \in Ask, b # a
    PROVE  GrantOf(b)' = GrantOf(b)
<1>1. GrantMoves(a)
  BY DEF GrantMoves, GrantOf, Approved
<1>2. ~GrantMoves(b)
  BY <1>1 DEF Shaped, OneGrant
<1> QED
  BY <1>2 DEF GrantMoves, GrantOf, Approved

(* At the start there is no ask. *)
LEMMA InitAbsent == Init => \A a \in Ask : ask[a].status = "absent"
<1> SUFFICES ASSUME Init PROVE \A a \in Ask : ask[a].status = "absent"
  OBVIOUS
<1>1. PICK stored \in BOOLEAN :
         ask = [a \in Ask |-> [status |-> "absent", consumed |-> FALSE, gone |-> FALSE,
                               late |-> FALSE, lapsed |-> FALSE, stored |-> stored]]
  BY DEF Init
<1> QED
  BY <1>1

(* An approval is spent once and executed at most once: the refinement. *)
THEOREM GrantsSpentOnce == Spec => GrantSpentOnce
<1> DEFINE grant == [a \in Ask |-> GrantOf(a)]
<1>1. Init => OneShot!Init
  <2> SUFFICES ASSUME Init PROVE OneShot!Init
    OBVIOUS
  <2>1. \A a \in Ask : GrantTells(a) /\ ask[a].status = "absent"
    BY InitInv, GrantValues, InitAbsent
  <2> QED
    BY <2>1 DEF OneShot!Init, GrantTells
<1>2. Inv /\ [Next]_vars => [OneShot!Next]_grant
  <2> SUFFICES ASSUME Inv, [Next]_vars PROVE OneShot!Next \/ grant' = grant
    OBVIOUS
  <2>1. Shaped
    BY StepShaped
  <2>2. CASE \A a \in Ask : GrantOf(a)' = GrantOf(a)
    BY <2>2
  <2>3. ASSUME NEW a \in Ask, GrantOf(a)' # GrantOf(a) PROVE OneShot!Next
    <3>1. grant' = [grant EXCEPT ![a] = GrantOf(a)']
      BY <2>1, <2>3, GrantAlone
    <3>2. \/ GrantOf(a) = "none" /\ GrantOf(a)' = "open"
          \/ GrantOf(a) = "open" /\ GrantOf(a)' \in {"closed", "granted"}
          \/ GrantOf(a) = "granted" /\ GrantOf(a)' = "spent"
          \/ GrantOf(a) = "spent" /\ GrantOf(a)' = "executed"
      BY <2>1, <2>3, GrantMovesOn
    <3>3. grant[a] = GrantOf(a)
      OBVIOUS
    <3> HIDE DEF grant
    <3>4. OneShot!Open(a) \/ OneShot!Close(a) \/ OneShot!Grant(a) \/ OneShot!Spend(a)
          \/ OneShot!Execute(a)
      BY <3>1, <3>2, <3>3 DEF OneShot!Open, OneShot!Close, OneShot!Grant, OneShot!Spend,
                              OneShot!Execute, OneShot!Move, grant
    <3> QED
      BY <3>4 DEF OneShot!Next
  <2> QED
    BY <2>2, <2>3
<1> HIDE DEF grant
<1>3. Spec => [][OneShot!Next]_grant
  BY <1>2, InvHolds, PTL DEF Spec
<1> QED
  BY <1>1, <1>3, PTL DEF GrantSpentOnce, OneShot!Spec, Spec, grant
=============================================================================
