----------------------------- MODULE Approvals ------------------------------
(***************************************************************************)
(* The owner approval queue: a run asks for leave to write to the outside, *)
(* polls its ask, times out; the owner decides from another process; an    *)
(* approval that came too late is carried out by the wake drain, or        *)
(* redeemed by the next identical request.                                 *)
(*                                                                         *)
(* Sources: tools/controller/approval_queue.py (OwnerQueueApprover,        *)
(* decide_tool_approval, run_approved_outbound), core/wake_queue.py, the   *)
(* ask verbs of agents/task/goals/board_asks.py and the drain ticker of    *)
(* polyrob/app/autonomy_runtime.py.                                        *)
(*                                                                         *)
(* Runs, seats of the owner and drains live in several processes and meet  *)
(* in goals.db and wakes.db only.  One SQL statement is one step.  What    *)
(* follows a statement without an await in between is part of its step     *)
(* only if it touches nothing another process can see.                     *)
(*                                                                         *)
(* Abstractions.                                                           *)
(*  - All requests are the same request: one (tool, params, tenant), one   *)
(*    request hash.  Requests that differ share no ask.                    *)
(*  - payload.decision is the status: decide_ask writes both in one        *)
(*    statement, and nothing moves an ask that is not open.                *)
(*  - The request is an outbound write (a post, a mail).  Approvals that   *)
(*    wake a session, re-arm a cron job or unblock a goal end at the       *)
(*    decision: the woken run comes back as another request.               *)
(*  - run_approved_outbound first checks that the row exists, belongs to   *)
(*    the wake's user and names an outbound tool: what enqueues the wake   *)
(*    has read all three from that row.  Left here is "approved".  Every   *)
(*    process has the same table of outbound tools.                        *)
(*  - Times are flags that the clock sets.                                 *)
(***************************************************************************)
EXTENDS Naturals, FiniteSets

CONSTANTS
    Ask,          \* ask ids
    Requester,    \* runs that call request()
    Seat,         \* places the owner decides from
    Drain,        \* processes with a wake drain ticker
    None,         \* no ask, no drain
    MaxAttempts,  \* WAKE_MAX_ATTEMPTS
    MaxRequests,  \* bound of the model: calls of request()
    MaxMishaps    \* bound of the model: deaths, store errors, stale claims

ASSUME ApprovalsAssumption ==
    /\ None \notin Ask \cup Drain
    /\ MaxAttempts \in Nat \ {0} /\ MaxRequests \in Nat /\ MaxMishaps \in Nat

AskStatus == {"absent", "open", "fulfilled", "rejected", "obsolete"}
WakeStatus == {"absent", "pending", "claimed", "delivered", "dropped"}

(* consumed: grant_consumed.  gone: poller_gone.  late: past expires_at.   *)
(* lapsed: past the grant's deadline.  stored: exact_params is there; the  *)
(* text of the request was not above _CARD_PARAMS_MAX_CHARS.               *)
AskRow == [status : AskStatus, consumed : BOOLEAN, gone : BOOLEAN,
           late : BOOLEAN, lapsed : BOOLEAN, stored : BOOLEAN]

(* The row with dedup_key approved_outbound:<ask>.                         *)
(* stale: claimed_at is older than WAKE_STALE_CLAIM_SEC.  attempts are     *)
(* compared with WAKE_MAX_ATTEMPTS by fail only: claims of stale rows go   *)
(* past it.                                                                *)
WakeRow == [status : WakeStatus, by : Drain \cup {None}, attempts : Nat, stale : BOOLEAN]

VARIABLES
    ask,       \* ask rows of goals.db
    wake,      \* session_wakes of wakes.db, one per ask
    req,       \* the request() of each run: op, the ask it waits on, what it has read
    seat,      \* the decide_tool_approval of each seat: op, ask
    drain,     \* the drain tick of each process: op, rows it claimed, the one it is at
    executed,  \* history: times the call approved by this ask was let through
    lost,      \* history: asks whose actor died, failed or was cut while it mattered
    told,      \* history: asks of which the owner was told that their text was too long
    requests, mishaps

vars == <<ask, wake, req, seat, drain, executed, lost, told, requests, mishaps>>
bounds == <<requests, mishaps>>
history == <<executed, lost, told>>

ReqState == [op : {"idle", "redeem", "find", "create", "poll", "consume", "push",
                   "reread", "enqueue"},
             ask : Ask \cup {None}, todo : SUBSET Ask]
SeatState == [op : {"idle", "check", "enqueue"}, ask : Ask \cup {None}]
DrainState == [op : {"idle", "next", "run", "send", "done", "retry"},
               rows : SUBSET Ask, ask : Ask \cup {None}]

IdleReq == [op |-> "idle", ask |-> None, todo |-> {}]
IdleSeat == [op |-> "idle", ask |-> None]
IdleDrain == [op |-> "idle", rows |-> {}, ask |-> None]

-----------------------------------------------------------------------------
Approved(a) == ask[a].status = "fulfilled"

(* consume_ask_grant wins *)
Consume(a) == ~ask[a].consumed /\ ask' = [ask EXCEPT ![a].consumed = TRUE]

ReqTo(r, op, a) == req' = [req EXCEPT ![r] = [op |-> op, ask |-> a, todo |-> {}]]

SeatTo(s, op, a) == seat' = [seat EXCEPT ![s] = [op |-> op, ask |-> a]]

Executes(a) == executed' = [executed EXCEPT ![a] = @ + 1]

Mishap == mishaps < MaxMishaps /\ mishaps' = mishaps + 1

(* ON CONFLICT(dedup_key) DO NOTHING *)
Enqueue(a) ==
    wake' = IF wake[a].status = "absent" THEN [wake EXCEPT ![a].status = "pending"] ELSE wake

-----------------------------------------------------------------------------
Init ==
    /\ \E stored \in BOOLEAN :     \* the one request fits on its ask row, or does not
          ask = [a \in Ask |-> [status |-> "absent", consumed |-> FALSE, gone |-> FALSE,
                                late |-> FALSE, lapsed |-> FALSE, stored |-> stored]]
    /\ wake = [a \in Ask |-> [status |-> "absent", by |-> None, attempts |-> 0,
                              stale |-> FALSE]]
    /\ req = [r \in Requester |-> IdleReq]
    /\ seat = [s \in Seat |-> IdleSeat]
    /\ drain = [d \in Drain |-> IdleDrain]
    /\ executed = [a \in Ask |-> 0]
    /\ lost = {} /\ told = {}
    /\ requests = 0 /\ mishaps = 0

-----------------------------------------------------------------------------
(* A run asks *)

(* _consume_grant lists the approvals it may redeem ... *)
Request(r) ==
    /\ req[r].op = "idle" /\ requests < MaxRequests
    /\ requests' = requests + 1
    /\ req' = [req EXCEPT ![r] =
          [op |-> "redeem", ask |-> None,
           todo |-> {a \in Ask : Approved(a) /\ ~ask[a].consumed /\ ~ask[a].lapsed}]]
    /\ UNCHANGED <<ask, wake, seat, drain, history, mishaps>>

(* Variant of Redeem: trusts the list. *)
RedeemListed(r) ==
    /\ req[r].op = "redeem"
    /\ \E a \in req[r].todo :
          ask' = [ask EXCEPT ![a].consumed = TRUE] /\ ReqTo(r, "push", a)
    /\ UNCHANGED <<wake, seat, drain, history, bounds>>

(* ... and tries them one by one; the winner tells the owner and returns. *)
Redeem(r) ==
    /\ req[r].op = "redeem"
    /\ \E a \in req[r].todo :
          IF ask[a].consumed
          THEN req' = [req EXCEPT ![r].todo = @ \ {a}] /\ UNCHANGED ask
          ELSE Consume(a) /\ ReqTo(r, "push", a)
    /\ UNCHANGED <<wake, seat, drain, history, bounds>>

NothingToRedeem(r) ==
    /\ req[r].op = "redeem" /\ req[r].todo = {}
    /\ ReqTo(r, "find", None)
    /\ UNCHANGED <<ask, wake, seat, drain, history, bounds>>

(* _find_open_ask: expired asks are closed, the first live one is reused. *)
Find(r) ==
    /\ req[r].op = "find"
    /\ \/ \E a \in Ask :
             /\ ask[a].status = "open" /\ ask[a].late
             /\ ask' = [ask EXCEPT ![a].status = "obsolete"]
             /\ UNCHANGED req
       \/ \E a \in Ask :
             /\ ask[a].status = "open"
             /\ \A b \in Ask : ask[b].status = "open" => ~ask[b].late
             /\ ReqTo(r, "poll", a)
             /\ UNCHANGED ask
       \/ /\ \A a \in Ask : ask[a].status # "open"
          /\ ReqTo(r, "create", None)
          /\ UNCHANGED ask
    /\ UNCHANGED <<wake, seat, drain, history, bounds>>

(* create_ask(force=True): whatever another run created meanwhile. *)
Create(r) ==
    /\ req[r].op = "create"
    /\ \/ \E a \in Ask :
             /\ ask[a].status = "absent"
             /\ ask' = [ask EXCEPT ![a].status = "open"]
             /\ ReqTo(r, "poll", a)
       \/ /\ \A a \in Ask : ask[a].status # "absent"    \* bound of the model
          /\ ReqTo(r, "idle", None) /\ UNCHANGED ask
    /\ UNCHANGED <<wake, seat, drain, history, bounds>>

(* Variant of Poll: any decision will do. *)
PollDecided(r) ==
    /\ req[r].op = "poll" /\ ask[req[r].ask].status # "open"
    /\ req' = [req EXCEPT ![r].op = "consume"]
    /\ UNCHANGED <<ask, wake, seat, drain, history, bounds>>

(* The poll reads a decided ask: only an approval goes on. *)
Poll(r) ==
    /\ req[r].op = "poll" /\ ask[req[r].ask].status # "open"
    /\ req' = [req EXCEPT ![r] = IF Approved(req[r].ask)
                                 THEN [@ EXCEPT !.op = "consume"] ELSE IdleReq]
    /\ UNCHANGED <<ask, wake, seat, drain, history, bounds>>

(* The in-band grant is consumed here, or somebody else has used it. *)
InBandConsume(r) ==
    /\ req[r].op = "consume"
    /\ LET a == req[r].ask IN
          \/ Consume(a) /\ ReqTo(r, "push", a)
          \/ ask[a].consumed /\ ReqTo(r, "idle", None) /\ UNCHANGED ask
    /\ UNCHANGED <<wake, seat, drain, history, bounds>>

(* consume_ask_grant raises: the call is denied. *)
StoreError(r) ==
    /\ req[r].op = "consume" /\ Mishap
    /\ lost' = lost \cup {req[r].ask}
    /\ ReqTo(r, "idle", None)
    /\ UNCHANGED <<ask, wake, seat, drain, executed, told, requests>>

(* The owner was told; request returns True and the tool is called. *)
Granted(r) ==
    /\ req[r].op = "push"
    /\ Executes(req[r].ask)
    /\ ReqTo(r, "idle", None)
    /\ UNCHANGED <<ask, wake, seat, drain, lost, told, bounds>>

(* The hook's timeout lands while the owner is being told. *)
CutAfterConsume(r) ==
    /\ req[r].op = "push" /\ Mishap
    /\ lost' = lost \cup {req[r].ask}
    /\ ReqTo(r, "idle", None)
    /\ UNCHANGED <<ask, wake, seat, drain, executed, told, requests>>

(* The hook's timeout cancels the poll, or a goal run returns "pending"    *)
(* without polling: poller_gone is set ...                                 *)
Leave(r) ==
    /\ req[r].op = "poll"
    /\ LET a == req[r].ask IN
          ask' = [ask EXCEPT ![a].gone = TRUE] /\ ReqTo(r, "reread", a)
    /\ UNCHANGED <<wake, seat, drain, history, bounds>>

(* Variant of Reread: leaves it to the seat. *)
RereadNothing(r) ==
    /\ req[r].op = "reread"
    /\ ReqTo(r, "idle", None)
    /\ UNCHANGED <<ask, wake, seat, drain, history, bounds>>

(* ... then reads the row: was it decided in the meantime? *)
Reread(r) ==
    /\ req[r].op = "reread"
    /\ LET a == req[r].ask IN
          IF Approved(a) /\ ~ask[a].consumed
          THEN ReqTo(r, "enqueue", a) ELSE ReqTo(r, "idle", None)
    /\ UNCHANGED <<ask, wake, seat, drain, history, bounds>>

LeaverEnqueues(r) ==
    /\ req[r].op = "enqueue"
    /\ Enqueue(req[r].ask)
    /\ ReqTo(r, "idle", None)
    /\ UNCHANGED <<ask, seat, drain, history, bounds>>

-----------------------------------------------------------------------------
(* The owner decides *)

(* decide_ask: one statement, guarded by open and by the ask's clock. *)
Decide(s, a, approved) ==
    /\ seat[s].op = "idle"
    /\ ask[a].status = "open" /\ ~ask[a].late
    /\ ask' = [ask EXCEPT ![a].status = IF approved THEN "fulfilled" ELSE "rejected"]
    /\ IF approved THEN SeatTo(s, "check", a) ELSE UNCHANGED seat
    /\ UNCHANGED <<wake, req, drain, history, bounds>>

(* A tap on an expired ask, or the sweep. *)
Expire(a) ==
    /\ ask[a].status = "open" /\ ask[a].late
    /\ ask' = [ask EXCEPT ![a].status = "obsolete"]
    /\ UNCHANGED <<wake, req, seat, drain, history, bounds>>

(* It is left to the waiting run if there is one. *)
DecideRoute(s) ==
    /\ seat[s].op = "check"
    /\ LET a == seat[s].ask IN
          IF ask[a].gone THEN SeatTo(s, "enqueue", a) ELSE SeatTo(s, "idle", None)
    /\ UNCHANGED <<ask, wake, req, drain, history, bounds>>

DeciderEnqueues(s) ==
    /\ seat[s].op = "enqueue"
    /\ Enqueue(seat[s].ask)
    /\ SeatTo(s, "idle", None)
    /\ UNCHANGED <<ask, req, drain, history, bounds>>

-----------------------------------------------------------------------------
(* The wake drain *)

(* claim_pending, step 1: rows whose drain seems dead. *)
ReclaimStale(d, a) ==
    /\ drain[d].op = "idle"
    /\ wake[a].status = "claimed" /\ wake[a].stale
    /\ wake' = [wake EXCEPT ![a].status = "pending", ![a].by = None, ![a].stale = FALSE]
    /\ UNCHANGED <<ask, req, seat, drain, history, bounds>>

(* Step 2, at every enqueue too: rows past WAKE_MAX_AGE_SEC, claimed ones as well. *)
PruneAged(a) ==
    /\ wake[a].status \in {"pending", "claimed"} /\ Mishap
    /\ wake' = [wake EXCEPT ![a].status = "dropped"]
    /\ lost' = lost \cup {a}
    /\ UNCHANGED <<ask, req, seat, drain, executed, told, requests>>

(* Step 3, for each pending row, before any of them is delivered. *)
ClaimWake(d, a) ==
    /\ drain[d].op = "idle"
    /\ wake[a].status = "pending"
    /\ wake' = [wake EXCEPT ![a].status = "claimed", ![a].by = d, ![a].stale = FALSE,
                            ![a].attempts = @ + 1]
    /\ drain' = [drain EXCEPT ![d].rows = @ \cup {a}]
    /\ UNCHANGED <<ask, req, seat, history, bounds>>

HasClaim(d, a) == wake[a].status = "claimed" /\ wake[a].by = d

(* The tick is through with a. *)
Leaves(d, a) ==
    drain' = [drain EXCEPT ![d] = IF @.rows = {a} THEN IdleDrain
                                  ELSE [op |-> "next", rows |-> @.rows \ {a}, ask |-> None]]

(* renew: is the claim still ours, now that its turn has come? *)
Renew(d, a) ==
    /\ drain[d].op \in {"idle", "next"} /\ a \in drain[d].rows
    /\ IF HasClaim(d, a)
       THEN /\ wake' = [wake EXCEPT ![a].stale = FALSE]
            /\ drain' = [drain EXCEPT ![d].op = "run", ![d].ask = a]
       ELSE Leaves(d, a) /\ UNCHANGED wake
    /\ UNCHANGED <<ask, req, seat, history, bounds>>

(* Variant of RunOutbound: without a sender the row is finished. *)
RunOutboundOnce(d) ==
    /\ drain[d].op = "run"
    /\ LET a == drain[d].ask IN
          \/ UNCHANGED ask /\ drain' = [drain EXCEPT ![d].op = "done"]
          \/ Consume(a) /\ drain' = [drain EXCEPT ![d].op = "send"]
    /\ UNCHANGED <<wake, req, seat, history, bounds>>

(* run_approved_outbound: no sender yet; no text to send, and the owner is *)
(* told, whoever has used the grant; the grant is ours; or it is used.     *)
RunOutbound(d) ==
    /\ drain[d].op = "run"
    /\ LET a == drain[d].ask IN
          \/ /\ Approved(a) /\ UNCHANGED <<ask, told>>
             /\ drain' = [drain EXCEPT ![d].op = "retry"]
          \/ /\ Approved(a) /\ ~ask[a].stored
             /\ told' = told \cup {a} /\ UNCHANGED ask
             /\ drain' = [drain EXCEPT ![d].op = "done"]
          \/ /\ Approved(a) /\ ask[a].stored /\ Consume(a) /\ UNCHANGED told
             /\ drain' = [drain EXCEPT ![d].op = "send"]
          \/ /\ Approved(a) => ask[a].stored /\ ask[a].consumed
             /\ UNCHANGED <<ask, told>>
             /\ drain' = [drain EXCEPT ![d].op = "done"]
    /\ UNCHANGED <<wake, req, seat, executed, lost, bounds>>

(* The sender is called once; if it fails the approval is used up. *)
Send(d) ==
    /\ drain[d].op = "send"
    /\ Executes(drain[d].ask)
    /\ drain' = [drain EXCEPT ![d].op = "done"]
    /\ UNCHANGED <<ask, wake, req, seat, lost, told, bounds>>

(* Variant of MarkDelivered: guarded by the status only. *)
MarkAnyClaim(d) ==
    /\ drain[d].op = "done"
    /\ LET a == drain[d].ask IN
          /\ wake' = IF wake[a].status = "claimed"
                     THEN [wake EXCEPT ![a].status = "delivered", ![a].stale = FALSE] ELSE wake
          /\ Leaves(d, a)
    /\ UNCHANGED <<ask, req, seat, history, bounds>>

(* mark_delivered, for the claimant only. *)
MarkDelivered(d) ==
    /\ drain[d].op = "done"
    /\ LET a == drain[d].ask IN
          /\ wake' = IF HasClaim(d, a)
                     THEN [wake EXCEPT ![a].status = "delivered", ![a].stale = FALSE] ELSE wake
          /\ Leaves(d, a)
    /\ UNCHANGED <<ask, req, seat, history, bounds>>

(* Variant of Fail: the first failure is the end of the attempts. *)
FailAtOnce(d) ==
    /\ drain[d].op = "retry"
    /\ LET a == drain[d].ask IN
          /\ wake' = IF HasClaim(d, a)
                     THEN [wake EXCEPT ![a].status = "dropped", ![a].by = None, ![a].stale = FALSE]
                     ELSE wake
          /\ Leaves(d, a)
    /\ UNCHANGED <<ask, req, seat, history, bounds>>

(* fail, for the claimant only: another attempt, or the end of them. *)
Fail(d) ==
    /\ drain[d].op = "retry"
    /\ LET a == drain[d].ask
           spent == wake[a].attempts >= MaxAttempts
       IN /\ IF HasClaim(d, a)
             THEN /\ wake' = [wake EXCEPT ![a].status = IF spent THEN "dropped" ELSE "pending",
                                          ![a].by = None, ![a].stale = FALSE]
                  /\ lost' = IF spent THEN lost \cup {a} ELSE lost
             ELSE UNCHANGED <<wake, lost>>
          /\ Leaves(d, a)
    /\ UNCHANGED <<ask, req, seat, executed, told, bounds>>

-----------------------------------------------------------------------------
(* The clock, while somebody may read it, and deaths *)

AskLate(a) ==
    /\ ask[a].status = "open" /\ ~ask[a].late
    /\ ask' = [ask EXCEPT ![a].late = TRUE]
    /\ UNCHANGED <<wake, req, seat, drain, history, bounds>>

GrantLapses(a) ==
    /\ Approved(a) /\ ~ask[a].consumed /\ ~ask[a].lapsed
    /\ ask' = [ask EXCEPT ![a].lapsed = TRUE]
    /\ UNCHANGED <<wake, req, seat, drain, history, bounds>>

(* Five minutes without a renewal: the drain died, or is slow. *)
ClaimStale(a) ==
    /\ wake[a].status = "claimed" /\ ~wake[a].stale
    /\ IF a \in drain[wake[a].by].rows THEN Mishap ELSE UNCHANGED mishaps
    /\ wake' = [wake EXCEPT ![a].stale = TRUE]
    /\ UNCHANGED <<ask, req, seat, drain, history, requests>>

OrphanStale(a) == wake[a].status = "claimed" /\ a \notin drain[wake[a].by].rows /\ ClaimStale(a)

RunDies(r) ==
    /\ req[r].op # "idle" /\ Mishap
    /\ lost' = lost \cup ({req[r].ask} \ {None})
    /\ ReqTo(r, "idle", None)
    /\ UNCHANGED <<ask, wake, seat, drain, executed, told, requests>>

SeatDies(s) ==
    /\ seat[s].op # "idle" /\ Mishap
    /\ lost' = lost \cup {seat[s].ask}
    /\ SeatTo(s, "idle", None)
    /\ UNCHANGED <<ask, wake, req, drain, executed, told, requests>>

(* Its claims stay until they are stale; only a grant it had taken is gone. *)
DrainDies(d) ==
    /\ drain[d] # IdleDrain /\ Mishap
    /\ lost' = IF drain[d].op = "send" THEN lost \cup {drain[d].ask} ELSE lost
    /\ drain' = [drain EXCEPT ![d] = IdleDrain]
    /\ UNCHANGED <<ask, wake, req, seat, executed, told, requests>>

-----------------------------------------------------------------------------
RunStep(r) ==
    \/ Redeem(r) \/ NothingToRedeem(r) \/ Find(r) \/ Create(r) \/ Poll(r)
    \/ InBandConsume(r) \/ Granted(r) \/ Leave(r) \/ Reread(r) \/ LeaverEnqueues(r)

SeatStep(s) == DecideRoute(s) \/ DeciderEnqueues(s)

DrainStep(d) ==
    \/ \E a \in Ask : ReclaimStale(d, a) \/ ClaimWake(d, a) \/ Renew(d, a)
    \/ RunOutbound(d) \/ Send(d) \/ MarkDelivered(d) \/ Fail(d)

(* Nobody asks, decides or drains. *)
Quiet ==
    /\ requests = MaxRequests
    /\ \A r \in Requester : req[r].op = "idle"
    /\ \A s \in Seat : seat[s].op = "idle"
    /\ \A d \in Drain : drain[d] = IdleDrain
    /\ UNCHANGED vars

Next ==
    \/ \E r \in Requester : Request(r) \/ RunStep(r) \/ StoreError(r) \/ CutAfterConsume(r)
                            \/ RunDies(r)
    \/ \E s \in Seat : SeatStep(s) \/ SeatDies(s)
                       \/ \E a \in Ask, approved \in BOOLEAN : Decide(s, a, approved)
    \/ \E d \in Drain : DrainStep(d) \/ DrainDies(d)
    \/ \E a \in Ask : Expire(a) \/ PruneAged(a) \/ AskLate(a) \/ GrantLapses(a) \/ ClaimStale(a)
    \/ Quiet

Spec == Init /\ [][Next]_vars

(* A request has a timeout, a decision goes on, and every tick of a drain  *)
(* claims what is pending, the oldest first; time passes over an orphaned  *)
(* claim.  Nothing makes the owner decide.                                 *)
(* Assumed: a drain ticks at all.  start_autonomy builds the wake drain    *)
(* only where self-wake is on (_wake_drain_enabled); an install with       *)
(* self-wake off, its default, satisfies Spec and not FairSpec.            *)
FairSpec ==
    /\ Spec
    /\ \A r \in Requester : WF_vars(RunStep(r))
    /\ \A s \in Seat : WF_vars(SeatStep(s))
    /\ \A d \in Drain : WF_vars(DrainStep(d))
    /\ \A a \in Ask : SF_vars(\E d \in Drain : ClaimWake(d, a)) /\ WF_vars(OrphanStale(a))

-----------------------------------------------------------------------------
(* Properties *)

(* Every value keeps its shape: in particular an approved call is          *)
(* executed at most once (approval_queue.py, "ONE send").                  *)
TypeOK ==
    /\ ask \in [Ask -> AskRow]
    /\ wake \in [Ask -> WakeRow]
    /\ req \in [Requester -> ReqState]
    /\ seat \in [Seat -> SeatState]
    /\ drain \in [Drain -> DrainState]
    /\ executed \in [Ask -> 0..1]
    /\ lost \subseteq Ask /\ told \subseteq Ask
    /\ requests \in 0..MaxRequests /\ mishaps \in 0..MaxMishaps

(* What became of ask a. *)
GrantOf(a) ==
    CASE executed[a] > 0 -> "executed"
      [] ask[a].status = "absent" -> "none"
      [] ask[a].status = "open" -> "open"
      [] ask[a].status \in {"rejected", "obsolete"} -> "closed"
      [] Approved(a) /\ ~ask[a].consumed -> "granted"
      [] OTHER -> "spent"

OneShot == INSTANCE OneShotGrant WITH grant <- [a \in Ask |-> GrantOf(a)]

(* One tap, one execution: polls, redemptions by later requests and late   *)
(* sends by several drains together spend an approval once, and only an    *)
(* approval (approval_queue.py, comment H4).                               *)
GrantSpentOnce == OneShot!Spec

(* An actor will still look at a: a run that waits for it or is about to   *)
(* read it again, a seat that has not routed its decision, or a wake.      *)
Attended(a) ==
    \/ \E r \in Requester : req[r].ask = a /\ req[r].op \in {"poll", "consume", "reread", "enqueue"}
    \/ \E s \in Seat : seat[s].ask = a /\ seat[s].op # "idle"
    \/ wake[a].status \in {"pending", "claimed"}

(* The late send of a was given up because its row does not hold the text, *)
(* and the owner was told so (run_approved_outbound).                      *)
Unsendable(a) == a \in told /\ ~ask[a].stored

(* An approval that lands while the run gives up is not lost between the   *)
(* two: the run sets poller_gone before it reads the decision, the seat    *)
(* writes the decision before it reads poller_gone, so one of them queues  *)
(* the late send (_poller_gone, decide_tool_approval).  Nobody attends any *)
(* more to an approval whose text is too long to send late, once the owner *)
(* was told; it waits for an identical request.                            *)
ApprovalAttended ==
    \A a \in Ask \ lost :
       Approved(a) /\ ~ask[a].consumed => Attended(a) \/ Unsendable(a)

(* A wake counts as delivered only when the approved call was let through, *)
(* by this drain or by someone else, or when the owner was told that its   *)
(* text is too long to send ("sent, already sent, or not sendable").       *)
DeliveredMeansUsed ==
    \A a \in Ask : wake[a].status = "delivered" => ask[a].consumed \/ Unsendable(a)

(* A claimed wake is disposed of by the drain that holds the claim, by its *)
(* staleness or by its age: a drain that lost its claim changes nothing    *)
(* (CO-16).                                                                *)
ClaimantDisposes ==
    [][\A a \in Ask : wake[a].status = "claimed" /\ wake'[a].status # "claimed" =>
          \/ wake[a].stale /\ wake'[a].status = "pending"
          \/ wake'[a].status = "dropped"
          \/ drain[wake[a].by].ask = a /\ drain'[wake[a].by] # drain[wake[a].by]]_vars

(* An approval is carried out in the end, or the owner is told that its    *)
(* text is too long to send, unless an actor failed it (FairSpec: where    *)
(* some process drains wakes).                                             *)
ApprovalCarriedOut ==
    \A a \in Ask : Approved(a) ~> (executed[a] = 1 \/ Unsendable(a) \/ a \in lost)
=============================================================================
