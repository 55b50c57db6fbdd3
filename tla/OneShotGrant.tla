---------------------------- MODULE OneShotGrant ----------------------------
(***************************************************************************)
(* What the owner's approval queue promises: an ask is answered once, and  *)
(* an approval buys one execution of exactly what was asked.  Everything   *)
(* else - polls, timeouts, retries, wakes, restarts - is a way of spending *)
(* the grant or of losing it, never of spending it twice.                  *)
(***************************************************************************)
CONSTANT Ask

VARIABLE grant      \* what became of each ask

States == {"none", "open", "closed", "granted", "spent", "executed"}

Init == grant = [a \in Ask |-> "none"]

Move(a, from, to) == grant[a] = from /\ grant' = [grant EXCEPT ![a] = to]

Open(a) == Move(a, "none", "open")

(* Rejected, expired or superseded. *)
Close(a) == Move(a, "open", "closed")

Grant(a) == Move(a, "open", "granted")

(* From here on nobody else can execute it. *)
Spend(a) == Move(a, "granted", "spent")

Execute(a) == Move(a, "spent", "executed")

Next == \E a \in Ask : Open(a) \/ Close(a) \/ Grant(a) \/ Spend(a) \/ Execute(a)

Spec == Init /\ [][Next]_grant
=============================================================================
