--------------------------- MODULE ExclusiveClaim ---------------------------
(***************************************************************************)
(* What the goal board promises whoever executes its goals: a goal is      *)
(* granted to one holder at a time, every grant is a new one, a goal that  *)
(* has used up its failure budget is not granted until somebody reopens    *)
(* it, and a closed goal stays closed.                                     *)
(*                                                                         *)
(* Nothing here knows of processes, leases, heartbeats, sweeps or restarts:*)
(* GoalClaims has them, and implements this specification.                 *)
(***************************************************************************)
EXTENDS Naturals

CONSTANTS
    Goal,       \* the goals
    Budget      \* consecutive failures a goal may have

VARIABLES
    place,      \* where each goal is
    holder,     \* the grant that holds it, 0 when none does
    granted,    \* number of grants so far
    spent       \* failures since the goal was opened, reopened or closed well

evars == <<place, holder, granted, spent>>

EInit ==
    /\ place = [g \in Goal |-> "open"]
    /\ holder = [g \in Goal |-> 0]
    /\ granted = 0
    /\ spent = [g \in Goal |-> 0]

Grant(g) ==
    /\ place[g] = "open" /\ spent[g] < Budget
    /\ granted' = granted + 1
    /\ place' = [place EXCEPT ![g] = "held"]
    /\ holder' = [holder EXCEPT ![g] = granted + 1]
    /\ UNCHANGED spent

(* The holder is done with the goal, or loses it: for whatever reason that *)
(* is not the goal's fault, with a failure, or with success.               *)
Release(g) ==
    /\ place[g] = "held"
    /\ \E to \in {"open", "parked", "closed"} : place' = [place EXCEPT ![g] = to]
    /\ holder' = [holder EXCEPT ![g] = 0]
    /\ UNCHANGED <<granted, spent>>

Fail(g) ==
    /\ place[g] = "held"
    /\ spent' = [spent EXCEPT ![g] = @ + 1]
    /\ place' = [place EXCEPT ![g] = IF spent[g] + 1 >= Budget THEN "parked" ELSE "open"]
    /\ holder' = [holder EXCEPT ![g] = 0]
    /\ UNCHANGED granted

Succeed(g) ==
    /\ place[g] = "held"
    /\ spent' = [spent EXCEPT ![g] = 0]
    /\ place' = [place EXCEPT ![g] = "closed"]
    /\ holder' = [holder EXCEPT ![g] = 0]
    /\ UNCHANGED granted

Park(g) ==
    /\ place[g] = "open"
    /\ place' = [place EXCEPT ![g] = "parked"]
    /\ UNCHANGED <<holder, granted, spent>>

Reopen(g) ==
    /\ place[g] = "parked"
    /\ place' = [place EXCEPT ![g] = "open"]
    /\ spent' = [spent EXCEPT ![g] = 0]
    /\ UNCHANGED <<holder, granted>>

Close(g) ==
    /\ place[g] \in {"open", "parked"}
    /\ place' = [place EXCEPT ![g] = "closed"]
    /\ UNCHANGED <<holder, granted, spent>>

ENext == \E g \in Goal : \/ Grant(g) \/ Release(g) \/ Fail(g) \/ Succeed(g)
                         \/ Park(g) \/ Reopen(g) \/ Close(g)

ESpec == EInit /\ [][ENext]_evars
=============================================================================
