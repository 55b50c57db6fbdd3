------------------------------ MODULE TickLock ------------------------------
(***************************************************************************)
(* The cron tick lock: a file that exists while a process ticks, holds its *)
(* pid, and may be taken away once its mtime is _LOCK_STALE_SECONDS old.   *)
(*                                                                         *)
(* Source: cron/scheduler.py, class TickLock.                              *)
(*                                                                         *)
(* Every system call is a step.  The creation and the write of the pid are *)
(* one: they go through a descriptor, and nobody tells an empty file from  *)
(* one with another pid.  A process that judged the file stale unlinks     *)
(* whatever is there by then, and one that found its own pid in it, too.   *)
(* How old a file may be when it is judged is for the module above to say: *)
(* a heartbeat touches the path, whosever file it is by then.              *)
(***************************************************************************)
EXTENDS Naturals, FiniteSets

CONSTANTS
    Proc,   \* processes with a cron ticker
    NoFile  \* the lock file does not exist

ASSUME NoFileAssumption == NoFile \notin Proc

VARIABLES
    file,    \* pid in the lock file, or NoFile
    locker   \* where each process stands with the lock

lockVars == <<file, locker>>

LockerState == {"out", "judge", "unlink", "in", "leave", "remove", "down"}

LockTypeOK ==
    /\ file \in Proc \cup {NoFile}
    /\ locker \in [Proc -> LockerState]

LockInit ==
    /\ file = NoFile
    /\ locker = [p \in Proc |-> "out"]

GoesTo(p, s) == locker' = [locker EXCEPT ![p] = s]

(* O_CREAT | O_EXCL *)
Acquire(p) ==
    /\ locker[p] = "out"
    /\ IF file = NoFile
       THEN file' = p /\ GoesTo(p, "in")
       ELSE GoesTo(p, "judge") /\ UNCHANGED file

(* A file that is gone is not stale either: the tick is skipped. *)
JudgeYoung(p) ==
    /\ locker[p] = "judge"
    /\ GoesTo(p, "out") /\ UNCHANGED file

JudgeStale(p) ==
    /\ locker[p] = "judge" /\ file # NoFile
    /\ GoesTo(p, "unlink") /\ UNCHANGED file

(* Unlinked or not found: a new attempt, at once or with the next tick. *)
Steal(p) ==
    /\ locker[p] = "unlink"
    /\ file' = NoFile /\ GoesTo(p, "out")

ReleaseCheck(p) ==
    /\ locker[p] = "leave"
    /\ GoesTo(p, IF file = p THEN "remove" ELSE "out")
    /\ UNCHANGED file

ReleaseUnlink(p) ==
    /\ locker[p] = "remove"
    /\ file' = NoFile /\ GoesTo(p, "out")

LockStep(p) ==
    Acquire(p) \/ JudgeYoung(p) \/ Steal(p) \/ ReleaseCheck(p) \/ ReleaseUnlink(p)
=============================================================================
