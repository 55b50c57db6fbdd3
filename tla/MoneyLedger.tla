---------------------------- MODULE MoneyLedger -----------------------------
(***************************************************************************)
(* The money gate of all processes that spend from one wallet: the daily   *)
(* cap over a shared append-only ledger, the submission journal that       *)
(* refuses a send while an earlier one is unaccounted for, the operator    *)
(* who releases what a crash left behind, and the resolver of receipts     *)
(* that were not known when their spend was booked.                        *)
(*                                                                         *)
(* Sources: core/money/ledger.py, core/money/receipt_state.py,             *)
(* core/wallet/audit_sink.py, submission_journal.py, submission_release.py,*)
(* receipt_resolver.py, broadcast/evm.py, and the guarded verb of          *)
(* tools/defi/trade_tool.py.                                               *)
(*                                                                         *)
(* A verb holds the file lock of the ledger from its check to its record;  *)
(* it signs and sends in a thread, and a task that is cut meanwhile gives  *)
(* the lock back and leaves the thread at work.  A step is a statement of  *)
(* the journal, an append to the ledger, or a call of the node.            *)
(*                                                                         *)
(* Abstractions.                                                           *)
(*  - Each spend is one transaction of one dollar on a chain of its own:   *)
(*    nonces, venues, replay keys and the per-transaction cap left out.    *)
(*  - The ledger stays healthy: an append that fails marks nothing, as a   *)
(*    crash before it does.                                                *)
(*  - Inclusion and finality of a transaction are one step.                *)
(***************************************************************************)
EXTENDS Naturals, Sequences, FiniteSets

CONSTANTS
    Spend,      \* money verbs, one call each
    Proc,       \* processes with a wallet
    Home,       \* the process of each spend
    Watcher,    \* the processes that resolve receipts
    Cap,        \* daily cap, in dollars
    MaxMishaps  \* bound of the model: crashes, and outages of the node

ASSUME MoneyAssumption ==
    /\ Home \in [Spend -> Proc] /\ Watcher \subseteq Proc
    /\ Cap \in Nat /\ MaxMishaps \in Nat

(* A charge is the record of a verb, or of a release; it names the signed  *)
(* transaction, or the reservation it was signed under.  A receipt names   *)
(* the transaction and moves no money.                                     *)
Entry == [kind : {"charge", "receipt"}, spend : Spend, ref : {"signing", "hash"}, usd : 0..1,
          state : {"none", "pending", "confirmed", "reverted", "unknown"}]

RowState == {"none", "reserved", "prepared", "booked"}
VerbOps == {"idle", "reserve", "bind", "send", "receipt", "mark", "done"}
Threaded == {"reserve", "bind", "send"}

VARIABLES
    log,      \* the ledger file
    old,      \* how many of its entries are older than 24 hours
    seen,     \* how many of them each process has folded in
    journal,  \* the row of each spend in the submission journal
    chain,    \* what the chain knows of it
    mute,     \* spends whose receipt cannot be read: the node errs, or its chain is not known
    verb,     \* where the call stands
    stray,    \* calls whose task was cut and whose thread goes on
    release,  \* the operator's release: op, spend, the row's state it read, the charge
    heard,    \* the verdict each watcher is about to append
    late,     \* history: spends whose thread took its reservation after the cut
    mishaps   \* crashes and outages so far

moneyVars == <<log, old, seen>>
spendVars == <<journal, chain, mute, verb, stray, late>>
vars == <<moneyVars, spendVars, release, heard, mishaps>>

NoRelease == [op |-> "idle"]
Release == {NoRelease} \cup [op : {"planned", "mark"}, spend : Spend,
                             row : {"reserved", "prepared"}, usd : 0..1]
NoNews == [state |-> "none"]
News == {NoNews} \cup [state : {"confirmed", "reverted", "unknown"}, spend : Spend]

-----------------------------------------------------------------------------
(* The ledger's flock: a verb that was not cut, or the release, has it. *)
LockFree == /\ \A s \in Spend : verb[s] \in {"idle", "done"} \/ s \in stray
            /\ release.op # "mark"

(* The release keeps the journal's write lock until its row is marked. *)
JournalFree == release.op # "mark"

Unresolved == {s \in Spend : journal[s] \in {"reserved", "prepared"}}

Entries(n, s, kind) == {i \in 1..n : log[i].spend = s /\ log[i].kind = kind}

(* receipt_states over the first n entries *)
ReceiptState(n, s) ==
    LET verdicts == Entries(n, s, "receipt")
        charges == {i \in Entries(n, s, "charge") : log[i].state # "none"}
    IN  IF verdicts # {} THEN log[CHOOSE i \in verdicts : \A k \in verdicts : k <= i].state
        ELSE IF charges # {} THEN "pending" ELSE "none"

Voided(n, s) == ReceiptState(n, s) = "reverted"

(* _rolling_24h_spend of a process that has folded in n entries *)
Rolling(n) ==
    Cardinality({i \in (old + 1)..n : log[i].usd = 1 /\ ~Voided(n, log[i].spend)})

Append1(p, e) == log' = Append(log, e) /\ seen' = [seen EXCEPT ![p] = Len(log) + 1]

Charge(s, ref, usd, st) ==
    [kind |-> "charge", spend |-> s, ref |-> ref, usd |-> usd, state |-> st]

(* The journal names a row by its reservation until it is bound. *)
RefOf(st) == IF st = "reserved" THEN "signing" ELSE "hash"

(* _existing_charge, of a row read in this state *)
ChargesOf(s, st) == {i \in Entries(Len(log), s, "charge") : log[i].ref = RefOf(st)}

VerbTo(s, op) == verb' = [verb EXCEPT ![s] = op]

RowTo(s, st) == journal' = [journal EXCEPT ![s] = st]

(* The call is over, and so is its thread. *)
Ends(s) == VerbTo(s, "done") /\ stray' = stray \ {s}

-----------------------------------------------------------------------------
Init ==
    /\ log = <<>> /\ old = 0 /\ seen = [p \in Proc |-> 0]
    /\ journal = [s \in Spend |-> "none"]
    /\ chain = [s \in Spend |-> "none"] /\ mute = {}
    /\ verb = [s \in Spend |-> "idle"]
    /\ stray = {} /\ late = {}
    /\ release = NoRelease
    /\ heard = [p \in Watcher |-> NoNews]
    /\ mishaps = 0

-----------------------------------------------------------------------------
(* A money verb *)

(* reserve() and check(): the cap is judged by n entries of the ledger. *)
AuthorizeOn(s, n) ==
    /\ verb[s] = "idle" /\ LockFree /\ Unresolved = {}
    /\ seen' = [seen EXCEPT ![Home[s]] = n]
    /\ IF Rolling(n) + 1 <= Cap THEN VerbTo(s, "reserve") ELSE UNCHANGED verb
    /\ UNCHANGED <<log, old, journal, chain, mute, stray, late, release, heard, mishaps>>

(* Variant of Authorize: no refresh, the cap as this process remembers it. *)
AuthorizeStale(s) == AuthorizeOn(s, seen[Home[s]])

Authorize(s) == AuthorizeOn(s, Len(log))

(* reserve_signing, in the thread: another unresolved row refuses it. *)
Reserve(s) ==
    /\ verb[s] = "reserve" /\ JournalFree
    /\ IF Unresolved = {}
       THEN /\ RowTo(s, "reserved") /\ VerbTo(s, "bind")
            /\ late' = IF s \in stray THEN late \cup {s} ELSE late
            /\ UNCHANGED stray
       ELSE Ends(s) /\ UNCHANGED <<journal, late>>
    /\ UNCHANGED <<moneyVars, chain, mute, release, heard, mishaps>>

(* Variant of Bind: a reservation that is gone is no obstacle. *)
BindAny(s) ==
    /\ verb[s] = "bind" /\ JournalFree
    /\ journal' = IF journal[s] = "reserved" THEN [journal EXCEPT ![s] = "prepared"] ELSE journal
    /\ VerbTo(s, "send")
    /\ UNCHANGED <<moneyVars, chain, mute, stray, late, release, heard, mishaps>>

(* bind_signed_hash: nothing is sent for a reservation that was released. *)
Bind(s) ==
    /\ verb[s] = "bind" /\ JournalFree
    /\ IF journal[s] = "reserved"
       THEN RowTo(s, "prepared") /\ VerbTo(s, "send") /\ UNCHANGED stray
       ELSE Ends(s) /\ UNCHANGED journal
    /\ UNCHANGED <<moneyVars, chain, mute, late, release, heard, mishaps>>

(* eth_sendRawTransaction: taken, or lost on the way there or back.        *)
Send(s) ==
    /\ verb[s] = "send"
    /\ chain' \in {chain, [chain EXCEPT ![s] = "pool"]}
    /\ IF s \in stray THEN Ends(s) ELSE VerbTo(s, "receipt") /\ UNCHANGED stray
    /\ UNCHANGED <<moneyVars, journal, late, mute, release, heard, mishaps>>

(* The node refused the bytes: the interlock is given back, nothing booked. *)
SendRejected(s) ==
    /\ verb[s] = "send" /\ JournalFree
    /\ RowTo(s, "booked") /\ Ends(s)
    /\ UNCHANGED <<moneyVars, chain, mute, late, release, heard, mishaps>>

(* The receipt wait has ended, by a receipt, its time limit or a cut, and  *)
(* record() appends.  Some verbs note that the receipt is still pending.   *)
Record(s) ==
    /\ verb[s] = "receipt"
    /\ \E st \in {"none", "pending"} : Append1(Home[s], Charge(s, "hash", 1, st))
    /\ VerbTo(s, "mark")
    /\ UNCHANGED <<old, journal, chain, mute, stray, late, release, heard, mishaps>>

(* mark_booked, and the lock is free *)
Mark(s) ==
    /\ verb[s] = "mark"
    /\ RowTo(s, "booked") /\ Ends(s)
    /\ UNCHANGED <<moneyVars, chain, mute, late, release, heard, mishaps>>

(* The task is cut while the thread signs and sends. *)
Cut(s) ==
    /\ verb[s] \in Threaded /\ s \notin stray
    /\ stray' = stray \cup {s}
    /\ UNCHANGED <<moneyVars, journal, chain, mute, verb, late, release, heard, mishaps>>

-----------------------------------------------------------------------------
(* The operator *)

(* release_submission: row and evidence are read before the lock.  What    *)
(* may still land is not released.  The amount is the operator's: only     *)
(* --never-sent is refused for what landed, --charge-usd 0 is taken.       *)
PlanRelease(s) ==
    /\ release.op = "idle" /\ s \in Unresolved
    /\ journal[s] = "prepared" => chain[s] \in {"success", "failed"}
    /\ \E usd \in {0, 1} :
          release' = [op |-> "planned", spend |-> s, row |-> journal[s], usd |-> usd]
    /\ UNCHANGED <<moneyVars, spendVars, heard, mishaps>>

BookRelease(guard, Prior(_, _)) ==
    /\ release.op = "planned" /\ guard
    /\ LET s == release.spend IN
          IF journal[s] = release.row
          THEN /\ release' = [release EXCEPT !.op = "mark"]
               /\ log' = IF Prior(s, release.row) # {} THEN log
                         ELSE Append(log, Charge(s, RefOf(release.row), release.usd, "none"))
          ELSE release' = NoRelease /\ UNCHANGED log
    /\ UNCHANGED <<old, seen, spendVars, heard, mishaps>>

(* Variants of ReleaseBook: beside a spend that holds the lock; without a  *)
(* look for a charge that is there.                                        *)
ReleaseBeside == BookRelease(TRUE, ChargesOf)
ReleaseAgain == LET Nothing(s, st) == {} IN BookRelease(LockFree, Nothing)

(* operator_release: the ledger's lock, the journal's, the row once more. *)
ReleaseBook == BookRelease(LockFree, ChargesOf)

ReleaseMark ==
    /\ release.op = "mark"
    /\ RowTo(release.spend, "booked")
    /\ release' = NoRelease
    /\ UNCHANGED <<moneyVars, chain, mute, verb, stray, late, heard, mishaps>>

-----------------------------------------------------------------------------
(* resolve_pending_receipts *)

OpenReceipt(n, s) ==
    \E i \in Entries(n, s, "charge") : log[i].state = "pending" /\ ReceiptState(n, s) = "pending"

Verdict(s) == CASE chain[s] = "success" -> "confirmed"
                [] chain[s] = "failed" -> "reverted"
                [] OTHER -> "unknown"

ReadWhen(p, GivesUp(_)) ==
    /\ heard[p] = NoNews
    /\ \E s \in Spend :
          /\ OpenReceipt(seen[p], s) /\ s \notin mute
          /\ chain[s] \in {"success", "failed"} \/ GivesUp(s)
          /\ heard' = [heard EXCEPT ![p] = [state |-> Verdict(s), spend |-> s]]
    /\ UNCHANGED <<moneyVars, spendVars, release, mishaps>>

(* Variant of ReadReceipt: a transaction nobody finds stays pending. *)
ReadLanded(p) == LET Never(s) == FALSE IN ReadWhen(p, Never)

(* The ledger as the process knows it, the receipt as the node reports it; *)
(* without one the entry is given up after a day.  A read that raises      *)
(* leaves the entry pending, however old it is.                            *)
ReadReceipt(p) ==
    LET DayOld(s) == \E i \in 1..old : i \in Entries(seen[p], s, "charge") IN ReadWhen(p, DayOld)

(* note_receipt, under the lock and over the whole ledger: once per entry. *)
NoteReceipt(p) ==
    /\ heard[p] # NoNews /\ LockFree
    /\ heard' = [heard EXCEPT ![p] = NoNews]
    /\ LET s == heard[p].spend IN
          IF ReceiptState(Len(log), s) = "pending"
          THEN Append1(p, [kind |-> "receipt", spend |-> s, ref |-> "hash", usd |-> 0,
                          state |-> heard[p].state])
          ELSE seen' = [seen EXCEPT ![p] = Len(log)] /\ UNCHANGED log
    /\ UNCHANGED <<old, spendVars, release, mishaps>>

-----------------------------------------------------------------------------
(* The chain, time, crashes and outages *)

Land(s) ==
    /\ chain[s] = "pool"
    /\ \E st \in {"success", "failed"} : chain' = [chain EXCEPT ![s] = st]
    /\ UNCHANGED <<moneyVars, journal, mute, verb, stray, late, release, heard, mishaps>>

(* The node's answers about a pending entry become unusable, an error, a   *)
(* chain it does not serve, a receipt of another hash; or usable again.    *)
NodeTurns(s) ==
    /\ OpenReceipt(Len(log), s)
    /\ \/ s \in mute /\ mute' = mute \ {s} /\ UNCHANGED mishaps
       \/ /\ s \notin mute /\ mute' = mute \cup {s}
          /\ mishaps < MaxMishaps /\ mishaps' = mishaps + 1
    /\ UNCHANGED <<moneyVars, journal, chain, verb, stray, late, release, heard>>

(* The oldest entry leaves the window.  No call holds the lock for a day. *)
Age ==
    /\ old < Len(log) /\ LockFree
    /\ old' = old + 1
    /\ UNCHANGED <<log, seen, spendVars, release, heard, mishaps>>

(* The process starts again and loads the ledger file. *)
Crash(p) ==
    /\ mishaps < MaxMishaps /\ mishaps' = mishaps + 1
    /\ verb' = [s \in Spend |-> IF Home[s] = p /\ verb[s] # "idle" THEN "done" ELSE verb[s]]
    /\ stray' = {s \in stray : Home[s] # p}
    /\ seen' = [seen EXCEPT ![p] = Len(log)]
    /\ heard' = [q \in Watcher |-> IF q = p THEN NoNews ELSE heard[q]]
    /\ UNCHANGED <<log, old, journal, chain, mute, late, release>>

(* The journal's transaction is rolled back; the charge stays. *)
ReleaseDies ==
    /\ release.op = "mark" /\ mishaps < MaxMishaps
    /\ release' = NoRelease /\ mishaps' = mishaps + 1
    /\ UNCHANGED <<moneyVars, spendVars, heard>>

-----------------------------------------------------------------------------
VerbStep(s) == Reserve(s) \/ Bind(s) \/ Send(s) \/ SendRejected(s) \/ Record(s) \/ Mark(s)

Next ==
    \/ \E s \in Spend : \/ Authorize(s) \/ VerbStep(s) \/ Cut(s)
                        \/ PlanRelease(s) \/ Land(s) \/ NodeTurns(s)
    \/ ReleaseBook \/ ReleaseMark \/ ReleaseDies \/ Age
    \/ \E p \in Watcher : ReadReceipt(p) \/ NoteReceipt(p)
    \/ \E p \in Proc : Crash(p)

Spec == Init /\ [][Next]_vars

(* Every wait of a verb has a time limit, a started mark is carried out,   *)
(* the watchers tick, and days pass: some of what can go on does, which is *)
(* all that is needed.  Nothing says that the node answers: a watcher      *)
(* reads what can be read.                                                 *)
GoesOn ==
    \/ \E s \in Spend : VerbStep(s)
    \/ ReleaseMark \/ Age
    \/ \E p \in Watcher : ReadReceipt(p) \/ NoteReceipt(p)

FairSpec == Spec /\ WF_vars(GoesOn)

-----------------------------------------------------------------------------
(* Properties *)

(* Everything keeps its shape, and a row is never taken from under a call  *)
(* that is past its reservation (the release shares its lock).             *)
TypeOK ==
    /\ log \in Seq(Entry)
    /\ old \in 0..Len(log) /\ seen \in [Proc -> 0..Len(log)]
    /\ journal \in [Spend -> RowState]
    /\ chain \in [Spend -> {"none", "pool", "success", "failed"}]
    /\ verb \in [Spend -> VerbOps]
    /\ stray \subseteq Spend /\ late \subseteq Spend /\ mute \subseteq Spend
    /\ release \in Release /\ heard \in [Watcher -> News]
    /\ mishaps \in 0..MaxMishaps
    /\ \A s \in Spend : verb[s] \in {"send", "receipt", "mark"} => journal[s] = "prepared"

Charged(s) == Entries(Len(log), s, "charge")

(* Money that may have moved is never lost: its row still refuses every    *)
(* other send, or the ledger holds a charge that names the transaction and *)
(* was not voided, through crashes, cuts, releases and receipts.  What may *)
(* still land is booked at its worth; what a release booked once it was    *)
(* final is booked at what the operator said, $0 included.                 *)
NothingUnaccounted ==
    \A s \in Spend : chain[s] \in {"pool", "success"} =>
       \/ s \in Unresolved
       \/ /\ ~Voided(Len(log), s)
          /\ \E i \in Charged(s) : log[i].ref = "hash" /\ (chain[s] = "pool" => log[i].usd = 1)

(* The trailing day's charges, and the sends not yet booked, stay within   *)
(* the cap, whatever processes spend; but for a thread that outlives its   *)
(* task and takes its reservation when the lock is no longer held for it.  *)
(* A charge counts as what it was booked at.                               *)
CapHolds ==
    LET counted == {s \in Spend : \E i \in Charged(s) :
                       i > old /\ log[i].usd = 1 /\ ~Voided(Len(log), s)}
        sending == {s \in Unresolved : Charged(s) = {}}
    IN  Cardinality((counted \cup sending) \ late) <= Cap

(* One charge for each reference and one verdict for each transaction,     *)
(* though the record, a release that was started again and two watchers    *)
(* may each be about to write it.                                          *)
BookedOnce ==
    \A s \in Spend : /\ \A i, k \in Charged(s) : log[i].ref = log[k].ref => i = k
                     /\ Cardinality(Entries(Len(log), s, "receipt")) <= 1

(* A receipt that a watching process knows to be pending and that can be   *)
(* read is settled, by the chain or after a day without one.  One that     *)
(* cannot be read stays pending, for as long as that lasts.                *)
ReceiptsSettle ==
    \A s \in Spend :
        []<>(s \in mute \/ \A p \in Watcher :
                 OpenReceipt(seen[p], s) => ~OpenReceipt(Len(log), s))
=============================================================================
