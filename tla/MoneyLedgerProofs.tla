------------------------- MODULE MoneyLedgerProofs --------------------------
(* Theorems about MoneyLedger, for every number of spends, processes and   *)
(* watchers, every cap and any number of crashes and outages.              *)
EXTENDS MoneyLedger, FiniteSetTheorems, TLAPS

USE MoneyAssumption

-----------------------------------------------------------------------------
(* The inductive invariant.  It says where each call can stand with its    *)
(* row and with the chain, why a release is allowed, and what an entry of  *)
(* the ledger says about the chain.                                        *)

Active(s) == verb[s] \notin {"idle", "done"} /\ s \notin stray

(* One call at a time has the ledger's lock, and none beside a release     *)
(* that is about to mark its row.                                          *)
LockSole ==
    /\ \A s, u \in Spend : Active(s) /\ Active(u) => s = u
    /\ release.op = "mark" => \A s \in Spend : ~Active(s)
    /\ \A s \in stray : verb[s] \in Threaded

HashCharge(i, s) == log[i].kind = "charge" /\ log[i].ref = "hash" /\ log[i].spend = s

Booked(s) == \E i \in 1..Len(log) : HashCharge(i, s)

(* Nothing reaches the chain before its row is prepared, and no row of     *)
(* money that may have moved is settled without its charge.                *)
Staged(s) ==
    /\ verb[s] \in {"idle", "reserve"} => journal[s] = "none"
    /\ verb[s] = "bind" => journal[s] \in {"reserved", "booked"}
    /\ verb[s] \in {"idle", "reserve", "bind", "send"} => chain[s] = "none"
    /\ journal[s] \in {"none", "reserved"} => chain[s] = "none"
    /\ verb[s] = "mark" => Booked(s)
    /\ journal[s] = "booked" /\ chain[s] \in {"pool", "success"} => Booked(s)

Stages == \A s \in Spend : Staged(s)

(* What was read before the release took its locks is still so: a          *)
(* transaction that is mined stays mined.                                  *)
ReleaseJustified ==
    /\ release.op # "idle" /\ release.row = "prepared" =>
          chain[release.spend] \in {"success", "failed"}
    /\ release.op = "mark" =>
          /\ journal[release.spend] = release.row
          /\ ChargesOf(release.spend, release.row) # {}

EntryTrue(i) ==
    /\ log[i].kind = "receipt" =>
          /\ log[i].usd = 0 /\ log[i].state \in {"confirmed", "reverted", "unknown"}
          /\ log[i].state = "reverted" => chain[log[i].spend] = "failed"
    /\ log[i].kind = "charge" /\ log[i].ref = "hash" =>
          /\ verb[log[i].spend] \in {"mark", "done"}
          /\ log[i].usd = 0 => chain[log[i].spend] \in {"success", "failed"}

EntriesTrue == \A i \in 1..Len(log) : EntryTrue(i)

SameSubject(e, f) ==
    /\ e.spend = f.spend /\ e.kind = f.kind
    /\ e.kind = "charge" => e.ref = f.ref

WrittenOnce == \A i, k \in 1..Len(log) : SameSubject(log[i], log[k]) => i = k

HeardTrue == \A p \in Watcher : heard[p].state = "reverted" => chain[heard[p].spend] = "failed"

Inv == /\ TypeOK /\ LockSole /\ Stages /\ ReleaseJustified
       /\ EntriesTrue /\ WrittenOnce /\ HeardTrue

(* It holds of an empty ledger, before any spend.                          *)
THEOREM InitInv == Init => Inv
<1> SUFFICES ASSUME Init PROVE Inv
  OBVIOUS
<1>1. /\ log = <<>> /\ Len(log) = 0 /\ old = 0 /\ stray = {} /\ late = {}
      /\ mute = {} /\ mishaps = 0
      /\ release = NoRelease
      /\ \A s \in Spend : verb[s] = "idle" /\ journal[s] = "none" /\ chain[s] = "none"
  BY DEF Init
<1>2. /\ seen \in [Proc -> 0..Len(log)] /\ heard \in [Watcher -> News]
      /\ journal \in [Spend -> RowState] /\ verb \in [Spend -> VerbOps]
      /\ chain \in [Spend -> {"none", "pool", "success", "failed"}]
  BY DEF Init, News, RowState, VerbOps
<1>3. TypeOK
  BY <1>1, <1>2 DEF TypeOK, Release
<1>4. LockSole /\ Stages
  BY <1>1 DEF LockSole, Stages, Staged, Active, NoRelease
<1>5. ReleaseJustified
  BY <1>1 DEF ReleaseJustified, NoRelease
<1>6. EntriesTrue /\ WrittenOnce
  BY <1>1 DEF EntriesTrue, WrittenOnce
<1>7. HeardTrue
  BY DEF Init, HeardTrue, NoNews
<1> QED
  BY <1>3, <1>4, <1>5, <1>6, <1>7 DEF Inv

-----------------------------------------------------------------------------
(* The ledger only grows, by one entry at a time.                          *)

LEMMA Appended ==
    ASSUME log \in Seq(Entry), NEW e \in Entry, log' = Append(log, e)
    PROVE  /\ log' \in Seq(Entry) /\ Len(log) \in Nat /\ Len(log') = Len(log) + 1
           /\ log'[Len(log) + 1] = e
           /\ \A i \in 1..Len(log) : log'[i] = log[i]
OBVIOUS

LEMMA ChargeEntry ==
    ASSUME NEW s \in Spend, NEW ref \in {"signing", "hash"}, NEW usd \in 0..1,
           NEW st \in {"none", "pending"}
    PROVE  /\ Charge(s, ref, usd, st) \in Entry
           /\ Charge(s, ref, usd, st).kind = "charge" /\ Charge(s, ref, usd, st).spend = s
           /\ Charge(s, ref, usd, st).ref = ref /\ Charge(s, ref, usd, st).usd = usd
           /\ Charge(s, ref, usd, st).state = st
BY DEF Charge, Entry

Receipt(s, st) == [kind |-> "receipt", spend |-> s, ref |-> "hash", usd |-> 0, state |-> st]

LEMMA ReceiptEntry ==
    ASSUME NEW s \in Spend, NEW st \in {"confirmed", "reverted", "unknown"}
    PROVE  /\ Receipt(s, st) \in Entry
           /\ Receipt(s, st).kind = "receipt" /\ Receipt(s, st).spend = s
           /\ Receipt(s, st).usd = 0 /\ Receipt(s, st).state = st
BY DEF Receipt, Entry

(* The steps, with what the operators they are written with stand for.     *)
LEMMA ReleaseBookStep ==
    ASSUME ReleaseBook
    PROVE  /\ release.op = "planned" /\ LockFree
           /\ UNCHANGED <<old, seen, spendVars, heard, mishaps>>
           /\ \/ /\ journal[release.spend] = release.row
                 /\ release' = [release EXCEPT !.op = "mark"]
                 /\ \/ ChargesOf(release.spend, release.row) # {} /\ log' = log
                    \/ /\ ChargesOf(release.spend, release.row) = {}
                       /\ log' = Append(log, Charge(release.spend, RefOf(release.row),
                                                    release.usd, "none"))
              \/ /\ journal[release.spend] # release.row
                 /\ release' = NoRelease /\ log' = log
BY DEF ReleaseBook, BookRelease

LEMMA ReadReceiptStep ==
    ASSUME NEW p \in Watcher, ReadReceipt(p)
    PROVE  /\ UNCHANGED <<moneyVars, spendVars, release, mishaps>>
           /\ \E s \in Spend : heard' = [heard EXCEPT ![p] = [state |-> Verdict(s), spend |-> s]]
BY DEF ReadReceipt, ReadWhen

NoteReceiptStep(p, s) ==
    /\ heard[p] # NoNews /\ LockFree /\ s = heard[p].spend
    /\ heard' = [heard EXCEPT ![p] = NoNews]
    /\ \/ /\ ReceiptState(Len(log), s) = "pending"
          /\ log' = Append(log, Receipt(s, heard[p].state))
          /\ seen' = [seen EXCEPT ![p] = Len(log) + 1]
       \/ log' = log /\ seen' = [seen EXCEPT ![p] = Len(log)]
    /\ UNCHANGED <<old, spendVars, release, mishaps>>

LEMMA NoteReceiptWrites ==
    ASSUME TypeOK, NEW p \in Watcher, NoteReceipt(p)
    PROVE  /\ NoteReceiptStep(p, heard[p].spend)
           /\ heard[p].spend \in Spend /\ heard[p].state \in {"confirmed", "reverted", "unknown"}
<1>1. heard[p] \in News /\ heard[p] # NoNews
  BY DEF TypeOK, NoteReceipt
<1>2. heard[p].spend \in Spend /\ heard[p].state \in {"confirmed", "reverted", "unknown"}
  BY <1>1 DEF News
<1> QED
  BY <1>1, <1>2 DEF NoteReceipt, NoteReceiptStep, Append1, Receipt

(* The calls that leave the ledger alone.                                  *)
LedgerKept(s) ==
    \/ Reserve(s) \/ Bind(s) \/ Send(s) \/ SendRejected(s) \/ Mark(s) \/ Cut(s)
    \/ PlanRelease(s) \/ Land(s) \/ NodeTurns(s)

LEMMA NextMoney ==
    ASSUME TypeOK, [Next]_vars
    PROVE  /\ log' \in Seq(Entry) /\ old' \in 0..Len(log') /\ seen' \in [Proc -> 0..Len(log')]
<1>1. /\ log \in Seq(Entry) /\ Len(log) \in Nat /\ old \in 0..Len(log)
      /\ seen \in [Proc -> 0..Len(log)]
  BY DEF TypeOK
<1>2. CASE UNCHANGED moneyVars
  BY <1>1, <1>2 DEF moneyVars
<1>3. ASSUME NEW n \in {Len(log), Len(log) + 1}, Len(log') = n, NEW p \in Proc,
             NEW m \in 0..n, seen' = [seen EXCEPT ![p] = m]
      PROVE  seen' \in [Proc -> 0..Len(log')]
  BY <1>1, <1>3
<1>4. ASSUME NEW e \in Entry, log' = Append(log, e), old' = old
      PROVE  log' \in Seq(Entry) /\ Len(log') = Len(log) + 1 /\ old' \in 0..Len(log')
  BY <1>1, <1>4, Appended
<1>5. ASSUME NEW s \in Spend, Authorize(s)
      PROVE  log' = log /\ old' = old /\ seen' \in [Proc -> 0..Len(log')]
  <2>1. Home[s] \in Proc /\ seen' = [seen EXCEPT ![Home[s]] = Len(log)] /\ log' = log /\ old' = old
    BY <1>5 DEF Authorize, AuthorizeOn
  <2> QED
    BY <1>1, <1>3, <2>1
<1>6. ASSUME NEW s \in Spend, Record(s)
      PROVE  log' \in Seq(Entry) /\ old' \in 0..Len(log') /\ seen' \in [Proc -> 0..Len(log')]
  <2>1. PICK st \in {"none", "pending"} :
           /\ log' = Append(log, Charge(s, "hash", 1, st))
           /\ seen' = [seen EXCEPT ![Home[s]] = Len(log) + 1] /\ old' = old
    BY <1>6 DEF Record, Append1
  <2>2. Home[s] \in Proc /\ Charge(s, "hash", 1, st) \in Entry
    BY ChargeEntry
  <2>3. log' \in Seq(Entry) /\ Len(log') = Len(log) + 1 /\ old' \in 0..Len(log')
    BY <1>4, <2>1, <2>2
  <2> QED
    BY <1>1, <1>3, <2>1, <2>2, <2>3
<1>7. CASE ReleaseBook
  <2>1. seen' = seen /\ old' = old
    BY <1>7, ReleaseBookStep
  <2>2. CASE log' = log
    BY <1>1, <2>1, <2>2
  <2>3. CASE log' # log
    <3>1. log' = Append(log, Charge(release.spend, RefOf(release.row), release.usd, "none"))
          /\ release.op = "planned" /\ release \in Release
      BY <1>7, <2>3, ReleaseBookStep DEF TypeOK
    <3>2. release.spend \in Spend /\ release.usd \in 0..1
      BY <3>1 DEF Release, NoRelease
    <3>3. RefOf(release.row) \in {"signing", "hash"}
      BY DEF RefOf
    <3>4. Charge(release.spend, RefOf(release.row), release.usd, "none") \in Entry
      BY <3>2, <3>3, ChargeEntry
    <3>5. log' \in Seq(Entry) /\ Len(log') = Len(log) + 1 /\ old' \in 0..Len(log')
      BY <1>4, <2>1, <3>1, <3>4
    <3> QED
      BY <1>1, <2>1, <3>5
  <2> QED
    BY <2>2, <2>3
<1>8. CASE Age
  BY <1>1, <1>8 DEF Age
<1>9. ASSUME NEW p \in Watcher, NoteReceipt(p)
      PROVE  log' \in Seq(Entry) /\ old' \in 0..Len(log') /\ seen' \in [Proc -> 0..Len(log')]
  <2> DEFINE s == heard[p].spend
  <2>1. /\ s \in Spend /\ heard[p].state \in {"confirmed", "reverted", "unknown"}
        /\ NoteReceiptStep(p, s) /\ p \in Proc /\ old' = old
    BY <1>9, NoteReceiptWrites DEF NoteReceiptStep
  <2>2. CASE log' = log /\ seen' = [seen EXCEPT ![p] = Len(log)]
    BY <1>1, <1>3, <2>1, <2>2
  <2>3. CASE log' = Append(log, Receipt(s, heard[p].state)) /\ seen' = [seen EXCEPT ![p] = Len(log) + 1]
    <3>1. Receipt(s, heard[p].state) \in Entry
      BY <2>1, ReceiptEntry
    <3>2. log' \in Seq(Entry) /\ Len(log') = Len(log) + 1 /\ old' \in 0..Len(log')
      BY <1>4, <2>1, <2>3, <3>1
    <3> QED
      BY <1>1, <1>3, <2>1, <2>3, <3>2
  <2> QED
    BY <2>1, <2>2, <2>3 DEF NoteReceiptStep
<1>10. ASSUME NEW p \in Proc, Crash(p)
       PROVE  log' = log /\ old' = old /\ seen' \in [Proc -> 0..Len(log')]
  <2>1. seen' = [seen EXCEPT ![p] = Len(log)] /\ log' = log /\ old' = old
    BY <1>10 DEF Crash
  <2> QED
    BY <1>1, <1>3, <2>1
<1>11. ASSUME NEW s \in Spend, LedgerKept(s) PROVE UNCHANGED moneyVars
  BY <1>11 DEF LedgerKept, Reserve, Bind, Send, SendRejected, Mark, Cut, PlanRelease, Land,
            NodeTurns
<1>12. CASE ReleaseMark \/ ReleaseDies \/ \E p \in Watcher : ReadReceipt(p)
  BY <1>2, <1>12, ReadReceiptStep DEF ReleaseMark, ReleaseDies
<1>13. CASE UNCHANGED vars
  BY <1>2, <1>13 DEF vars
<1> QED
  BY <1>1, <1>2, <1>5, <1>6, <1>7, <1>8, <1>9, <1>10, <1>11, <1>12, <1>13
  DEF Next, VerbStep, LedgerKept

(* The columns of the journal, the calls and the chain keep their range.   *)
LEMMA NextColumns ==
    ASSUME TypeOK, [Next]_vars
    PROVE  /\ journal' \in [Spend -> RowState] /\ verb' \in [Spend -> VerbOps]
           /\ chain' \in [Spend -> {"none", "pool", "success", "failed"}]
           /\ stray' \subseteq Spend /\ late' \subseteq Spend /\ mute' \subseteq Spend
<1>1. /\ journal \in [Spend -> RowState] /\ verb \in [Spend -> VerbOps]
      /\ chain \in [Spend -> {"none", "pool", "success", "failed"}]
      /\ stray \subseteq Spend /\ late \subseteq Spend /\ mute \subseteq Spend
  BY DEF TypeOK
<1>2. CASE UNCHANGED spendVars
  BY <1>1, <1>2 DEF spendVars
<1>3. ASSUME NEW s \in Spend, \/ Authorize(s) \/ VerbStep(s) \/ Cut(s)
                              \/ PlanRelease(s) \/ Land(s) \/ NodeTurns(s)
      PROVE  /\ journal' \in [Spend -> RowState] /\ verb' \in [Spend -> VerbOps]
             /\ chain' \in [Spend -> {"none", "pool", "success", "failed"}]
             /\ stray' \subseteq Spend /\ late' \subseteq Spend /\ mute' \subseteq Spend
  <2>1. CASE PlanRelease(s)
    BY <1>2, <2>1 DEF PlanRelease
  <2>2. CASE Authorize(s) \/ Record(s)
    BY <1>1, <2>2 DEF Authorize, AuthorizeOn, Record, VerbTo, VerbOps
  <2>3. CASE Reserve(s) \/ Bind(s) \/ SendRejected(s) \/ Mark(s)
    BY <1>1, <2>3 DEF Reserve, Bind, SendRejected, Mark, VerbTo, RowTo, Ends, VerbOps, RowState
  <2>4. CASE Send(s) \/ Land(s) \/ Cut(s) \/ NodeTurns(s)
    BY <1>1, <2>4 DEF Send, Land, Cut, NodeTurns, VerbTo, Ends, VerbOps
  <2> QED
    BY <1>3, <2>1, <2>2, <2>3, <2>4 DEF VerbStep
<1>4. CASE ReleaseMark
  BY <1>1, <1>4 DEF ReleaseMark, RowTo, RowState
<1>5. CASE ReleaseBook
  BY <1>2, <1>5, ReleaseBookStep
<1>6. CASE ReleaseDies \/ Age \/ \E p \in Watcher : ReadReceipt(p) \/ NoteReceipt(p)
  BY <1>2, <1>6, ReadReceiptStep DEF ReleaseDies, Age, NoteReceipt
<1>7. ASSUME NEW p \in Proc, Crash(p)
      PROVE  /\ journal' \in [Spend -> RowState] /\ verb' \in [Spend -> VerbOps]
             /\ chain' \in [Spend -> {"none", "pool", "success", "failed"}]
             /\ stray' \subseteq Spend /\ late' \subseteq Spend /\ mute' \subseteq Spend
  BY <1>1, <1>7 DEF Crash, VerbOps
<1>8. CASE UNCHANGED vars
  BY <1>2, <1>8 DEF vars
<1> QED
  BY <1>3, <1>4, <1>5, <1>6, <1>7, <1>8 DEF Next

(* What the release and the watchers remember keeps its range.             *)
LEMMA NextPending ==
    ASSUME TypeOK, [Next]_vars
    PROVE  release' \in Release /\ heard' \in [Watcher -> News] /\ mishaps' \in 0..MaxMishaps
<1>1. /\ release \in Release /\ heard \in [Watcher -> News] /\ mishaps \in 0..MaxMishaps
      /\ journal \in [Spend -> RowState] /\ NoRelease \in Release /\ NoNews \in News
  BY DEF TypeOK, Release, News
<1>2. ASSUME NEW s \in Spend, PlanRelease(s) PROVE release' \in Release
  <2>1. PICK usd \in 0..1 :
           release' = [op |-> "planned", spend |-> s, row |-> journal[s], usd |-> usd]
    BY <1>2 DEF PlanRelease
  <2>2. journal[s] \in {"reserved", "prepared"}
    BY <1>2 DEF PlanRelease, Unresolved
  <2> QED
    BY <2>1, <2>2 DEF Release
<1>3. CASE ReleaseBook
  <2>1. release.op = "planned" /\ release' \in {NoRelease, [release EXCEPT !.op = "mark"]}
        /\ heard' = heard /\ mishaps' = mishaps
    BY <1>3, ReleaseBookStep
  <2>2. release \in [op : {"planned", "mark"}, spend : Spend, row : {"reserved", "prepared"},
                     usd : 0..1]
    BY <1>1, <2>1 DEF Release, NoRelease
  <2>3. [release EXCEPT !.op = "mark"] \in Release
    BY <2>2 DEF Release
  <2> QED
    BY <1>1, <2>1, <2>3
<1>4. CASE ReleaseMark \/ ReleaseDies \/ Age
  BY <1>1, <1>4 DEF ReleaseMark, ReleaseDies, Age
<1>5. ASSUME NEW p \in Watcher, ReadReceipt(p)
      PROVE  release' \in Release /\ heard' \in [Watcher -> News] /\ mishaps' \in 0..MaxMishaps
  <2>1. PICK s \in Spend : heard' = [heard EXCEPT ![p] = [state |-> Verdict(s), spend |-> s]]
    BY <1>5, ReadReceiptStep
  <2>2. Verdict(s) \in {"confirmed", "reverted", "unknown"}
    BY DEF Verdict
  <2>3. [state |-> Verdict(s), spend |-> s] \in News
    BY <2>2 DEF News
  <2>4. release' = release /\ mishaps' = mishaps
    BY <1>5, ReadReceiptStep
  <2> QED
    BY <1>1, <2>1, <2>3, <2>4
<1>6. ASSUME NEW p \in Watcher, NoteReceipt(p)
      PROVE  release' \in Release /\ heard' \in [Watcher -> News] /\ mishaps' \in 0..MaxMishaps
  BY <1>1, <1>6 DEF NoteReceipt
<1>7. ASSUME NEW p \in Proc, Crash(p)
      PROVE  release' \in Release /\ heard' \in [Watcher -> News] /\ mishaps' \in 0..MaxMishaps
  <2>1. release' = release /\ heard' \in [Watcher -> News]
    BY <1>1, <1>7 DEF Crash
  <2>2. mishaps < MaxMishaps /\ mishaps' = mishaps + 1
    BY <1>7 DEF Crash
  <2> QED
    BY <1>1, <2>1, <2>2
<1>8. ASSUME NEW s \in Spend, Authorize(s) \/ VerbStep(s) \/ Cut(s) \/ Land(s)
      PROVE  UNCHANGED <<release, heard, mishaps>>
  BY <1>8 DEF Authorize, AuthorizeOn, VerbStep, Reserve, Bind, Send, SendRejected, Record, Mark,
              Cut, Land
<1>9. ASSUME NEW s \in Spend, PlanRelease(s) PROVE UNCHANGED <<heard, mishaps>>
  BY <1>9 DEF PlanRelease
<1>10. ASSUME NEW s \in Spend, NodeTurns(s)
       PROVE  release' = release /\ heard' = heard /\ mishaps' \in 0..MaxMishaps
  <2>1. mishaps' = mishaps \/ (mishaps < MaxMishaps /\ mishaps' = mishaps + 1)
    BY <1>10 DEF NodeTurns
  <2>2. release' = release /\ heard' = heard
    BY <1>10 DEF NodeTurns
  <2> QED
    BY <1>1, <2>1, <2>2
<1>11. CASE UNCHANGED vars
  BY <1>1, <1>11 DEF vars
<1> QED
  BY <1>1, <1>2, <1>3, <1>4, <1>5, <1>6, <1>7, <1>8, <1>9, <1>10, <1>11 DEF Next

-----------------------------------------------------------------------------
(* The lock                                                                *)

LEMMA NoNewHolder ==
    ASSUME LockSole, \A u \in Spend : Active(u)' => Active(u),
           release'.op = "mark" => release.op = "mark",
           \A u \in stray' : verb'[u] \in Threaded
    PROVE  LockSole'
BY DEF LockSole

LEMMA NextLock ==
    ASSUME Inv, [Next]_vars
    PROVE  LockSole'
<1>1. /\ LockSole /\ verb \in [Spend -> VerbOps] /\ stray \subseteq Spend
      /\ \A u \in stray : verb[u] \in Threaded
  BY DEF Inv, TypeOK, LockSole
<1>2. CASE UNCHANGED <<verb, stray, release>>
  BY <1>1, <1>2 DEF LockSole, Active
<1>3. ASSUME NEW s \in Spend, Authorize(s) PROVE LockSole'
  <2>1. /\ verb[s] = "idle" /\ stray' = stray /\ release' = release /\ release.op # "mark"
        /\ \A u \in Spend : ~Active(u)
    BY <1>3 DEF Authorize, AuthorizeOn, LockFree, Active
  <2>2. \A u \in Spend : u # s => verb'[u] = verb[u]
    BY <1>1, <1>3 DEF Authorize, AuthorizeOn, VerbTo
  <2>3. s \notin stray
    BY <1>1, <2>1 DEF Threaded
  <2>4. \A u \in Spend : Active(u)' => u = s
    BY <2>1, <2>2 DEF Active
  <2> QED
    BY <1>1, <2>1, <2>2, <2>3, <2>4 DEF LockSole
<1>4. ASSUME NEW s \in Spend, Reserve(s) \/ Bind(s) \/ Send(s) \/ SendRejected(s)
      PROVE  LockSole'
  <2>1. release' = release /\ verb[s] \in Threaded
    BY <1>4 DEF Reserve, Bind, Send, SendRejected, Threaded
  <2>2. \/ Ends(s)
        \/ /\ stray' = stray
           /\ verb' = [verb EXCEPT ![s] = "bind"] \/ verb' = [verb EXCEPT ![s] = "send"]
        \/ /\ stray' = stray /\ s \notin stray /\ verb' = [verb EXCEPT ![s] = "receipt"]
    BY <1>4 DEF Reserve, Bind, Send, SendRejected, VerbTo
  <2>3. \A u \in Spend : Active(u)' => Active(u)
    BY <1>1, <2>1, <2>2 DEF Active, Ends, VerbTo, Threaded
  <2>4. \A u \in stray' : verb'[u] \in Threaded
    BY <1>1, <2>2 DEF Ends, VerbTo, Threaded
  <2> QED
    BY <1>1, <2>1, <2>3, <2>4, NoNewHolder
<1>5. ASSUME NEW s \in Spend, Record(s) \/ Mark(s) PROVE LockSole'
  <2>1. release' = release /\ verb[s] \in {"receipt", "mark"} /\ s \notin stray
    BY <1>1, <1>5 DEF Record, Mark, Threaded
  <2>2. stray' = stray /\ (verb' = [verb EXCEPT ![s] = "mark"] \/ verb' = [verb EXCEPT ![s] = "done"])
    BY <1>5, <2>1 DEF Record, Mark, Ends, VerbTo
  <2>3. \A u \in Spend : Active(u)' => Active(u)
    BY <1>1, <2>1, <2>2 DEF Active
  <2>4. \A u \in stray' : verb'[u] \in Threaded
    BY <1>1, <2>1, <2>2
  <2> QED
    BY <1>1, <2>1, <2>3, <2>4, NoNewHolder
<1>6. ASSUME NEW s \in Spend, Cut(s) PROVE LockSole'
  <2>1. /\ release' = release /\ verb' = verb /\ stray' = stray \cup {s} /\ verb[s] \in Threaded
    BY <1>6 DEF Cut
  <2> QED
    BY <1>1, <2>1, NoNewHolder DEF Active
<1>7. ASSUME NEW s \in Spend, PlanRelease(s) PROVE LockSole'
  <2>1. release'.op = "planned" /\ verb' = verb /\ stray' = stray
    BY <1>7 DEF PlanRelease, spendVars
  <2> QED
    BY <1>1, <2>1, NoNewHolder DEF Active
<1>8. CASE ReleaseBook
  <2>1. /\ verb' = verb /\ stray' = stray /\ \A u \in Spend : ~Active(u)
    BY <1>8, ReleaseBookStep DEF spendVars, LockFree, Active
  <2> QED
    BY <1>1, <2>1 DEF LockSole, Active
<1>9. CASE ReleaseMark \/ ReleaseDies
  <2>1. release' = NoRelease /\ verb' = verb /\ stray' = stray
    BY <1>9 DEF ReleaseMark, ReleaseDies, spendVars
  <2> QED
    BY <1>1, <2>1, NoNewHolder DEF Active, NoRelease
<1>10. CASE Age \/ \E p \in Watcher : ReadReceipt(p) \/ NoteReceipt(p)
  BY <1>2, <1>10, ReadReceiptStep DEF Age, NoteReceipt, spendVars
<1>11. ASSUME NEW p \in Proc, Crash(p) PROVE LockSole'
  <2>1. /\ release' = release /\ stray' = {s \in stray : Home[s] # p}
        /\ verb' = [s \in Spend |-> IF Home[s] = p /\ verb[s] # "idle" THEN "done" ELSE verb[s]]
    BY <1>11 DEF Crash
  <2> QED
    BY <1>1, <2>1, NoNewHolder DEF Active
<1>12. ASSUME NEW s \in Spend, Land(s) \/ NodeTurns(s) PROVE LockSole'
  BY <1>2, <1>12 DEF Land, NodeTurns
<1>13. CASE UNCHANGED vars
  BY <1>2, <1>13 DEF vars, spendVars
<1> QED
  BY <1>3, <1>4, <1>5, <1>6, <1>7, <1>8, <1>9, <1>10, <1>11, <1>12, <1>13 DEF Next, VerbStep

-----------------------------------------------------------------------------
(* Every entry of the ledger stays, at its place.                          *)

LEMMA LogGrows ==
    ASSUME TypeOK, [Next]_vars
    PROVE  /\ Len(log) \in Nat /\ Len(log') \in {Len(log), Len(log) + 1}
           /\ \A i \in 1..Len(log) : log'[i] = log[i]
<1>1. log \in Seq(Entry) /\ Len(log) \in Nat
  BY DEF TypeOK
<1>2. CASE log' = log
  BY <1>1, <1>2
<1>3. ASSUME NEW e, log' = Append(log, e)
      PROVE  /\ Len(log') = Len(log) + 1 /\ \A i \in 1..Len(log) : log'[i] = log[i]
  BY <1>1, <1>3
<1>4. log' = log \/ \E e : log' = Append(log, e)
  <2>1. ASSUME NEW s \in Spend, Authorize(s) \/ LedgerKept(s) PROVE log' = log
    BY <2>1 DEF Authorize, AuthorizeOn, LedgerKept, Reserve, Bind, Send, SendRejected, Mark, Cut,
                PlanRelease, Land, NodeTurns, moneyVars
  <2>2. ASSUME NEW s \in Spend, Record(s) PROVE \E e : log' = Append(log, e)
    BY <2>2 DEF Record, Append1
  <2>3. CASE ReleaseMark \/ ReleaseDies \/ Age
    BY <2>3 DEF ReleaseMark, ReleaseDies, Age, moneyVars
  <2>4. CASE ReleaseBook
    BY <2>4, ReleaseBookStep
  <2>5. ASSUME NEW p \in Watcher, ReadReceipt(p) PROVE log' = log
    BY <2>5, ReadReceiptStep DEF moneyVars
  <2>6. ASSUME NEW p \in Watcher, NoteReceipt(p) PROVE log' = log \/ \E e : log' = Append(log, e)
    BY <2>6, NoteReceiptWrites DEF NoteReceiptStep
  <2>7. ASSUME NEW p \in Proc, Crash(p) PROVE log' = log
    BY <2>7 DEF Crash
  <2>8. CASE UNCHANGED vars
    BY <2>8 DEF vars, moneyVars
  <2> QED
    BY <2>1, <2>2, <2>3, <2>4, <2>5, <2>6, <2>7, <2>8 DEF Next, VerbStep, LedgerKept
<1> QED
  BY <1>2, <1>3, <1>4

LEMMA StaysBooked ==
    ASSUME TypeOK, [Next]_vars, NEW s \in Spend, Booked(s)
    PROVE  Booked(s)'
BY LogGrows DEF Booked, HashCharge

-----------------------------------------------------------------------------
(* The stages                                                              *)

(* A release that is about to mark its row meets no call past its          *)
(* reservation, and leaves no money unaccounted for.                       *)
LEMMA MarkIsSafe ==
    ASSUME Inv, release.op = "mark"
    PROVE  LET r == release.spend IN
           /\ r \in Spend /\ journal[r] \in {"reserved", "prepared"}
           /\ verb[r] \notin {"idle", "reserve", "send", "receipt", "mark"}
           /\ chain[r] \in {"pool", "success"} => Booked(r)
<1> DEFINE r == release.spend
<1>1. /\ release \in Release /\ LockSole /\ Staged(r) /\ ReleaseJustified
      /\ r \in Spend /\ release.row \in {"reserved", "prepared"}
      /\ log \in Seq(Entry) /\ verb[r] \in VerbOps
      /\ verb[r] \in {"send", "receipt", "mark"} => journal[r] = "prepared"
  <2>1. release \in Release
    BY DEF Inv, TypeOK
  <2>2. r \in Spend /\ release.row \in {"reserved", "prepared"}
    BY <2>1 DEF Release, NoRelease
  <2> QED
    BY <2>1, <2>2 DEF Inv, TypeOK, Stages
<1>2. journal[r] = release.row /\ ChargesOf(r, release.row) # {}
  BY <1>1 DEF ReleaseJustified
<1>3. verb[r] \notin {"receipt", "mark"}
  BY <1>1 DEF LockSole, Active, Threaded
<1>4. verb[r] \notin {"idle", "reserve"}
  BY <1>1, <1>2 DEF Staged
<1>5. release.row = "prepared" => chain[r] \in {"success", "failed"}
  BY <1>1 DEF ReleaseJustified
<1>6. verb[r] # "send"
  BY <1>1, <1>2, <1>5 DEF Staged
<1>7. ASSUME chain[r] \in {"pool", "success"} PROVE Booked(r)
  <2>1. release.row = "prepared"
    BY <1>1, <1>2, <1>7 DEF Staged
  <2>2. PICK i \in 1..Len(log) : HashCharge(i, r)
    BY <1>2, <2>1 DEF ChargesOf, Entries, RefOf, HashCharge
  <2> QED
    BY <2>2 DEF Booked
<1> QED
  BY <1>1, <1>2, <1>3, <1>4, <1>6, <1>7

RowHeld(s) == verb[s] \in {"send", "receipt", "mark"} => journal[s] = "prepared"

LEMMA NextStage ==
    ASSUME Inv, [Next]_vars, NEW u \in Spend
    PROVE  Staged(u)' /\ RowHeld(u)'
<1>1. /\ Staged(u) /\ RowHeld(u) /\ LockSole /\ TypeOK
      /\ journal \in [Spend -> RowState] /\ verb \in [Spend -> VerbOps]
      /\ chain \in [Spend -> {"none", "pool", "success", "failed"}]
  BY DEF Inv, Stages, TypeOK, RowHeld
<1>2. Booked(u) => Booked(u)'
  BY <1>1, StaysBooked
<1>3. CASE verb'[u] = verb[u] /\ journal'[u] = journal[u] /\ chain'[u] = chain[u]
  BY <1>1, <1>2, <1>3 DEF Staged, RowHeld
<1>4. CASE UNCHANGED spendVars
  BY <1>3, <1>4 DEF spendVars
<1>5. ASSUME NEW s \in Spend, Authorize(s) PROVE Staged(u)' /\ RowHeld(u)'
  <2>1. journal' = journal /\ chain' = chain /\ verb[s] = "idle"
        /\ verb' \in {verb, [verb EXCEPT ![s] = "reserve"]}
    BY <1>5 DEF Authorize, AuthorizeOn, VerbTo
  <2> QED
    BY <1>1, <1>2, <2>1 DEF Staged, RowHeld
<1>6. ASSUME NEW s \in Spend, Reserve(s) PROVE Staged(u)' /\ RowHeld(u)'
  <2>1. /\ verb[s] = "reserve" /\ chain' = chain
        /\ \/ journal' = [journal EXCEPT ![s] = "reserved"] /\ verb' = [verb EXCEPT ![s] = "bind"]
           \/ journal' = journal /\ verb' = [verb EXCEPT ![s] = "done"]
    BY <1>6 DEF Reserve, RowTo, VerbTo, Ends
  <2> QED
    BY <1>1, <1>2, <2>1 DEF Staged, RowHeld
<1>7. ASSUME NEW s \in Spend, Bind(s) PROVE Staged(u)' /\ RowHeld(u)'
  <2>1. /\ verb[s] = "bind" /\ chain' = chain
        /\ \/ /\ journal[s] = "reserved" /\ journal' = [journal EXCEPT ![s] = "prepared"]
              /\ verb' = [verb EXCEPT ![s] = "send"]
           \/ journal' = journal /\ verb' = [verb EXCEPT ![s] = "done"]
    BY <1>7 DEF Bind, RowTo, VerbTo, Ends
  <2> QED
    BY <1>1, <1>2, <2>1 DEF Staged, RowHeld
<1>8. ASSUME NEW s \in Spend, Send(s) PROVE Staged(u)' /\ RowHeld(u)'
  <2>1. /\ verb[s] = "send" /\ journal' = journal
        /\ chain' \in {chain, [chain EXCEPT ![s] = "pool"]}
        /\ \/ verb' = [verb EXCEPT ![s] = "receipt"]
           \/ verb' = [verb EXCEPT ![s] = "done"]
    BY <1>8 DEF Send, VerbTo, Ends
  <2> QED
    BY <1>1, <1>2, <2>1 DEF Staged, RowHeld
<1>9. ASSUME NEW s \in Spend, SendRejected(s) PROVE Staged(u)' /\ RowHeld(u)'
  <2>1. /\ verb[s] = "send" /\ chain' = chain
        /\ journal' = [journal EXCEPT ![s] = "booked"] /\ verb' = [verb EXCEPT ![s] = "done"]
    BY <1>9 DEF SendRejected, RowTo, VerbTo, Ends
  <2> QED
    BY <1>1, <1>2, <2>1 DEF Staged, RowHeld
<1>10. ASSUME NEW s \in Spend, Record(s) PROVE Staged(u)' /\ RowHeld(u)'
  <2>1. /\ verb[s] = "receipt" /\ chain' = chain /\ journal' = journal
        /\ verb' = [verb EXCEPT ![s] = "mark"]
    BY <1>10 DEF Record, VerbTo
  <2>2. u = s => Booked(u)'
    <3>1. PICK st \in {"none", "pending"} : log' = Append(log, Charge(s, "hash", 1, st))
      BY <1>10 DEF Record, Append1
    <3>2. Charge(s, "hash", 1, st) \in Entry
          /\ Charge(s, "hash", 1, st).kind = "charge" /\ Charge(s, "hash", 1, st).spend = s
          /\ Charge(s, "hash", 1, st).ref = "hash" /\ Charge(s, "hash", 1, st).usd = 1
      BY ChargeEntry
    <3>3. /\ Len(log) \in Nat /\ Len(log') = Len(log) + 1
          /\ log'[Len(log) + 1] = Charge(s, "hash", 1, st)
      BY <1>1, <3>1, <3>2, Appended DEF TypeOK
    <3>4. Len(log) + 1 \in 1..Len(log')
      BY <3>3
    <3> QED
      BY <3>2, <3>3, <3>4 DEF Booked, HashCharge
  <2> QED
    BY <1>1, <1>2, <2>1, <2>2 DEF Staged, RowHeld
<1>11. ASSUME NEW s \in Spend, Mark(s) PROVE Staged(u)' /\ RowHeld(u)'
  <2>1. /\ verb[s] = "mark" /\ chain' = chain
        /\ journal' = [journal EXCEPT ![s] = "booked"] /\ verb' = [verb EXCEPT ![s] = "done"]
    BY <1>11 DEF Mark, RowTo, VerbTo, Ends
  <2> QED
    BY <1>1, <1>2, <2>1 DEF Staged, RowHeld
<1>12. ASSUME NEW s \in Spend, Land(s) PROVE Staged(u)' /\ RowHeld(u)'
  <2>1. /\ chain[s] = "pool" /\ verb' = verb /\ journal' = journal
        /\ \E st \in {"success", "failed"} : chain' = [chain EXCEPT ![s] = st]
    BY <1>12 DEF Land
  <2> QED
    BY <1>1, <1>2, <2>1 DEF Staged, RowHeld
<1>13. CASE ReleaseMark
  <2> DEFINE r == release.spend
  <2>1. release.op = "mark" /\ verb' = verb /\ chain' = chain
        /\ journal' = [journal EXCEPT ![r] = "booked"]
    BY <1>13 DEF ReleaseMark, RowTo
  <2>2. /\ r \in Spend
        /\ verb[r] \notin {"idle", "reserve", "send", "receipt", "mark"}
        /\ chain[r] \in {"pool", "success"} => Booked(r)
    BY <2>1, MarkIsSafe
  <2> HIDE DEF r
  <2> QED
    BY <1>1, <1>2, <2>1, <2>2 DEF Staged, RowHeld
<1>14. ASSUME NEW p \in Proc, Crash(p) PROVE Staged(u)' /\ RowHeld(u)'
  <2>1. /\ chain' = chain /\ journal' = journal
        /\ verb'[u] = IF Home[u] = p /\ verb[u] # "idle" THEN "done" ELSE verb[u]
    BY <1>14 DEF Crash
  <2> QED
    BY <1>1, <1>2, <2>1 DEF Staged, RowHeld
<1>15. ASSUME NEW s \in Spend, Cut(s) \/ PlanRelease(s) \/ NodeTurns(s) PROVE Staged(u)' /\ RowHeld(u)'
  BY <1>3, <1>15 DEF Cut, PlanRelease, NodeTurns, spendVars
<1>16. CASE \/ ReleaseBook \/ ReleaseDies \/ Age
            \/ \E p \in Watcher : ReadReceipt(p) \/ NoteReceipt(p)
  BY <1>4, <1>16, ReleaseBookStep, ReadReceiptStep DEF ReleaseDies, Age, NoteReceipt
<1>17. CASE UNCHANGED vars
  BY <1>4, <1>17 DEF vars
<1> QED
  BY <1>5, <1>6, <1>7, <1>8, <1>9, <1>10, <1>11, <1>12, <1>13, <1>14, <1>15, <1>16, <1>17
  DEF Next, VerbStep

-----------------------------------------------------------------------------
(* The chain goes one way.                                                 *)

LEMMA ChainFinal ==
    ASSUME Inv, [Next]_vars, NEW s \in Spend, chain[s] \in {"success", "failed"}
    PROVE  chain'[s] = chain[s]
<1>1. chain \in [Spend -> {"none", "pool", "success", "failed"}] /\ Staged(s)
  BY DEF Inv, TypeOK, Stages
<1>2. ASSUME NEW u \in Spend, Send(u) PROVE chain'[s] = chain[s]
  <2>1. u # s
    BY <1>1, <1>2 DEF Send, Staged
  <2> QED
    BY <1>1, <1>2, <2>1 DEF Send
<1>3. ASSUME NEW u \in Spend, Land(u) PROVE chain'[s] = chain[s]
  BY <1>1, <1>3 DEF Land
<1>4. ASSUME NEW u \in Spend, \/ Authorize(u) \/ Reserve(u) \/ Bind(u) \/ SendRejected(u)
                              \/ Record(u) \/ Mark(u) \/ Cut(u) \/ PlanRelease(u) \/ NodeTurns(u)
      PROVE  chain' = chain
  BY <1>4 DEF Authorize, AuthorizeOn, Reserve, Bind, SendRejected, Record, Mark, Cut, PlanRelease,
              NodeTurns, spendVars
<1>5. CASE ReleaseBook \/ ReleaseMark \/ ReleaseDies \/ Age
  BY <1>5, ReleaseBookStep DEF ReleaseMark, ReleaseDies, Age, spendVars
<1>6. ASSUME NEW p \in Watcher, ReadReceipt(p) \/ NoteReceipt(p) PROVE chain' = chain
  BY <1>6, ReadReceiptStep DEF NoteReceipt, spendVars
<1>7. ASSUME NEW p \in Proc, Crash(p) PROVE chain' = chain
  BY <1>7 DEF Crash
<1>8. CASE UNCHANGED vars
  BY <1>8 DEF vars, spendVars
<1> QED
  BY <1>2, <1>3, <1>4, <1>5, <1>6, <1>7, <1>8 DEF Next, VerbStep

(* A call that has recorded, or is over, stays so.                         *)
LEMMA VerbFinal ==
    ASSUME Inv, [Next]_vars, NEW s \in Spend, verb[s] \in {"mark", "done"}
    PROVE  verb'[s] \in {"mark", "done"}
<1>1. verb \in [Spend -> VerbOps]
  BY DEF Inv, TypeOK
<1>2. ASSUME NEW u \in Spend, Authorize(u) \/ VerbStep(u)
      PROVE  verb'[s] \in {"mark", "done"}
  BY <1>1, <1>2 DEF Authorize, AuthorizeOn, VerbStep, Reserve, Bind, Send, SendRejected, Record,
                    Mark, VerbTo, Ends
<1>3. ASSUME NEW u \in Spend, Cut(u) \/ PlanRelease(u) \/ Land(u) \/ NodeTurns(u)
      PROVE  verb' = verb
  BY <1>3 DEF Cut, PlanRelease, Land, NodeTurns, spendVars
<1>4. CASE ReleaseBook \/ ReleaseMark \/ ReleaseDies \/ Age
  BY <1>4, ReleaseBookStep DEF ReleaseMark, ReleaseDies, Age, spendVars
<1>5. ASSUME NEW p \in Watcher, ReadReceipt(p) \/ NoteReceipt(p) PROVE verb' = verb
  BY <1>5, ReadReceiptStep DEF NoteReceipt, spendVars
<1>6. ASSUME NEW p \in Proc, Crash(p) PROVE verb'[s] \in {"mark", "done"}
  BY <1>6 DEF Crash
<1>7. CASE UNCHANGED vars
  BY <1>7 DEF vars, spendVars
<1> QED
  BY <1>2, <1>3, <1>4, <1>5, <1>6, <1>7 DEF Next

(* What a watcher is about to write is true, and stays true.               *)
LEMMA NextHeard ==
    ASSUME Inv, [Next]_vars
    PROVE  HeardTrue'
<1>1. /\ heard \in [Watcher -> News] /\ HeardTrue /\ TypeOK
      /\ chain \in [Spend -> {"none", "pool", "success", "failed"}]
  BY DEF Inv, TypeOK
<1>2. ASSUME NEW q \in Watcher, heard'[q] \in {heard[q], NoNews}, heard'[q].state = "reverted"
      PROVE  chain'[heard'[q].spend] = "failed"
  <2>1. heard'[q] = heard[q]
    BY <1>2 DEF NoNews
  <2>2. heard[q].spend \in Spend /\ chain[heard[q].spend] = "failed"
    BY <1>1, <1>2, <2>1 DEF News, NoNews, HeardTrue
  <2> QED
    BY <2>1, <2>2, ChainFinal
<1>3. CASE \A q \in Watcher : heard'[q] \in {heard[q], NoNews}
  BY <1>2, <1>3 DEF HeardTrue
<1>4. ASSUME NEW p \in Watcher, ReadReceipt(p) PROVE HeardTrue'
  <2>1. PICK s \in Spend : heard' = [heard EXCEPT ![p] = [state |-> Verdict(s), spend |-> s]]
    BY <1>4, ReadReceiptStep
  <2>2. heard'[p].state = Verdict(s) /\ heard'[p].spend = s
    BY <1>1, <2>1
  <2>3. Verdict(s) = "reverted" => chain[s] = "failed"
    BY DEF Verdict
  <2>4. chain' = chain
    BY <1>4, ReadReceiptStep DEF spendVars
  <2>5. \A q \in Watcher : q # p => heard'[q] = heard[q]
    BY <1>1, <2>1
  <2> QED
    BY <1>2, <2>2, <2>3, <2>4, <2>5 DEF HeardTrue
<1>5. ASSUME NEW p \in Watcher, NoteReceipt(p) PROVE HeardTrue'
  BY <1>1, <1>3, <1>5 DEF NoteReceipt
<1>6. ASSUME NEW p \in Proc, Crash(p) PROVE HeardTrue'
  BY <1>1, <1>3, <1>6 DEF Crash
<1>7. ASSUME NEW s \in Spend, \/ Authorize(s) \/ VerbStep(s) \/ Cut(s)
                              \/ PlanRelease(s) \/ Land(s) \/ NodeTurns(s)
      PROVE  heard' = heard
  BY <1>7 DEF Authorize, AuthorizeOn, VerbStep, Reserve, Bind, Send, SendRejected, Record, Mark,
              Cut, PlanRelease, Land, NodeTurns
<1>8. CASE ReleaseBook \/ ReleaseMark \/ ReleaseDies \/ Age \/ UNCHANGED vars
  BY <1>3, <1>8, ReleaseBookStep DEF ReleaseMark, ReleaseDies, Age, vars
<1> QED
  BY <1>3, <1>4, <1>5, <1>6, <1>7, <1>8 DEF Next

-----------------------------------------------------------------------------
(* What the reader of the ledger makes of it                               *)

LEMMA ReceiptDecides ==
    ASSUME Inv, NEW s \in Spend, NEW i \in 1..Len(log),
           log[i].kind = "receipt", log[i].spend = s
    PROVE  ReceiptState(Len(log), s) = log[i].state
<1> DEFINE verdicts == Entries(Len(log), s, "receipt")
           latest == CHOOSE k \in verdicts : \A m \in verdicts : m <= k
<1>1. verdicts = {i}
  BY DEF Inv, WrittenOnce, SameSubject, Entries
<1>2. latest = i
  <2>1. \E k \in verdicts : \A m \in verdicts : m <= k
    <3>1. i \in Int /\ i <= i
      OBVIOUS
    <3> HIDE DEF verdicts
    <3> QED
      BY <1>1, <3>1
  <2>2. latest \in verdicts
    BY <2>1
  <2> QED
    BY <1>1, <2>2
<1>3. ReceiptState(Len(log), s) = log[latest].state
  BY <1>1 DEF ReceiptState
<1> QED
  BY <1>2, <1>3

LEMMA NoReceiptOpen ==
    ASSUME NEW s \in Spend,
           \A i \in 1..Len(log) : ~(log[i].kind = "receipt" /\ log[i].spend = s)
    PROVE  ReceiptState(Len(log), s) \in {"pending", "none"}
BY DEF ReceiptState, Entries

Reverted(s) ==
    \E i \in 1..Len(log) : /\ log[i].kind = "receipt" /\ log[i].spend = s
                           /\ log[i].state = "reverted"

LEMMA VoidedIsReverted ==
    ASSUME Inv, NEW s \in Spend
    PROVE  Voided(Len(log), s) <=> Reverted(s)
BY ReceiptDecides, NoReceiptOpen DEF Voided, Reverted

LEMMA PendingIsUnheard ==
    ASSUME Inv, NEW s \in Spend, ReceiptState(Len(log), s) = "pending"
    PROVE  \A i \in 1..Len(log) : ~(log[i].kind = "receipt" /\ log[i].spend = s)
BY ReceiptDecides DEF Inv, EntriesTrue, EntryTrue

-----------------------------------------------------------------------------
(* Every entry that is added is new, true, and about an unresolved row.    *)

Fits(e) ==
    /\ e \in Entry /\ \A i \in 1..Len(log) : ~SameSubject(log[i], e)
    /\ e.kind = "receipt" =>
          /\ e.usd = 0 /\ e.state \in {"confirmed", "reverted", "unknown"}
          /\ e.state = "reverted" => chain'[e.spend] = "failed"
    /\ e.kind = "charge" =>
          /\ e.spend \in Unresolved
          /\ e.ref = "hash" => /\ verb'[e.spend] \in {"mark", "done"}
                               /\ e.usd = 0 => chain'[e.spend] \in {"success", "failed"}

LEMMA RecordFits ==
    ASSUME Inv, NEW s \in Spend, Record(s)
    PROVE  \E e : Fits(e) /\ log' = Append(log, e)
<1>1. /\ verb[s] = "receipt" /\ journal[s] = "prepared" /\ verb' = [verb EXCEPT ![s] = "mark"]
      /\ verb \in [Spend -> VerbOps]
  BY DEF Inv, TypeOK, Record, VerbTo
<1>2. PICK st \in {"none", "pending"} : log' = Append(log, Charge(s, "hash", 1, st))
  BY DEF Record, Append1
<1> DEFINE e == Charge(s, "hash", 1, st)
<1>3. e \in Entry /\ e.kind = "charge" /\ e.spend = s /\ e.ref = "hash" /\ e.usd = 1
  BY ChargeEntry
<1> HIDE DEF e
<1>4. \A i \in 1..Len(log) : ~SameSubject(log[i], e)
  <2> SUFFICES ASSUME NEW i \in 1..Len(log), SameSubject(log[i], e) PROVE FALSE
    OBVIOUS
  <2>1. log[i].kind = "charge" /\ log[i].ref = "hash" /\ log[i].spend = s
    BY <1>3 DEF SameSubject
  <2> QED
    BY <1>1, <2>1 DEF Inv, EntriesTrue, EntryTrue
<1>5. Fits(e)
  BY <1>1, <1>3, <1>4 DEF Fits, Unresolved
<1> QED
  BY <1>2, <1>5 DEF e

LEMMA ReleaseFits ==
    ASSUME Inv, ReleaseBook, log' # log
    PROVE  \E e : Fits(e) /\ log' = Append(log, e)
<1> DEFINE r == release.spend
           e == Charge(r, RefOf(release.row), release.usd, "none")
<1>1. /\ release.op = "planned" /\ LockFree /\ verb' = verb /\ chain' = chain
      /\ journal[r] = release.row /\ ChargesOf(r, release.row) = {} /\ log' = Append(log, e)
  BY ReleaseBookStep DEF spendVars
<1>2. release \in Release /\ verb \in [Spend -> VerbOps]
  BY DEF Inv, TypeOK
<1>3. r \in Spend /\ release.row \in {"reserved", "prepared"} /\ release.usd \in 0..1
  BY <1>1, <1>2 DEF Release, NoRelease
<1>4. RefOf(release.row) \in {"signing", "hash"}
      /\ (RefOf(release.row) = "hash" => release.row = "prepared")
  BY <1>3 DEF RefOf
<1>5. /\ e \in Entry /\ e.kind = "charge" /\ e.spend = r /\ e.ref = RefOf(release.row)
      /\ e.usd = release.usd
  BY <1>3, <1>4, ChargeEntry
<1>6. \A i \in 1..Len(log) : ~SameSubject(log[i], e)
  <2> SUFFICES ASSUME NEW i \in 1..Len(log), SameSubject(log[i], e) PROVE FALSE
    OBVIOUS
  <2>1. log[i].kind = "charge" /\ log[i].ref = RefOf(release.row) /\ log[i].spend = r
    BY <1>5 DEF SameSubject
  <2>2. i \in ChargesOf(r, release.row)
    BY <2>1 DEF ChargesOf, Entries
  <2> QED
    BY <1>1, <2>2
<1>7. ASSUME release.row = "prepared"
      PROVE  verb[r] \in {"mark", "done"} /\ chain[r] \in {"success", "failed"}
  <2>1. chain[r] \in {"success", "failed"}
    BY <1>1, <1>7 DEF Inv, ReleaseJustified
  <2>2. verb[r] \notin {"idle", "reserve", "bind", "send"}
    BY <1>3, <2>1 DEF Inv, Stages, Staged
  <2>3. verb[r] \in VerbOps
    BY <1>2, <1>3
  <2>4. verb[r] \in {"receipt", "mark", "done"}
    BY <2>2, <2>3 DEF VerbOps
  <2>5. verb[r] # "receipt"
    <3>1. verb[r] \in {"idle", "done"} \/ r \in stray
      BY <1>1, <1>3 DEF LockFree
    <3> QED
      BY <3>1 DEF Inv, LockSole, Threaded
  <2> QED
    BY <2>1, <2>4, <2>5
<1>8. r \in Unresolved
  BY <1>1, <1>3 DEF Unresolved
<1> HIDE DEF e
<1>9. Fits(e)
  BY <1>1, <1>4, <1>5, <1>6, <1>7, <1>8 DEF Fits
<1> QED
  BY <1>1, <1>9

LEMMA ReceiptFits ==
    ASSUME Inv, NEW p \in Watcher, NoteReceipt(p), log' # log
    PROVE  \E e : Fits(e) /\ log' = Append(log, e)
<1> DEFINE s == heard[p].spend
           e == Receipt(s, heard[p].state)
<1>1. /\ s \in Spend /\ heard[p].state \in {"confirmed", "reverted", "unknown"}
      /\ ReceiptState(Len(log), s) = "pending" /\ log' = Append(log, e) /\ chain' = chain
  BY NoteReceiptWrites DEF NoteReceiptStep, Inv, spendVars
<1>2. /\ e \in Entry /\ e.kind = "receipt" /\ e.spend = s /\ e.usd = 0
      /\ e.state = heard[p].state
  BY <1>1, ReceiptEntry
<1>3. heard[p].state = "reverted" => chain[s] = "failed"
  BY DEF Inv, HeardTrue
<1>4. \A i \in 1..Len(log) : ~(log[i].kind = "receipt" /\ log[i].spend = s)
  BY <1>1, PendingIsUnheard
<1> HIDE DEF e
<1>5. \A i \in 1..Len(log) : ~SameSubject(log[i], e)
  BY <1>2, <1>4 DEF SameSubject
<1>6. Fits(e)
  BY <1>1, <1>2, <1>3, <1>5 DEF Fits
<1> QED
  BY <1>1, <1>6

LEMMA NextEntry ==
    ASSUME Inv, [Next]_vars
    PROVE  \/ log' = log
           \/ /\ \E e : Fits(e) /\ log' = Append(log, e)
              /\ old' = old /\ journal' = journal /\ late' = late
<1>1. ASSUME NEW s \in Spend, Authorize(s) \/ LedgerKept(s) PROVE log' = log
  BY <1>1 DEF Authorize, AuthorizeOn, LedgerKept, Reserve, Bind, Send, SendRejected, Mark, Cut,
              PlanRelease, Land, NodeTurns, moneyVars
<1>2. ASSUME NEW s \in Spend, Record(s) PROVE old' = old /\ journal' = journal /\ late' = late
  BY <1>2 DEF Record
<1>3. CASE ReleaseMark \/ ReleaseDies \/ Age
  BY <1>3 DEF ReleaseMark, ReleaseDies, Age, moneyVars
<1>4. CASE ReleaseBook
  <2>1. old' = old /\ journal' = journal /\ late' = late
    BY <1>4, ReleaseBookStep DEF spendVars
  <2> QED
    BY <1>4, <2>1, ReleaseFits
<1>5. ASSUME NEW p \in Watcher, ReadReceipt(p) PROVE log' = log
  BY <1>5, ReadReceiptStep DEF moneyVars
<1>6. ASSUME NEW p \in Watcher, NoteReceipt(p)
      PROVE  old' = old /\ journal' = journal /\ late' = late
  BY <1>6 DEF NoteReceipt, spendVars
<1>7. ASSUME NEW p \in Proc, Crash(p) PROVE log' = log
  BY <1>7 DEF Crash
<1>8. CASE UNCHANGED vars
  BY <1>8 DEF vars, moneyVars
<1> QED
  BY <1>1, <1>2, <1>3, <1>4, <1>5, <1>6, <1>7, <1>8, RecordFits, ReceiptFits
  DEF Next, VerbStep, LedgerKept

LEMMA NextEntries ==
    ASSUME Inv, [Next]_vars
    PROVE  EntriesTrue' /\ WrittenOnce'
<1>1. /\ log \in Seq(Entry) /\ Len(log) \in Nat /\ EntriesTrue /\ WrittenOnce /\ TypeOK
  BY DEF Inv, TypeOK
<1>2. \A i \in 1..Len(log) : log[i] \in Entry
  BY <1>1
<1>3. ASSUME NEW i \in 1..Len(log), log'[i] = log[i] PROVE EntryTrue(i)'
  <2>1. EntryTrue(i) /\ log[i].spend \in Spend
    BY <1>1, <1>2 DEF EntriesTrue, Entry
  <2>2. \A st \in {"success", "failed"} :
           chain[log[i].spend] = st => chain'[log[i].spend] = st
    BY <2>1, ChainFinal
  <2>3. verb[log[i].spend] \in {"mark", "done"} => verb'[log[i].spend] \in {"mark", "done"}
    BY <2>1, VerbFinal
  <2> QED
    BY <1>3, <2>1, <2>2, <2>3 DEF EntryTrue
<1>4. CASE log' = log
  BY <1>1, <1>3, <1>4 DEF EntriesTrue, WrittenOnce
<1>5. ASSUME NEW e, Fits(e), log' = Append(log, e)
      PROVE  EntriesTrue' /\ WrittenOnce'
  <2> PICK n \in Nat : n = Len(log) + 1
    BY <1>1
  <2>1. /\ Len(log') = n /\ log'[n] = e /\ \A i \in 1..Len(log) : log'[i] = log[i]
    BY <1>1, <1>5, Appended DEF Fits
  <2>2. \A i \in 1..Len(log') : i \in 1..Len(log) \/ i = n
    BY <1>1, <2>1
  <2>3. EntryTrue(n)'
    BY <1>5, <2>1 DEF EntryTrue, Fits
  <2>4. EntriesTrue'
    BY <1>3, <2>1, <2>2, <2>3 DEF EntriesTrue
  <2>5. ASSUME NEW i \in 1..Len(log'), NEW k \in 1..Len(log'), SameSubject(log'[i], log'[k])
        PROVE  i = k
    <3>1. CASE i \in 1..Len(log) /\ k \in 1..Len(log)
      BY <1>1, <2>1, <2>5, <3>1 DEF WrittenOnce
    <3>2. CASE i \in 1..Len(log) /\ k = n
      BY <1>5, <2>1, <2>5, <3>2 DEF Fits
    <3>3. CASE i = n /\ k \in 1..Len(log)
      <4>1. SameSubject(log[k], e)
        BY <2>1, <2>5, <3>3 DEF SameSubject
      <4> QED
        BY <1>5, <3>3, <4>1 DEF Fits
    <3> QED
      BY <2>2, <3>1, <3>2, <3>3
  <2>6. WrittenOnce'
    BY <2>5 DEF WrittenOnce, SameSubject
  <2> QED
    BY <2>4, <2>6
<1> QED
  BY <1>4, <1>5, NextEntry

-----------------------------------------------------------------------------
(* The release                                                             *)

LEMMA ChargesStay ==
    ASSUME TypeOK, [Next]_vars, NEW s, NEW st, ChargesOf(s, st) # {}
    PROVE  ChargesOf(s, st)' # {}
<1>1. PICK i \in 1..Len(log) : log[i].spend = s /\ log[i].kind = "charge" /\ log[i].ref = RefOf(st)
  BY DEF ChargesOf, Entries
<1>2. i \in 1..Len(log') /\ log'[i] = log[i]
  BY LogGrows
<1>3. i \in ChargesOf(s, st)'
  BY <1>1, <1>2 DEF ChargesOf, Entries
<1> QED
  BY <1>3

(* While a release has the journal's lock no call writes a row.            *)
LEMMA JournalHeld ==
    ASSUME Inv, [Next]_vars, release.op = "mark", release' = release
    PROVE  journal' = journal
<1>1. \A s \in Spend : verb[s] # "mark"
  BY DEF Inv, LockSole, Active, Threaded
<1>2. ASSUME NEW s \in Spend, \/ Authorize(s) \/ VerbStep(s) \/ Cut(s)
                              \/ PlanRelease(s) \/ Land(s) \/ NodeTurns(s)
      PROVE  journal' = journal
  BY <1>1, <1>2 DEF Authorize, AuthorizeOn, VerbStep, Reserve, Bind, Send, SendRejected, Record,
                    Mark, Cut, PlanRelease, Land, NodeTurns, JournalFree, spendVars
<1>3. CASE ReleaseBook \/ ReleaseMark \/ ReleaseDies \/ Age
  BY <1>3, ReleaseBookStep DEF ReleaseMark, ReleaseDies, Age, NoRelease, spendVars
<1>4. ASSUME NEW p \in Watcher, ReadReceipt(p) \/ NoteReceipt(p) PROVE journal' = journal
  BY <1>4, ReadReceiptStep DEF NoteReceipt, spendVars
<1>5. ASSUME NEW p \in Proc, Crash(p) PROVE journal' = journal
  BY <1>5 DEF Crash
<1>6. CASE UNCHANGED vars
  BY <1>6 DEF vars, spendVars
<1> QED
  BY <1>2, <1>3, <1>4, <1>5, <1>6 DEF Next

LEMMA NextRelease ==
    ASSUME Inv, [Next]_vars
    PROVE  ReleaseJustified'
<1>1. TypeOK /\ ReleaseJustified /\ release \in Release /\ log \in Seq(Entry)
  BY DEF Inv, TypeOK
<1>2. release.op # "idle" => release.spend \in Spend /\ release.row \in {"reserved", "prepared"}
                             /\ release.usd \in 0..1
  BY <1>1 DEF Release, NoRelease
<1>3. CASE release' = release
  <2>1. ASSUME release.op # "idle", release.row = "prepared"
        PROVE  chain'[release.spend] = chain[release.spend]
    BY <1>1, <1>2, <2>1, ChainFinal DEF ReleaseJustified
  <2>2. ASSUME release.op = "mark"
        PROVE  journal'[release.spend] = release.row /\ ChargesOf(release.spend, release.row)' # {}
    <3>1. PICK s, st : s = release.spend /\ st = release.row /\ ChargesOf(s, st) # {}
      BY <1>1, <2>2 DEF ReleaseJustified
    <3>2. ChargesOf(s, st)' # {}
      BY <1>1, <3>1, ChargesStay
    <3>3. s = release'.spend /\ st = release'.row
      BY <1>3, <3>1
    <3>4. journal' = journal
      BY <1>3, <2>2, JournalHeld
    <3> QED
      BY <1>1, <2>2, <3>1, <3>2, <3>3, <3>4 DEF ReleaseJustified
  <2> QED
    BY <1>1, <1>3, <2>1, <2>2 DEF ReleaseJustified
<1>4. CASE release' = NoRelease
  BY <1>4 DEF ReleaseJustified, NoRelease
<1>5. ASSUME NEW s \in Spend, PlanRelease(s) PROVE ReleaseJustified'
  <2>1. PICK usd \in {0, 1} :
           release' = [op |-> "planned", spend |-> s, row |-> journal[s], usd |-> usd]
    BY <1>5 DEF PlanRelease
  <2>2. chain' = chain /\ (journal[s] = "prepared" => chain[s] \in {"success", "failed"})
    BY <1>5 DEF PlanRelease, spendVars
  <2> QED
    BY <2>1, <2>2 DEF ReleaseJustified
<1>6. ASSUME ReleaseBook, release' # NoRelease PROVE ReleaseJustified'
  <2>1. /\ release.op = "planned" /\ release' = [release EXCEPT !.op = "mark"]
        /\ journal[release.spend] = release.row /\ journal' = journal /\ chain' = chain
    BY <1>6, ReleaseBookStep DEF spendVars
  <2>2. /\ release'.spend = release.spend /\ release'.row = release.row
        /\ release'.usd = release.usd
    BY <1>1, <2>1 DEF Release, NoRelease
  <2>3. PICK s, st : s = release.spend /\ st = release.row
    OBVIOUS
  <2>4. ChargesOf(s, st)' # {}
    <3>1. CASE ChargesOf(s, st) # {}
      BY <1>1, <3>1, ChargesStay
    <3>2. CASE ChargesOf(s, st) = {}
      <4>1. log' = Append(log, Charge(s, RefOf(st), release.usd, "none"))
        BY <1>6, <2>3, <3>2, ReleaseBookStep
      <4>2. RefOf(st) \in {"signing", "hash"} /\ s \in Spend /\ release.usd \in 0..1
        BY <1>2, <2>1, <2>3 DEF RefOf
      <4>3. PICK e \in Entry : /\ log' = Append(log, e) /\ e.kind = "charge" /\ e.spend = s
                               /\ e.ref = RefOf(st)
        BY <4>1, <4>2, ChargeEntry
      <4>4. Len(log) + 1 \in 1..Len(log') /\ log'[Len(log) + 1] = e
        BY <1>1, <4>3, Appended
      <4>5. Len(log) + 1 \in ChargesOf(s, st)'
        BY <4>3, <4>4 DEF ChargesOf, Entries
      <4> QED
        BY <4>5
    <3> QED
      BY <3>1, <3>2
  <2>5. s = release'.spend /\ st = release'.row
    BY <2>2, <2>3
  <2> QED
    BY <1>1, <2>1, <2>2, <2>3, <2>4, <2>5 DEF ReleaseJustified
<1>7. ASSUME NEW s \in Spend, Authorize(s) \/ VerbStep(s) \/ Cut(s) \/ Land(s) \/ NodeTurns(s)
      PROVE  release' = release
  BY <1>7 DEF Authorize, AuthorizeOn, VerbStep, Reserve, Bind, Send, SendRejected, Record, Mark,
              Cut, Land, NodeTurns
<1>8. CASE ReleaseMark \/ ReleaseDies
  BY <1>4, <1>8 DEF ReleaseMark, ReleaseDies
<1>9. CASE Age \/ \E p \in Watcher : ReadReceipt(p) \/ NoteReceipt(p)
  BY <1>3, <1>9, ReadReceiptStep DEF Age, NoteReceipt
<1>10. CASE (\E p \in Proc : Crash(p)) \/ UNCHANGED vars
  BY <1>3, <1>10 DEF Crash, vars
<1> QED
  BY <1>3, <1>4, <1>5, <1>6, <1>7, <1>8, <1>9, <1>10 DEF Next

-----------------------------------------------------------------------------
(* The invariant holds, and with it what TypeOK and the runs' properties   *)
(* say of the rows and of the charges.                                     *)

LEMMA NextInv == Inv /\ [Next]_vars => Inv'
<1> SUFFICES ASSUME Inv, [Next]_vars PROVE Inv'
  OBVIOUS
<1>1. TypeOK
  BY DEF Inv
<1>2. \A s \in Spend : Staged(s)' /\ RowHeld(s)'
  BY NextStage
<1>3. TypeOK'
  BY <1>1, <1>2, NextMoney, NextColumns, NextPending DEF TypeOK, RowHeld
<1>4. Stages'
  BY <1>2 DEF Stages
<1> QED
  BY <1>3, <1>4, NextLock, NextRelease, NextEntries, NextHeard DEF Inv

(* The inductive invariant is one.                                         *)
THEOREM InvHolds == Spec => []Inv
BY InitInv, NextInv, PTL DEF Spec

(* Everything keeps its shape; and no row is taken from under a call that  *)
(* is past its reservation, neither by the release, which shares its lock, *)
(* nor by a crash, a cut or another process.                               *)
THEOREM LedgerTyped == Spec => []TypeOK
<1>1. Inv => TypeOK
  BY DEF Inv
<1> QED
  BY <1>1, InvHolds, PTL

(* Money that may have moved is never lost: its row refuses every other    *)
(* send, or a charge that names the transaction stands, that no receipt    *)
(* has voided; and no such charge is $0 while the transaction may still    *)
(* land.  What was released once it was final counts as the operator said. *)
THEOREM MoneyAccounted == Spec => []NothingUnaccounted
<1>1. ASSUME Inv PROVE NothingUnaccounted
  <2> SUFFICES ASSUME NEW s \in Spend, chain[s] \in {"pool", "success"}, s \notin Unresolved
               PROVE  /\ ~Voided(Len(log), s)
                      /\ \E i \in Charged(s) : /\ log[i].ref = "hash"
                                               /\ chain[s] = "pool" => log[i].usd = 1
    BY DEF NothingUnaccounted
  <2>1. journal[s] \in RowState /\ journal[s] \notin {"reserved", "prepared"}
    BY <1>1 DEF Inv, TypeOK, Unresolved
  <2>2. Staged(s)
    BY <1>1 DEF Inv, Stages
  <2>3. journal[s] = "booked"
    BY <2>1, <2>2 DEF RowState, Staged
  <2>4. PICK i \in 1..Len(log) : HashCharge(i, s)
    BY <2>2, <2>3 DEF Staged, Booked
  <2>5. i \in Charged(s) /\ log[i].ref = "hash"
    BY <2>4 DEF HashCharge, Charged, Entries
  <2>7. log[i].usd \in 0..1
    <3>1. log \in Seq(Entry)
      BY <1>1 DEF Inv, TypeOK
    <3>2. log[i] \in Entry
      BY <3>1, <2>4
    <3> QED
      BY <3>2 DEF Entry
  <2>8. log[i].usd = 0 => chain[s] \in {"success", "failed"}
    BY <1>1, <2>4 DEF Inv, EntriesTrue, EntryTrue, HashCharge
  <2>6. ~Reverted(s)
    BY <1>1 DEF Inv, EntriesTrue, EntryTrue, Reverted
  <2> QED
    BY <1>1, <2>4, <2>5, <2>6, <2>7, <2>8, VoidedIsReverted
<1> QED
  BY <1>1, InvHolds, PTL

(* One charge for each reference and one verdict for each transaction,     *)
(* whoever of the call, the release and the watchers writes it.            *)
THEOREM BookedOnceEach == Spec => []BookedOnce
<1>1. ASSUME Inv PROVE BookedOnce
  <2> SUFFICES ASSUME NEW s \in Spend
               PROVE  /\ \A i, k \in Charged(s) : log[i].ref = log[k].ref => i = k
                      /\ Cardinality(Entries(Len(log), s, "receipt")) <= 1
    BY DEF BookedOnce
  <2>1. \A i, k \in Charged(s) : log[i].ref = log[k].ref => i = k
    BY <1>1 DEF Inv, WrittenOnce, SameSubject, Charged, Entries
  <2>2. \A i, k \in Entries(Len(log), s, "receipt") : i = k
    BY <1>1 DEF Inv, WrittenOnce, SameSubject, Entries
  <2> DEFINE E == Entries(Len(log), s, "receipt")
  <2> HIDE DEF E
  <2>3. Cardinality(E) <= 1
    <3>1. CASE E = {}
      BY <3>1, FS_EmptySet
    <3>2. CASE E # {}
      <4>1. PICK i \in E : E = {i}
        BY <2>2, <3>2 DEF E
      <4>2. Cardinality({i}) = 1
        BY FS_Singleton
      <4> QED
        BY <4>1, <4>2
    <3> QED
      BY <3>1, <3>2
  <2> QED
    BY <2>1, <2>3 DEF E
<1> QED
  BY <1>1, InvHolds, PTL

-----------------------------------------------------------------------------
(* The cap.  What a call is judged by is what the ledger counts; what it   *)
(* adds was room that nobody else could take while it had the lock.        *)

Counted ==
    {s \in Spend : ~Reverted(s) /\ \E i \in 1..Len(log) :
                      i > old /\ log[i].kind = "charge" /\ log[i].spend = s /\ log[i].usd = 1}

Used == Counted \cup Unresolved

RoomLeft ==
    \A s \in Spend : verb[s] = "reserve" /\ s \notin stray =>
        Cardinality((Used \cup {s}) \ late) <= Cap

(* The journal has one unresolved row at a time, of whatever process.      *)
OneUnresolved == \A s, u \in Unresolved : s = u

CapInv == OneUnresolved /\ Cardinality(Used \ late) <= Cap /\ RoomLeft

LEMMA CountedIsRolling ==
    ASSUME Inv
    PROVE  IsFiniteSet(Counted) /\ Cardinality(Counted) <= Rolling(Len(log))
           /\ Rolling(Len(log)) \in Nat
<1> DEFINE S == {i \in (old + 1)..Len(log) :
                    log[i].usd = 1 /\ ~Voided(Len(log), log[i].spend)}
           f == [i \in S |-> log[i].spend]
<1>1. /\ log \in Seq(Entry) /\ Len(log) \in Nat /\ old \in 0..Len(log)
      /\ EntriesTrue
  BY DEF Inv, TypeOK
<1>2. IsFiniteSet(S)
  <2>1. IsFiniteSet((old + 1)..Len(log))
    BY <1>1, FS_Interval
  <2>2. S \in SUBSET ((old + 1)..Len(log))
    OBVIOUS
  <2> HIDE DEF S
  <2> QED
    BY <2>1, <2>2, FS_Subset
<1>3. ASSUME NEW i \in S
      PROVE  /\ i \in 1..Len(log) /\ i > old /\ log[i].kind = "charge" /\ log[i].spend \in Counted
  <2>1. i \in 1..Len(log) /\ i > old /\ log[i].usd = 1 /\ ~Voided(Len(log), log[i].spend)
    BY <1>1
  <2>2. log[i] \in Entry
    BY <1>1, <2>1
  <2>3. log[i].spend \in Spend /\ log[i].kind \in {"charge", "receipt"}
    BY <2>2 DEF Entry
  <2>4. log[i].kind = "charge"
    BY <1>1, <2>1, <2>3 DEF EntriesTrue, EntryTrue
  <2>5. ~Reverted(log[i].spend)
    BY <2>1, <2>3, VoidedIsReverted
  <2> QED
    BY <2>1, <2>3, <2>4, <2>5 DEF Counted
<1>4. ASSUME NEW s \in Counted PROVE \E i \in S : log[i].spend = s
  <2>1. PICK i \in 1..Len(log) : i > old /\ log[i].spend = s /\ log[i].usd = 1
    BY DEF Counted
  <2>2. ~Voided(Len(log), s)
    BY VoidedIsReverted DEF Counted
  <2>3. i \in S
    BY <1>1, <2>1, <2>2
  <2> QED
    BY <2>1, <2>3
<1>5. Rolling(Len(log)) = Cardinality(S)
  BY DEF Rolling
<1> HIDE DEF S
<1>6. f \in Surjection(S, Counted)
  BY <1>3, <1>4 DEF Surjection
<1> HIDE DEF f
<1> QED
  BY <1>2, <1>5, <1>6, FS_Surjection, FS_CardinalityType

LEMMA RevertedStays ==
    ASSUME TypeOK, [Next]_vars, NEW s, Reverted(s)
    PROVE  Reverted(s)'
<1>1. PICK i \in 1..Len(log) : /\ log[i].kind = "receipt" /\ log[i].spend = s
                               /\ log[i].state = "reverted"
  BY DEF Reverted
<1>2. i \in 1..Len(log') /\ log'[i] = log[i]
  BY LogGrows
<1> QED
  BY <1>1, <1>2 DEF Reverted

LEMMA WindowMoves ==
    ASSUME TypeOK, [Next]_vars
    PROVE  old \in Nat /\ old' \in Nat /\ old' >= old
<1>1. log \in Seq(Entry) /\ old \in 0..Len(log)
  BY DEF TypeOK
<1>2. ASSUME NEW s \in Spend, \/ Authorize(s) \/ VerbStep(s) \/ Cut(s)
                              \/ PlanRelease(s) \/ Land(s) \/ NodeTurns(s)
      PROVE  old' = old
  BY <1>2 DEF Authorize, AuthorizeOn, VerbStep, Reserve, Bind, Send, SendRejected, Record, Mark,
              Cut, PlanRelease, Land, NodeTurns, moneyVars
<1>3. CASE ReleaseBook \/ ReleaseMark \/ ReleaseDies
  BY <1>1, <1>3, ReleaseBookStep DEF ReleaseMark, ReleaseDies, moneyVars
<1>4. CASE Age
  BY <1>1, <1>4 DEF Age
<1>5. CASE \E p \in Watcher : ReadReceipt(p) \/ NoteReceipt(p)
  BY <1>1, <1>5, ReadReceiptStep DEF NoteReceipt, moneyVars
<1>6. CASE (\E p \in Proc : Crash(p)) \/ UNCHANGED vars
  BY <1>1, <1>6 DEF Crash, vars, moneyVars
<1> QED
  BY <1>1, <1>2, <1>3, <1>4, <1>5, <1>6 DEF Next

(* A charge is written only for a row that was already in the way.         *)
LEMMA NextCounted ==
    ASSUME Inv, [Next]_vars
    PROVE  Counted' \subseteq Used
<1>1. TypeOK /\ Len(log) \in Nat /\ log \in Seq(Entry)
  BY DEF Inv, TypeOK
<1> SUFFICES ASSUME NEW s \in Counted' PROVE s \in Used
  OBVIOUS
<1>2. /\ s \in Spend /\ ~Reverted(s)'
      /\ \E i \in 1..Len(log') : /\ i > old' /\ log'[i].kind = "charge" /\ log'[i].spend = s
                                 /\ log'[i].usd = 1
  BY DEF Counted
<1>3. PICK i \in 1..Len(log') : /\ i > old' /\ log'[i].kind = "charge" /\ log'[i].spend = s
                                /\ log'[i].usd = 1
  BY <1>2
<1>4. ~Reverted(s)
  BY <1>1, <1>2, RevertedStays
<1>5. CASE i \in 1..Len(log)
  <2>1. log[i] = log'[i] /\ i > old
    BY <1>1, <1>3, <1>5, LogGrows, WindowMoves
  <2>2. s \in Counted
    BY <1>2, <1>3, <1>4, <1>5, <2>1 DEF Counted
  <2> QED
    BY <2>2 DEF Used
<1>6. CASE i \notin 1..Len(log)
  <2>1. i = Len(log) + 1 /\ log' # log
    BY <1>1, <1>3, <1>6, LogGrows
  <2>2. PICK e : Fits(e) /\ log' = Append(log, e)
    BY <2>1, NextEntry
  <2>3. e \in Entry
    BY <2>2 DEF Fits
  <2>4. log'[i] = e
    BY <1>1, <2>1, <2>2, <2>3, Appended
  <2>5. s \in Unresolved
    BY <1>3, <2>2, <2>4 DEF Fits
  <2> QED
    BY <2>5 DEF Used
<1> QED
  BY <1>5, <1>6

(* Who takes a reservation: a call that still has the lock, or a thread    *)
(* that has outlived its task.                                             *)
LEMMA NextUnresolved ==
    ASSUME Inv, [Next]_vars
    PROVE  /\ late \subseteq late'
           /\ Unresolved' \subseteq Unresolved \/ \E s \in Spend : Unresolved' \subseteq {s}
           /\ \/ Unresolved' \ late' \subseteq Unresolved \ late
              \/ \E s \in Spend : /\ Reserve(s) /\ Unresolved = {} /\ s \notin stray
                                  /\ Unresolved' \ late' \subseteq (Unresolved \cup {s}) \ late
<1>1. journal \in [Spend -> RowState]
  BY DEF Inv, TypeOK
<1>3. CASE journal' = journal /\ late' = late
  BY <1>3 DEF Unresolved
<1>4. ASSUME NEW s \in Spend, Reserve(s), Unresolved = {}
      PROVE  /\ late \subseteq late' /\ Unresolved' \subseteq {s}
             /\ \/ Unresolved' \ late' \subseteq Unresolved \ late
                \/ /\ s \notin stray
                   /\ Unresolved' \ late' \subseteq (Unresolved \cup {s}) \ late
  <2>1. /\ journal' = [journal EXCEPT ![s] = "reserved"]
        /\ late' = IF s \in stray THEN late \cup {s} ELSE late
    BY <1>4 DEF Reserve, RowTo
  <2>2. Unresolved' \subseteq {s}
    BY <1>1, <1>4, <2>1 DEF Unresolved
  <2> QED
    BY <2>1, <2>2
<1>5. ASSUME NEW s \in Spend, Reserve(s), Unresolved # {}
      PROVE  journal' = journal /\ late' = late
  BY <1>5 DEF Reserve
<1>6. ASSUME NEW s \in Spend, Bind(s)
      PROVE  late' = late /\ Unresolved' \subseteq Unresolved
  BY <1>1, <1>6 DEF Bind, RowTo, Unresolved
<1>7. ASSUME NEW s \in Spend, SendRejected(s) \/ Mark(s)
      PROVE  late' = late /\ Unresolved' \subseteq Unresolved
  BY <1>1, <1>7 DEF SendRejected, Mark, RowTo, Unresolved
<1>8. CASE ReleaseMark
  BY <1>1, <1>8 DEF ReleaseMark, RowTo, Unresolved
<1>9. ASSUME NEW s \in Spend, \/ Authorize(s) \/ Send(s) \/ Record(s)
                              \/ Cut(s) \/ PlanRelease(s) \/ Land(s) \/ NodeTurns(s)
      PROVE  journal' = journal /\ late' = late
  BY <1>9 DEF Authorize, AuthorizeOn, Send, Record, Cut, PlanRelease, Land, NodeTurns, spendVars
<1>10. CASE ReleaseBook \/ ReleaseDies \/ Age
  BY <1>3, <1>10, ReleaseBookStep DEF ReleaseDies, Age, spendVars
<1>11. CASE \E p \in Watcher : ReadReceipt(p) \/ NoteReceipt(p)
  BY <1>3, <1>11, ReadReceiptStep DEF NoteReceipt, spendVars
<1>12. CASE (\E p \in Proc : Crash(p)) \/ UNCHANGED vars
  BY <1>3, <1>12 DEF Crash, vars, spendVars
<1> QED
  BY <1>3, <1>4, <1>5, <1>6, <1>7, <1>8, <1>9, <1>10, <1>11, <1>12 DEF Next, VerbStep

(* Who stands before its reservation: the call that stood there, or one    *)
(* that the cap has just let through.                                      *)
LEMMA NextReserving ==
    ASSUME Inv, [Next]_vars, NEW u \in Spend, verb'[u] = "reserve", u \notin stray'
    PROVE  \/ verb[u] = "reserve" /\ u \notin stray
           \/ /\ Unresolved = {} /\ Rolling(Len(log)) + 1 <= Cap
              /\ log' = log /\ old' = old /\ journal' = journal /\ late' = late
<1>1. verb \in [Spend -> VerbOps] /\ stray \subseteq Spend
  BY DEF Inv, TypeOK
<1>2. CASE verb' = verb /\ stray \subseteq stray'
  BY <1>2
<1>3. ASSUME NEW s \in Spend, Authorize(s), verb[u] # "reserve"
      PROVE  /\ Unresolved = {} /\ Rolling(Len(log)) + 1 <= Cap
             /\ log' = log /\ old' = old /\ journal' = journal /\ late' = late
  <2>1. verb' # verb
    BY <1>3
  <2> QED
    BY <1>3, <2>1 DEF Authorize, AuthorizeOn
<1>4. ASSUME NEW s \in Spend, Authorize(s) PROVE stray' = stray
  BY <1>4 DEF Authorize, AuthorizeOn
<1>5. ASSUME NEW s \in Spend, VerbStep(s) PROVE verb[u] = "reserve" /\ u \notin stray
  <2>1. \/ Ends(s)
        \/ /\ stray' = stray
           /\ \E op \in {"bind", "send", "receipt", "mark"} : verb' = [verb EXCEPT ![s] = op]
    BY <1>5 DEF VerbStep, Reserve, Bind, Send, SendRejected, Record, Mark, VerbTo, Ends
  <2> QED
    BY <1>1, <2>1 DEF Ends, VerbTo
<1>6. ASSUME NEW s \in Spend, Cut(s) \/ PlanRelease(s) \/ Land(s) \/ NodeTurns(s)
      PROVE  verb' = verb /\ stray \subseteq stray'
  BY <1>6 DEF Cut, PlanRelease, Land, NodeTurns, spendVars
<1>7. CASE ReleaseBook \/ ReleaseMark \/ ReleaseDies \/ Age
  BY <1>2, <1>7, ReleaseBookStep DEF ReleaseMark, ReleaseDies, Age, spendVars
<1>8. CASE \E p \in Watcher : ReadReceipt(p) \/ NoteReceipt(p)
  BY <1>2, <1>8, ReadReceiptStep DEF NoteReceipt, spendVars
<1>9. ASSUME NEW p \in Proc, Crash(p) PROVE verb[u] = "reserve" /\ u \notin stray
  BY <1>1, <1>9 DEF Crash
<1>10. CASE UNCHANGED vars
  BY <1>2, <1>10 DEF vars, spendVars
<1> QED
  BY <1>2, <1>3, <1>4, <1>5, <1>6, <1>7, <1>8, <1>9, <1>10 DEF Next

LEMMA Fewer ==
    ASSUME NEW S, IsFiniteSet(S), NEW T, T \subseteq S, Cardinality(S) <= Cap
    PROVE  Cardinality(T) <= Cap
<1>1. /\ Cardinality(S) \in Nat /\ Cardinality(T) \in Nat /\ Cardinality(T) <= Cardinality(S)
  BY FS_CardinalityType, FS_Subset
<1> QED
  BY <1>1

LEMMA UsedFinite ==
    ASSUME Inv, OneUnresolved
    PROVE  IsFiniteSet(Used) /\ \A s : IsFiniteSet(Used \cup {s})
<1>1. IsFiniteSet(Unresolved)
  <2>1. CASE Unresolved = {}
    BY <2>1, FS_EmptySet
  <2>2. CASE Unresolved # {}
    <3>1. PICK s : Unresolved = {s}
      BY <2>2 DEF OneUnresolved
    <3> QED
      BY <3>1, FS_Singleton
  <2> QED
    BY <2>1, <2>2
<1>2. IsFiniteSet(Used)
  BY <1>1, CountedIsRolling, FS_Union DEF Used
<1> QED
  BY <1>2, FS_AddElement

LEMMA NextCap == Inv /\ CapInv /\ [Next]_vars => CapInv'
<1> SUFFICES ASSUME Inv, CapInv, [Next]_vars PROVE CapInv'
  OBVIOUS
<1>1. Counted' \subseteq Used /\ late \subseteq late'
  BY NextCounted, NextUnresolved
<1>2. OneUnresolved'
  BY NextUnresolved DEF CapInv, OneUnresolved
<1>3. \A s \in Spend : IsFiniteSet(Used \ late) /\ IsFiniteSet((Used \cup {s}) \ late)
  <2>1. IsFiniteSet(Used) /\ \A s : IsFiniteSet(Used \cup {s})
    BY UsedFinite DEF CapInv
  <2>2. \A S : IsFiniteSet(S) => IsFiniteSet(S \ late)
    BY FS_Subset
  <2> QED
    BY <2>1, <2>2
<1>4. CASE Unresolved' \ late' \subseteq Unresolved \ late
  <2>1. Used' \ late' \subseteq Used \ late
    BY <1>1, <1>4 DEF Used
  <2>2. Cardinality(Used' \ late') <= Cap
    <3>1. IsFiniteSet(Used \ late)
      BY UsedFinite, FS_Subset DEF CapInv
    <3> QED
      BY <2>1, <3>1, Fewer DEF CapInv
  <2>3. ASSUME NEW u \in Spend, verb'[u] = "reserve", u \notin stray'
        PROVE  Cardinality((Used' \cup {u}) \ late') <= Cap
    <3>1. CASE verb[u] = "reserve" /\ u \notin stray
      <4>1. (Used' \cup {u}) \ late' \subseteq (Used \cup {u}) \ late
        BY <1>1, <2>1
      <4> QED
        BY <1>3, <3>1, <4>1, Fewer DEF CapInv, RoomLeft
    <3>2. CASE /\ Unresolved = {} /\ Rolling(Len(log)) + 1 <= Cap
               /\ log' = log /\ old' = old /\ journal' = journal /\ late' = late
      <4>1. Used' = Counted
        BY <3>2 DEF Used, Counted, Unresolved, Reverted
      <4>2. /\ IsFiniteSet(Counted \cup {u}) /\ Cardinality(Counted) \in Nat
            /\ Cardinality(Counted \cup {u}) \in {Cardinality(Counted), Cardinality(Counted) + 1}
        <5>1. IsFiniteSet(Counted)
          BY CountedIsRolling
        <5>2. Cardinality(Counted) \in Nat
          BY <5>1, FS_CardinalityType
        <5>3. /\ IsFiniteSet(Counted \cup {u})
              /\ Cardinality(Counted \cup {u}) =
                     IF u \in Counted THEN Cardinality(Counted) ELSE Cardinality(Counted) + 1
          BY <5>1, FS_AddElement
        <5> QED
          BY <5>2, <5>3
      <4>3. Cardinality(Counted \cup {u}) <= Cap
        BY <3>2, <4>2, CountedIsRolling
      <4>4. (Used' \cup {u}) \ late' \subseteq Counted \cup {u}
        BY <4>1
      <4> QED
        BY <4>2, <4>3, <4>4, Fewer
    <3> QED
      BY <2>3, <3>1, <3>2, NextReserving
  <2> QED
    BY <1>2, <2>2, <2>3 DEF CapInv, RoomLeft
<1>5. ASSUME NEW s \in Spend, Reserve(s), Unresolved = {}, s \notin stray,
             Unresolved' \ late' \subseteq (Unresolved \cup {s}) \ late
      PROVE  CapInv'
  <2>1. verb[s] = "reserve" /\ verb' = [verb EXCEPT ![s] = "bind"] /\ stray' = stray
    BY <1>5 DEF Reserve, VerbTo
  <2>2. Used' \ late' \subseteq (Used \cup {s}) \ late
    BY <1>1, <1>5 DEF Used
  <2>3. Cardinality(Used' \ late') <= Cap
    BY <1>3, <1>5, <2>1, <2>2, Fewer DEF CapInv, RoomLeft
  <2>4. ASSUME NEW u \in Spend, verb'[u] = "reserve", u \notin stray' PROVE FALSE
    <3>1. u # s /\ verb[u] = "reserve" /\ u \notin stray
      BY <2>1, <2>4 DEF Inv, TypeOK
    <3> QED
      BY <1>5, <2>1, <3>1 DEF Inv, LockSole, Active
  <2> QED
    BY <1>2, <2>3, <2>4 DEF CapInv, RoomLeft
<1> QED
  BY <1>4, <1>5, NextUnresolved

(* The trailing day's charges, and the sends not yet booked, stay within   *)
(* the cap whatever processes spend, but for a thread that outlives its    *)
(* task and takes its reservation when the lock is not held for it.        *)
THEOREM CapKept == Spec => []CapHolds
<1>1. Init => CapInv
  <2> SUFFICES ASSUME Init PROVE CapInv
    OBVIOUS
  <2>1. Counted = {} /\ Unresolved = {} /\ \A s \in Spend : verb[s] # "reserve"
    BY DEF Init, Counted, Unresolved
  <2>2. Used \ late = {}
    BY <2>1 DEF Used
  <2> QED
    BY <2>1, <2>2, FS_EmptySet DEF CapInv, RoomLeft, OneUnresolved
<1>2. Spec => [](Inv /\ CapInv)
  BY <1>1, InitInv, NextInv, NextCap, PTL DEF Spec
<1>3. ASSUME Inv, CapInv PROVE CapHolds
  <2> DEFINE counted == {s \in Spend : \E i \in Charged(s) :
                            i > old /\ log[i].usd = 1 /\ ~Voided(Len(log), s)}
             sending == {s \in Unresolved : Charged(s) = {}}
  <2>1. counted \subseteq Counted
    BY <1>3, VoidedIsReverted DEF Charged, Entries, Counted
  <2>2. (counted \cup sending) \ late \subseteq Used \ late
    BY <2>1 DEF Used
  <2>3. IsFiniteSet(Used \ late)
    BY <1>3, UsedFinite, FS_Subset DEF CapInv
  <2> HIDE DEF counted, sending
  <2>4. Cardinality((counted \cup sending) \ late) <= Cap
    BY <1>3, <2>2, <2>3, Fewer DEF CapInv
  <2> QED
    BY <2>4 DEF CapHolds, counted, sending
<1> QED
  BY <1>2, <1>3, PTL
=============================================================================
