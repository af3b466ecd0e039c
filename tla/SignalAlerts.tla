---------------------------- MODULE SignalAlerts ----------------------------
(***************************************************************************)
(* The signal alert scanner: app/services/signal_alerts.py.                *)
(*                                                                         *)
(* One process runs the background alert_loop and serves POST              *)
(* /alerts/scan; both call scan_once, which serialises them with an        *)
(* asyncio lock.  A scan walks the watchlist; for every market it stores   *)
(* newly detected setups, mails NEW_SIGNAL for the listed ones it does not *)
(* track yet, then compares every open alert of the market with the last   *)
(* price and mails ENTRY, STOP_LOSS and TARGET_n.  The tracked alerts live *)
(* in memory and reach the state file only when the scan ends.             *)
(*                                                                         *)
(* A step of this model runs from one await to the next: sending a mail is *)
(* one step that records the event and suspends (Emit), and one that       *)
(* resumes with the mail delivered or lost (SendReturns).                  *)
(***************************************************************************)
EXTENDS Naturals, Sequences, FiniteSets

CONSTANTS
    Loop, Api,     \* the two callers of scan_once
    SetupIds,      \* ids that detection runs may draw (fresh uuids)
    Markets,       \* symbol:timeframe pairs
    Watchlist,     \* the order in which a scan visits markets
    MarketOf,      \* [SetupIds -> Markets]
    KeyOf,         \* the engine's dedupe key: the logical setup of an id
    Levels,        \* [SetupIds -> [dir, entry, stop, targets]]
    Prices,        \* last closes a scan may read
    NoPrice, NoId, NoOne,
    MaxCrashes     \* bound on process deaths

Scanners == {Loop, Api}
TargetLabel == <<"TARGET_1", "TARGET_2", "TARGET_3">>
TargetEvents == {"TARGET_1", "TARGET_2", "TARGET_3"}
Events == {"NEW_SIGNAL", "ENTRY", "STOP_LOSS"} \cup TargetEvents
OpenStatus == {"watching", "entered"}
Statuses == OpenStatus \cup {"stopped", "target"}

ASSUME ScannersDiffer == Loop # Api /\ NoOne \notin Scanners
ASSUME SetupsAssumption ==
    /\ NoId \notin SetupIds
    /\ MarketOf \in [SetupIds -> Markets]
    /\ \A i \in SetupIds : Len(Levels[i].targets) \in 1..3
ASSUME PricesAssumption == NoPrice \notin Prices
ASSUME WatchlistAssumption == Watchlist \in Seq(Markets)
ASSUME CrashesAssumption == MaxCrashes \in Nat

\* A state file that cannot be read, or is not there: _load keeps nothing.
NoAlerts == [status |-> [i \in SetupIds |-> "untracked"],
             sent |-> [i \in SetupIds |-> {}]]

VARIABLES
    enabled,    \* settings.alerts_enabled of the running process
    rows,       \* trade_setups rows with status 'active'
    status,     \* AlertStateStore.tracked: status of each setup, or "untracked"
    sent,       \* ... and its events_sent
    disk,       \* what _load would read back from the state file
    delivered,  \* mails that reached the user, per setup id and event
    holder,     \* the scanner inside _lock
    waiters,    \* scanners queued on _lock, first in first out
    pc,         \* where each scan_once is
    todo,       \* markets left to scan, the current one first
    price,      \* last_price of the current market
    listed,     \* listed.items of the current market
    open,       \* alerts of the market this scan has not evaluated yet
    cur, event, \* the alert being mailed about or evaluated, its last event
    crashes     \* process deaths so far

local == <<pc, todo, price, listed, open, cur, event>>
lock == <<holder, waiters>>
store == <<status, sent>>
vars == <<enabled, rows, store, disk, delivered, lock, local, crashes>>

Init ==
    /\ enabled \in BOOLEAN
    /\ rows = {}
    /\ status = NoAlerts.status
    /\ sent = NoAlerts.sent
    /\ disk = NoAlerts
    /\ delivered = [i \in SetupIds |-> [e \in Events |-> 0]]
    /\ holder = NoOne
    /\ waiters = <<>>
    /\ pc = [a \in Scanners |-> "idle"]
    /\ todo = [a \in Scanners |-> <<>>]
    /\ price = [a \in Scanners |-> NoPrice]
    /\ listed = [a \in Scanners |-> {}]
    /\ open = [a \in Scanners |-> {}]
    /\ cur = [a \in Scanners |-> NoId]
    /\ event = [a \in Scanners |-> "none"]
    /\ crashes = 0

-----------------------------------------------------------------------------
(* Prices against levels, in exact integer arithmetic.                     *)

Distance(x, y) == IF x >= y THEN x - y ELSE y - x
Lower(x, y) == IF x <= y THEN x ELSE y
Higher(x, y) == IF x >= y THEN x ELSE y

\* near_entry: within 0.15% of the entry.
NearEntry(i, p) == 10000 * Distance(p, Levels[i].entry) <= 15 * Levels[i].entry

\* crossed_entry: between the stop and 0.1% beyond the entry.
CrossedEntry(i, p) ==
    LET l == Levels[i] IN
    IF l.dir = "BUY"
    THEN 1000 * p <= 1001 * l.entry /\ p >= Lower(l.entry, l.stop)
    ELSE 1000 * p >= 999 * l.entry /\ p <= Higher(l.entry, l.stop)

StopHit(i, p) ==
    IF Levels[i].dir = "BUY" THEN p <= Levels[i].stop ELSE p >= Levels[i].stop

TargetHit(i, k, p) ==
    IF Levels[i].dir = "BUY" THEN p >= Levels[i].targets[k]
                             ELSE p <= Levels[i].targets[k]

-----------------------------------------------------------------------------
(* _evaluate_lifecycle, seen as a function of the event it sent last in    *)
(* this evaluation ("none" when it has just started).                      *)

EntryDue(i, last, p) ==
    /\ last = "none"
    /\ status[i] = "watching"
    /\ NearEntry(i, p) \/ CrossedEntry(i, p)
    /\ "ENTRY" \notin sent[i]

\* The status is read once, before the stop and the targets are compared.
ExitsReached(i, last) ==
    last \in {"none", "ENTRY"} /\ status[i] \in OpenStatus

StopDue(i, last, p) ==
    /\ ExitsReached(i, last)
    /\ StopHit(i, p)
    /\ "STOP_LOSS" \notin sent[i]

\* The target loop goes on to the later targets after each mail.
TargetsDue(i, last, p) ==
    {k \in 1..Len(Levels[i].targets) :
        /\ \/ ExitsReached(i, last)
           \/ \E j \in 1..(k - 1) : last = TargetLabel[j]
        /\ TargetHit(i, k, p)
        /\ TargetLabel[k] \notin sent[i]}

Due(i, last, p) ==
    LET ks == TargetsDue(i, last, p) IN
    IF EntryDue(i, last, p) THEN "ENTRY"
    ELSE IF StopDue(i, last, p) THEN "STOP_LOSS"
    ELSE IF ks # {} THEN TargetLabel[CHOOSE k \in ks : \A j \in ks : k <= j]
    ELSE "none"

\* Mutant: a target that is reached leaves the alert open.
StatusAfterMutant(e, st) ==
    IF e = "ENTRY" THEN "entered" ELSE IF e = "STOP_LOSS" THEN "stopped" ELSE st

\* The status assigned once the mail of an event has returned.
StatusAfter(e, st) ==
    IF e = "ENTRY" THEN "entered"
    ELSE IF e = "STOP_LOSS" THEN "stopped"
    ELSE IF e \in TargetEvents THEN "target"
    ELSE st

-----------------------------------------------------------------------------
(* The lock.                                                               *)

\* Mutant: scan_once without "async with self._lock".
LockFreeMutant == TRUE

LockFree == holder = NoOne /\ waiters = <<>>

\* Mutant: the lock is released without waking the first waiter.
ReleaseMutant(a) ==
    /\ holder' = NoOne
    /\ waiters' = waiters
    /\ pc' = [pc EXCEPT ![a] = "idle"]

\* The scan of a ends and the first waiter enters.
Release(a) ==
    IF waiters = <<>>
    THEN /\ holder' = NoOne
         /\ waiters' = waiters
         /\ pc' = [pc EXCEPT ![a] = "idle"]
    ELSE /\ holder' = Head(waiters)
         /\ waiters' = Tail(waiters)
         /\ pc' = [pc EXCEPT ![a] = "idle", ![Head(waiters)] = "granted"]

\* alert_loop calls scan_once only when alerts are enabled; the endpoint always.
RequestScan(a) ==
    /\ pc[a] = "idle"
    /\ a = Loop => enabled
    /\ IF LockFree
       THEN /\ holder' = a
            /\ waiters' = waiters
            /\ pc' = [pc EXCEPT ![a] = "granted"]
       ELSE /\ holder' = holder
            /\ waiters' = Append(waiters, a)
            /\ pc' = [pc EXCEPT ![a] = "waiting"]
    /\ UNCHANGED <<enabled, rows, store, disk, delivered,
                   todo, price, listed, open, cur, event, crashes>>

StartScan(a) ==
    /\ pc[a] = "granted"
    /\ enabled
    /\ pc' = [pc EXCEPT ![a] = "market"]
    /\ todo' = [todo EXCEPT ![a] = Watchlist]
    /\ UNCHANGED <<enabled, rows, store, disk, delivered, lock,
                   price, listed, open, cur, event, crashes>>

\* ALERTS_ENABLED=false: the scan returns a "skipped" summary and saves nothing.
SkipScan(a) ==
    /\ pc[a] = "granted"
    /\ ~enabled
    /\ Release(a)
    /\ UNCHANGED <<enabled, rows, store, disk, delivered,
                   todo, price, listed, open, cur, event, crashes>>

-----------------------------------------------------------------------------
(* _scan_symbol.                                                           *)

\* A detection run stores its setups under ids never used before and keeps one
\* setup per dedupe key; no run revises the rows an earlier run stored.
Detections(m) ==
    {D \in SUBSET {i \in SetupIds \ rows : MarketOf[i] = m} :
        \A i, j \in D : KeyOf[i] = KeyOf[j] => i = j}

\* Candles, analysis and setup detection are committed, then list_active and the
\* last close are read.  "listed" stands for the newest 20 rows that pass the
\* confidence and zone filters.
ScanMarket(a) ==
    /\ pc[a] = "market"
    /\ todo[a] # <<>>
    /\ \E D \in Detections(Head(todo[a])) : rows' = rows \cup D
    /\ \E p \in Prices \cup {NoPrice} : price' = [price EXCEPT ![a] = p]
    /\ \E L \in SUBSET {i \in rows' : MarketOf[i] = Head(todo[a])} :
          listed' = [listed EXCEPT ![a] = L]
    /\ pc' = [pc EXCEPT ![a] = "signal"]
    /\ UNCHANGED <<enabled, store, disk, delivered, lock, todo, open, cur, event, crashes>>

\* An exception in _scan_symbol before or after its commit: the market is skipped.
MarketFails(a) ==
    /\ pc[a] = "market"
    /\ todo[a] # <<>>
    /\ \E D \in Detections(Head(todo[a])) : rows' = rows \cup D
    /\ todo' = [todo EXCEPT ![a] = Tail(@)]
    /\ UNCHANGED <<enabled, store, disk, delivered, lock,
                   pc, price, listed, open, cur, event, crashes>>

\* Mutant: "not in self.store.tracked" is dropped.
FreshListedMutant(a) == listed[a]

FreshListed(a) == {i \in listed[a] : status[i] = "untracked"}

\* Track a listed setup and suspend in _emit(alert, "NEW_SIGNAL").
SignalNew(a, i) ==
    /\ pc[a] = "signal"
    /\ i \in FreshListed(a)
    /\ status' = [status EXCEPT ![i] = "watching"]
    /\ sent' = [sent EXCEPT ![i] = {"NEW_SIGNAL"}]
    /\ pc' = [pc EXCEPT ![a] = "sending"]
    /\ cur' = [cur EXCEPT ![a] = i]
    /\ event' = [event EXCEPT ![a] = "NEW_SIGNAL"]
    /\ UNCHANGED <<enabled, rows, disk, delivered, lock, todo, price, listed, open, crashes>>

StartLifecycle(a) ==
    /\ pc[a] = "signal"
    /\ FreshListed(a) = {}
    /\ pc' = [pc EXCEPT ![a] = "lifecycle"]
    /\ listed' = [listed EXCEPT ![a] = {}]
    /\ open' = [open EXCEPT ![a] =
                  {i \in SetupIds : /\ price[a] # NoPrice
                                    /\ status[i] # "untracked"
                                    /\ MarketOf[i] = Head(todo[a])}]
    /\ UNCHANGED <<enabled, rows, store, disk, delivered, lock,
                   todo, price, cur, event, crashes>>

\* The alert being evaluated, or any one not visited yet.
Visiting(a, i) ==
    /\ pc[a] = "lifecycle"
    /\ i = cur[a] \/ (cur[a] = NoId /\ i \in open[a])

\* _emit records the event in events_sent, then suspends in send_alert.
Emit(a, i) ==
    LET e == Due(i, event[a], price[a]) IN
    /\ Visiting(a, i)
    /\ e # "none"
    /\ sent' = [sent EXCEPT ![i] = @ \cup {e}]
    /\ pc' = [pc EXCEPT ![a] = "sending"]
    /\ cur' = [cur EXCEPT ![a] = i]
    /\ event' = [event EXCEPT ![a] = e]
    /\ UNCHANGED <<enabled, rows, status, disk, delivered, lock,
                   todo, price, listed, open, crashes>>

\* send_alert returns, or raises and _emit swallows the error; then the status
\* that follows from the event is assigned.
SendReturns(a) ==
    /\ pc[a] = "sending"
    /\ delivered' \in {delivered, [delivered EXCEPT ![cur[a]][event[a]] = @ + 1]}
    /\ status' = [status EXCEPT ![cur[a]] = StatusAfter(event[a], @)]
    /\ IF event[a] = "NEW_SIGNAL"
       THEN /\ pc' = [pc EXCEPT ![a] = "signal"]
            /\ cur' = [cur EXCEPT ![a] = NoId]
            /\ event' = [event EXCEPT ![a] = "none"]
       ELSE /\ pc' = [pc EXCEPT ![a] = "lifecycle"]
            /\ UNCHANGED <<cur, event>>
    /\ UNCHANGED <<enabled, rows, sent, disk, lock, todo, price, listed, open, crashes>>

\* Nothing (more) to send for this alert; closed alerts are passed over here too.
CloseAlert(a, i) ==
    /\ Visiting(a, i)
    /\ Due(i, event[a], price[a]) = "none"
    /\ open' = [open EXCEPT ![a] = @ \ {i}]
    /\ cur' = [cur EXCEPT ![a] = NoId]
    /\ event' = [event EXCEPT ![a] = "none"]
    /\ UNCHANGED <<enabled, rows, store, disk, delivered, lock,
                   pc, todo, price, listed, crashes>>

MarketDone(a) == pc[a] = "lifecycle" /\ cur[a] = NoId /\ open[a] = {}

NextMarket(a) ==
    /\ MarketDone(a)
    /\ pc' = [pc EXCEPT ![a] = "market"]
    /\ todo' = [todo EXCEPT ![a] = Tail(@)]
    /\ price' = [price EXCEPT ![a] = NoPrice]
    /\ UNCHANGED <<enabled, rows, store, disk, delivered, lock,
                   listed, open, cur, event, crashes>>

-----------------------------------------------------------------------------
(* Persistence and process death.                                          *)

Saving(a) == pc[a] = "market" /\ todo[a] = <<>>

Save(a) ==
    /\ Saving(a)
    /\ disk' = [status |-> status, sent |-> sent]
    /\ Release(a)
    /\ UNCHANGED <<enabled, rows, store, delivered,
                   todo, price, listed, open, cur, event, crashes>>

\* write_text truncates the file before it writes: an OSError leaves the file as
\* it was (mkdir, open) or unreadable (write), and the scan ends with the error.
SaveFails(a) ==
    /\ Saving(a)
    /\ disk' \in {disk, NoAlerts}
    /\ Release(a)
    /\ UNCHANGED <<enabled, rows, store, delivered,
                   todo, price, listed, open, cur, event, crashes>>

\* The process dies (or is stopped: stop_alert_loop does not save) and the next
\* one loads the state file; a death inside write_text leaves it unreadable.
Crash ==
    /\ crashes < MaxCrashes
    /\ crashes' = crashes + 1
    /\ \/ disk' = disk
       \/ (\E a \in Scanners : Saving(a)) /\ disk' = NoAlerts
    /\ status' = disk'.status
    /\ sent' = disk'.sent
    /\ enabled' \in BOOLEAN
    /\ holder' = NoOne
    /\ waiters' = <<>>
    /\ pc' = [a \in Scanners |-> "idle"]
    /\ todo' = [a \in Scanners |-> <<>>]
    /\ price' = [a \in Scanners |-> NoPrice]
    /\ listed' = [a \in Scanners |-> {}]
    /\ open' = [a \in Scanners |-> {}]
    /\ cur' = [a \in Scanners |-> NoId]
    /\ event' = [a \in Scanners |-> "none"]
    /\ UNCHANGED <<rows, delivered>>

-----------------------------------------------------------------------------
ScanStep(a) ==
    \/ StartScan(a)
    \/ SkipScan(a)
    \/ ScanMarket(a)
    \/ MarketFails(a)
    \/ \E i \in SetupIds : SignalNew(a, i)
    \/ StartLifecycle(a)
    \/ \E i \in SetupIds : Emit(a, i)
    \/ SendReturns(a)
    \/ \E i \in SetupIds : CloseAlert(a, i)
    \/ NextMarket(a)
    \/ Save(a)
    \/ SaveFails(a)

Next ==
    \/ \E a \in Scanners : RequestScan(a)
    \/ \E a \in Scanners : ScanStep(a)
    \/ Crash

Spec == Init /\ [][Next]_vars

\* A running scan is a coroutine the event loop keeps scheduling; every await in
\* it returns or raises (HTTP and SMTP calls carry timeouts).  No request, no
\* crash and no timer of the loop is assumed to happen.
FairSpec == Spec /\ \A a \in Scanners : WF_vars(ScanStep(a))

-----------------------------------------------------------------------------
(* Properties.                                                             *)

TypeOK ==
    /\ enabled \in BOOLEAN
    /\ rows \subseteq SetupIds
    /\ status \in [SetupIds -> Statuses \cup {"untracked"}]
    /\ sent \in [SetupIds -> SUBSET Events]
    /\ disk \in [status : [SetupIds -> Statuses \cup {"untracked"}],
                 sent : [SetupIds -> SUBSET Events]]
    /\ delivered \in [SetupIds -> [Events -> Nat]]
    /\ holder \in Scanners \cup {NoOne}
    /\ waiters \in Seq(Scanners)
    /\ pc \in [Scanners -> {"idle", "waiting", "granted", "market",
                            "signal", "lifecycle", "sending"}]
    /\ todo \in [Scanners -> Seq(Markets)]
    /\ price \in [Scanners -> Prices \cup {NoPrice}]
    /\ listed \in [Scanners -> SUBSET SetupIds]
    /\ open \in [Scanners -> SUBSET SetupIds]
    /\ cur \in [Scanners -> SetupIds \cup {NoId}]
    /\ event \in [Scanners -> Events \cup {"none"}]
    /\ crashes \in Nat

\* An event of a setup reaches the user at most once per process life: what is
\* recorded in memory is never mailed again, and only a death that loses the
\* unsaved part of events_sent can repeat a mail (line 394 against line 226).
MailBound ==
    \A i \in SetupIds, e \in Events :
        delivered[i][e] <= crashes + (IF e \in sent[i] THEN 1 ELSE 0)

\* No alert is ever reported both stopped out and at a target.
StopOrTarget ==
    \A i \in SetupIds : "STOP_LOSS" \in sent[i] => sent[i] \cap TargetEvents = {}

\* events_sent and status tell the same story.
AtRest(st, es) ==
    /\ st = "untracked" <=> es = {}
    /\ st # "untracked" => "NEW_SIGNAL" \in es
    /\ st = "stopped" <=> "STOP_LOSS" \in es
    /\ st = "target" <=> es \cap TargetEvents # {}
    /\ st = "entered" => "ENTRY" \in es
    /\ st = "watching" => "ENTRY" \notin es

\* The state file never holds an alert caught in the middle of an evaluation,
\* so that a restart resumes every alert where its mails left it.
DiskAtRest == \A i \in SetupIds : AtRest(disk.status[i], disk.sent[i])

\* The loop, the endpoint, the lock, the mails and the state file together keep the
\* promise of the book: whichever scans queue, fail or die, the events of an alert come
\* in the order of a trade, never twice in one life of the process, one mail is under
\* way at a time, and a restart goes on from a page on which no evaluation had stopped
\* half way (signal_alerts.py:199, 226, 320, 364, 374, 387, 394).
Flying == {<<cur[a], event[a]>> : a \in {b \in Scanners : pc[b] = "sending"}}

Book == INSTANCE AlertBook
    WITH Alerts <- SetupIds, told <- sent, kept <- disk.sent, mails <- delivered, flying <- Flying

KeepsTheBook == Book!Spec

\* Every caller of scan_once gets the lock and its scan ends.
ScanAnswered == \A a \in Scanners : pc[a] = "waiting" ~> pc[a] = "idle"

=============================================================================
