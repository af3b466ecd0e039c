---------------------------- MODULE OrderExecution ----------------------------
(***************************************************************************)
(* Order placement: app/brokers/execution and app/brokers/angel/client.py. *)
(*                                                                         *)
(* POST /trading/orders runs TradingService.place_order: the RiskGate is   *)
(* asked once, then the order goes to the paper book (no await) or to the  *)
(* Angel gateway, and an order that came back ok is counted.  The gateway  *)
(* awaits a session (one login at a time, under an asyncio lock), awaits   *)
(* the POST of the order, and after an authentication failure logs in      *)
(* again and repeats the POST once.  Other requests, the kill switch       *)
(* endpoint, midnight and the death of the process fall between awaits.    *)
(***************************************************************************)
EXTENDS Integers, Sequences, FiniteSets

CONSTANTS
    Requests,      \* requests that may be in progress together
    NoOne,
    Quantities,    \* quantities a request may ask for
    MaxQty, MaxOrders,
    SettingsChoices,  \* environments a process may start in:
                      \* [live, liveEnabled, kill, configured]
    MaxDays,       \* bound: the last day of the model
    MaxRestarts,   \* bound: process deaths
    MaxPlaced      \* bound: orders the exchange takes on one day

ASSUME RequestsAssumption == IsFiniteSet(Requests) /\ Requests # {} /\ NoOne \notin Requests
ASSUME LimitsAssumption == MaxQty \in Int /\ MaxOrders \in Nat /\ Quantities \subseteq Int
ASSUME BoundsAssumption == MaxDays \in Nat /\ MaxRestarts \in Nat /\ MaxPlaced \in Nat
ASSUME SettingsAssumption ==
    SettingsChoices \subseteq [live : BOOLEAN, liveEnabled : BOOLEAN,
                               kill : BOOLEAN, configured : BOOLEAN]

Days == 0..MaxDays

VARIABLES
    settings,      \* settings of the running process
    today,         \* the UTC date
    kill, day, orders,    \* RiskState: kill_switch, day, orders_today
    paper,         \* PaperBroker.orders, counted per day of submission
    session,       \* AngelSmartApiClient._session is set
    lock, queue,   \* its _lock: the request inside and those waiting, in order
    pc,            \* where each place_order is: idle, queued, login, post
    retry,         \* the request is in the second attempt of _secure_post
    placed,        \* orders the exchange took, per day
    placedBy,      \* ... for the request in progress
    restarts       \* process deaths so far

risk == <<kill, day, orders>>
client == <<session, lock, queue>>
exchange == <<placed, placedBy>>
vars == <<settings, today, risk, paper, client, pc, retry, exchange, restarts>>

Init ==
    /\ settings \in SettingsChoices
    /\ today = 0
    /\ kill = settings.kill
    /\ day = 0
    /\ orders = 0
    /\ paper = [d \in Days |-> 0]
    /\ session = FALSE
    /\ lock = NoOne
    /\ queue = <<>>
    /\ pc = [r \in Requests |-> "idle"]
    /\ retry = [r \in Requests |-> FALSE]
    /\ placed = [d \in Days |-> 0]
    /\ placedBy = [r \in Requests |-> 0]
    /\ restarts = 0

-----------------------------------------------------------------------------
(* RiskGate.                                                               *)

\* orders_today after roll_day.
RolledOrders == IF today = day THEN orders ELSE 0

Killed == kill \/ settings.kill

\* Mutant: the daily cap is not compared.
AdmitsMutant(q) ==
    /\ ~Killed
    /\ settings.live => settings.liveEnabled
    /\ q > 0 /\ q <= MaxQty

\* RiskGate.check returns None.
Admits(q) ==
    /\ ~Killed
    /\ settings.live => settings.liveEnabled
    /\ q > 0 /\ q <= MaxQty
    /\ RolledOrders < MaxOrders

RollDay == day' = today /\ orders' = RolledOrders

RecordOrder == day' = today /\ orders' = RolledOrders + 1

SetKillSwitch(on) ==
    /\ kill' = on
    /\ RollDay
    /\ UNCHANGED <<settings, today, paper, client, pc, retry, exchange, restarts>>

\* GET /trading/status rolls the day.
Status ==
    /\ RollDay
    /\ UNCHANGED <<settings, today, kill, paper, client, pc, retry, exchange, restarts>>

-----------------------------------------------------------------------------
(* The Angel session.                                                      *)

LockFree == lock = NoOne /\ queue = <<>>

\* ensure_session inside the lock: an existing session is enough unless a new
\* login is forced; otherwise the login request leaves and the lock is kept.
InsideLock(r, force) ==
    IF session /\ ~force
    THEN lock' = NoOne /\ pc' = [pc EXCEPT ![r] = "post"]
    ELSE lock' = r /\ pc' = [pc EXCEPT ![r] = "login"]

EnsureSession(r, force) ==
    IF LockFree
    THEN InsideLock(r, force) /\ queue' = queue
    ELSE /\ pc' = [pc EXCEPT ![r] = "queued"]
         /\ queue' = Append(queue, r)
         /\ lock' = lock

\* The first waiter runs once the lock is free.
TakeLock(r) ==
    /\ pc[r] = "queued"
    /\ lock = NoOne
    /\ queue # <<>> /\ Head(queue) = r
    /\ queue' = Tail(queue)
    /\ InsideLock(r, retry[r])
    /\ UNCHANGED <<settings, today, risk, paper, session, retry, exchange, restarts>>

\* Mutant: a login that raises keeps the lock.
LoginFailsMutant(r) ==
    /\ pc[r] = "login"
    /\ pc' = [pc EXCEPT ![r] = "idle"]
    /\ retry' = [retry EXCEPT ![r] = FALSE]
    /\ UNCHANGED <<settings, today, risk, paper, client, exchange, restarts>>

\* Refused, unreadable or timed out: the order fails, the old session is kept.
LoginFails(r) ==
    /\ pc[r] = "login"
    /\ lock' = NoOne
    /\ pc' = [pc EXCEPT ![r] = "idle"]
    /\ retry' = [retry EXCEPT ![r] = FALSE]
    /\ UNCHANGED <<settings, today, risk, paper, session, queue, exchange, restarts>>

\* The request goes on to its POST without another await.
LoginSucceeds(r) ==
    /\ pc[r] = "login"
    /\ session' = TRUE
    /\ lock' = NoOne
    /\ pc' = [pc EXCEPT ![r] = "post"]
    /\ UNCHANGED <<settings, today, risk, paper, queue, retry, exchange, restarts>>

-----------------------------------------------------------------------------
(* place_order.                                                            *)

\* Blocked by the gate, or live without credentials, or refused by the gateway
\* before any request (no symbol token, LIMIT without a price).
RefuseOrder(r, q) ==
    /\ pc[r] = "idle"
    /\ Admits(q) => settings.live
    /\ RollDay
    /\ UNCHANGED <<settings, today, kill, paper, client, pc, retry, exchange, restarts>>

\* PaperBroker.place does not suspend: gate, book and counter are one step.
PaperOrder(r, q) ==
    /\ pc[r] = "idle"
    /\ ~settings.live
    /\ Admits(q)
    /\ paper' = [paper EXCEPT ![today] = @ + 1]
    /\ RecordOrder
    /\ UNCHANGED <<settings, today, kill, client, pc, retry, exchange, restarts>>

LiveOrder(r, q) ==
    /\ pc[r] = "idle"
    /\ settings.live /\ settings.configured
    /\ Admits(q)
    /\ RollDay
    /\ EnsureSession(r, FALSE)
    /\ placedBy' = [placedBy EXCEPT ![r] = 0]
    /\ UNCHANGED <<settings, today, kill, paper, session, retry, placed, restarts>>

\* What the exchange did with a POST: n orders taken for request r.
ExchangeTakes(r, n) ==
    /\ placed[today] + n <= MaxPlaced
    /\ placed' = [placed EXCEPT ![today] = @ + n]
    /\ placedBy' = [placedBy EXCEPT ![r] = @ + n]

\* The answer is readable and not a refusal: ok.
PostConfirmed(r) ==
    /\ pc[r] = "post"
    /\ \E n \in {0, 1} : ExchangeTakes(r, n)
    /\ pc' = [pc EXCEPT ![r] = "idle"]
    /\ retry' = [retry EXCEPT ![r] = FALSE]
    /\ RecordOrder
    /\ UNCHANGED <<settings, today, kill, paper, client, restarts>>

\* HTTP 401 or 403, or a refusal that names the token, at the first attempt.
PostUnauthorised(r) ==
    /\ pc[r] = "post"
    /\ ~retry[r]
    /\ retry' = [retry EXCEPT ![r] = TRUE]
    /\ EnsureSession(r, TRUE)
    /\ UNCHANGED <<settings, today, risk, paper, session, exchange, restarts>>

\* Mutant: _secure_post retries after any failed answer.
PostFailsMutant(r) ==
    /\ pc[r] = "post"
    /\ \E n \in {0, 1} : ExchangeTakes(r, n)
    /\ IF retry[r]
       THEN /\ pc' = [pc EXCEPT ![r] = "idle"]
            /\ retry' = [retry EXCEPT ![r] = FALSE]
            /\ UNCHANGED client
       ELSE /\ retry' = [retry EXCEPT ![r] = TRUE]
            /\ EnsureSession(r, TRUE)
            /\ session' = session
    /\ UNCHANGED <<settings, today, risk, paper, restarts>>

\* A refusal, an unreadable answer, HTTP 5xx or a timeout: the exchange may have
\* taken the order, the caller is told it failed and it is not counted.
PostFails(r) ==
    /\ pc[r] = "post"
    /\ \E n \in {0, 1} : ExchangeTakes(r, n)
    /\ pc' = [pc EXCEPT ![r] = "idle"]
    /\ retry' = [retry EXCEPT ![r] = FALSE]
    /\ UNCHANGED <<settings, today, risk, paper, client, restarts>>

-----------------------------------------------------------------------------
Midnight ==
    /\ today < MaxDays
    /\ today' = today + 1
    /\ UNCHANGED <<settings, risk, paper, client, pc, retry, exchange, restarts>>

\* The service is a process-wide singleton: counters, the switch, the paper book
\* and the session die with the process, possibly under other settings.  POSTs
\* on their way may still reach the exchange.
Restart ==
    /\ restarts < MaxRestarts
    /\ restarts' = restarts + 1
    /\ \E late \in SUBSET {r \in Requests : pc[r] = "post"} :
          /\ placed[today] + Cardinality(late) <= MaxPlaced
          /\ placed' = [placed EXCEPT ![today] = @ + Cardinality(late)]
    /\ settings' \in SettingsChoices
    /\ kill' = settings'.kill
    /\ day' = today
    /\ orders' = 0
    /\ paper' = [d \in Days |-> 0]
    /\ session' = FALSE
    /\ lock' = NoOne
    /\ queue' = <<>>
    /\ pc' = [r \in Requests |-> "idle"]
    /\ retry' = [r \in Requests |-> FALSE]
    /\ placedBy' = [r \in Requests |-> 0]
    /\ UNCHANGED today

-----------------------------------------------------------------------------
\* The steps of a request that is waiting for the broker.
Progress(r) ==
    \/ TakeLock(r)
    \/ LoginFails(r)
    \/ LoginSucceeds(r)
    \/ PostConfirmed(r)
    \/ PostUnauthorised(r)
    \/ PostFails(r)

Next ==
    \/ \E on \in BOOLEAN : SetKillSwitch(on)
    \/ Status
    \/ \E r \in Requests, q \in Quantities : RefuseOrder(r, q)
    \/ \E r \in Requests, q \in Quantities : PaperOrder(r, q)
    \/ \E r \in Requests, q \in Quantities : LiveOrder(r, q)
    \/ \E r \in Requests : Progress(r)
    \/ Midnight
    \/ Restart

Spec == Init /\ [][Next]_vars

\* The event loop schedules every coroutine whose await has ended, and every
\* HTTP call ends within its 20 s timeout.
FairSpec == Spec /\ \A r \in Requests : WF_vars(Progress(r))

-----------------------------------------------------------------------------
(* Properties.                                                             *)

TypeOK ==
    /\ settings \in SettingsChoices
    /\ today \in Days
    /\ kill \in BOOLEAN
    /\ day \in Days
    /\ orders \in Nat
    /\ paper \in [Days -> Nat]
    /\ session \in BOOLEAN
    /\ lock \in Requests \cup {NoOne}
    /\ queue \in Seq(Requests)
    /\ pc \in [Requests -> {"idle", "queued", "login", "post"}]
    /\ retry \in [Requests -> BOOLEAN]
    /\ placed \in [Days -> Nat]
    /\ placedBy \in [Requests -> Nat]
    /\ restarts \in Nat

\* Live orders that have passed the gate and are not settled.
Admitted == {r \in Requests : pc[r] # "idle"}

\* The gate is asked before the awaits and the counter moves after them, so
\* concurrent requests overshoot the cap; the overshoot is bounded by the number
\* of requests that run together, and a caller that waits for each answer
\* (one request) never exceeds it.
Overshoot == orders + Cardinality(Admitted) < MaxOrders + Cardinality(Requests)

\* The paper book and the counter agree, and the daily cap holds exactly there.
PaperBookCounted ==
    ~settings.live => paper[day] = orders /\ \A d \in Days : paper[d] <= MaxOrders

\* The retry never turns one request into two orders at the exchange.
OneOrderPerRequest == \A r \in Requests : placedBy[r] <= 1

\* Every live order is answered: no failed login leaves the others waiting.
OrdersAnswered == \A r \in Requests : pc[r] # "idle" ~> pc[r] = "idle"

=============================================================================
