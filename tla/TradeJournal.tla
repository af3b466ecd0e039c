---------------------------- MODULE TradeJournal ----------------------------
(***************************************************************************)
(* What the terminal remembers of its own decisions.  useDecision runs in  *)
(* every chart pane; each time the price or the decision of its chart      *)
(* changes, one effect passes both to six stores kept in the browser: the  *)
(* AI journal, the missed opportunities, the validation log, the paper     *)
(* trades, the personality snapshots and the tracked plans.  Panes that    *)
(* show the same chart run the same effect one after the other on the same *)
(* data.  The stores never read each other, so a behaviour follows the     *)
(* stores in `kept` and leaves the others empty.                           *)
(* Prices are integers.  How old a record is when it is looked at is left  *)
(* open; whether a WAIT has early evidence is part of the market's data.   *)
(***************************************************************************)
EXTENDS Integers, FiniteSets, SequencesExt

CONSTANTS
    Panes, Charts,   \* chart panes; symbol and timeframe pairs
    Setups,          \* trade setups, as records (see SetupsAssumption)
    Feed,            \* Feed[kept][c]: the prices and decisions chart c may show, among Markets
    Personalities,   \* [name, pref]: 1 prefers to buy, -1 to sell, 0 to wait
    Slip,            \* PAPER_SLIPPAGE_POINTS
    Floor,           \* the 15 points of a miss
    Thresh,          \* the move that settles a personality
    Near,            \* how near to its stop a plan counts as stopped
    Cap, PlanCap,    \* bounds: the length of a list, of the plans (500, 800, 2000 in the code)
    MaxDays,         \* bound: midnights
    MaxEvents,       \* bound: validation events logged
    Kept,            \* the sets of stores a behaviour may follow
    Nil

Stores == {"journal", "missed", "validation", "paper", "personality", "plans"}

\* A setup has an entry zone, a stop zone on the far side of the entry and target zones
\* beyond both.  `stop`, `far1`, `far2` are the outer edges of the zones, `cut`, `near1`,
\* `near2` the inner ones, `t1` the middle of the first target; `worded` tells that the
\* direction is another word than "buy" or "sell" ("bullish", "bearish", "long").
ASSUME SetupsAssumption ==
    \A s \in Setups :
        /\ s.dir \in {1, -1} /\ s.worded \in BOOLEAN
        /\ s.low \in Int /\ s.high \in Int /\ s.entry \in Int /\ s.stop \in Int /\ s.cut \in Int
        /\ s.t1 \in Int /\ s.far1 \in Int /\ s.near1 \in Int
        /\ s.far2 \in Int \cup {Nil} /\ s.near2 \in Int \cup {Nil}
        /\ s.low <= s.entry /\ s.entry <= s.high
        /\ s.dir * (s.entry - s.stop) > 0 /\ s.dir * (s.t1 - s.entry) > 0
        /\ s.dir * (s.far1 - s.t1) >= 0 /\ s.dir * (s.near1 - s.cut) > 0
        /\ s.far2 # Nil => s.dir * (s.far2 - s.far1) >= 0
ASSUME NumbersAssumption ==
    /\ Slip \in Nat /\ Floor \in Nat /\ Thresh \in Nat /\ Near \in Nat
    /\ Cap \in Nat \ {0} /\ PlanCap \in Nat \ {0} /\ MaxDays \in Nat /\ MaxEvents \in Nat
    /\ Nil \notin Int /\ Nil \notin Setups
ASSUME KeptAssumption == Kept \subseteq SUBSET Stores
ASSUME PersonalitiesAssumption == \A q \in Personalities : q.pref \in {1, -1, 0}

VARIABLES
    chart,      \* the chart of a pane
    prev,       \* prevActionable of a pane's hook
    market,     \* price and decision of a chart
    owed,       \* panes whose effect has yet to run on the last change
    intraday, paperOn, validationOn,   \* settings
    past,       \* the cash market has closed for the day
    day, kept,
    entries, records, events, trades, snapshots, plans,   \* the stores, newest first
    logged      \* validation events logged so far

desk == <<chart, prev, market, owed, intraday, paperOn, validationOn, past, day, kept>>
lists == <<entries, records, events, trades, snapshots, plans, logged>>
vars == <<chart, prev, market, owed, intraday, paperOn, validationOn, past, day, kept,
          entries, records, events, trades, snapshots, plans, logged>>

\* The side a decision trades.  The intraday profiles take every direction that is not
\* the word "buy" for a sell (intradayDecision.ts:422).
SideOf(s) == IF intraday /\ s.worded THEN -1 ELSE s.dir

Buys == {"BUY", "STRONG BUY"}
Kinds == {"WAIT", "SELL", "STRONG SELL"} \cup Buys
KindHere(m) == IF ~m.act THEN "WAIT"
               ELSE IF SideOf(m.setup) = 1 THEN IF m.strong THEN "STRONG BUY" ELSE "BUY"
               ELSE IF m.strong THEN "STRONG SELL" ELSE "SELL"

\* The decision of a chart: act on a setup, or WAIT; a WAIT may lean to a side with
\* executable evidence (early patterns, or a confirmed path that is blocked) or without.
Markets ==
    [price : Int, setup : Setups, act : {TRUE}, strong : BOOLEAN, expired : BOOLEAN]
    \cup [price : Int, setup : Setups \cup {Nil}, act : {FALSE},
          hypo : {1, -1, 0}, evidence : BOOLEAN]
ASSUME FeedAssumption == \A k \in Kept, c \in Charts : Feed[k][c] \subseteq Markets

Map(list, Op(_)) == [i \in DOMAIN list |-> Op(list[i])]

Cut(list, r, cap) == SubSeq(<<r>> \o list, 1, IF Len(list) < cap THEN Len(list) + 1 ELSE cap)
OnTop(list, r) == Cut(list, r, Cap)
Has(list, P(_)) == \E i \in DOMAIN list : P(list[i])
Find(list, P(_)) == CHOOSE i \in DOMAIN list : P(list[i])
\* filter(r => r.id !== id), in a list with at most one such record.
Without(list, P(_)) == IF Has(list, P) THEN RemoveAt(list, Find(list, P)) ELSE list
Larger(x, y) == IF x >= y THEN x ELSE y
\* The gain of a move to a price, for a side.
Gain(dir, from, to) == dir * (to - from)

-----------------------------------------------------------------------------
(* Paper trades (paperTrading.ts).                                         *)

Open(t) == t.reason = "open"
TradeId(c, s) == <<c, s, day, SideOf(s)>>

\* levelsFromSetup: the outer edges as seen from the side traded, which on a setup of the
\* other side are the inner ones; the stop then is where the trade gains.
LevelsFor(s, side) ==
    IF side = s.dir THEN [stop |-> s.stop, tp1 |-> s.far1, tp2 |-> s.far2]
    ELSE [stop |-> s.cut, tp1 |-> s.near1, tp2 |-> s.near2]

Distance(a, b) == Larger(a - b, b - a)
TwoToOne(s, at) == /\ at.stop # s.entry
                   /\ Distance(at.tp1, s.entry) >= 2 * Distance(s.entry, at.stop)

OpenFromDecision(list, c, m) ==
    IF /\ paperOn /\ m.act /\ TwoToOne(m.setup, LevelsFor(m.setup, SideOf(m.setup)))
       /\ ~Has(list, LAMBDA t : t.id = TradeId(c, m.setup) \/ (Open(t) /\ t.chart = c))
    THEN OnTop(list, [id |-> TradeId(c, m.setup), chart |-> c, setup |-> m.setup,
                      side |-> SideOf(m.setup), entry |-> m.price + SideOf(m.setup) * Slip,
                      mfe |-> 0, mae |-> 0, seen |-> FALSE, reason |-> "open", exit |-> Nil])
    ELSE list

\* Mutant: a target that is just touched does not count.
ReasonAtMutant(side, at, price) ==
    IF Gain(side, at.stop, price) <= 0 THEN "sl"
    ELSE IF at.tp2 # Nil /\ Gain(side, at.tp2, price) > 0 THEN "tp2"
    ELSE IF Gain(side, at.tp1, price) > 0 THEN "tp1"
    ELSE "open"

\* The stop is looked at before the targets, the second target before the first.
ReasonAt(side, at, price) ==
    IF Gain(side, at.stop, price) <= 0 THEN "sl"
    ELSE IF at.tp2 # Nil /\ Gain(side, at.tp2, price) >= 0 THEN "tp2"
    ELSE IF Gain(side, at.tp1, price) >= 0 THEN "tp1"
    ELSE "open"

Priced(t, price) ==
    LET g == Gain(t.side, t.entry, price)
        why == ReasonAt(t.side, LevelsFor(t.setup, t.side), price)
    IN  [t EXCEPT !.mfe = Larger(@, g), !.mae = Larger(@, -g), !.seen = TRUE,
                  !.reason = why, !.exit = IF why = "open" THEN Nil ELSE price]

\* Mutant: closed trades are priced too.
OnPriceMutant(list, c, price) ==
    Map(list, LAMBDA t : IF t.chart = c THEN Priced(t, price) ELSE t)

OnPrice(list, c, price) ==
    Map(list, LAMBDA t : IF Open(t) /\ t.chart = c THEN Priced(t, price) ELSE t)

-----------------------------------------------------------------------------
(* Tracked plans (predictiveSignal.ts, tradeAnalytics.ts, backtest.ts).    *)

Terminal == {"stop_hit", "target_1_hit", "target_2_hit", "target_3_hit", "expired",
             "cancelled", "entry_missed"}
Lifecycle == Terminal \cup {"entry_generated", "entry_triggered"}

\* derivePredictivePlan: targets nearer than two risks are projected to 2, 3 and 4 of them.
Targets(s) ==
    LET risk == Gain(s.dir, s.stop, s.entry)
    IN  IF Gain(s.dir, s.entry, s.t1) < 2 * risk
        THEN <<s.entry + 2 * s.dir * risk, s.entry + 3 * s.dir * risk,
               s.entry + 4 * s.dir * risk>>
        ELSE <<s.t1, s.far2, Nil>>

Reached(s, level, price) == level # Nil /\ Gain(s.dir, level, price) >= 0

\* Mutant: only a price inside the zone enters.
HitFlagsMutant(s, price) ==
    [entry |-> s.low <= price /\ price <= s.high,
     stop  |-> Gain(s.dir, s.stop, price) <= Near,
     t1 |-> Reached(s, Targets(s)[1], price),
     t2 |-> Reached(s, Targets(s)[2], price),
     t3 |-> Reached(s, Targets(s)[3], price)]


HitFlags(s, price) ==
    [entry |-> (s.low <= price /\ price <= s.high) \/ Reached(s, s.entry, price),
     stop  |-> Gain(s.dir, s.stop, price) <= Near,
     t1 |-> Reached(s, Targets(s)[1], price),
     t2 |-> Reached(s, Targets(s)[2], price),
     t3 |-> Reached(s, Targets(s)[3], price)]

SignalState(hit, expired) ==
    IF hit.t2 \/ hit.t3 THEN "Target Hit"
    ELSE IF hit.t1 /\ hit.entry /\ ~hit.stop THEN "Partial Profit"
    ELSE IF hit.entry /\ hit.stop /\ ~(hit.t1 /\ expired) THEN "Stop Hit"
    ELSE IF expired THEN "Expired"
    ELSE IF hit.entry THEN "Active Trade"
    ELSE "Watching"                       \* or forming, or ready: the same to the tracker

\* eventsFromPlanState, and the order it pushes the events in.
EventsOf(hit, state) ==
    LET When(cond, event) == IF cond THEN {event} ELSE {}
    IN  When(hit.entry \/ state \in {"Active Trade", "Partial Profit", "Target Hit", "Stop Hit"},
             "entry_triggered")
        \cup When(hit.t1 \/ state = "Partial Profit", "target_1_hit")
        \cup When(hit.t2, "target_2_hit")
        \cup When(hit.t3, "target_3_hit")
        \cup When(hit.stop \/ state = "Stop Hit", "stop_hit")
        \cup When(state = "Expired", IF hit.entry THEN "expired" ELSE "entry_missed")

Pushed == <<"entry_triggered", "target_1_hit", "target_2_hit", "target_3_hit", "stop_hit",
            "expired", "entry_missed">>
LastPushed(new) ==
    Pushed[CHOOSE i \in DOMAIN Pushed : /\ Pushed[i] \in new
                                       /\ \A j \in DOMAIN Pushed : j > i => Pushed[j] \notin new]

BestTarget(seen) == IF "target_3_hit" \in seen THEN "target_3_hit"
                    ELSE IF "target_2_hit" \in seen THEN "target_2_hit" ELSE "target_1_hit"

\* applyOutcomeEvents: push what is new, then settle the trade on the worst news first.
ApplyEvents(t, new, price) ==
    LET seen == t.seen \cup new
        last == IF new \subseteq t.seen THEN t.status ELSE LastPushed(new \ t.seen)
        stopped == "stop_hit" \in seen /\ "entry_triggered" \in seen
        paid == seen \cap {"target_1_hit", "target_2_hit", "target_3_hit"} # {}
        fill == IF "entry_triggered" \in seen \ t.seen THEN price ELSE t.fill
    IN  IF last \notin Terminal THEN [t EXCEPT !.seen = seen, !.status = last, !.fill = fill]
        ELSE [t EXCEPT !.seen = seen, !.completed = TRUE, !.fill = fill,
                       !.status = IF stopped THEN "stop_hit"
                                  ELSE IF paid THEN BestTarget(seen) ELSE last,
                       !.won = IF stopped THEN "no" ELSE IF paid THEN "yes" ELSE "none"]

\* createTrackedTrade: the plan has been generated and nothing else has happened to it.
NewPlan(c, s) == [chart |-> c, setup |-> s, seen |-> {"entry_generated"},
                  status |-> "entry_generated", fill |-> Nil, won |-> "none",
                  completed |-> FALSE]

\* A plan that changed, or whose confidence did, moves to the front; a completed one is left.
UpsertFromPlan(list, c, m) ==
    LET Same(t) == t.chart = c /\ t.setup = m.setup
        t == IF Has(list, Same) THEN list[Find(list, Same)] ELSE NewPlan(c, m.setup)
        hit == HitFlags(m.setup, m.price)
        updated == ApplyEvents(t, EventsOf(hit, SignalState(hit, m.expired)), m.price)
        moved == Cut(Without(list, Same), updated, PlanCap)
    IN  IF t.completed THEN {list}
        ELSE IF Has(list, Same) /\ updated = t
        THEN {list, moved}
        ELSE {moved}

\* cancelTrackedTrade: whatever the plan has met by then, it neither won nor lost.
Cancelled(t) == [t EXCEPT !.seen = @ \cup {"cancelled"}, !.status = "cancelled",
                          !.completed = TRUE, !.won = "none"]

CancelActive(list, c) ==
    Map(list, LAMBDA t : IF t.completed \/ t.chart # c THEN t ELSE Cancelled(t))

-----------------------------------------------------------------------------
(* The AI journal (aiJournal.ts).                                          *)

\* An open entry of the same signal stands; a WAIT is noted at most every ten minutes.
RecordSignal(list, c, m) ==
    LET kind == KindHere(m)
        key == <<c, intraday, kind, m.setup>>
        Standing(e) == e.key = key /\ e.outcome = "open"
        WaitHere(e) == e.key[1] = c /\ e.key[2] = intraday /\ e.key[3] = "WAIT"
        noted == OnTop(list, [key |-> key, setup |-> m.setup,
                              outcome |-> IF m.act THEN "open" ELSE "cancelled"])
    IN  IF m.act THEN {IF Has(list, Standing) THEN list ELSE noted}
        ELSE IF Has(list, WaitHere) THEN {list, noted} ELSE {noted}

\* The levels are the plan's, the side is the decision's.  markPriceUpdate closes every open entry of the chart that has levels, by its id:
\* completeTrade writes the outcome into all entries with that id.
MarkPriceUpdate(list, c, price) ==
    LET Outcome(e) ==
            LET side == IF e.key[3] \in Buys THEN 1 ELSE -1
            IN  IF Gain(side, e.setup.stop, price) <= 0 THEN "loss"
                ELSE IF Gain(side, Targets(e.setup)[1], price) >= 0 THEN "win" ELSE "open"
        hit == {list[i].key : i \in {j \in DOMAIN list :
                    list[j].key[1] = c /\ list[j].outcome = "open" /\ Outcome(list[j]) # "open"}}
    IN  Map(list, LAMBDA e : IF e.key \in hit THEN [e EXCEPT !.outcome = Outcome(e)] ELSE e)

-----------------------------------------------------------------------------
(* Missed opportunities (missedOpportunity.ts), for the intraday profiles. *)

\* A taken signal is noted once a day.  A wait record takes the place of the one of its
\* side and day, unless that one is unresolved and less than 45 minutes old.
RecordMissed(list, c, m) ==
    LET taken == <<c, m.setup, SideOf(m.setup), day>>
        wait == <<c, Nil, m.hypo, day>>
        Note(id, dir, evidence) ==
            [id |-> id, dir |-> dir, at |-> m.price, mfe |-> 0, mae |-> 0,
             evidence |-> evidence, class |-> IF m.act THEN "taken" ELSE "correct_wait",
             resolved |-> m.act]
    IN  IF m.act
        THEN {IF Has(list, LAMBDA r : r.id = taken) THEN list
              ELSE OnTop(list, Note(taken, SideOf(m.setup), FALSE))}
        ELSE IF m.hypo = 0 THEN {list}
        ELSE LET renewed == OnTop(Without(list, LAMBDA r : r.id = wait), Note(wait, m.hypo, m.evidence))
             IN  IF Has(list, LAMBDA r : r.id = wait /\ ~r.resolved)
                 THEN {list, renewed} ELSE {renewed}

\* Ages: under two minutes, under ninety, ninety and more.  What the effect itself has
\* just noted is new.
EvaluateMissed(list, c, price) ==
    LET Age(r, age) == IF Has(records, LAMBDA x : x = r) THEN age ELSE "new"
        Pending(r) == r.id[1] = c /\ ~r.resolved
        Moved(r) == [r EXCEPT !.mfe = Larger(@, Gain(r.dir, r.at, price)),
                              !.mae = Larger(@, -Gain(r.dir, r.at, price))]
        Judged(r, age) ==
            IF age = "new" THEN r
            ELSE IF r.mfe >= Floor /\ r.evidence
            THEN [r EXCEPT !.resolved = TRUE, !.class = "missed"]
            ELSE IF r.mfe >= Floor \/ r.mae >= Floor \/ age = "old"
            THEN [r EXCEPT !.resolved = TRUE] ELSE r
    IN  {[i \in DOMAIN list |-> IF Pending(list[i])
                                 THEN Judged(Moved(list[i]), Age(list[i], age[i]))
                                 ELSE list[i]] : age \in [DOMAIN list -> {"new", "ripe", "old"}]}

-----------------------------------------------------------------------------
(* The validation log (validationSnapshot.ts, liveValidation.ts).          *)

\* freezeDecisionState with validExecutableSetup: an actionable decision has its entry as
\* trigger; a WAIT has the middle of its setup's zone when the setup leans to a side.
Freeze(c, m) ==
    LET leans == ~m.act /\ m.setup # Nil /\ m.hypo # 0
        trigger == IF m.act \/ leans THEN m.setup.entry ELSE Nil
    IN  [chart |-> c, kind |-> KindHere(m), spot |-> m.price,
         side |-> IF m.act THEN SideOf(m.setup) ELSE m.hypo,
         trigger |-> trigger,
         valid |-> m.act \/ (m.evidence /\ trigger # Nil)]

\* The id holds the kind of decision and a bucket of 15 seconds: within the bucket the
\* decision is not logged again.
LogDecision(list, c, m) ==
    IF ~validationOn THEN {list}
    ELSE {OnTop(list, [no |-> logged + 1, snap |-> Freeze(c, m), mfe |-> 0, hit |-> FALSE,
                       missed |-> "open"])}
         \cup {l \in {list} : Has(list, LAMBDA e : e.snap.chart = c /\ e.snap.kind = KindHere(m))}

\* Mutant: the excursion is the last price's, not the largest.
UpdateOutcomeMutant(e, price, old) ==
    LET s == e.snap
        g == Gain(s.side, s.spot, price)
        best == IF s.side = 0 THEN Larger(price - s.spot, s.spot - price) ELSE Larger(g, 0)
        hit == e.hit \/ (s.trigger # Nil /\ s.side # 0 /\ Gain(s.side, s.trigger, price) <= 0)
    IN  [e EXCEPT !.mfe = best, !.hit = hit,
                  !.missed = IF s.kind # "WAIT" THEN @
                             ELSE IF best >= Floor THEN IF s.valid /\ hit THEN "yes" ELSE "no"
                             ELSE "no"]


UpdateOutcome(e, price, old) ==
    LET s == e.snap
        g == Gain(s.side, s.spot, price)
        best == Larger(e.mfe, IF s.side = 0 THEN Larger(price - s.spot, s.spot - price) ELSE g)
        through == /\ s.trigger # Nil /\ s.side # 0
                   /\ \/ Gain(s.side, s.trigger, price) <= 0
                      \/ Gain(s.side, s.trigger, s.spot) <= 0
        hit == e.hit \/ through
    IN  [e EXCEPT !.mfe = best, !.hit = hit,
                  !.missed = IF s.kind # "WAIT" THEN @
                             ELSE IF best >= Floor THEN IF s.valid /\ hit THEN "yes" ELSE "no"
                             ELSE IF old /\ @ = "open" THEN "no" ELSE @]

TickPrice(list, c, price) ==
    IF ~validationOn THEN {list}
    ELSE {Map(list, LAMBDA e : IF e.snap.chart = c THEN UpdateOutcome(e, price, old) ELSE e)
            : old \in BOOLEAN}

-----------------------------------------------------------------------------
(* Personality snapshots (personalityLearning.ts), for the intraday profiles. *)

\* Ages: under five minutes, under twenty-five, older; what was just recorded is new.
EvaluateForward(list, c, price, age) ==
    LET Young(r) == age = "new" \/ ~Has(snapshots, LAMBDA x : x = r)
        Outcome(r) ==
            LET g == IF r.who.pref = 0 THEN Larger(price - r.at, r.at - price)
                     ELSE Gain(r.who.pref, r.at, price)
            IN  IF r.who.pref = 0
                THEN IF g < Thresh THEN "followed" ELSE IF g > 2 * Thresh THEN "failed" ELSE "choppy"
                ELSE IF g >= Thresh THEN "followed" ELSE IF g <= -Thresh THEN "failed" ELSE "choppy"
        Judged(r) == IF Young(r) \/ (age = "ripe" /\ Outcome(r) = "choppy") THEN r
                     ELSE [r EXCEPT !.outcome = Outcome(r)]
    IN  Map(list, LAMBDA r : IF r.chart = c /\ r.outcome = "unknown" THEN Judged(r) ELSE r)

\* A flip first judges the open snapshots, but a young or choppy one stays open.
RecordLive(list, c, price, who) ==
    LET Pending(r) == r.chart = c /\ r.outcome = "unknown"
        New(l) == OnTop(l, [chart |-> c, who |-> who, day |-> day, at |-> price,
                            outcome |-> "unknown"])
        open == SelectSeq(list, Pending)
    IN  IF \/ Has(list, LAMBDA r : Pending(r) /\ r.who = who /\ r.day = day)
           \/ open # <<>> /\ open[1].who = who
        THEN {list}
        ELSE IF open # <<>>
        THEN {New(EvaluateForward(list, c, price, age)) : age \in {"new", "ripe", "old"}}
        ELSE {New(list)}

\* closeSession, after the India cash close: what is still open ends as choppy.
CloseSession(list, c, price, age) ==
    Map(EvaluateForward(list, c, price, age),
        LAMBDA r : IF r.chart = c /\ r.outcome = "unknown" THEN [r EXCEPT !.outcome = "choppy"] ELSE r)

-----------------------------------------------------------------------------
Init ==
    /\ \E c \in Charts : chart = [p \in Panes |-> c]
    /\ prev = [p \in Panes |-> FALSE] /\ owed = Panes
    /\ kept \in Kept
    /\ market \in [Charts -> UNION {Feed[kept][c] : c \in Charts}]
    /\ \A c \in Charts : market[c] \in Feed[kept][c]
    /\ intraday \in BOOLEAN /\ past = FALSE /\ day = 0
    /\ paperOn = FALSE /\ validationOn = FALSE
    /\ entries = <<>> /\ records = <<>> /\ events = <<>> /\ trades = <<>>
    /\ snapshots = <<>> /\ plans = <<>> /\ logged = 0

(* The effect of useDecision in a pane, store by store and in its order.   *)

KeepJournal(c, m) ==
    IF "journal" \in kept
    THEN \E l \in RecordSignal(entries, c, m) : entries' = MarkPriceUpdate(l, c, m.price)
    ELSE UNCHANGED entries

KeepMissed(c, m) ==
    IF "missed" \in kept /\ intraday
    THEN \E l \in RecordMissed(records, c, m) : records' \in EvaluateMissed(l, c, m.price)
    ELSE IF "missed" \in kept THEN records' \in EvaluateMissed(records, c, m.price)
    ELSE UNCHANGED records

KeepValidation(c, m) ==
    IF "validation" \in kept
    THEN /\ \E l \in TickPrice(events, c, m.price) : events' \in LogDecision(l, c, m)
         /\ logged' = IF events' # <<>> /\ events'[1].no > logged THEN logged + 1 ELSE logged
         /\ logged' <= MaxEvents
    ELSE UNCHANGED <<events, logged>>

\* The price first closes what is open; only then may the decision open a trade.
KeepPaper(c, m) ==
    trades' = IF "paper" \in kept THEN OpenFromDecision(OnPrice(trades, c, m.price), c, m)
              ELSE trades

\* A decision may come without a personality; the second effect, which closes the session,
\* runs only if the price or the chart is what changed.
KeepPersonality(c, m) ==
    IF "personality" \in kept /\ intraday
    THEN \E who \in Personalities \cup {Nil}, age \in {"new", "ripe", "old"} :
         \E l \in IF who = Nil THEN {snapshots} ELSE RecordLive(snapshots, c, m.price, who) :
            LET seen == IF who = Nil THEN l ELSE EvaluateForward(l, c, m.price, age)
            IN  snapshots' \in IF past THEN {seen, CloseSession(seen, c, m.price, age)} ELSE {seen}
    ELSE UNCHANGED snapshots

KeepPlans(p, c, m) ==
    IF "plans" \notin kept THEN UNCHANGED <<plans, prev>>
    ELSE /\ prev' = [prev EXCEPT ![p] = m.act]
         /\ IF m.act THEN plans' \in UpsertFromPlan(plans, c, m)
            ELSE plans' = IF prev[p] THEN CancelActive(plans, c) ELSE plans

Effect(p) ==
    LET c == chart[p]
        m == market[c]
    IN  /\ p \in owed
        /\ owed' = owed \ {p}
        /\ KeepJournal(c, m) /\ KeepMissed(c, m) /\ KeepValidation(c, m)
        /\ KeepPaper(c, m) /\ KeepPersonality(c, m) /\ KeepPlans(p, c, m)
        /\ UNCHANGED <<chart, market, intraday, paperOn, validationOn, past, day, kept>>

-----------------------------------------------------------------------------
(* What makes the effects run, and the user's switches.                    *)

Showing(c) == {p \in Panes : chart[p] = c}

NewData(c) ==
    /\ owed = {} /\ Showing(c) # {}
    /\ \E m \in Feed[kept][c] : market' = [market EXCEPT ![c] = m]
    /\ owed' = Showing(c)
    /\ UNCHANGED <<chart, prev, intraday, paperOn, validationOn, past, day, kept, lists>>

\* Only the effect's part for the plans keeps something in the pane (prev); to the other
\* stores a pane that has switched is like one that showed the chart all along.
SwitchChart(p, c) ==
    /\ owed = {} /\ c # chart[p] /\ kept \cap {"journal", "plans"} # {}
    /\ chart' = [chart EXCEPT ![p] = c]
    /\ owed' = {p}
    /\ UNCHANGED <<prev, market, intraday, paperOn, validationOn, past, day, kept, lists>>

\* setEnabled of the paper trades or of the validation log, or another decision profile;
\* a change that no followed store would see is left out.
ChangeSettings ==
    /\ owed = {}
    /\ \/ "paper" \in kept /\ paperOn' = ~paperOn /\ UNCHANGED <<validationOn, intraday>>
       \/ "validation" \in kept /\ validationOn' = ~validationOn /\ UNCHANGED <<paperOn, intraday>>
       \/ kept # {"plans"} /\ intraday' = ~intraday
          /\ UNCHANGED <<paperOn, validationOn>>
    /\ owed' = Panes
    /\ UNCHANGED <<chart, prev, market, past, day, kept, lists>>

Clear ==
    /\ owed = {}
    /\ entries' = <<>> /\ records' = <<>> /\ events' = <<>> /\ trades' = <<>>
    /\ snapshots' = <<>> /\ plans' = <<>>
    /\ UNCHANGED <<desk, logged>>

\* The stores are in the browser's storage, the refs of the hooks are not.
Reload ==
    /\ owed = {}
    /\ prev' = [p \in Panes |-> FALSE] /\ owed' = Panes
    /\ UNCHANGED <<chart, market, intraday, paperOn, validationOn, past, day, kept, lists>>

\* The cash market closes, and the next day begins.
ClockMoves ==
    /\ owed = {} /\ kept \cap {"paper", "personality"} # {}
    /\ \/ ~past /\ "personality" \in kept /\ past' = TRUE /\ UNCHANGED day
       \/ (past \/ "paper" \in kept) /\ day < MaxDays /\ past' = FALSE /\ day' = day + 1
    /\ UNCHANGED <<chart, prev, market, owed, intraday, paperOn, validationOn, kept, lists>>

Next ==
    \/ \E p \in Panes : Effect(p)
    \/ \E c \in Charts : NewData(c) \/ \E p \in Panes : SwitchChart(p, c)
    \/ ChangeSettings \/ Clear \/ Reload \/ ClockMoves

Spec == Init /\ [][Next]_vars

-----------------------------------------------------------------------------
(* Properties.                                                             *)

Days == 0 .. MaxDays
EntryType ==
    [key : Charts \X BOOLEAN \X Kinds \X (Setups \cup {Nil}), setup : Setups \cup {Nil},
     outcome : {"open", "win", "loss", "cancelled"}]
RecordType ==
    [id : Charts \X (Setups \cup {Nil}) \X {1, -1} \X Days, dir : {1, -1}, at : Int,
     mfe : Nat, mae : Nat, evidence : BOOLEAN, class : {"taken", "correct_wait", "missed"},
     resolved : BOOLEAN]
SnapType ==
    [chart : Charts, kind : Kinds, spot : Int, side : {1, -1, 0}, trigger : Int \cup {Nil},
     valid : BOOLEAN]
EventType ==
    [no : 1 .. MaxEvents, snap : SnapType, mfe : Nat, hit : BOOLEAN, missed : {"open", "yes", "no"}]
TradeType ==
    [id : Charts \X Setups \X Days \X {1, -1}, chart : Charts, setup : Setups, side : {1, -1},
     entry : Int, mfe : Nat, mae : Nat, seen : BOOLEAN, reason : {"open", "sl", "tp1", "tp2"}, exit : Int \cup {Nil}]
PersonalityType ==
    [chart : Charts, who : Personalities, day : Days, at : Int,
     outcome : {"unknown", "followed", "failed", "choppy"}]
PlanType ==
    [chart : Charts, setup : Setups, seen : SUBSET Lifecycle, status : Lifecycle,
     fill : Int \cup {Nil}, won : {"yes", "no", "none"}, completed : BOOLEAN]
ListOf(S, list, cap) == list \in Seq(S) /\ Len(list) <= cap

TypeOK ==
    /\ chart \in [Panes -> Charts] /\ prev \in [Panes -> BOOLEAN]
    /\ market \in [Charts -> Markets] /\ \A c \in Charts : market[c] \in Feed[kept][c]
    /\ owed \subseteq Panes
    /\ intraday \in BOOLEAN /\ paperOn \in BOOLEAN /\ validationOn \in BOOLEAN
    /\ past \in BOOLEAN /\ day \in Days /\ kept \in Kept
    /\ logged \in 0 .. MaxEvents
    /\ ListOf(EntryType, entries, Cap) /\ ListOf(RecordType, records, Cap)
    /\ ListOf(EventType, events, Cap) /\ ListOf(TradeType, trades, Cap)
    /\ ListOf(PersonalityType, snapshots, Cap) /\ ListOf(PlanType, plans, PlanCap)

\* A paper trade ends at the first price that touches one of its levels
\* (paperTrading.ts:152): every price it has seen, but for the one that closed it, lies
\* between the stop and the first target, however many panes pass the price on and
\* whatever order they open and price trades in.  A price that touches both is the
\* stop's.  A sell of a bullish setup has a level on either side of every price, so that
\* it is over at the first.
ExitIsFirstTouch ==
    \A i \in DOMAIN trades :
        LET t == trades[i]
            at == LevelsFor(t.setup, t.side)
            best == t.entry + t.side * t.mfe
            worst == t.entry - t.side * t.mae
        IN  /\ t.mfe > 0 /\ t.exit # best => Gain(t.side, at.tp1, best) < 0
            /\ t.mae > 0 /\ t.exit # worst => Gain(t.side, at.stop, worst) > 0
            /\ ~Open(t) => (t.reason = "sl" <=> Gain(t.side, at.stop, t.exit) <= 0)
            /\ t.seen /\ t.side # t.setup.dir => ~Open(t)

\* A win or a loss is only booked for a plan whose entry was triggered, and nothing that
\* ends a plan has happened to one still open, although the events are derived anew from
\* whatever price the pane sees next (predictiveSignal.ts:204, tradeAnalytics.ts:305).
WonMeansEntered ==
    \A i \in DOMAIN plans :
        /\ plans[i].won # "none" => "entry_triggered" \in plans[i].seen
        /\ ~plans[i].completed => plans[i].seen \cap Terminal = {}

Stays(list, next, cap, Settled(_)) ==
    next = <<>> \/ \A i \in DOMAIN list :
        Settled(list[i]) => \/ Has(next, LAMBDA r : r = list[i])
                            \/ i = cap        \* the oldest of a full list

\* A closed paper trade, a judged personality and a completed plan are history: no later
\* price, decision or pane alters or drops one, save the oldest of a full list
\* (paperTrading.ts:156, personalityLearning.ts:203, backtest.ts:44).
HistoryKept ==
    [][/\ Stays(trades, trades', Cap, LAMBDA t : ~Open(t))
       /\ Stays(snapshots, snapshots', Cap, LAMBDA r : r.outcome # "unknown")
       /\ Stays(plans, plans', PlanCap, LAMBDA t : t.completed)]_vars

\* "Outcome updates MUST NOT rewrite the frozen snapshot" (liveValidation.ts:3), and a
\* miss once established is not taken back when the price turns.
MissStands ==
    [][\A i \in DOMAIN events, j \in DOMAIN events' :
          events[i].no = events'[j].no
             => /\ events'[j].snap = events[i].snap
                /\ events[i].missed = "yes" => events'[j].missed = "yes"]_vars

=============================================================================
