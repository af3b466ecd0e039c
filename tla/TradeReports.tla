---------------------------- MODULE TradeReports ----------------------------
(***************************************************************************)
(* The reports the terminal draws from its browser stores at every render: *)
(* the performance snapshot of the tracked plans (tradeAnalytics.ts), the  *)
(* day's missed opportunities, paper trades and personalities, and the     *)
(* daily report that puts them together.  A report is drawn over rows of a *)
(* list, as the set of their places; the newest record is at place 1.  A   *)
(* table is a function of what its lines are about.  A rate is a pair of   *)
(* counts, an average a pair of sum and count.  Texts, holding times and   *)
(* the leaderboard, an order of the strategies by score, are left out.     *)
(***************************************************************************)
EXTENDS TradeJournal, FiniteSetsExt

CONSTANTS
    StrategyOf, TypeOf, ConfidenceOf,    \* of a setup
    SymbolOf, MarketOf, TimeframeOf,     \* of a chart
    Ladder,          \* the points of a miss that are counted (10, 15, 20, 25)
    Late, Early      \* how far from its entry a late fill is at least, an early one at most

ASSUME ReportsAssumption ==
    /\ \A s \in Setups : ConfidenceOf[s] \in 0 .. 100
    /\ Late \in Nat /\ Early \in Nat /\ Early <= Late
    /\ IsFiniteSet(Ladder) /\ Ladder \subseteq Nat

\* Of an amount for each row.
Average(amounts) == [sum |-> SumFunction(amounts), n |-> Cardinality(DOMAIN amounts)]
\* Of a rate for each row: the first row with the highest, with the lowest.  Rates are
\* compared as fractions.
Above(r, q) == r.hits * q.n > q.hits * r.n
Highest(rates) == Min({i \in DOMAIN rates : \A j \in DOMAIN rates : ~Above(rates[j], rates[i])})
Lowest(rates) == Min({i \in DOMAIN rates : \A j \in DOMAIN rates : ~Above(rates[i], rates[j])})

-----------------------------------------------------------------------------
(* A plan in the reports.                                                  *)

Risk(t) == Gain(t.setup.dir, t.setup.stop, t.setup.entry)
Exit(t) == LET target == Targets(t.setup)
           IN  IF t.status = "target_3_hit" /\ target[3] # Nil THEN target[3]
               ELSE IF t.status = "target_2_hit" /\ target[2] # Nil THEN target[2] ELSE target[1]

\* pnl_r: a stop costs one risk, a target pays its distance; open and cancelled plans
\* have none.  The multiples are whole in the model.
PnlR(t) == CASE t.won = "no" -> -1
             [] t.won = "yes" -> Gain(t.setup.dir, t.setup.entry, Exit(t)) \div Risk(t)
             [] OTHER -> 0
PlannedR(t) == Gain(t.setup.dir, t.setup.entry, Targets(t.setup)[1]) \div Risk(t)

\* Nothing pushes "false_negative".
Tags(t) ==
    LET off == Larger(t.fill - t.setup.entry, t.setup.entry - t.fill)
        timed == t.fill # Nil /\ t.status # "cancelled"
    IN  {tag \in {"false_positive", "missed_trade", "cancelled_trade", "late_entry", "early_entry"} :
            /\ t.completed
            /\ CASE tag = "false_positive" -> t.status = "stop_hit"
                 [] tag = "missed_trade" -> t.status \in {"entry_missed", "expired"}
                 [] tag = "cancelled_trade" -> t.status = "cancelled"
                 [] tag = "late_entry" -> timed /\ off > Late
                 [] tag = "early_entry" -> timed /\ off < Early /\ t.setup.dir = 1
                                           /\ t.fill > t.setup.entry}

\* The rule a review blames, or none: plans that won, and plans not reviewed.
FailedRule(t) ==
    IF ~t.completed \/ t.won = "yes" THEN Nil
    ELSE IF t.status = "stop_hit"
    THEN IF "early_entry" \in Tags(t) THEN "early" ELSE IF "late_entry" \in Tags(t) THEN "late" ELSE "edge"
    ELSE IF t.status \in {"entry_missed", "expired"} THEN "zone" ELSE "stability"

-----------------------------------------------------------------------------
(* The performance snapshot, over rows of the plans.                       *)

Completed(rows) == {i \in rows : plans[i].completed /\ plans[i].won # "none"}
Winners(rows) == {i \in Completed(rows) : plans[i].won = "yes"}
Losers(rows) == {i \in Completed(rows) : plans[i].won = "no"}
WinRate(rows) == [hits |-> Cardinality(Winners(rows)), n |-> Cardinality(Completed(rows))]
Gains == [i \in DOMAIN plans |-> PnlR(plans[i])]

\* What a walk over rows has summed up after each of them: a chain of sets.
FromNewest(rows) == {{j \in rows : j <= i} : i \in rows}
FromOldest(rows) == {{j \in rows : j >= i} : i \in rows}
\* The curve's points at, or before, a step of the walk.
Curve(gains, walk, step) == {SumFunctionOnSet(gains, s) : s \in {t \in walk : t \subseteq step}}
\* Mutant: the curve's first peak is its first point, so a loss to begin with is none.
DrawdownMutant(gains, walk) ==
    Max({0} \cup {Max(Curve(gains, walk, s)) - SumFunctionOnSet(gains, s) : s \in walk})
\* The deepest fall of the running sum below its peak, which starts at nothing.
Drawdown(gains, walk) ==
    Max({0} \cup {Max({0} \cup Curve(gains, walk, s)) - SumFunctionOnSet(gains, s) : s \in walk})

\* An average leaves out multiples that are not positive.
MeanR(rows) ==
    LET R(t) == IF PnlR(t) > 0 THEN PnlR(t) ELSE PlannedR(t)
    IN  Average([i \in {j \in rows : R(plans[j]) > 0} |-> R(plans[i])])
MeanSize(rows) == Average([i \in rows |-> Larger(PnlR(plans[i]), -PnlR(plans[i]))])

StrategyStats(name, rows) ==
    LET all == {i \in rows : StrategyOf[plans[i].setup] = name}
        done == Completed(all)
    IN  [signals |-> Cardinality(all), active |-> Cardinality({i \in all : ~plans[i].completed}),
         wins |-> Cardinality(Winners(all)), losses |-> Cardinality(Losers(all)),
         winRate |-> WinRate(all), rr |-> MeanR(done),
         drawdown |-> Drawdown(Gains, FromNewest(done)),
         gross |-> SumFunctionOnSet(Gains, Winners(all)), cost |-> -SumFunctionOnSet(Gains, Losers(all))]

Strategies(rows) ==
    [name \in {StrategyOf[plans[i].setup] : i \in rows} |-> StrategyStats(name, rows)]

\* The rate of the strategy of each completed plan.
StrategyRates(done) ==
    [i \in done |-> WinRate({j \in done : StrategyOf[plans[j].setup] = StrategyOf[plans[i].setup]})]
SymbolStats(sym, rows) ==
    LET subset == {i \in rows : SymbolOf[plans[i].chart] = sym}
        done == Completed(subset)
        names == {StrategyOf[plans[i].setup] : i \in done}
        Named(i) == StrategyOf[plans[i].setup]
    IN  [winRate |-> WinRate(subset), signals |-> Cardinality(subset), rr |-> MeanSize(done),
         best |-> IF done = {} THEN Nil ELSE Named(Highest(StrategyRates(done))),
         worst |-> IF Cardinality(names) < 2 THEN Nil ELSE Named(Lowest(StrategyRates(done)))]

\* Only four timeframes have a row; plans of the shorter ones are in none.
Timeframes == {"15m", "1h", "4h", "1d"}
TimeframeStats(tf, rows) ==
    LET subset == {i \in rows : TimeframeOf[plans[i].chart] = tf}
    IN  [winRate |-> WinRate(subset), signals |-> Cardinality(subset),
         accuracy |-> [hits |-> Cardinality(Completed(subset)), n |-> Cardinality(subset)],
         rr |-> MeanSize(Completed(subset))]

\* Predicted confidence against the wins that came: off by fifteen points at most.
Buckets == {<<90, 100>>, <<80, 89>>, <<70, 79>>, <<60, 69>>, <<0, 59>>}
Calibration(bucket, rows) ==
    LET inside == {i \in rows : ConfidenceOf[plans[i].setup] \in bucket[1] .. bucket[2]}
        rate == WinRate(inside)
        off == 200 * rate.hits - (bucket[1] + bucket[2]) * rate.n
    IN  [count |-> rate.n, winRate |-> rate,
         calibrated |-> IF rate.n >= 5 THEN Larger(off, -off) <= 30 * rate.n ELSE rate.n = 0]

Benchmarks(rows) ==
    [tag \in {"false_positive", "false_negative", "late_entry", "early_entry", "missed_trade",
              "cancelled_trade"} |-> Cardinality({i \in rows : tag \in Tags(plans[i])})]

\* The improvement report.  A setup type's rate counts its open and cancelled plans as
\* not won.  All plans in the model are of the last seven days.
TypeRates(rows) ==
    [i \in rows |->
        LET same == {j \in rows : TypeOf[plans[j].setup] = TypeOf[plans[i].setup]}
        IN  [hits |-> Cardinality({j \in same : plans[j].won = "yes"}), n |-> Cardinality(same)]]
Blames(rows) ==
    [i \in rows |-> [hits |-> Cardinality({j \in rows : FailedRule(plans[j]) = FailedRule(plans[i])}), n |-> 1]]
MarketRates(done) ==
    [i \in done |-> WinRate({j \in done : MarketOf[plans[j].chart] = MarketOf[plans[i].chart]})]
Improvement(rows) ==
    LET blamed == {i \in rows : FailedRule(plans[i]) # Nil}
        done == Completed(rows)
        tags == Benchmarks(rows)
    IN  [best |-> IF rows = {} THEN Nil ELSE TypeOf[plans[Highest(TypeRates(rows))].setup],
         worst |-> IF rows = {} THEN Nil ELSE TypeOf[plans[Lowest(TypeRates(rows))].setup],
         failure |-> IF blamed = {} THEN Nil ELSE FailedRule(plans[Highest(Blames(blamed))]),
         market |-> IF done = {} THEN Nil ELSE MarketOf[plans[Highest(MarketRates(done))].chart],
         suggested |-> {x \in {"gates", "entries", "confidence"} :
            CASE x = "gates" -> tags["false_positive"] > tags["missed_trade"]
              [] x = "entries" -> tags["late_entry"] > 0
              [] x = "confidence" -> \E b \in Buckets : Calibration(b, rows).count >= 5
                                                        /\ ~Calibration(b, rows).calibrated}]

Snapshot(rows) ==
    [strategies |-> Strategies(rows),
     symbols |-> [sym \in {SymbolOf[plans[i].chart] : i \in rows} |-> SymbolStats(sym, rows)],
     markets |-> [m \in {MarketOf[plans[i].chart] : i \in rows} |->
                    Strategies({i \in rows : MarketOf[plans[i].chart] = m})],
     timeframes |-> [tf \in Timeframes |-> TimeframeStats(tf, rows)],
     calibration |-> [b \in Buckets |-> Calibration(b, rows)],
     benchmarks |-> Benchmarks(rows),
     weekly |-> Improvement(rows)]

-----------------------------------------------------------------------------
(* The day's reports, over rows of the trades, the records, the snapshots  *)
(* and the events.                                                         *)

\* A trade belongs to the day it was opened on, whenever it closes.
Points(t) == Gain(t.side, t.entry, t.exit)
PointsOf(rows) == [i \in rows |-> Points(trades[i])]
ClosedOn(d) == {i \in DOMAIN trades : trades[i].id[3] = d /\ ~Open(trades[i])}
DayStats(d) ==
    LET closed == ClosedOn(d)
        wins == {i \in closed : Points(trades[i]) > 0}
        losses == {i \in closed : Points(trades[i]) <= 0}
    IN  [n |-> Cardinality(closed), wins |-> Cardinality(wins), losses |-> Cardinality(losses),
         avgWin |-> Average(PointsOf(wins)), avgLoss |-> Average(PointsOf(losses)),
         expectancy |-> Average(PointsOf(closed)),
         profit |-> SumFunction(PointsOf(wins)), cost |-> -SumFunction(PointsOf(losses)),
         mfe |-> Average([i \in closed |-> trades[i].mfe]),
         mae |-> Average([i \in closed |-> trades[i].mae]),
         drawdown |-> Drawdown(PointsOf(closed), FromOldest(closed))]

\* scoreFromReport: a miss is also an incorrect wait and charged as both.
Score(misses, incorrect, correct, taken) ==
    LET n == incorrect + correct + taken
        raw == (200 * n - 20 * (12 * misses + 8 * incorrect) + 10 * (2 * correct + taken) + n) \div (2 * n)
    IN  IF n = 0 THEN 100 ELSE Max({0, Min({100, raw})})

ThresholdsHit(r) == {x \in Ladder : x <= r.mfe}
MissedReport(d) ==
    LET list == {i \in DOMAIN records : records[i].id[4] = d}
        Class(k, dir) == Cardinality({i \in list : records[i].class = k /\ records[i].dir = dir})
        missed == Class("missed", 1) + Class("missed", -1)
        taken == Class("taken", 1) + Class("taken", -1)
        correct == Cardinality({i \in list : records[i].class = "correct_wait"})
    IN  [n |-> Cardinality(list), buys |-> Class("taken", 1), sells |-> Class("taken", -1),
         correct |-> correct, incorrect |-> missed,
         missedBuys |-> Class("missed", 1), missedSells |-> Class("missed", -1),
         points |-> Average([i \in {j \in list : records[j].class = "missed"} |-> records[i].mfe]),
         mfe |-> Average([i \in list |-> records[i].mfe]), mae |-> Average([i \in list |-> records[i].mae]),
         hits |-> [x \in Ladder |->
            Cardinality({i \in list : records[i].class # "taken" /\ x \in ThresholdsHit(records[i])})],
         score |-> Score(missed, missed, correct, taken)]

\* What a personality came to: the rate, rounded to percent, counts every snapshot that
\* was followed among those that preferred a side.
Resolved == {i \in DOMAIN snapshots : snapshots[i].outcome # "unknown"}
PersonalityStats(name) ==
    LET list == {i \in Resolved : snapshots[i].who.name = name}
        Came(o) == Cardinality({i \in list : snapshots[i].outcome = o})
        sided == Cardinality({i \in list : snapshots[i].who.pref # 0})
    IN  [samples |-> Cardinality(list), followed |-> Came("followed"),
         failed |-> Came("failed"), choppy |-> Came("choppy"),
         rate |-> IF sided = 0 THEN 0 ELSE (200 * Came("followed") + sided) \div (2 * sided)]
\* The personality with the highest rate, of those with the same the one with most samples.
BestPersonality ==
    LET Stats(i) == PersonalityStats(snapshots[i].who.name)
        Ahead(a, b) == a.rate > b.rate \/ (a.rate = b.rate /\ a.samples > b.samples)
    IN  IF Resolved = {} THEN Nil
        ELSE snapshots[Min({i \in Resolved : \A j \in Resolved : ~Ahead(Stats(j), Stats(i))})].who.name

\* The best and the worst trade of the day, the first of the most points and the last of
\* the fewest.
BestTrade(closed) ==
    IF closed = {} THEN Nil
    ELSE trades[Min({i \in closed : \A j \in closed : Points(trades[j]) <= Points(trades[i])})]
WorstTrade(closed) ==
    IF closed = {} THEN Nil
    ELSE trades[Max({i \in closed : \A j \in closed : Points(trades[j]) >= Points(trades[i])})]

\* The events in the log are of one day in the model.  A day without events takes its size
\* from the missed opportunities, and without those from the paper trades.
DailyReport(d) ==
    LET missed == MissedReport(d)
        paper == DayStats(d)
        Side(kinds) == Cardinality({i \in DOMAIN events : events[i].snap.kind \in kinds})
    IN  [size |-> IF events # <<>> THEN Len(events) ELSE IF missed.n > 0 THEN missed.n ELSE paper.n,
         buys |-> Side({"BUY", "STRONG BUY"}), sells |-> Side({"SELL", "STRONG SELL"}),
         waits |-> Side({"WAIT"}), missed |-> missed, paper |-> paper,
         best |-> BestTrade(ClosedOn(d)), worst |-> WorstTrade(ClosedOn(d)),
         people |-> BestPersonality]

-----------------------------------------------------------------------------
(* Properties.                                                             *)

\* The worst stretch of consecutive results.
WorstRun(gains, rows) ==
    Max({0} \cup {-SumFunctionOnSet(gains, rows \cap (run[1] .. run[2])) : run \in rows \X rows})

SnapshotBalances ==
    LET all == DOMAIN plans
        report == Snapshot(all)
        done == Completed(all)
        lines == report.strategies
    IN  /\ SumFunction([name \in DOMAIN lines |-> lines[name].wins]) = Cardinality(Winners(all))
        /\ SumFunction([name \in DOMAIN lines |-> lines[name].losses]) = Cardinality(Losers(all))
        /\ SumFunction([name \in DOMAIN lines |-> lines[name].signals]) = Len(plans)
        /\ SumFunction([sym \in DOMAIN report.symbols |-> report.symbols[sym].winRate.hits])
             = Cardinality(Winners(all))
        /\ SumFunction([sym \in DOMAIN report.symbols |-> report.symbols[sym].winRate.n]) = Cardinality(done)
        /\ SumFunction([b \in Buckets |-> report.calibration[b].count]) = Cardinality(done)
        /\ \A name \in DOMAIN lines :
               lines[name].drawdown = WorstRun(Gains, {i \in done : StrategyOf[plans[i].setup] = name})
        /\ \A i \in done : (plans[i].won = "no") <=> ("false_positive" \in Tags(plans[i]))

DayBalances(d) ==
    LET daily == DailyReport(d)
    IN  /\ daily.paper.wins + daily.paper.losses = daily.paper.n
        /\ daily.paper.drawdown = WorstRun(PointsOf(ClosedOn(d)), ClosedOn(d))
        /\ daily.buys + daily.sells + daily.waits = Len(events)
        /\ daily.missed.buys + daily.missed.sells + daily.missed.correct
             + daily.missed.incorrect = daily.missed.n
        /\ \A x \in Ladder : x <= Floor => daily.missed.incorrect <= daily.missed.hits[x]

\* The tables of the performance snapshot count the same wins and losses, whatever the
\* plans went through: by strategy, by symbol and by confidence (tradeAnalytics.ts:392,
\* 449, 510); every loss is a false positive and no win is one (:229).  A drawdown is the
\* worst run of results although the curve is walked from the newest plan back (:403), and
\* the day's paper trades from the oldest on (paperTrading.ts:272).  The daily report
\* counts every event and trade once, and a miss has moved the points of a miss.
BooksBalance ==
    /\ plans # <<>> => SnapshotBalances
    /\ records \o events \o trades # <<>> => \A d \in 0 .. day : DayBalances(d)

=============================================================================
