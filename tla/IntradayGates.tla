---------------------------- MODULE IntradayGates ----------------------------
(***************************************************************************)
(* The intraday and scalping decision (intradayDecision.ts): a trade is    *)
(* Confirmed (grade A) on structure and three factors of confluence, or    *)
(* Early (grade B) on the early patterns.  i is the record of inputs that  *)
(* the institutional gates read, with the chart's timeframe, and the BOS   *)
(* and CHoCH events, each the side in its name or "none", oldest first;    *)
(* cs are the candles, scan and p their early patterns and personality.    *)
(***************************************************************************)
EXTENDS InstitutionalGates

\* INTRADAY_MODEL; minRr and the like in hundredths.
INTRADAY_MODEL ==
    [scalping |-> FALSE, trendFloor |-> 52, setupFloor |-> 58,
     zoneFloor |-> [ob |-> 58, fvg |-> 55, sweep |-> 55],
     minRr |-> 200, maxRisk |-> 225, volumeFloor |-> 48,
     earlyScore |-> 38, earlyRr |-> 180, earlyRisk |-> 200, earlySetup |-> 48,
     earlyFloor |-> 48, earlyCap |-> 64]

\* Mutant: the scalping model waits for fewer tells before an early entry.
SCALPING_MODELMutant ==
    [scalping |-> TRUE, trendFloor |-> 54, setupFloor |-> 50,
     zoneFloor |-> [ob |-> 60, fvg |-> 58, sweep |-> 58],
     minRr |-> 200, maxRisk |-> 135, volumeFloor |-> 55,
     earlyScore |-> 42, earlyRr |-> 200, earlyRisk |-> 120, earlySetup |-> 52,
     earlyFloor |-> 50, earlyCap |-> 62]

\* SCALPING_MODEL: the stop may be 15 points away, and targets are not projected.
SCALPING_MODEL ==
    [scalping |-> TRUE, trendFloor |-> 54, setupFloor |-> 60,
     zoneFloor |-> [ob |-> 60, fvg |-> 58, sweep |-> 58],
     minRr |-> 200, maxRisk |-> 135, volumeFloor |-> 55,
     earlyScore |-> 42, earlyRr |-> 200, earlyRisk |-> 120, earlySetup |-> 52,
     earlyFloor |-> 50, earlyCap |-> 62]

SoftMaxRiskPoints == 15
PreferredTimeframes == {"1m", "5m", "15m"}
\* The setup types in which the name of a tradable type occurs.
TradableTypes == {"pullback", "trend_continuation", "breakout", "range_breakout", "reversal",
                  "order_block_reversal", "liquidity_sweep_reversal", "range_rejection"}

\* momentumDir: the change over eight bars in thousandths of a percent.
Drift(cs) ==
    LET change == Part(cs[Len(cs)].c - cs[Len(cs) - 7].c, cs[Len(cs) - 7].c, 100000)
    IN IF Len(cs) < 8 THEN "flat"
       ELSE IF change > 120 THEN "buy" ELSE IF change < -120 THEN "sell" ELSE "flat"

\* volumeQuality of the intraday profile.
Participation(cs) ==
    LET x == LastN(20, cs)
        Volume(k) == x[k].v
        total == MapThenSumSet(Volume, DOMAIN x)
    IN IF Len(cs) < 20 \/ total = 0 THEN 50 ELSE Clamp(Round((110000 * x[20].v) \div total), 0, 100)

\* expectedRr: Nil without a risk; the first target counts if it clears minRr, and
\* is otherwise projected to it, except for scalping.  risk is twice the distance.
ExpectedRr(setup, bullish, M, minRr) ==
    LET entry == setup.entry[1] + setup.entry[2]
        stop == 2 * setup.stop[IF bullish THEN 1 ELSE 2]
        risk == AbsVal(entry - stop)
        engine == IF setup.targets = <<>> THEN Nil
                  ELSE (100 * AbsVal(2 * setup.targets[1][IF bullish THEN 2 ELSE 1] - entry)) \div risk
    IN IF risk = 0 \/ (engine = Nil /\ M.scalping) THEN Nil
       ELSE [rr |-> IF ~M.scalping /\ (engine = Nil \/ engine < minRr) THEN minRr ELSE engine,
             risk |-> risk,
             riskPct |-> (10000 * risk) \div entry]

\* computeScalpGeometry and scalpRrAcceptable: the ratio and a stop that is near.
PointsOk(M, plan) ==
    M.scalping => plan # Nil /\ plan.rr >= M.minRr /\ plan.risk <= 2 * SoftMaxRiskPoints

PlanFits(plan, minRr, maxRisk) == plan # Nil /\ plan.rr >= minRr /\ plan.riskPct <= maxRisk

\* recentStructure, of the last four events: one for this side, or only events
\* that name no side.
Recent(names, side) ==
    LET x == LastN(4, names)
    IN x # <<>> /\ (side \in ToSet(x) \/ ToSet(x) = {"none"})

\* buildIntradayMtf
IntradayMtf(i, side) ==
    2 <= Cardinality({tf \in Timeframes :
                        /\ Confidence(i, i.trends[tf]) >= 45
                        /\ ToneSide(i.trends[tf].side) = side})

\* Mutant: the newest zone of the kind alone is looked at, whatever it is.
HasZoneMutant(i, M, kind, side) ==
    LET kinds == {y \in i.zones : y.kind = kind} IN
    \E z \in kinds :
        /\ z = CHOOSE y \in kinds : \A w \in kinds : y.fill >= w.fill
        /\ z.side = side /\ z.confidence >= M.zoneFloor[kind]
        /\ kind = "ob" => z.state \in {"untouched", "first_touch"}

\* bestOb, bestFvg, bestSweep: any word about mitigation disqualifies a block.
HasZone(i, M, kind, side) ==
    \E z \in i.zones :
        /\ z.kind = kind /\ z.side = side /\ z.confidence >= M.zoneFloor[kind]
        /\ kind = "ob" => z.state \in {"untouched", "first_touch"}
        /\ kind = "fvg" => z.fill < 70

FactorWeights ==
    [setup_quality |-> 120, chart_trend |-> 110, structure |-> 130, order_block |-> 120,
     fvg |-> 90, sweep |-> 100, momentum |-> 90, volume |-> 80, mtf |-> 100, rr |-> 140,
     early_patterns |-> 125, personality |-> 145]

\* What the personality says of a trade on this side.
Agrees(p, side) == p.prefers # "wait" /\ p.prefers = side
Opposes(p, side) == p.prefers \notin {"wait", side} /\ p.strength >= 62 /\ p.confidence >= 55
WaitContext(p) == p.prefers = "wait" /\ p.strength >= 55 /\ p.patience > 40

\* earlyAligned: floors that the personality moves.
EarlyAligned(M, scan, p, side) ==
    LET mult == EarlyMultiplier(p)
        floor == Clamp(Round((10000 * M.earlyScore) \div mult), 28, 48)
        hits == IF mult <= 85 THEN 3 ELSE 2
    IN /\ scan.hits[side] >= hits
       /\ scan.score >= floor
       /\ scan.prefers \in {side, "wait"}

\* The side the gates are checked for, and the side of the decision.
TradeSide(setup) == IF setup.direction = "buy" THEN "buy" ELSE "sell"

TypeTradable(setup) == setup.type \in TradableTypes

\* The factors of confluence that hold.
Factors(i, M, cs, scan, p) ==
    LET side == TradeSide(i.setup)
        Fact(id, holds) == IF holds THEN {id} ELSE {}
    IN UNION {
        Fact("setup_quality", i.setup.confidence >= M.setupFloor /\ TypeTradable(i.setup)),
        Fact("chart_trend", /\ i.trend # Nil /\ ToneSide(i.trend.side) = side
                            /\ Confidence(i, i.trend) >= M.trendFloor),
        Fact("structure", Recent(i.bos, side) \/ Recent(i.choch, side)),
        Fact("order_block", HasZone(i, M, "ob", side)),
        Fact("fvg", HasZone(i, M, "fvg", side)),
        Fact("sweep", HasZone(i, M, "sweep", side)),
        Fact("momentum", Drift(cs) = side),
        Fact("volume", Participation(cs) >= M.volumeFloor),
        Fact("mtf", IntradayMtf(i, side)),
        Fact("rr", PlanFits(ExpectedRr(i.setup, side = "buy", M, M.minRr), M.minRr, M.maxRisk)),
        Fact("early_patterns", EarlyAligned(M, scan, p, side)),
        Fact("personality", Agrees(p, side) \/ (p.prefers = "wait" /\ p.strength < 55))}

\* confluenceScore
Confluence(factors) ==
    LET Weight(k) == FactorWeights[k]
    IN Clamp(Round((10000 * MapThenSumSet(Weight, factors)) \div MapThenSumSet(Weight, DOMAIN FactorWeights)),
             0, 100)

TimeframeOk(i, M) == M.scalping => i.timeframe \in PreferredTimeframes
ZoneSmc(factors) ==
    factors \cap {"order_block", "fvg", "sweep", "structure", "early_patterns"} # {}

\* Level 2, Confirmed.
Confirmed(i, M, factors, p) ==
    LET side == TradeSide(i.setup)
        hits == Cardinality(factors)
        plan == ExpectedRr(i.setup, side = "buy", M, M.minRr)
    IN /\ TimeframeOk(i, M)
       /\ hits >= 3 /\ ZoneSmc(factors)
       /\ {"setup_quality", "rr", "structure"} \subseteq factors
       /\ Opposes(p, side) => hits >= 6
       /\ ~(WaitContext(p) /\ p.patience > 55 /\ hits < 5)
       /\ PointsOk(M, plan)

\* Level 1, Early.
Early(i, M, factors, scan, p) ==
    LET side == TradeSide(i.setup)
        plan == ExpectedRr(i.setup, side = "buy", M, M.earlyRr)
    IN /\ TimeframeOk(i, M)
       /\ "early_patterns" \in factors
       /\ PlanFits(plan, M.earlyRr, M.earlyRisk) /\ PointsOk(M, plan)
       /\ i.setup.confidence >= M.earlySetup /\ TypeTradable(i.setup)
       /\ scan.prefers = side \/ factors \cap {"momentum", "chart_trend"} # {}
       /\ Agrees(p, side) /\ ~WaitContext(p) /\ ~Opposes(p, side)

\* waitDecision, without a setup.
NoSetup(scan, p) ==
    [direction |-> "wait", strong |-> FALSE, level |-> "none",
     confidence |-> Clamp(Round(45 * scan.score), 12, 45),
     reasons |-> {"setup", "personality"}, unlock |-> {"setup", "personality"}]

\* The confidence shown, with the personality's share.
Shown(M, level, setup, confluence, scan, p) ==
    CASE level = "confirmed" ->
           Clamp(Round(70 * Clamp(Round(50 * setup + 50 * confluence), 0, 100) + 30 * p.confidence), 0, 100)
      [] level = "early" ->
           LET conf == Clamp(Round(100 * M.earlyFloor + 25 * scan.score + 15 * setup), M.earlyFloor, M.earlyCap)
           IN Clamp(Round(55 * conf + 25 * p.strength + 20 * p.confidence), M.earlyFloor, M.earlyCap)
      [] OTHER -> Clamp(Round(Larger(55 * confluence, 60 * scan.score)), 0, 55)

\* What the card teaches: the factors missing and the blocks that apply.
Unlock(i, M, factors, p) ==
    LET side == TradeSide(i.setup)
        plan == ExpectedRr(i.setup, side = "buy", M, M.minRr)
        early == ExpectedRr(i.setup, side = "buy", M, M.earlyRr)
    IN (DOMAIN FactorWeights \ (factors \cup {"early_patterns"}))
       \cup (IF ~TimeframeOk(i, M) THEN {"timeframe"} ELSE {})
       \cup (IF ~ZoneSmc(factors) THEN {"zone"} ELSE {})
       \cup (IF ~PointsOk(M, plan) \/ ~PointsOk(M, early) THEN {"points"} ELSE {})
       \cup (IF Opposes(p, side) THEN {"opposes"} ELSE {})

LevelOf(i, M, factors, scan, p) ==
    IF Confirmed(i, M, factors, p) THEN "confirmed"
    ELSE IF Early(i, M, factors, scan, p) THEN "early" ELSE "none"

\* The card of deriveIntradayDecision.
IntradayCard(i, M, factors, level, confluence, scan, p) ==
    LET score == Clamp(Round(55 * confluence + 45 * i.setup.confidence), 0, 100)
    IN [direction |-> IF level = "none" THEN "wait" ELSE TradeSide(i.setup),
        strong |-> /\ level = "confirmed" /\ Cardinality(factors) >= 6
                   /\ i.setup.confidence >= 72 /\ score >= 78,
        level |-> level,
        confidence |-> Shown(M, level, i.setup.confidence, confluence, scan, p),
        reasons |-> IF level = "none" THEN Unlock(i, M, factors, p) ELSE {},
        unlock |-> Unlock(i, M, factors, p)]

Graded(i, M, factors, scan, p) ==
    IntradayCard(i, M, factors, LevelOf(i, M, factors, scan, p), Confluence(factors), scan, p)

\* deriveIntradayDecision
Intraday(i, M, cs, scan, p) ==
    IF i.setup = Nil THEN NoSetup(scan, p) ELSE Graded(i, M, Factors(i, M, cs, scan, p), scan, p)
=============================================================================
