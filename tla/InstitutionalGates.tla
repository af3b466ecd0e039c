------------------------- MODULE InstitutionalGates -------------------------
(***************************************************************************)
(* The institutional decision (decision.ts): WAIT unless every gate passes.*)
(* Its inputs are a record i: the timeframe and its trend, the trends of   *)
(* the four timeframes, the setup, the setup types the matched strategy    *)
(* accepts, the zones, the unit the server sends confidences in ("percent" *)
(* or "fraction"), and the candles cs.                                     *)
(* Confidences and scores are percent; ratios of reward to risk are        *)
(* hundredths; an amount read as percent that is a fraction is cut to 0.   *)
(***************************************************************************)
EXTENDS MarketTape

Timeframes == {"15m", "1h", "4h", "1d"}   \* MTF_TIMEFRAMES
RangePhases == {"ranging", "accumulation", "distribution"}
RangeTypes == {"range_rejection", "range_breakout"}

\* directionTone, as the side a trader takes.
ToneSide(direction) ==
    CASE direction \in {"bullish", "buy"} -> "buy"
      [] direction \in {"bearish", "sell"} -> "sell"
      [] OTHER -> "neutral"

\* A confidence as it is sent: trends, unlike zones, are read without converting.
Sent(i, confidence) == IF i.unit = "fraction" THEN confidence \div 100 ELSE confidence
Confidence(i, trend) == IF trend = Nil THEN 0 ELSE Sent(i, trend.confidence)
Strong(i, trend) == Confidence(i, trend) >= 72

\* trendBiasLabel: weak trends have no side.
TrendBias(i, trend) == IF Strong(i, trend) THEN ToneSide(trend.side) ELSE "neutral"

\* buildMtfAnalysis for the side of the setup, or of the trend without a setup.
Mtf(i, side) ==
    LET bias == [tf \in Timeframes |-> TrendBias(i, i.trends[tf])]
        checked == side \in Sides /\ \E tf \in Timeframes : bias[tf] # "neutral"
        agree == IF checked THEN Cardinality({tf \in Timeframes : bias[tf] = side}) ELSE 0
        htf == checked /\ bias["4h"] = side /\ bias["1d"] = side
    IN [agree |-> agree, htf |-> htf, hour |-> bias["1h"],
        aligned |-> /\ htf /\ agree >= 3
                    /\ \A tf \in Timeframes : bias[tf] \in {side, "neutral"}]

\* The score of the first band <<floor, score>> that n reaches, or the last score.
Banded(n, bands, last) ==
    LET reached == {k \in DOMAIN bands : n >= bands[k][1]}
    IN IF reached = {} THEN last ELSE bands[Min(reached)][2]

VolumeQuality(cs) ==
    LET x == LastN(20, cs)
        Volume(k) == x[k].v
        total == MapThenSumSet(Volume, DOMAIN x)
    IN IF Len(cs) < 20 THEN 40 ELSE IF total = 0 THEN 45
       ELSE Banded((2000 * x[20].v) \div total, <<<<150, 90>>, <<125, 80>>, <<105, 68>>, <<85, 55>>>>, 28)

\* volatilityScore, from the average range in hundredths of a percent.
Volatility(cs) ==
    LET x == LastN(14, cs)
        RangeOf(k) == Part(Spread(x[k]), x[k].c, 10000)
    IN IF Len(cs) < 14 THEN 45
       ELSE Banded(MapThenSumSet(RangeOf, 1..14) \div 14,
                   <<<<401, 28>>, <<281, 48>>, <<121, 82>>, <<56, 78>>>>, 50)

\* momentumScore: the change over ten bars in hundredths of a percent.
Momentum(cs) ==
    LET change == Part(cs[Len(cs)].c - cs[Len(cs) - 9].c, cs[Len(cs) - 9].c, 10000)
    IN IF Len(cs) < 10 THEN [side |-> "flat", score |-> 45]
       ELSE [side |-> IF change > 40 THEN "buy" ELSE IF change < -40 THEN "sell" ELSE "flat",
             score |-> Banded(AbsVal(change), <<<<151, 88>>, <<41, 72>>>>, 42)]

Ranging(trend) == trend # Nil /\ trend.phase \in RangePhases

\* buildMarketHealth.
Health(i, cs) ==
    LET score == Round(30 * (IF i.trend = Nil THEN 35 ELSE Sent(i, i.trend.confidence))
                       + 18 * Volatility(cs) + 22 * VolumeQuality(cs) + 18 * Momentum(cs).score
                       + 12 * (IF i.trend = Nil THEN 35 ELSE Sent(i, i.trend.phaseConfidence)))
    IN [score |-> score,
        tradeable |-> /\ score >= 65 /\ VolumeQuality(cs) >= 68 /\ Volatility(cs) >= 45
                      /\ Ranging(i.trend) => i.accepts \cap (RangeTypes \cup {"breakout"}) # {}]

\* phaseSupportsSetup: in a range, only range setups and strategies.
PhaseSupports(i) ==
    /\ i.setup # Nil /\ i.trend # Nil
    /\ Ranging(i.trend) => RangeTypes \cap (i.accepts \cup {i.setup.type}) # {}

-----------------------------------------------------------------------------
(* Zones: order blocks, gaps and sweeps, their confidence in percent, to   *)
(* which smcConfidencePct brings either unit.                              *)

Kinds == {"ob", "fvg", "sweep"}

Qualifies(z, side) ==
    /\ z.side = side
    /\ CASE z.kind = "ob" -> z.live /\ z.state \notin {"fully_mitigated", "invalidated"}
                             /\ z.confidence >= 78
         [] z.kind = "fvg" -> z.fill < 60 /\ z.confidence >= 75
         [] z.kind = "sweep" -> z.live /\ z.confidence >= 75

\* bestOb, bestFvg, bestSweep: the confidence of the best zone of a kind, or Nil.
BestZone(i, kind, side) ==
    LET found == {z.confidence : z \in {y \in i.zones : y.kind = kind /\ Qualifies(y, side)}}
    IN IF found = {} THEN Nil ELSE Max(found)

\* smcQuality: the rounded mean of the confidences as they were sent; fractions give 1.
SmcQuality(i, best) ==
    LET found == {k \in Kinds : best[k] # Nil}
        unit == IF i.unit = "fraction" THEN 100 ELSE 1
        n == unit * Cardinality(found)
    IN IF found = {} THEN 0 ELSE (2 * SumFunctionOnSet(best, found) + n) \div (2 * n)

-----------------------------------------------------------------------------
\* -1000000 * ln(v / 100): the sum of ln((j + 1) / j) by its first term.
Terms == [j \in 1..99 |-> 2000000 \div (2 * j + 1)]
NegLn == [v \in 1..100 |-> SumFunctionOnSet(Terms, v..99)]

Weights == [historical |-> 12, structure |-> 15, trend |-> 14, smc |-> 16,
            volume |-> 12, volatility |-> 8, mtf |-> 15, strategy |-> 8]

\* The number up to 100 whose logarithm is nearest.
PercentOf(sum) ==
    LET near == {v \in 1..100 : AbsVal(NegLn[v] - sum) <= 100000}
    IN IF near = {} THEN 1
       ELSE CHOOSE v \in near : \A u \in near : AbsVal(NegLn[v] - sum) <= AbsVal(NegLn[u] - sum)

\* compositeConfidence: the weighted geometric mean of the factors.
Weighted(factors) == [k \in DOMAIN Weights |-> Weights[k] * NegLn[Clamp(factors[k], 1, 100)]]
Composite(factors) == PercentOf(SumFunctionOnSet(Weighted(factors), DOMAIN Weights) \div 100)

\* expectedRiskReward: the outer edge of the stop, the far edge of the first target.
RiskReward(setup, bullish) ==
    LET entry == setup.entry[1] + setup.entry[2]   \* twice the middle
        stop == 2 * setup.stop[IF bullish THEN 1 ELSE 2]
        target == 2 * setup.targets[1][IF bullish THEN 2 ELSE 1]
        risk == AbsVal(entry - stop)
    IN [rr |-> IF setup.rr # Nil THEN setup.rr
               ELSE IF setup.targets # <<>> /\ risk > 0 THEN (100 * AbsVal(target - entry)) \div risk
               ELSE Nil,
        fits |-> 10000 * risk <= 175 * entry]

Evidence(i) ==
    IF i.setup # Nil THEN i.setup.evidence
    ELSE [market_structure |-> Confidence(i, i.trend), trend_strength |-> Confidence(i, i.trend),
          phase_confidence |-> IF i.trend = Nil THEN 0 ELSE Sent(i, i.trend.phaseConfidence)]
EvidenceHits(i) == Cardinality({k \in DOMAIN Evidence(i) : Evidence(i)[k] >= 68})
StructureScore(i) ==
    IF "market_structure" \in DOMAIN Evidence(i) THEN Evidence(i).market_structure
    ELSE Confidence(i, i.trend)

Dead(setup) == setup.state \in {"expired", "invalidated", "cancelled", "failed", "mitigated"}

\* The zones a setup of this type must have.
Needs(type) ==
    CASE type = "order_block_reversal" -> {"ob"}
      [] type = "fvg_continuation" -> {"fvg"}
      [] type = "liquidity_sweep_reversal" -> {"sweep"}
      [] OTHER -> {}

\* What deriveDecision reads off its inputs before it checks anything.
Reading(i, cs) ==
    LET has == i.setup # Nil
        side == IF has THEN ToneSide(i.setup.direction)
                ELSE IF i.trend # Nil THEN ToneSide(i.trend.side) ELSE "neutral"
        best == [k \in Kinds |-> IF has /\ side \in Sides THEN BestZone(i, k, side) ELSE Nil]
        conf == IF has THEN i.setup.confidence ELSE 0
        aligned == has /\ i.setup.type \in i.accepts
    IN [has |-> has, side |-> side, best |-> best, conf |-> conf, aligned |-> aligned,
        smc |-> Cardinality({k \in Kinds : best[k] # Nil}),
        trendAgrees |-> has /\ Strong(i, i.trend) /\ side \in Sides /\ ToneSide(i.trend.side) = side,
        historical |-> Clamp((9 * conf) \div 10 + (IF aligned THEN 8 ELSE 0)
                             + (IF EvidenceHits(i) >= 4 THEN 5 ELSE 0), 0, 100),
        plan |-> IF has THEN RiskReward(i.setup, side = "buy") ELSE [rr |-> Nil, fits |-> TRUE],
        mtf |-> Mtf(i, side),
        health |-> Health(i, cs)]

\* momentumAgrees: flat momentum supports no side.
MomentumAgrees(cs, side) == Momentum(cs).side = (IF side = "buy" THEN "buy" ELSE "sell")

\* The critical quality checks of the market and the chart: which of them pass.
ContextChecks(i, cs, r) ==
    [structure |-> r.trendAgrees /\ StructureScore(i) >= 68,
     htf_bias |-> r.mtf.htf,
     chart_tf |-> r.has => r.mtf.hour = r.side,
     trend_strength |-> r.trendAgrees,
     signal_fresh |-> r.has => ~Dead(i.setup),
     smc_confluence |-> r.has => r.smc >= 2,
     zone_smc |-> r.has => (r.best["ob"] # Nil \/ r.best["fvg"] # Nil),
     volume |-> r.has => VolumeQuality(cs) >= 68,
     volatility |-> r.has => Volatility(cs) >= 45,
     phase |-> r.has => PhaseSupports(i),
     momentum |-> r.has => MomentumAgrees(cs, r.side)]

\* ... and of the plan and its record.
PlanChecks(i, r) ==
    [rr |-> r.plan.rr # Nil /\ r.plan.rr >= 220,
     risk_size |-> r.plan.fits,
     strategy |-> r.aligned,
     mtf |-> r.mtf.aligned,
     confidence |-> r.conf >= 78,
     evidence |-> EvidenceHits(i) >= 4,
     historical |-> r.historical >= 75,
     market_health |-> r.has => r.health.tradeable]

Checks(i, cs, r) ==
    LET context == ContextChecks(i, cs, r)
        plan == PlanChecks(i, r)
        needed == IF r.has THEN Needs(i.setup.type) ELSE {}
    IN [k \in DOMAIN context \cup DOMAIN plan \cup needed |->
          IF k \in needed THEN r.best[k] # Nil ELSE IF k \in DOMAIN plan THEN plan[k] ELSE context[k]]

CompositeOf(i, cs, r) ==
    Composite([historical |-> r.historical, structure |-> StructureScore(i),
               trend |-> Confidence(i, i.trend),
               smc |-> IF SmcQuality(i, r.best) = 0 THEN (55 * r.conf) \div 100 ELSE SmcQuality(i, r.best),
               volume |-> VolumeQuality(cs), volatility |-> Volatility(cs),
               mtf |-> 25 * r.mtf.agree,
               strategy |-> IF r.aligned THEN 80 + (8 * r.conf) \div 100 ELSE 28])

\* computeInstitutionalScore.
InstitutionalScore(checks, composite, r) ==
    LET passed == Cardinality({k \in DOMAIN checks : checks[k]})
    IN Clamp(Round(38 * composite + (3000 * passed) \div Cardinality(DOMAIN checks)
                   + 16 * r.health.score + 250 * r.mtf.agree + (IF r.mtf.htf THEN 600 ELSE 0)), 0, 100)

\* runSelfReview: from 82 on the grade is at least High Quality.
WouldTake(checks, composite, score, r) ==
    /\ r.has /\ r.side \in Sides
    /\ \A k \in DOMAIN checks : checks[k]
    /\ score >= 82 /\ composite >= 78

\* The card of deriveDecision.  reasons: why it waits; unlock: what must become true
\* first, of which the card shows eight.
Card(r, checks, composite, score, takes) ==
    LET failed == {k \in DOMAIN checks : ~checks[k]}
    IN [direction |-> IF takes THEN r.side ELSE "wait",
        strong |-> takes /\ composite >= 90 /\ r.conf >= 88 /\ score >= 90,
        level |-> IF takes THEN "full" ELSE "none",
        confidence |-> IF takes THEN composite ELSE Smaller(composite, 55),
        reasons |-> IF failed = {} /\ ~takes THEN {"self_review"} ELSE failed,
        unlock |-> failed \cup (IF ~r.mtf.htf THEN {"align_htf"} ELSE {})
                          \cup (IF r.smc < 2 THEN {"smc_factors"} ELSE {})
                          \cup (IF score < 82 THEN {"institutional_score"} ELSE {})]

\* deriveDecision: it reads, checks, scores, reviews itself and fills in the card.
Reviewed(r, checks, composite, score) ==
    Card(r, checks, composite, score, WouldTake(checks, composite, score, r))
Rated(r, checks, composite) ==
    Reviewed(r, checks, composite, InstitutionalScore(checks, composite, r))
Checked(i, cs, r) == Rated(r, Checks(i, cs, r), CompositeOf(i, cs, r))
Institutional(i, cs) == Checked(i, cs, Reading(i, cs))
=============================================================================
