----------------------------- MODULE MarketTape -----------------------------
(***************************************************************************)
(* What the terminal reads off the candles before it decides: the market   *)
(* personality (marketPersonality.ts) and the early patterns               *)
(* (intradayEarlyPatterns.ts).  Both treat the two directions alike up to  *)
(* a reflection of the prices, so each is stated once, for the side that   *)
(* wants lower prices, and read for "buy" on the reflected candles.        *)
(*                                                                         *)
(* Candles are records of integers.  Percentages, ratios, weights and      *)
(* scores are hundredths, cut off towards zero.                            *)
(***************************************************************************)
EXTENDS Integers, FiniteSetsExt, SequencesExt

CONSTANT Nil   \* an absent value (null in the code)

Sides == {"buy", "sell"}
Other(s) == IF s = "buy" THEN "sell" ELSE "buy"

AbsVal(n) == IF n < 0 THEN -n ELSE n
Clamp(n, lo, hi) == IF n < lo THEN lo ELSE IF n > hi THEN hi ELSE n
\* a / b in units of 1 / unit, for b > 0.
Part(a, b, unit) == IF a < 0 THEN -((-a * unit) \div b) ELSE (a * unit) \div b
\* Math.round of a number given in hundredths.
Round(h) == (h + 50) \div 100
LastN(n, s) == IF Len(s) > n THEN SubSeq(s, Len(s) - n + 1, Len(s)) ELSE s

Reflected(c) == [o |-> -c.o, h |-> -c.l, l |-> -c.h, c |-> -c.c, v |-> c.v]
View(s, cs) == IF s = "sell" THEN cs ELSE [i \in DOMAIN cs |-> Reflected(cs[i])]
Signed(s, p) == IF s = "sell" THEN p ELSE -p

Larger(a, b) == IF a > b THEN a ELSE b
Smaller(a, b) == IF a < b THEN a ELSE b
Upper(c) == c.h - Larger(c.o, c.c)
Lower(c) == Smaller(c.o, c.c) - c.l
Spread(c) == c.h - c.l

\* The average true range over the last n candles, in hundredths.
Atr(cs, n) ==
    LET x == LastN(n + 1, cs)
        TrueRange(i) == Max({Spread(x[i]), AbsVal(x[i].h - x[i-1].c), AbsVal(x[i].l - x[i-1].c)})
    IN IF Len(x) < 2 THEN 0
       ELSE (100 * MapThenSumSet(TrueRange, 2..Len(x))) \div (Len(x) - 1)

\* Pivot prices in their order: higher than two neighbours on either side.
Pivots(f) ==
    LET n == Len(f)
        Peak(i) == i \in 3..(n - 2) /\ \A j \in (i - 2)..(i + 2) : j # i => f[j] < f[i]
    IN [k \in 1..Cardinality({i \in 1..n : Peak(i)}) |->
          f[CHOOSE i \in 1..n : Peak(i) /\ Cardinality({j \in 1..i : Peak(j)}) = k]]
Highs(x) == Pivots([i \in DOMAIN x |-> x[i].h])
Lows(x) == LET p == Pivots([i \in DOMAIN x |-> -x[i].l]) IN [i \in DOMAIN p |-> -p[i]]

\* A rejection of higher prices: long upper wick, small body, no higher close.
Rejection(c) ==
    /\ Spread(c) > 0
    /\ 100 * Upper(c) >= 45 * Spread(c)
    /\ 100 * AbsVal(c.c - c.o) <= 40 * Spread(c)
    /\ c.c <= c.o

-----------------------------------------------------------------------------
(* Early patterns.  levels holds the sets of support and resistance        *)
(* prices, the last values of the EMA and VWAP overlays (Nil without bars) *)
(* and the VWAP switch.                                                    *)

\* The level nearest to the price, or Nil.
Nearest(ps, px) ==
    IF ps = {} THEN Nil ELSE CHOOSE p \in ps : \A q \in ps : AbsVal(p - px) <= AbsVal(q - px)
Broken(s, levels, px) ==
    LET p == Nearest(IF s = "sell" THEN levels.support ELSE levels.resistance, px)
    IN IF p = Nil THEN Nil ELSE Signed(s, p)

\* sessionVwapFromCandles, in hundredths.
SessionVwap(cs) ==
    LET x == LastN(78, cs)
        Volume(i) == Larger(x[i].v, 1)
        Turnover(i) == (x[i].h + x[i].l + x[i].c) * Volume(i)
    IN IF Len(cs) < 5 THEN Nil
       ELSE (100 * MapThenSumSet(Turnover, DOMAIN x)) \div (3 * MapThenSumSet(Volume, DOMAIN x))
Vwap(cs, levels) ==
    CASE ~levels.vwapOn -> Nil
      [] levels.vwapOn /\ levels.vwap # Nil -> 100 * levels.vwap
      [] OTHER -> SessionVwap(cs)

\* A level counts as touched from 0.2% away.
NearlyReaches(h, p) == 1000 * h >= 1000 * p - 2 * AbsVal(p)

Tell(id, w, holds) == IF holds THEN {[id |-> id, weight |-> w]} ELSE {}
Latest(p) == IF p = <<>> THEN Nil ELSE Last(p)

\* The tells of the swings and the impulse, for one side: x is its view of the
\* candles, hs the highs in it and a the range.
SwingTells(s, x, hs, a) ==
    LET n == Len(x)
        last == x[n]
        prev == x[n - 1]
        px == last.c
        top == Latest(hs)
        falls == last.c < last.o
        rejects == Rejection(last)
        impulse == LastN(10, x)
        hi == Max({impulse[i].h : i \in DOMAIN impulse})
        lo == Min({impulse[i].l : i \in DOMAIN impulse})
        \* Equal closes count as a rise in the impulse and as a fall before a climax.
        impulseFell == IF s = "sell" THEN impulse[1].c > px ELSE impulse[1].c >= px
        priorRose == IF s = "sell" THEN prev.c > x[n - 7].c ELSE prev.c >= x[n - 7].c
    IN UNION {
        Tell("lower_high", 130,
             Len(hs) >= 2 /\ hs[Len(hs)] < hs[Len(hs) - 1] /\ (px < x[n - 5].c \/ falls)),
        Tell("trendline_rejection", 120,
             /\ top # Nil /\ rejects
             /\ 1000 * AbsVal(last.h - top) <= 6 * a \/ NearlyReaches(last.h, top)),
        Tell("weak_pullback", 115,
             /\ 1000 * (hi - lo) > 12 * a /\ impulseFell /\ falls
             /\ px > lo /\ 100 * (px - lo) <= 38 * (hi - lo)),
        Tell("momentum_exhaustion", 110,
             priorRose /\ rejects /\ last.h >= Max({x[i].h : i \in (n - 7)..(n - 1)}))}

\* The tells at a level, an average or on volume, for one side.
LevelTells(s, x, top, floor, a, level, vwap, levels) ==
    LET n == Len(x)
        last == x[n]
        prev == x[n - 1]
        px == last.c
        rejects == Rejection(last)
        fromVwap == 100 * px - Signed(s, vwap)
        fromEma == 100 * (px - Signed(s, levels.ema))
    IN UNION {
        Tell("level_break", 135,
             level # Nil /\ px < level /\ 1000 * prev.c >= 1000 * level - AbsVal(level)),
        Tell("level_break", 125, floor # Nil /\ px < floor /\ prev.l >= floor),
        Tell("multi_rejection_candles", 120, Cardinality({i \in (n - 2)..n : Rejection(x[i])}) >= 2),
        Tell("failure_to_reclaim", 130,
             /\ top # Nil /\ \E i \in (n - 5)..n : x[i].c < top
             /\ NearlyReaches(last.h, top) /\ px < top),
        Tell("vwap_rejection", 115,
             vwap # Nil /\ a > 0 /\ rejects /\ fromVwap > 0 /\ 100 * fromVwap <= 35 * a),
        Tell("ema_rejection", 105,
             levels.ema # Nil /\ a > 0 /\ rejects /\ fromEma >= 0 /\ 100 * fromEma <= 40 * a)}

\* Breaking away on volume.
VolumeTells(x) ==
    LET n == Len(x)
        vols == LastN(20, x)
        Volume(i) == vols[i].v
        total == MapThenSumSet(Volume, DOMAIN vols)
    IN Tell("volume_expansion", 120,
            /\ total > 0 /\ 100 * Len(vols) * x[n].v >= 145 * total
            /\ x[n].c < x[n].o /\ x[n].c < x[n - 4].c)

TellsOf(s, x, cs, levels) ==
    SwingTells(s, x, Highs(x), Atr(cs, 14))
    \cup LevelTells(s, x, Latest(Highs(x)), Latest(Lows(x)), Atr(cs, 14),
                    Broken(s, levels, Last(cs).c), Vwap(cs, levels), levels)
    \cup VolumeTells(x)

\* Duplicates of one tell count once, with the larger weight.
SideWeight(tells) ==
    LET Heaviest(id) == Max({t.weight : t \in {u \in tells : u.id = id}})
    IN MapThenSumSet(Heaviest, {t.id : t \in tells})

\* scanEarlyPatterns: how many tells each side has, the preferred side, the score.
Scored(tells, w) ==
    LET Leads(s) == w[s] >= 220 /\ 100 * w[s] > 115 * w[Other(s)]
        prefers == IF \E s \in Sides : Leads(s) THEN CHOOSE s \in Sides : Leads(s) ELSE "wait"
        weight == IF prefers = "wait" THEN w["buy"] + w["sell"] ELSE w[prefers]
    IN [hits |-> [s \in Sides |-> Cardinality({t.id : t \in tells[s]})],
        score |-> Clamp(Round((100 * weight) \div 8), 0, 100),
        prefers |-> prefers]
Weighed(tells) == Scored(tells, [s \in Sides |-> SideWeight(tells[s])])
EarlyScan(cs, levels) ==
    IF Len(cs) < 12
    THEN [hits |-> [s \in Sides |-> 0], score |-> 0, prefers |-> "wait"]
    ELSE Weighed([s \in Sides |-> TellsOf(s, View(s, cs), cs, levels)])
-----------------------------------------------------------------------------
(* Personality.  Features of one side, on its view of the last 40 candles. *)

\* extractFeatures, for 20 candles and more; hs are the highs of x.
Features(x, hs) ==
    LET n == Len(x)
        last == x[n]
        prev == x[n - 1]
        recent == LastN(8, x)
        Average(F(_)) == MapThenSumSet(F, DOMAIN recent) \div Len(recent)
        Body(i) == Part(recent[i].o - recent[i].c, Larger(Spread(recent[i]), 1), 100)
        UpperPart(i) == Part(Upper(recent[i]), Larger(Spread(recent[i]), 1), 100)
        LowerPart(i) == Part(Lower(recent[i]), Larger(Spread(recent[i]), 1), 100)
        top == Max({x[i].h : i \in (n - 11)..(n - 2)})
    IN [fall |-> Part(x[1].c - last.c, AbsVal(x[1].c), 10000),
        steps |-> Cardinality({i \in 2..Len(hs) : hs[i] < hs[i - 1]}),
        push |-> Average(Body),
        upper |-> Average(UpperPart),
        lower |-> Average(LowerPart),
        hunts |-> last.h > top /\ last.c < top,
        traps |-> prev.c > top /\ last.c < top]

\* What the two sides share.
Shape(cs) ==
    LET x == LastN(40, cs)
        n == Len(x)
        Volume(i) == x[i].v
        total == MapThenSumSet(Volume, 1..n)
        now == Atr(x, 10)
        before == IF Atr(SubSeq(x, 1, n - 10), 10) = 0 THEN now ELSE Atr(SubSeq(x, 1, n - 10), 10)
    IN [range |-> Part(Max({x[i].h : i \in 1..n}) - Min({x[i].l : i \in 1..n}), x[n].c, 10000),
        vol |-> IF total > 0 THEN (100 * n * MapThenSumSet(Volume, (n - 4)..n)) \div (5 * total) ELSE 100,
        body |-> Part(AbsVal(x[n].c - x[n].o), Larger(Spread(x[n]), 1), 100),
        compression |-> IF before > 0 THEN Clamp(100 - (100 * now) \div before, 0, 100) ELSE 0,
        expansion |-> IF before > 0 THEN (2 * Clamp((100 * now) \div before - 100, 0, 150)) \div 3 ELSE 0]

Offer(holds, id, bias, score, cap) ==
    IF holds THEN <<[id |-> id, bias |-> bias, score |-> Clamp(score, 0, cap)]>> ELSE <<>>

TrendOffers(s, f, w) ==
    LET fs == f[s] IN
    IF (fs.steps >= 2 /\ fs.fall > 12) \/ (fs.fall > 25 /\ fs.push > 20)
    THEN Offer(TRUE, IF AbsVal(fs.fall) > 35 /\ w.vol > 115 /\ fs.steps >= 2 THEN "strong_trend" ELSE "weak_trend",
               s, 5800 + 40 * AbsVal(fs.fall) + 600 * fs.steps, 9600)
         \o Offer(fs.steps >= 2 /\ fs.push > 15, "trend_continuation", s,
                  6200 + 800 * fs.steps + 25 * AbsVal(fs.push), 9700)
    ELSE <<>>

\* The other side caught at an extreme: absorbed, hunted or trapped.
TrapOffers(f, w) ==
    LET Absorbed(s) == Offer(w.vol > 160 /\ w.body < 35 /\ f[s].upper > 40 /\ f[s].push >= -15,
                             "absorption", s, 6000 + 10 * w.vol, 9000)
        Hunt(s) == Offer(f[s].hunts /\ f[s].upper > 35 /\ w.vol > 120, "stop_hunt", s, 7800, 7800)
        Trap(s) == Offer(f[s].traps /\ f[s].upper > 30, "false_breakout", s, 7400, 7400)
    IN Absorbed("buy") \o Absorbed("sell") \o Hunt("buy") \o Hunt("sell")
       \o Trap("sell") \o Trap("buy")

\* The personalities the tape could have, in the order the code lists them, from
\* the features f of the two sides and the shape w.
Candidates(f, w) ==
    LET slope == AbsVal(f["sell"].fall)
        Panic(s, id) == Offer(f[s].fall > 45 /\ w.vol > 170 /\ f[s].push > 35, id, s,
                              7000 + 8 * w.vol + 10 * f[s].fall, 9800)
        flat == slope < 18 /\ w.range < 70 /\ w.compression < 40
        Exhausted(s) == Offer(f[s].fall > 30 /\ f[s].lower > 42 /\ w.vol > 140, "trend_exhaustion", s,
                              5800 + 10 * w.vol, 9000)
        Base(s, id) == Offer(slope < 20 /\ w.vol > 125 /\ f[s].steps >= 1 /\ f[s].push >= 0, id, s,
                             5500 + 12 * w.vol, 8800)
    IN Panic("sell", "panic_selling") \o Panic("buy", "aggressive_buying")
       \o Offer(w.compression > 35 /\ w.range < 55, "compression", "wait", 5500 + 40 * w.compression, 9200)
       \o Offer(w.expansion > 35, "expansion",
                IF f["buy"].fall > 8 THEN "buy" ELSE IF f["sell"].fall > 8 THEN "sell" ELSE "wait",
                5500 + 45 * w.expansion, 9500)
       \o Offer(flat, "range", "wait", 6000 + 80 * (30 - slope), 9000)
       \o Offer(flat, "balanced_auction", "wait", 5000 + 30 * (100 - AbsVal(f["sell"].push)), 8500)
       \o TrendOffers("sell", f, w) \o TrendOffers("buy", f, w)
       \o Exhausted("sell") \o Exhausted("buy")
       \o Base("buy", "accumulation") \o Base("sell", "distribution")
       \o TrapOffers(f, w)

NoTrade == {"compression", "balanced_auction", "range", "trend_exhaustion"}
EarlyBias(id) ==
    CASE id \in {"trend_continuation", "strong_trend", "stop_hunt", "false_breakout",
                 "panic_selling", "aggressive_buying"} -> 55
      [] id \in {"weak_trend", "expansion", "distribution", "accumulation", "absorption"} -> 25
      [] OTHER -> -45
Patience(id) ==
    CASE id \in NoTrade -> 70
      [] id \in {"weak_trend", "distribution", "accumulation"} -> 35
      [] id \in {"trend_continuation", "strong_trend", "panic_selling", "aggressive_buying"} -> -25
      [] OTHER -> 0

\* classifyMarketPersonality, from the candidates of the candles and the side of
\* the latest BOS ("none" without one or without a direction in its name).
Classified(offers, bars, bosSide) ==
    LET boosted == [i \in DOMAIN offers |->
                      IF offers[i].bias = bosSide
                      THEN [offers[i] EXCEPT !.score = Smaller(9900, @ + 600)] ELSE offers[i]]
        all == IF offers = <<>> THEN <<[id |-> "balanced_auction", bias |-> "wait", score |-> 4000]>>
               ELSE boosted
        best == Max({all[i].score : i \in DOMAIN all})
        lead == Min({i \in DOMAIN all : all[i].score = best})
        top == all[lead]
        gap == IF Len(all) = 1 THEN (3 * top.score) \div 10
               ELSE top.score - Max({all[i].score : i \in DOMAIN all \ {lead}})
    IN [id |-> top.id,
        strength |-> Clamp(Round(top.score), 0, 100),
        confidence |-> Clamp(Round(4500 + (12 * gap) \div 10 + Smaller(2000, (100 * bars) \div 3)), 0, 96),
        prefers |-> IF top.id \in NoTrade THEN "wait" ELSE top.bias,
        early |-> EarlyBias(top.id),
        patience |-> Patience(top.id)]

TooShort == [id |-> "balanced_auction", strength |-> 20, confidence |-> 25,
             prefers |-> "wait", early |-> -50, patience |-> 80]

Seen(x) == Features(x, Highs(x))
Personality(cs, bosSide) ==
    IF Len(cs) < 20 THEN TooShort
    ELSE Classified(Candidates([s \in Sides |-> Seen(View(s, LastN(40, cs)))], Shape(cs)),
                    Len(cs), bosSide)

\* earlyGateMultiplier, in hundredths.
EarlyMultiplier(p) == Clamp(100 + (35 * p.early) \div 100, 70, 125)
=============================================================================
