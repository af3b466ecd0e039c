---------------------------- MODULE DemoAnalysis ----------------------------
(* What the demonstration server reads off a list of candles                *)
(* (demo-server/data.mjs): swings, trend, breaks of structure, the order    *)
(* block, gap and sweep it shows, and the one trade setup it builds on      *)
(* them. A bar is a record of open, high, low and close in whole ticks, its *)
(* time is its place in the list, and confidences are hundredths of a       *)
(* point. Identifiers, texts and volumes are left out.                      *)
EXTENDS Integers, Sequences, FiniteSets

Larger(x, y) == IF x >= y THEN x ELSE y
Smaller(x, y) == IF x <= y THEN x ELSE y
Clamp(x, lo, hi) == Larger(lo, Smaller(hi, x))
Apart(x, y) == Larger(x - y, y - x)
\* A quotient to the nearest whole, for what the code rounds to two places.
Rounded(n, d) == (2 * n + d) \div (2 * d)

Body(b) == Apart(b.c, b.o)
Range1(b) == Larger(b.h - b.l, 1)
\* The n members of a set of places that come last.
Newest(S, n) == {i \in S : Cardinality({j \in S : j > i}) < n}
\* The member that comes first in an order, as a set: empty when S is.
FirstBy(S, Before(_, _)) == {e \in S : \A f \in S \ {e} : Before(e, f)}

-----------------------------------------------------------------------------
(* Swings and trend.                                                        *)

Reach == 3
Middle(bars) == 1 + Reach .. Len(bars) - Reach
Around(i) == (i - Reach .. i + Reach) \ {i}

\* Mutant: only the bars before the swing are looked at.
HighsMutant(bars) == {i \in Middle(bars) : \A j \in i - Reach .. i - 1 : bars[j].h < bars[i].h}

\* The bars strictly above, and strictly below, three neighbours on each side.
Highs(bars) == {i \in Middle(bars) : \A j \in Around(i) : bars[j].h < bars[i].h}
Lows(bars) == {i \in Middle(bars) : \A j \in Around(i) : bars[j].l > bars[i].l}

\* Whether the last of two swings is above (1) or below (-1) the one before.
Drift(S, Price(_)) ==
    IF Cardinality(S) < 2 THEN 0
    ELSE LET new == CHOOSE i \in S : \A j \in S : j <= i
             old == CHOOSE i \in S : \A j \in S : j >= i
         IN IF Price(new) > Price(old) THEN 1 ELSE IF Price(new) < Price(old) THEN -1 ELSE 0

Trend(bars) ==
    LET H(i) == bars[i].h
        L(i) == bars[i].l
        high == Drift(Newest(Highs(bars), 2), H)
        low  == Drift(Newest(Lows(bars), 2), L)
    IN IF high = 1 /\ low = 1 THEN "bullish"
       ELSE IF high = -1 /\ low = -1 THEN "bearish"
       ELSE "sideways"

TrendConfidence(bars) ==
    IF Trend(bars) = "sideways" THEN 4800
    ELSE LET S   == Newest(Highs(bars), 2)
             new == CHOOSE i \in S : \A j \in S : j <= i
             old == CHOOSE i \in S : \A j \in S : j >= i
         IN Clamp(6200 + Rounded(80000 * Apart(bars[new].h, bars[old].h), bars[old].h), 6200, 8800)

\* The name of a swing: at or above the last one of its kind, or below it.
Label(bars, i, kind) ==
    LET S    == {j \in (IF kind = "high" THEN Highs(bars) ELSE Lows(bars)) : j < i}
        last == CHOOSE j \in S : \A k \in S : k <= j
    IN IF kind = "high"
       THEN IF S = {} \/ bars[i].h >= bars[last].h THEN "HH" ELSE "LH"
       ELSE IF S = {} \/ bars[i].l >= bars[last].l THEN "HL" ELSE "LL"
\* What the newest high and the newest low are called.
LastLabels(bars) ==
    {Label(bars, i, "high") : i \in Newest(Highs(bars), 1)} \cup {Label(bars, i, "low") : i \in Newest(Lows(bars), 1)}

-----------------------------------------------------------------------------
(* Breaks of structure.                                                     *)

Beyond(bars, i, dir) ==
    {j \in i + 1 .. Len(bars) : IF dir = "up" THEN bars[j].c > bars[i].h ELSE bars[j].c < bars[i].l}
\* The first close beyond one of the last eight swings, unless its body is weak.
Breaks(bars, dir) ==
    LET pivots == Newest(IF dir = "up" THEN Highs(bars) ELSE Lows(bars), 8)
        First(i) == CHOOSE j \in Beyond(bars, i, dir) : \A k \in Beyond(bars, i, dir) : j <= k
    IN {[dir |-> dir, swing |-> i, at |-> First(i)] :
           i \in {p \in pivots : Beyond(bars, p, dir) # {} /\
                                 LET b == bars[First(p)] IN 100 * Body(b) >= 35 * Range1(b)}}

\* The order in which the code meets them: breaks upwards first, old swings first.
Met(e, f) == (e.dir = "up" /\ f.dir = "down") \/ (e.dir = f.dir /\ e.swing < f.swing)
\* A change of character: the first break downwards it meets after one upwards.
\* A break upwards is never one, since every break downwards is met later.
Choch(bars) ==
    IF Breaks(bars, "up") = {} THEN {} ELSE FirstBy(Breaks(bars, "down"), Met)
Bos(bars) == (Breaks(bars, "up") \cup Breaks(bars, "down")) \ Choch(bars)

\* The newest break of structure and the newest change of character.
Later(e, f) == e.at > f.at \/ (e.at = f.at /\ Met(e, f))
StructureEvents(bars) ==
    {[type |-> "bos", dir |-> e.dir, swing |-> e.swing, at |-> e.at] : e \in FirstBy(Bos(bars), Later)}
    \cup {[type |-> "choch", dir |-> e.dir, swing |-> e.swing, at |-> e.at] : e \in Choch(bars)}

-----------------------------------------------------------------------------
(* Zones. Only what scores 72 points is kept, and of that the best.         *)

MinConfidence == 7200
Better(e, f) == e.confidence > f.confidence \/ (e.confidence = f.confidence /\ e.at > f.at)
\* The scan stops at four; the most confident of them is shown.
Best(S) == FirstBy({e \in S : e.at \in Newest({f.at : f \in S}, 4)}, Better)

TotalBody(bars) ==
    LET f[i \in 0 .. Len(bars)] == IF i = 0 THEN 0 ELSE f[i - 1] + Body(bars[i])
    IN f[Len(bars)]

\* Mutant: a zone stays on the chart after price has closed through it.
MitigatedMutant(bars, i) == FALSE

\* An impulsive bar; its zone is the bar before, until a close on the far side.
Impulsive(bars, i) == 100 * Len(bars) * Body(bars[i]) >= 185 * TotalBody(bars)
Mitigated(bars, i) ==
    \E j \in i + 1 .. Len(bars) :
        IF bars[i].c > bars[i].o THEN bars[j].c < bars[i - 1].l ELSE bars[j].c > bars[i - 1].h
BlockConfidence(bars, i) ==
    LET touched == \E j \in i + 1 .. Len(bars) : bars[j].l <= bars[i - 1].h /\ bars[j].h >= bars[i - 1].l
    IN Clamp(5800 + Smaller(2200, Rounded(2200 * Len(bars) * Body(bars[i]), 3 * TotalBody(bars)))
                  + (1200 - 15 * (Len(bars) - i)) + (IF touched THEN 200 ELSE 600), 0, 9600)
OrderBlock(bars) ==
    LET size(i) == bars[i - 1].h - bars[i - 1].l
        last    == bars[Len(bars)].c
        kept    == {i \in Larger(9, Len(bars) - 79) + 1 .. Len(bars) - 3 :
                       /\ Impulsive(bars, i) /\ ~Mitigated(bars, i)
                       /\ 1000 * size(i) <= 25 * last /\ 10000 * size(i) >= 5 * last
                       /\ BlockConfidence(bars, i) >= MinConfidence}
    IN Best({[dir |-> IF bars[i].c > bars[i].o THEN "bullish" ELSE "bearish", at |-> i,
              low |-> bars[i - 1].l, high |-> bars[i - 1].h, confidence |-> BlockConfidence(bars, i)] : i \in kept})

\* A bar whose neighbours leave a gap, less than half of it filled since.
Gap(bars, i) ==
    LET a == bars[i - 1]
        c == bars[i + 1]
    IN IF c.l > a.h THEN {[dir |-> "bullish", low |-> a.h, high |-> c.l]}
       ELSE IF c.h < a.l THEN {[dir |-> "bearish", low |-> c.h, high |-> a.l]}
       ELSE {}
GapOpen(bars, i, g) ==
    \A j \in i + 2 .. Len(bars) :
        2 * (IF g.dir = "bullish" THEN g.high - bars[j].l ELSE bars[j].h - g.low) < g.high - g.low
GapConfidence(bars, i, g) ==
    Clamp(6000 + Smaller(2160, Rounded(360000 * (g.high - g.low), g.low + g.high))
               + Rounded(1400 * (60 - (Len(bars) - i)), 60), 0, 9500)
FairValueGap(bars) ==
    LET places == Larger(4, Len(bars) - 59) + 1 .. Len(bars) - 3
        InSize(g) == /\ 20000 * (g.high - g.low) >= 8 * (g.low + g.high)
                     /\ 200 * (g.high - g.low) <= 3 * (g.low + g.high)
    IN Best(UNION {{[dir |-> g.dir, at |-> i, low |-> g.low, high |-> g.high,
                     confidence |-> GapConfidence(bars, i, g)] :
                        g \in {h \in Gap(bars, i) : /\ InSize(h) /\ GapOpen(bars, i, h)
                                                    /\ GapConfidence(bars, i, h) >= MinConfidence}} : i \in places})

\* A wick beyond one of the last four swings that closed back, by a margin.
Rejection(bars, i, j, dir) ==
    LET b    == bars[j]
        side == IF dir = "bearish" THEN b.h - b.c ELSE b.c - b.l
        deep == IF dir = "bearish" THEN b.h - bars[i].h ELSE bars[i].l - b.l
        at   == IF dir = "bearish" THEN bars[i].h ELSE bars[i].l
    IN IF 100 * side < 45 * Range1(b) THEN 0
       ELSE Clamp(6000 + Rounded(2500 * side, Range1(b)) + Smaller(800, Rounded(80000 * deep, at)), 0, 9400)
Sweeps(bars, dir) ==
    LET pivots == Newest(IF dir = "bearish" THEN Highs(bars) ELSE Lows(bars), 4)
        Back(i) == {j \in i + 1 .. Len(bars) :
                       /\ IF dir = "bearish" THEN bars[j].h > bars[i].h /\ bars[j].c < bars[i].h
                                             ELSE bars[j].l < bars[i].l /\ bars[j].c > bars[i].l
                       /\ Rejection(bars, i, j, dir) >= MinConfidence}
    IN {[dir |-> dir, swing |-> i, at |-> CHOOSE j \in Back(i) : \A k \in Back(i) : j <= k] :
           i \in {p \in pivots : Back(p) # {}}}
LiquiditySweep(bars) ==
    LET Score(e) == Rejection(bars, e.swing, e.at, e.dir)
        Stronger(e, f) == \/ Score(e) > Score(f)
                          \/ Score(e) = Score(f) /\ e.dir = "bearish" /\ f.dir = "bullish"
                          \/ Score(e) = Score(f) /\ e.dir = f.dir /\ e.swing < f.swing
    IN FirstBy(Sweeps(bars, "bearish") \cup Sweeps(bars, "bullish"), Stronger)

-----------------------------------------------------------------------------
(* The setup, its levels in thousandths of a tick, and the plans on it.     *)

\* Only with the trend, and only when the trend is clear.
WithTrend(bars, dir) == dir = Trend(bars) /\ TrendConfidence(bars) >= 6500

Anchor(bars) ==
    IF OrderBlock(bars) # {}
    THEN {[type |-> "order_block_reversal", zone |-> z] : z \in OrderBlock(bars)}
    ELSE {[type |-> "fvg_continuation", zone |-> z] : z \in FairValueGap(bars)}
SetupConfidence(bars, zone) ==
    Clamp(Rounded(55 * zone.confidence + 35 * TrendConfidence(bars), 100)
            + (IF LiquiditySweep(bars) # {} THEN 800 ELSE 0), 5000, 9600)
Setups(bars) ==
    LET Risk(z) == Larger(1000 * (z.high - z.low), 6 * bars[Len(bars)].c)
        Side(z) == IF z.dir = "bullish" THEN 1 ELSE -1
        Mid(z)  == 500 * (z.low + z.high)
        Edge(z) == 1000 * (IF z.dir = "bullish" THEN z.low ELSE z.high)
    IN {[type |-> a.type, dir |-> a.zone.dir, low |-> a.zone.low, high |-> a.zone.high, since |-> a.zone.at,
         stop |-> Edge(a.zone) - Side(a.zone) * Rounded(15 * Risk(a.zone), 100),
         target1 |-> Mid(a.zone) + Side(a.zone) * Risk(a.zone),
         target2 |-> Mid(a.zone) + Side(a.zone) * 2 * Risk(a.zone),
         confidence |-> SetupConfidence(bars, a.zone), at |-> Len(bars)] :
            a \in {b \in Anchor(bars) : /\ WithTrend(bars, b.zone.dir)
                                        /\ SetupConfidence(bars, b.zone) >= MinConfidence}}

\* What each strategy takes; only two types of setup are ever built.
Required == [ob_reversal |-> {"order_block_reversal"},
             fvg_continuation |-> {"fvg_continuation", "trend_continuation"},
             liquidity_reversal |-> {"liquidity_sweep_reversal"},
             trend_rider |-> {"trend_continuation"},
             range_breakout |-> {"range_breakout"}]
Plans(bars, strategy) == {s \in Setups(bars) : s.type \in Required[strategy]}
Takers(bars) == {strategy \in DOMAIN Required : Plans(bars, strategy) # {}}

\* The events of a replay: the breaks shown and the setup, which is dated now.
Events(bars) ==
    {[type |-> e.type, dir |-> e.dir, swing |-> e.swing, at |-> e.at] : e \in StructureEvents(bars)}
    \cup {[type |-> "setup", dir |-> s.dir, swing |-> s.since, at |-> s.at] : s \in Setups(bars)}
=============================================================================
