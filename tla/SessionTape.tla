---------------------------- MODULE SessionTape ----------------------------
(***************************************************************************)
(* What the terminal reads off the bars of one trading day: the character  *)
(* of an expiry session (expiryIntelligence.ts) and the late-session setup *)
(* (lateSessionIntelligence.ts).                                           *)
(* today is how many of the candles belong to the day the clock shows, and *)
(* minute its time.  Late-session prices are hundredths.                   *)
(***************************************************************************)
EXTENDS MarketTape

Total(f) == LET At(i) == f[i] IN MapThenSumSet(At, DOMAIN f)
Top(bars) == Max({bars[i].h : i \in DOMAIN bars})
Bottom(bars) == Min({bars[i].l : i \in DOMAIN bars})
FirstN(n, f) == SubSeq(f, 1, Smaller(n, Len(f)))

-----------------------------------------------------------------------------
(* Expiry sessions.                                                        *)

\* atrSeries: true ranges, averaged over a window when there are enough.
TrueRanges(bars) ==
    [i \in 1..Len(bars) - 1 |->
       Max({Spread(bars[i + 1]), AbsVal(bars[i + 1].h - bars[i].c), AbsVal(bars[i + 1].l - bars[i].c)})]
AtrSeries(bars, window) ==
    LET ranges == TrueRanges(bars)
    IN IF Len(ranges) < window THEN ranges
       ELSE [i \in 1..Len(ranges) - window + 1 |-> Total(SubSeq(ranges, i, i + window - 1))]

\* The range of the last third of the session against the first.
RealizedVol(bars) ==
    LET atr == AtrSeries(bars, Smaller(14, Larger(5, Len(bars) \div 4)))
        third == Larger(3, Len(atr) \div 3)
        early == Total(FirstN(third, atr))
        late == Total(LastN(third, atr))
    IN CASE early = 0 -> "stable"
         [] early > 0 /\ 100 * late >= 118 * early -> "expanding"
         [] early > 0 /\ 100 * late <= 85 * early -> "contracting"
         [] OTHER -> "stable"

\* efficiencyRatio, in hundredths: the way made good over the way gone.
Efficiency(bars) ==
    LET n == Len(bars)
        path == Total([i \in 2..n |-> AbsVal(bars[i].c - bars[i - 1].c)])
    IN IF n < 8 \/ path = 0 THEN 0 ELSE (100 * AbsVal(bars[n].c - bars[1].c)) \div path

\* rangePct of the recent bars is under 55% of that of the session.
Narrowed(bars) ==
    LET recent == LastN(Larger(8, Len(bars) \div 5), bars)
        Sum(x) == Top(x) + Bottom(x)
        Height(x) == Top(x) - Bottom(x)
    IN 100 * Height(recent) * Sum(bars) < 55 * Height(bars) * Sum(recent)

\* The last close lies outside the balance of the earlier bars.
BrokeRange(bars) ==
    LET balance == SubSeq(bars, 1, Len(bars) - Smaller(10, Len(bars) \div 4))
    IN Len(balance) > 5 /\ (Last(bars).c > Top(balance) \/ Last(bars).c < Bottom(balance))

\* Closes that cross or touch the mean price, at 0.55 of a quarter of the bars or more.
RevertsToMean(bars) ==
    LET n == Len(bars)
        mean == Total([i \in 1..n |-> bars[i].h + bars[i].l + bars[i].c])
        Off(i) == 3 * n * bars[i].c - mean
        crosses == {i \in 2..n : Off(i - 1) = 0 \/ Off(i) = 0 \/ (Off(i - 1) > 0) # (Off(i) > 0)}
    IN 400 * Cardinality(crosses) >= 55 * n

\* classifyDay
DayClass(bars, vol, compressing) ==
    IF compressing /\ vol = "contracting" THEN "Expiry Compression"
    ELSE IF BrokeRange(bars) /\ vol = "expanding" THEN "Breakout Day"
    ELSE IF Efficiency(bars) >= 42 THEN "Trend Day"
    ELSE IF RevertsToMean(bars) /\ Efficiency(bars) < 28 THEN "Mean Reversion Day"
    ELSE "Range Day"

Idle == [active |-> FALSE, class |-> Nil, vol |-> "unknown", compressing |-> FALSE,
         likelihood |-> "unclear", decay |-> "unknown", late |-> FALSE]

\* The classes are asked for in the order of the code's conditions.
Characterised(bars, unsure, vol, compressing, broke, class) ==
    LET ranging == Efficiency(bars) < 38 /\ unsure /\ ~broke
        signs == {s \in {"resolved", "efficient", "accepted"} :
                    CASE s = "resolved" -> compressing /\ broke
                      [] s = "efficient" -> vol = "expanding" /\ Efficiency(bars) >= 40
                      [] s = "accepted" -> broke}
    IN [active |-> TRUE, class |-> class, vol |-> vol, compressing |-> compressing,
        likelihood |-> IF (broke /\ vol = "expanding") \/ (compressing /\ vol = "contracting") THEN "rising"
                       ELSE IF ranging /\ vol = "contracting" THEN "fading" ELSE "unclear",
        decay |-> IF class \in {"Expiry Compression", "Range Day", "Mean Reversion Day"} THEN "hurts_buyer"
                  ELSE IF class = "Breakout Day" \/ vol = "expanding" THEN "helps_buyer" ELSE "mixed",
        late |-> Cardinality(signs) >= 2]

\* analyzeExpirySession, on a day that is one: a thin session falls back on the last
\* eighty candles, whatever day they are of.  unsure is a trend confidence below 62.
Expiry(cs, today, unsure) ==
    LET bars == IF today >= 12 THEN LastN(today, cs) ELSE LastN(80, cs)
        vol == RealizedVol(bars)
        compressing == Narrowed(bars) /\ vol # "expanding"
    IN IF Len(bars) < 10 THEN [Idle EXCEPT !.active = TRUE]
       ELSE Characterised(bars, unsure, vol, compressing, BrokeRange(bars),
                          DayClass(bars, vol, compressing))

-----------------------------------------------------------------------------
(* Late sessions.                                                          *)

LATE_WINDOW_START == 14 * 60 + 30
LATE_WINDOW_END == 15 * 60 + 25
MaxRiskPoints == 40

Beyond(s, p, q) == IF s = "buy" THEN p > q ELSE p < q
Reach(s, high, low) == IF s = "buy" THEN high ELSE low

\* approxVwap, in hundredths.
DayVwap(day) ==
    LET Volume(i) == Larger(day[i].v, 1)
        Turnover(i) == (day[i].h + day[i].l + day[i].c) * Volume(i)
    IN (100 * MapThenSumSet(Turnover, DOMAIN day)) \div (3 * MapThenSumSet(Volume, DOMAIN day))

\* relativeVolume of at least 1.25.
VolumeExpands(day) ==
    LET n == Len(day)
        before == Total([i \in 1..n - 1 |-> day[i].v])
    IN n >= 20 /\ before > 0 /\ 100 * day[n].v * (n - 1) >= 125 * before

\* realizedVolExpanding
RangeExpands(day) ==
    LET half == Len(day) \div 2
        Ranges(i, j) == Total([k \in i..j |-> Spread(day[k])])
    IN /\ Len(day) >= 24
       /\ 100 * half * Ranges(half + 1, Len(day)) > 115 * (Len(day) - half) * Ranges(1, half)

\* What the analysis reads off a day with bars enough: the opening range, the extremes,
\* the last price and the average, and whether the price is near an extreme.
Landmarks(day) ==
    IF Len(day) < 12 THEN Nil ELSE
    LET open == FirstN(9, day)
        px == 100 * Last(day).c
        high == 100 * Top(day)
        low == 100 * Bottom(day)
        margin == Larger(800, (8 * (high - low)) \div 100)
        vwap == DayVwap(day)
    IN [px |-> px, vwap |-> vwap, high |-> high, low |-> low, least |-> Larger(800, (5 * (high - low)) \div 100),
        orHigh |-> 100 * Top(open), orLow |-> 100 * Bottom(open),
        beyond |-> [s \in Sides |-> Beyond(s, px, vwap)],
        broke |-> [s \in Sides |-> Beyond(s, px, 100 * Reach(s, Top(open), Bottom(open)))],
        volume |-> VolumeExpands(day), expands |-> RangeExpands(day),
        nearHigh |-> AbsVal(high - px) <= margin, nearLow |-> AbsVal(px - low) <= margin]

\* recentStructureBias: the newest CHoCH, whatever BOS came after it.
StructureBias(bos, choch) ==
    IF choch # <<>> THEN Last(choch) ELSE IF bos # <<>> THEN Last(bos) ELSE "none"

If(holds, points) == IF holds THEN points ELSE 0

\* Mutant: a print of structure is booked for the other side.
ScoresMutant(m, trendSide, bias, levels) ==
    [s \in Sides |-> If(m.beyond[s], 1) + If(m.broke[s], 2) + If(trendSide = s, 1) + If(bias = Other(s), 2)]

\* The points of the two sides.  Volume goes to the side that leads, and to the buyers
\* when none does; a level counts when the price is just before it.
Scores(m, trendSide, bias, levels) ==
    LET first == [s \in Sides |-> If(m.beyond[s], 1) + If(m.broke[s], 2)
                                  + If(trendSide = s, 1) + If(bias = s, 2)]
        leader == IF first["buy"] >= first["sell"] THEN "buy" ELSE "sell"
        Before(s) == LET p == IF s = "sell" THEN levels.res ELSE levels.sup
                     IN p # Nil /\ Beyond(s, m.px, 100 * p) /\ AbsVal(m.px - 100 * p) < 2500
    IN [s \in Sides |->
          first[s] + If(s = leader /\ m.volume, 1)
          + If(m.beyond[s] /\ Reach(s, m.nearLow, m.nearHigh), 1) + If(Before(s), 1)]

\* The state of the session, in the order the code asks.
LateClass(m, score, expiry) ==
    IF expiry.active /\ expiry.compressing /\ ~m.expands THEN "expiry_compression"
    ELSE IF expiry.active /\ m.expands /\ (\E s \in Sides : score[s] >= 5) THEN "expiry_driven_expansion"
    ELSE IF \E s \in Sides : m.broke[s] /\ score[s] >= 5 THEN "breakout"
    ELSE IF \E s \in Sides : m.beyond[s] /\ score[s] >= 5 THEN "continuation"
    ELSE IF (m.nearHigh /\ score["sell"] >= 4) \/ (m.nearLow /\ score["buy"] >= 4) THEN "mean_reversion"
    ELSE "no_late_session_setup"

\* The sides a state speaks for: near both extremes a reversion speaks for both.
Spoken(m, score, class) ==
    CASE class = "breakout" -> {s \in Sides : m.broke[s] /\ score[s] >= 5}
      [] class = "continuation" -> {s \in Sides : m.beyond[s] /\ score[s] >= 5}
      [] class = "mean_reversion" -> {s \in Sides : Reach(s, m.nearLow, m.nearHigh)}
      [] class = "expiry_driven_expansion" -> {s \in Sides : score[s] > score[Other(s)]}
      [] OTHER -> {}

\* The stop at the structure behind the price, or a least distance away from it.
LateStop(m, s) ==
    LET behind == IF s = "buy" THEN Min({m.orLow, m.vwap, IF m.nearLow THEN m.low ELSE m.orLow})
                  ELSE Max({m.orHigh, m.vwap, IF m.nearHigh THEN m.high ELSE m.orHigh})
    IN IF Beyond(s, m.px, behind) THEN behind
       ELSE IF s = "buy" THEN m.px - m.least ELSE m.px + m.least

NoLate(class) == [side |-> "wait", class |-> class, entry |-> Nil, stop |-> Nil, target |-> Nil, confidence |-> 0]

\* The target is the extreme of the day, and must clear two risks.
LateTrade(m, s, class, confidence) ==
    LET stop == LateStop(m, s)
        target == IF s = "buy" THEN m.high ELSE m.low
        risk == AbsVal(m.px - stop)
        reward == AbsVal(target - m.px)
    IN IF risk = 0 \/ risk > 100 * MaxRiskPoints \/ reward < 2 * risk
       THEN NoLate("no_late_session_setup")
       ELSE [side |-> s, class |-> class, entry |-> m.px, stop |-> stop, target |-> target,
             confidence |-> confidence]

LateScored(m, score, expiry, class) ==
    LET sides == Spoken(m, score, class)
        best == Larger(score["buy"], score["sell"])
        confidence == Smaller(78, 45 + 5 * best + If(m.expands, 5) + If(expiry.active, 3))
    IN IF sides = {} \/ best < 5
       THEN NoLate(IF class = "expiry_compression" THEN class ELSE "no_late_session_setup")
       ELSE LateTrade(m, IF "buy" \in sides THEN "buy" ELSE "sell", class, confidence)

LateJudged(m, score, expiry) == LateScored(m, score, expiry, LateClass(m, score, expiry))

\* analyzeLateSession: idle outside the window and until there are bars enough.
LateSession(m, minute, trendSide, bias, levels, expiry) ==
    IF minute \notin LATE_WINDOW_START..LATE_WINDOW_END \/ m = Nil
    THEN NoLate("no_late_session_setup")
    ELSE LateJudged(m, Scores(m, trendSide, bias, levels), expiry)
=============================================================================
