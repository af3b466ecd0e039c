--------------------------- MODULE MCDecisionDesk ---------------------------
(* Values for DecisionDesk: tapes of 26 candles around 2000 and the answers. *)
EXTENDS DecisionDesk

MCUnit == [api |-> "fraction", demo |-> "percent", index |-> "percent"]
\* Two charts with setups; and three of indices, without any: on an expiry day moved by a
\* holiday, on an ordinary day, and on another such expiry day.
Stock(tf, server) == [timeframe |-> tf, server |-> server, symbol |-> "TCS", date |-> DayOf(3, 25), tapes |-> {"drop", "rally"}]
Index(symbol, date, tapes) == [timeframe |-> "15m", server |-> "index", symbol |-> symbol, date |-> date, tapes |-> tapes]
SessionTapes == {"spike", "slump", "sag", "climb", "coil", "opening"}
MCCharts ==
    {Stock("15m", "api"), Stock("1h", "demo"), Index("NIFTY50", DayOf(3, 30), SessionTapes),
     Index("BANKNIFTY", DayOf(3, 25), SessionTapes), Index("SENSEX", DayOf(3, 25), {"climb"})}

\* A bar opens at the close of the bar before.
Bars(closes) ==
    [k \in DOMAIN closes |->
       LET o == IF k = 1 THEN closes[1] ELSE closes[k - 1] IN
       [o |-> o, c |-> closes[k], v |-> 12,
        h |-> Larger(o, closes[k]) + (IF o < closes[k] THEN 2 ELSE 1),
        l |-> Smaller(o, closes[k]) - (IF o > closes[k] THEN 2 ELSE 1)]]
\* Two lower highs; then a drop on volume.  The other tape rises from the start.
Falling == Bars(<<2030, 2026, 2022, 2018, 2022, 2027, 2021, 2016, 2012, 2009, 2013, 2019, 2014,
                  2009, 2005, 2001, 2004, 2009, 2005, 2001, 1998, 1995, 1998, 2000, 1999>>)
\* A day in three parts: a busy opening, an excursion and the way back.
Day(opening, excursion, back) ==
    LET closes == opening \o excursion \o back
        bars == Bars(closes)
    IN [k \in DOMAIN bars |->
          [bars[k] EXCEPT !.v = IF k <= Len(opening) THEN 200
                                ELSE IF k < Len(closes) THEN 5 ELSE 120]]
Flat(a, b, n) == [k \in 1..n |-> IF k % 2 = 1 THEN a ELSE b]
MCTapes == [none |-> <<>>,
            spike |-> Day(Flat(2005, 2007, 14), <<2011, 2018, 2026, 2033, 2038, 2031, 2024, 2018>>,
                          <<2014, 2013, 2014, 2012>>),
            slump |-> Day(Flat(2005, 2003, 9), <<1999, 1993, 1986, 1979, 1972, 1979, 1986, 1991>>,
                          <<1994, 1996, 1997, 1998, 1997, 1998, 1999, 1997, 1998>>),
            sag |-> Day(Flat(2012, 2010, 9), <<2007, 2004, 2001, 2004, 2001, 1999, 1998, 1996>>,
                        <<1997, 1996, 1998, 1997, 1996, 1997>>),
            climb |-> Day(Flat(2001, 2002, 9), <<2003, 2004, 2005, 2006, 2008, 2010, 2013, 2016>>,
                          <<2020, 2024, 2029, 2034, 2039, 2044>>),
            coil |-> Day(<<2000, 2010, 2002, 2014, 2004, 2012, 2003, 2010, 2004>>, <<2010, 2005, 2009, 2006>>,
                         Flat(2007, 2008, 12)),
            opening |-> Bars(Flat(2005, 2007, 9)),
            drop |-> Append(Falling, [o |-> 1998, h |-> 1999, l |-> 1990, c |-> 1992, v |-> 30]),
            rally |-> Append(Bars([k \in 1..25 |-> 1950 + 2 * k]), [o |-> 2000, h |-> 2008, l |-> 1999, c |-> 2007, v |-> 24])]
MCClock ==
    [t \in DOMAIN MCTapes |->
       CASE t \in {"spike", "slump", "sag", "climb"} -> [today |-> Len(MCTapes[t]), minute |-> 14 * 60 + 45]
         [] t = "coil" -> [today |-> Len(MCTapes[t]), minute |-> 15 * 60 + 20]
         [] t = "opening" -> [today |-> 9, minute |-> 10 * 60]
         [] OTHER -> [today |-> 0, minute |-> 12 * 60]]
MCLevelSets ==
    LET L(ema) == [sup |-> 1990, res |-> 2040, support |-> {1990}, resistance |-> {2040}, vwapOn |-> TRUE, vwap |-> Nil, ema |-> ema]
    IN [none |-> [L(Nil) EXCEPT !.support = {}, !.resistance = {}, !.sup = Nil, !.res = Nil], both |-> L(1998)]

Setup(type, dir, conf, state, near, targets) ==
    [type |-> type, direction |-> dir, confidence |-> conf, state |-> state, rr |-> 200,
     entry |-> <<1998, 2002>>, stop |-> <<near, near>>, targets |-> targets,
     evidence |-> [market_structure |-> 80]]
Bear(type, conf, stop, target) == Setup(type, "bearish", conf, "entry_ready", stop, <<<<target, target>>>>)
MCSetupAnswers ==
    [api |-> {{}, {Bear("pullback", 64, 2010, 1985),
                   Setup("breakout", "bullish", 90, "expired", 1990, <<<<2030, 2030>>>>)},
              {Setup("range_rejection", "bearish", 54, "entry_ready", 2006, <<<<1987, 1990>>>>)}, {Bear("breakout", 80, 2020, 1950)}},
     index |-> {{}},
     demo |-> {{}, {Bear("order_block_reversal", 75, 2005, 1990)},
               {Setup("breakout", "bullish", 75, "entry_ready", 1995, <<<<2010, 2010>>>>)}}]

Trend(side, conf) == [side |-> side, confidence |-> conf, phase |-> "trending", phaseConfidence |-> 70]
MCTrendAnswers == [tf \in Timeframes |->
    CASE tf = "15m" -> {Trend("bearish", 75), Trend("bullish", 75)}
      [] tf = "1h" -> {Trend("bearish", 75)}
      [] OTHER -> {}]
Zone(kind, side, state) ==
    [kind |-> kind, side |-> side, confidence |-> 80, live |-> TRUE, state |-> state, fill |-> 20]
Touched == {Zone("ob", "sell", "untouched"), [Zone("ob", "sell", "mitigated") EXCEPT !.fill = 70]}
AllZones == {{Zone("ob", "sell", "untouched")}, Touched,
             Touched \cup {Zone("fvg", "sell", "open"), Zone("sweep", "sell", "confirmed")}}
MCZoneAnswers == [api |-> AllZones, demo |-> AllZones, index |-> {{}}]
Selling == {[bos |-> <<"sell">>, choch |-> <<>>], [bos |-> <<>>, choch |-> <<"buy", "sell">>]}
MCEventAnswers == [api |-> Selling, demo |-> Selling,
                   index |-> {[bos |-> <<"sell">>, choch |-> <<>>], [bos |-> <<"sell">>, choch |-> <<"buy">>]}]
MCStrategies == <<{"trend_continuation", "pullback"}, {"breakout", "range_breakout"}, {"fvg_continuation"}>>
=============================================================================
