------------------------------ MODULE ChartBoard ------------------------------
(***************************************************************************)
(* What a chart pane draws.  Candles reach it from three sides: the        *)
(* server's rows, refetched on timers and after downloads; the ticks of    *)
(* the stream, merged into the cached candles and painted straight on the  *)
(* series; and the quote, from which the forming bar is painted at every   *)
(* render.  They arrive in any order, also after the pane shows another    *)
(* symbol.                                                                 *)
(*                                                                         *)
(* Time is counted in units of which a day has DayLength; candles are      *)
(* functions from open times to bars, the last one is the tip.  The        *)
(* exchange's prices are the constant Tape, so the true bar of every       *)
(* window is known.  Volume and the replay slider are left out.            *)
(***************************************************************************)
EXTENDS Listing, Integers, FiniteSets, FiniteSetsExt

CONSTANTS
    Nse,            \* symbols with a cash session; the others trade always
    Misstamped,     \* symbols whose newest bar the provider may stamp with its last trade
    Tape,           \* Tape[s][t]: price of s at time t
    Timeframe,      \* length of a bar
    DayLength, SessionOpen, SessionClose, Weekend,   \* Weekend: days without a session
    Start, Horizon, \* the run starts at Start, the clock stops at Horizon
    Mounted,        \* the symbols the pane may be mounted with
    Stored,         \* Stored[s]: the server has the rows of s up to this time, or -1
    Limit,          \* how many rows a candle query asks for
    Cooldown,       \* ENSURE_COOLDOWN_MS
    MaxEvents       \* bound: switches, restyles, ticks, the stream's downloads, failures

ASSUME MarketsAssumption ==
    Mounted \subseteq Symbols /\ Nse \subseteq Symbols /\ Misstamped \subseteq Symbols
ASSUME TapeAssumption == Tape \in [Symbols -> [0..Horizon -> Nat \ {0}]]
ASSUME ClockAssumption ==
    /\ Timeframe \in Nat \ {0} /\ Horizon \in Nat /\ Start \in 0..Horizon
    /\ {SessionOpen, SessionClose, DayLength} \subseteq Nat
    /\ SessionOpen < SessionClose /\ SessionClose < DayLength
\* The selector offers bars of a day and of at most four hours; a night is longer.
ASSUME TimeframeAssumption ==
    Timeframe = DayLength \/ Timeframe <= DayLength - (SessionClose - SessionOpen)
ASSUME StoredAssumption == Stored \in [Symbols -> {-1} \cup 0..Start]
ASSUME EventsAssumption ==
    Limit \in Nat \ {0} /\ Cooldown \in Nat /\ MaxEvents \in Nat

Never == -1
NoPrice == 0
NoQuote == [price |-> NoPrice, at |-> Never, trading |-> TRUE]
NoBars == [t \in {} |-> 0]

VARIABLES
    now,
    rows,        \* server: rows stored for each symbol, by their stamp
    downloads,   \* server: downloads that the stream's interval has asked for, by symbol
    filling,     \* inFlight: symbols with a backfill in progress
    completed,   \* lastCompleted: when the last backfill of a symbol ended
    cache,       \* query cache: candles of each symbol
    fetching,    \* symbols whose candle query is being fetched
    remerge,     \* prices to be merged once the fetch after a download returns
    quote,       \* query cache: [price, at, trading] of each symbol
    shown,       \* symbol of the pane
    lastPrice,   \* lastPriceRef of the pane's stream
    drawn,       \* bars on the series
    painted,     \* symbol whose bars were the last to be painted in full
    opened,      \* openedKeys
    awaited,     \* symbol of the effect that awaits a backfill and is not cancelled
    wanted,      \* needsFill when the effect ran last
    status,      \* EnsureStatus: "idle", "busy", "ready", "error"
    events       \* counted against MaxEvents

server == <<rows, downloads, completed>>
queries == <<cache, fetching, remerge, quote>>
render == <<drawn, painted, filling, opened, awaited, wanted, status>>
chartVars == <<now, server, queries, shown, lastPrice, render, events>>

-----------------------------------------------------------------------------
(* Bar windows *)

Floor(t) == (t \div Timeframe) * Timeframe
Day(t) == t \div DayLength
Opens(t) == Day(t) * DayLength + SessionOpen
Closes(t) == Day(t) * DayLength + SessionClose
Weekday(t) == Day(t) \notin Weekend
InSession(s, t) == s \in Nse => Weekday(t) /\ Opens(t) <= t /\ t < Closes(t)

\* Open of the bar that is forming at t, or Never.
CurrentBarOpen(s, t) ==
    CASE s \notin Nse -> Floor(t)
      [] s \in Nse /\ Timeframe >= DayLength ->
            IF Weekday(t) /\ Opens(t) <= t THEN Opens(t) ELSE Never
      [] OTHER ->
            IF InSession(s, t)
            THEN Opens(t) + ((t - Opens(t)) \div Timeframe) * Timeframe ELSE Never

CurrentBarClose(s, t) ==
    LET natural == CurrentBarOpen(s, t) + Timeframe
    IN IF s \in Nse /\ natural > Closes(t) THEN Closes(t) ELSE natural

\* The open of the bar that a stamp belongs to.
Snap(s, t) ==
    IF s \notin Nse \/ ~Weekday(t) THEN Floor(t)
    ELSE IF Timeframe >= DayLength \/ t < Opens(t) THEN Opens(t)
    ELSE IF t >= Closes(t) THEN Max({Opens(t), Closes(t) - Timeframe})
    ELSE Opens(t) + ((t - Opens(t)) \div Timeframe) * Timeframe

\* Bars stamped inside one window become one bar at its open.
Coalesced(s, bars) ==
    [o \in {Snap(s, t) : t \in DOMAIN bars} |->
        LET same == {t \in DOMAIN bars : Snap(s, t) = o}
        IN [open |-> bars[Min(same)].open,
            high |-> Max({bars[t].high : t \in same}),
            low |-> Min({bars[t].low : t \in same}),
            close |-> bars[Max(same)].close]]

Painted(open, high, low, price) ==
    [open |-> open, high |-> Max({high, price, open}), low |-> Min({low, price, open}),
     close |-> price]

\* Mutant: the last stored bar is always taken for the one before.
FarBehindMutant(last, cur) == FALSE
\* Bars are missing between the last one and the one that is forming.
FarBehind(last, cur) == (cur - last) \div Timeframe > 1

\* mergeLiveFormingCandle: the bars with the forming one painted at a price.
Merge(s, bars, price, t, trading) ==
    LET clean == Coalesced(s, bars)
        last == Max(DOMAIN clean)
        cur == CurrentBarOpen(s, t)
        px == IF price = NoPrice THEN clean[last].close ELSE price
        window == {o \in DOMAIN clean : cur <= o /\ o < CurrentBarClose(s, t)}
        first == IF cur \in window THEN cur ELSE Min(window)
        WithTip(open, high, low) ==
            [o \in {o \in DOMAIN clean : o < cur} \cup {cur} |->
                IF o = cur THEN Painted(open, high, low, px) ELSE clean[o]]
    IN IF bars = NoBars THEN bars
       ELSE IF cur = Never \/ (~trading /\ last # cur) THEN clean
       ELSE IF window # {} THEN WithTip(clean[first].open, Max({clean[o].high : o \in window}),
                                        Min({clean[o].low : o \in window}))
       ELSE IF last > cur THEN WithTip(clean[last].open, clean[last].high, clean[last].low)
       ELSE IF FarBehind(last, cur) THEN clean
       ELSE WithTip(clean[last].close, clean[last].close, clean[last].close)

\* shouldAllowLiveBar with the market status of the quote in the cache.
AllowNewBar(s, q, t) == s \in Nse => IF q = NoQuote THEN InSession(s, t) ELSE q.trading

-----------------------------------------------------------------------------
(* Rows of the server *)

TrueBar(s, o, upto) ==
    LET prices == {Tape[s][t] : t \in o .. Min({upto, CurrentBarClose(s, o) - 1})}
    IN [open |-> Tape[s][o], high |-> Max(prices), low |-> Min(prices),
        close |-> Tape[s][Min({upto, CurrentBarClose(s, o) - 1})]]

\* What a download at t brings: every bar up to t, the newest stamped at its open or, by
\* some providers, with the time of the answer until it closes and its close from then on.
Brought(s, t, late) ==
    LET windows == {o \in 0..t : CurrentBarOpen(s, o) = o}
        Stamp(o) == IF ~late \/ \E x \in windows : x > o THEN o
                    ELSE IF t < CurrentBarClose(s, o) THEN t ELSE CurrentBarClose(s, o)
    IN [a \in {Stamp(o) : o \in windows} |->
            TrueBar(s, CHOOSE o \in windows : Stamp(o) = a, t)]

\* Rows are inserted or updated by their stamps.
Upserted(bars, new) ==
    [t \in DOMAIN bars \cup DOMAIN new |-> IF t \in DOMAIN new THEN new[t] ELSE bars[t]]

\* The query is answered with the rows stamped last.
Latest(bars) ==
    [t \in {t \in DOMAIN bars : Cardinality({u \in DOMAIN bars : u > t}) < Limit} |-> bars[t]]

Stamps(s) == {FALSE} \cup (IF s \in Misstamped THEN {TRUE} ELSE {})
Load(s) == \E late \in Stamps(s) : rows' = [rows EXCEPT ![s] = Upserted(@, Brought(s, now, late))]

-----------------------------------------------------------------------------
(* Rendering *)

\* The candles passed to the chart: the cached ones with the tip at the quote.
View(s, bars, q, t) ==
    Merge(s, bars, IF q # NoQuote THEN q.price ELSE NoPrice, t, AllowNewBar(s, q, t))

\* The series has as many bars as are to be painted and the same tip time.
SameShape(old, new) ==
    /\ old # NoBars /\ new # NoBars
    /\ Cardinality(DOMAIN old) = Cardinality(DOMAIN new)
    /\ Max(DOMAIN old) = Max(DOMAIN new)

\* Mutant: a repaint of the same bars is taken for one that changes nothing.
RepaintMutant(old, new) == IF SameShape(old, new) THEN old ELSE new
\* The paint effect: of a series of the same shape only the tip is updated, whichever
\* symbol it belongs to, otherwise all the data is set.  Without bars there is no chart.
Repaint(old, new) ==
    IF SameShape(old, new) THEN [old EXCEPT ![Max(DOMAIN new)] = new[Max(DOMAIN new)]]
    ELSE new

Stale(s, bars, q, t) ==
    LET last == Max(DOMAIN bars)
        expected == CurrentBarOpen(s, t)
    IN /\ q.trading
       /\ \/ expected # Never /\ last < expected - Timeframe
          \/ 4 * (t - last - Timeframe) > 5 * Timeframe
NeedsFill(s, bars, q, t, busy) == s \notin busy /\ (bars = NoBars \/ Stale(s, bars, q, t))

\* The effect of useEnsureMarketData runs when its symbol or needsFill changes, and
\* cancels the one before.  The first time a symbol is shown, or when bars are missing
\* and the last backfill is some time ago, it joins the backfill of the symbol or starts
\* it, unless its state says that one is under way.
Ensure(s, need, pending, state) ==
    LET cool == completed'[s] # Never /\ now' - completed'[s] < Cooldown
        run == s \notin opened \/ (need /\ ~cool)
        busy == s = shown /\ state = "busy"
    IN /\ wanted' = need
       /\ opened' = IF run /\ ~busy THEN opened \cup {s} ELSE opened
       /\ awaited' = IF run /\ ~busy THEN s ELSE NoSymbol
       /\ filling' = IF run /\ ~busy THEN pending \cup {s} ELSE pending
       /\ status' = IF run THEN "busy" ELSE IF state = "error" THEN "error" ELSE "ready"

\* React renders the pane after every event: the series is repainted from the candles,
\* the quote and the clock, and the effect runs if what it depends on has changed.
Commit(series, pending, state, waits) ==
    LET need == NeedsFill(shown', cache'[shown'], quote'[shown'], now', fetching')
        bars == View(shown', cache'[shown'], quote'[shown'], now')
    IN /\ drawn' = Repaint(series, bars)
       /\ painted' = IF SameShape(series, bars) THEN painted ELSE shown'
       /\ IF need # wanted \/ shown' # shown THEN Ensure(shown', need, pending, state)
          ELSE /\ filling' = pending /\ status' = state /\ awaited' = waits
               /\ UNCHANGED <<opened, wanted>>
Render == Commit(drawn, filling, status, awaited)

\* Another theme or chart type: the chart is removed and created again.
Restyle ==
    /\ events < MaxEvents
    /\ events' = events + 1
    /\ UNCHANGED <<now, server, queries, shown, lastPrice>>
    /\ Commit(NoBars, filling, status, awaited)

\* The pane gets another symbol: its queries are fetched, its stream starts.  The price of
\* the last tick stays where it is.
ShowSymbol(s) ==
    /\ s # shown /\ events < MaxEvents
    /\ events' = events + 1
    /\ shown' = s
    /\ fetching' = fetching \cup {s}
    /\ UNCHANGED <<now, server, cache, remerge, quote, lastPrice>>
    /\ Render

-----------------------------------------------------------------------------
(* Queries *)

Invalidated(s) == IF s = shown THEN fetching \cup {s} ELSE fetching

\* Mutant: an empty answer stops the polling.
PolledMutant(s) == s = shown /\ s \notin fetching /\ cache[s] # NoBars
\* The candles of the shown symbol are fetched every 8 to 30 seconds.
Polled(s) == s = shown /\ s \notin fetching
Poll(s) ==
    /\ Polled(s)
    /\ fetching' = fetching \cup {s}
    /\ UNCHANGED <<now, server, cache, remerge, quote, shown, lastPrice, events>>
    /\ Render

\* The answer replaces the cached candles; if a download asked for the fetch, the price
\* it read then is merged into them.
Answer(s) ==
    /\ s \in fetching
    /\ fetching' = fetching \ {s}
    /\ cache' = [cache EXCEPT ![s] =
                    IF remerge[s] = NoPrice THEN Latest(rows[s])
                    ELSE Merge(s, Latest(rows[s]), remerge[s], now, AllowNewBar(s, quote[s], now))]
    /\ remerge' = [remerge EXCEPT ![s] = NoPrice]
    /\ UNCHANGED <<now, server, quote, shown, lastPrice, events>>
    /\ Render

Quoted(s) ==
    [quote EXCEPT ![s] = [price |-> Tape[s][now], at |-> now, trading |-> InSession(s, now)]]
QuoteAnswer(s) ==
    /\ s = shown
    /\ quote' = Quoted(s)
    /\ UNCHANGED <<now, server, cache, fetching, remerge, shown, lastPrice, events>>
    /\ Render

-----------------------------------------------------------------------------
(* The stream *)

\* The tip bus: a tick is painted on the series before React renders.
TipPainted(price) ==
    IF drawn = NoBars THEN drawn
    ELSE [drawn EXCEPT ![Max(DOMAIN drawn)] = Painted(@.open, @.high, @.low, price)]

\* A tick of the exchange's time t.
PriceTick(t) ==
    LET price == Tape[shown][t]
    IN /\ t >= Start /\ InSession(shown, t) /\ events < MaxEvents
       /\ events' = events + 1
       /\ lastPrice' = price
       /\ cache' = [cache EXCEPT ![shown] =
                Merge(shown, @, price, now, AllowNewBar(shown, quote[shown], now))]
       /\ quote' = [quote EXCEPT ![shown] =
                IF @ = NoQuote \/ t < @.at THEN @ ELSE [@ EXCEPT !.price = price, !.at = t]]
       /\ UNCHANGED <<now, server, fetching, remerge, shown>>
       /\ Commit(TipPainted(price), filling, status, awaited)

\* The stream's interval asks for an incremental download of its symbol.
AskDownload ==
    /\ events < MaxEvents /\ shown \notin downloads
    /\ events' = events + 1
    /\ downloads' = downloads \cup {shown}
    /\ UNCHANGED <<now, rows, completed, queries, shown, lastPrice>>
    /\ Render

\* It is answered, for a symbol the pane may no longer show: the price read is the last
\* one of the pane.
Downloaded(s) ==
    /\ s \in downloads
    /\ downloads' = downloads \ {s}
    /\ Load(s)
    /\ fetching' = Invalidated(s)
    /\ IF s = shown
       THEN remerge' = [remerge EXCEPT ![s] = lastPrice] /\ UNCHANGED cache
       ELSE /\ UNCHANGED remerge
            /\ cache' = IF lastPrice = NoPrice THEN cache
                        ELSE [cache EXCEPT ![s] =
                            Merge(s, @, lastPrice, now, AllowNewBar(s, quote[s], now))]
    /\ UNCHANGED <<now, completed, quote, shown, lastPrice, events>>
    /\ Render

-----------------------------------------------------------------------------
(* Backfills *)

Filled(s) ==
    /\ s \in filling
    /\ Load(s)
    /\ completed' = [completed EXCEPT ![s] = now]
    /\ fetching' = IF awaited = s THEN Invalidated(s) ELSE fetching
    /\ UNCHANGED <<now, downloads, cache, remerge, quote, shown, lastPrice, events>>
    /\ IF awaited = s THEN Commit(drawn, filling \ {s}, "ready", NoSymbol)
       ELSE Commit(drawn, filling \ {s}, status, awaited)

FillFails(s) ==
    /\ s \in filling /\ events < MaxEvents
    /\ events' = events + 1
    /\ UNCHANGED <<now, server, queries, shown, lastPrice>>
    /\ IF awaited = s THEN Commit(drawn, filling \ {s}, "error", NoSymbol)
       ELSE Commit(drawn, filling \ {s}, status, awaited)

Advance ==
    /\ now < Horizon
    /\ now' = now + 1
    /\ UNCHANGED <<server, queries, shown, lastPrice, events>>
    /\ Render

-----------------------------------------------------------------------------
\* The pane has just been mounted: its candles are fetched, its first backfill runs.
ChartInit ==
    /\ now = Start
    /\ \E late \in BOOLEAN :
          rows = [s \in Symbols |-> IF Stored[s] = Never THEN NoBars
                                    ELSE Brought(s, Stored[s], late /\ s \in Misstamped)]
    /\ downloads = {}
    /\ completed = [s \in Symbols |-> Never]
    /\ cache = [s \in Symbols |-> NoBars]
    /\ remerge = [s \in Symbols |-> NoPrice]
    /\ quote = [s \in Symbols |-> NoQuote]
    /\ shown \in Mounted
    /\ fetching = {shown} /\ filling = {shown}
    /\ lastPrice = NoPrice
    /\ drawn = NoBars /\ painted = shown
    /\ opened = {shown} /\ awaited = shown /\ wanted = FALSE /\ status = "busy"
    /\ events = 0

ChartNext ==
    \/ Advance \/ AskDownload \/ Restyle
    \/ \E t \in {now - 1, now} : PriceTick(t)
    \/ \E s \in Symbols :
          ShowSymbol(s) \/ Poll(s) \/ Answer(s) \/ QuoteAnswer(s)
          \/ Downloaded(s) \/ Filled(s) \/ FillFails(s)

ChartSpec == ChartInit /\ [][ChartNext]_chartVars

\* Timers and answers of the HTTP queries keep coming; ticks and the stream's downloads
\* may stop for good.
Fairness ==
    /\ WF_now(now < Horizon /\ now' = now + 1)
    /\ \A s \in Symbols :
        /\ WF_fetching(Polled(s) /\ fetching' = fetching \cup {s})
        /\ WF_fetching(fetching' = fetching \ {s})
        /\ WF_filling(filling' = filling \ {s})
        /\ WF_quote(s = shown /\ quote' = Quoted(s))
FairSpec == ChartSpec /\ Fairness

-----------------------------------------------------------------------------
\* A bar of s begins at o.
IsOpen(s, o) == CurrentBarOpen(s, o) = o

\* A session that is no whole number of bars ends in a short one.  Stamped after the close
\* it is placed a bar before the close (liveCandle.ts:178), between two opens.
Short(s, o) ==
    s \in Nse /\ Timeframe < DayLength /\ Opens(o) < o /\ o + Timeframe > Closes(o)
Misplaced(s, o) ==
    s \in Nse /\ Timeframe < DayLength /\ Weekday(o) /\ Opens(o) < o /\ o + Timeframe = Closes(o)

\* The chart is a run of consecutive bars of one symbol: each painted bar begins at an open,
\* and the bar after it at the next open of the exchange, over nights too, but for the
\* short bars that end a session; a provider's stamps never show, and no bar is painted
\* across missing rows.  The symbol is the one shown, unless a switch found as many bars
\* up to the same tip: then the bars of the symbol before stay under the new tip, for as
\* long as the bars to be painted keep that shape (TerminalChart.tsx:482).
NoHole ==
    /\ \A o \in DOMAIN drawn :
          /\ IsOpen(painted, o) \/ Misplaced(painted, o)
          /\ \A x \in o + 1 .. Max(DOMAIN drawn) :
                 IsOpen(painted, x) /\ ~Short(painted, x) => x \in DOMAIN drawn
    /\ painted # shown =>
          SameShape(drawn, View(shown, cache[shown], quote[shown], now))

\* Once the clock stands in an open session, the tip stays the bar that is forming and
\* its close the last price, whatever was late, failed or was lost before.
TipSettles ==
    <>[](InSession(shown, Horizon) =>
            /\ drawn # NoBars
            /\ Max(DOMAIN drawn) = CurrentBarOpen(shown, Horizon)
            /\ drawn[Max(DOMAIN drawn)].close = Tape[shown][Horizon])

\* A chart without bars gets them.
EmptyChartFills == (drawn = NoBars) ~> (drawn # NoBars)

=============================================================================
