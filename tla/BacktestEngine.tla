---------------------------- MODULE BacktestEngine ----------------------------
(***************************************************************************)
(* One run of the backtesting engine: app/engines/backtesting.             *)
(*                                                                         *)
(* For every candle the engine manages the open positions, drops expired   *)
(* orders, turns the plans detected at this candle into orders and tries   *)
(* to fill every order; after the last candle the remaining positions are  *)
(* closed at its close.  Walk-forward mode repeats this over test windows  *)
(* and carries the capital along.  A step of this model is one turn of one *)
(* of those loops, in any order of the positions or orders of a candle:    *)
(* the order only permutes the trades closed by the same candle.           *)
(*                                                                         *)
(* Prices and quantities are integers; the tick is 1, slippage and half    *)
(* the spread are one constant, commissions are the flat fee.              *)
(***************************************************************************)
EXTENDS Integers, Sequences, SequencesExt

CONSTANTS
    Plans,         \* the plans of the run
    PlanOf,        \* plan -> [dir, low, high, stop, t1, t2, t3, detected, expiration]
    Bars,          \* the candles a run may see: [open, high, low, close]
    NBars,         \* number of candles
    OrderType,     \* "market", "limit" or "stop"
    Sizes,         \* what calculate_position_size may return
    Shares, Whole, \* what partial_take_pct may be, in parts of Whole
    MoveToBreakeven,
    TrailBy,       \* atr * trailing_stop_atr_mult, 0 for no trailing stop
    MaxBarsInTrade,    \* 0 for no limit
    Slip, Fee, InitialCapital,
    WalkForward, Train, Test, Step,
    NoPrice

ASSUME PlansAssumption ==
    PlanOf \in [Plans -> [dir : {1, -1}, low : Int, high : Int, stop : Int,
                          t1 : Int, t2 : Int, t3 : Int \cup {NoPrice},
                          detected : Nat, expiration : Nat]]
\* A stop lies on the far side of the entry zone (trade_setup/zones.py:60, 74).
ASSUME ZonesAssumption ==
    \A p \in Plans :
        /\ PlanOf[p].low <= PlanOf[p].high
        /\ PlanOf[p].dir = 1 => PlanOf[p].stop <= PlanOf[p].low
        /\ PlanOf[p].dir = -1 => PlanOf[p].stop >= PlanOf[p].high
ASSUME BarsAssumption ==
    Bars \subseteq [open : Int, high : Int, low : Int, close : Int]
ASSUME ConfigAssumption ==
    /\ Sizes \subseteq Nat
    /\ Shares \subseteq 0..Whole /\ Whole \in Nat \ {0}
    /\ MoveToBreakeven \in BOOLEAN /\ WalkForward \in BOOLEAN
    /\ NBars \in Nat /\ Train \in Nat /\ Test \in Nat /\ Step \in Nat
    /\ TrailBy \in Nat /\ MaxBarsInTrade \in Nat /\ Slip \in Nat /\ Fee \in Nat
    /\ InitialCapital \in Int
ASSUME NoPriceAssumption == NoPrice \notin Int

VARIABLES
    candles,       \* the candles of this run
    share,         \* its partial_take_pct
    seg,           \* index before the first candle of the window
    bar,           \* index of the current candle
    phase,         \* manage, fill, close (after the last candle) or done
    todo,          \* plans whose position or order this phase has not handled yet
    pending, open, \* plans with a pending order, plans with an open position
    qty, remaining, entry, entryBar, trailing, t1hit, breakeven,   \* OpenPosition
    exited, booked,    \* sums of qty and pnl over trade.partial_exits
    capital,
    fees,          \* entry commissions paid
    trades         \* closed trades: [plan, qty, exited, partials, pnl, reason]

clock == <<candles, share, seg, bar, phase>>
book == <<pending, open>>
position == <<qty, remaining, entry, entryBar, trailing, t1hit, breakeven, exited, booked>>
money == <<capital, fees, trades>>
vars == <<clock, todo, book, position, money>>

FirstSegment == IF WalkForward THEN Train ELSE 0
SegmentEnd == IF WalkForward THEN seg + Test ELSE NBars
Fits(start) == IF WalkForward THEN start + Test <= NBars ELSE start = 0

Init ==
    /\ candles \in [1..NBars -> Bars]
    /\ share \in Shares
    /\ seg = FirstSegment
    /\ bar = seg + 1
    /\ phase = IF Fits(seg) /\ seg < SegmentEnd THEN "manage" ELSE "done"
    /\ todo = {} /\ pending = {} /\ open = {}
    /\ qty = [p \in Plans |-> 0]
    /\ remaining = [p \in Plans |-> 0]
    /\ entry = [p \in Plans |-> NoPrice]
    /\ entryBar = [p \in Plans |-> 0]
    /\ trailing = [p \in Plans |-> NoPrice]
    /\ t1hit = [p \in Plans |-> FALSE]
    /\ breakeven = [p \in Plans |-> FALSE]
    /\ exited = [p \in Plans |-> 0]
    /\ booked = [p \in Plans |-> 0]
    /\ capital = InitialCapital
    /\ fees = 0
    /\ trades = <<>>

-----------------------------------------------------------------------------
(* Directions.  A bearish plan is a bullish one on negated prices.         *)

Dir(p) == PlanOf[p].dir
Candle == candles[bar]
Worst(p) == IF Dir(p) = 1 THEN Candle.low ELSE -Candle.high
Best(p) == IF Dir(p) = 1 THEN Candle.high ELSE -Candle.low

\* apply_slippage: an entry pays Slip, an exit loses it.
EntryPrice(p, price) == price + Dir(p) * Slip
ExitPrice(p, price) == price - Dir(p) * Slip
Pnl(p, price, q) == Dir(p) * (price - entry[p]) * q

\* try_fill_entry: the price before slippage, or NoPrice.
FillLevel(p) ==
    LET plan == PlanOf[p] IN
    IF OrderType = "market" THEN Candle.open
    ELSE IF /\ OrderType = "limit"
            /\ Candle.low <= plan.high
            /\ Candle.high >= plan.low
         THEN IF plan.dir = 1 THEN plan.low ELSE plan.high
    ELSE IF /\ OrderType = "stop"
            /\ IF plan.dir = 1 THEN Candle.high >= plan.high ELSE Candle.low <= plan.low
         THEN IF plan.dir = 1 THEN plan.high ELSE plan.low
    ELSE NoPrice

-----------------------------------------------------------------------------
(* manage_position.                                                        *)

Stop(p) ==
    IF trailing[p] # NoPrice THEN trailing[p]
    ELSE IF breakeven[p] THEN entry[p]
    ELSE PlanOf[p].stop

TimeUp(p) == MaxBarsInTrade # 0 /\ bar - entryBar[p] >= MaxBarsInTrade
StopHit(p) == Worst(p) <= Dir(p) * Stop(p)
Reached(p, target) == Best(p) >= Dir(p) * target

StopReason(p) ==
    IF breakeven[p] /\ PlanOf[p].stop = entry[p] THEN "breakeven"
    ELSE IF trailing[p] # NoPrice THEN "trailing_stop"
    ELSE "stop_loss"

Reasons == {"time_exit", "breakeven", "trailing_stop", "stop_loss",
            "target_1", "target_2", "target_3", "end_of_data"}

Reason(p) ==
    IF TimeUp(p) THEN "time_exit"
    ELSE IF StopHit(p) THEN StopReason(p)
    ELSE IF ~t1hit[p] /\ Reached(p, PlanOf[p].t1) THEN "target_1"
    ELSE IF t1hit[p] /\ Reached(p, PlanOf[p].t2) THEN "target_2"
    ELSE IF PlanOf[p].t3 # NoPrice /\ Reached(p, PlanOf[p].t3) THEN "target_3"
    ELSE "none"

Level(p) ==
    LET r == Reason(p) IN
    IF r = "time_exit" THEN Candle.close
    ELSE IF r = "target_1" THEN PlanOf[p].t1
    ELSE IF r = "target_2" THEN PlanOf[p].t2
    ELSE IF r = "target_3" THEN PlanOf[p].t3
    ELSE Stop(p)

IsPartial(p) == Reason(p) = "target_1" /\ 0 < share /\ share < Whole

ExitQty(p) ==
    IF IsPartial(p) THEN (remaining[p] * share) \div Whole ELSE remaining[p]

\* remaining_qty as manage_position leaves it: a partial exit is taken off here...
LeftByManager(p) == IF IsPartial(p) THEN remaining[p] - ExitQty(p) ELSE remaining[p]

\* Mutant: the trailing stop follows the last candle both ways.
TrailMutant(p) ==
    /\ trailing' = IF TrailBy = 0 THEN trailing
                   ELSE [trailing EXCEPT ![p] = Dir(p) * (Best(p) - TrailBy)]
    /\ UNCHANGED <<book, qty, remaining, entry, entryBar, t1hit, breakeven,
                   exited, booked, money>>

Trail(p) ==
    LET trail == Best(p) - TrailBy
        stop == Dir(p) * Stop(p)
    IN
    /\ trailing' = IF TrailBy = 0 THEN trailing
                   ELSE [trailing EXCEPT ![p] = Dir(p) * (IF trail > stop THEN trail ELSE stop)]
    /\ UNCHANGED <<book, qty, remaining, entry, entryBar, t1hit, breakeven,
                   exited, booked, money>>

\* A trade as it is reported: partials is the sum of pnl over its partial_exits, which
\* list every exit but the one after the last candle.
Closed(p, out, part, pnl, reason) ==
    [plan |-> p, qty |-> qty[p], exited |-> out, partials |-> part, pnl |-> pnl, reason |-> reason]

\* ... and once more by the engine, which also takes the position for closed when
\* what is left does not exceed what was just sold.
ExitPosition(p) ==
    LET q == ExitQty(p)
        left == LeftByManager(p)
        pnl == Pnl(p, ExitPrice(p, Level(p)), q) - Fee
    IN
    /\ capital' = capital + pnl
    /\ exited' = [exited EXCEPT ![p] = @ + q]
    /\ booked' = [booked EXCEPT ![p] = @ + pnl]
    /\ t1hit' = [t1hit EXCEPT ![p] = @ \/ Reason(p) = "target_1"]
    /\ breakeven' = [breakeven EXCEPT ![p] = @ \/ (Reason(p) = "target_1" /\ MoveToBreakeven)]
    /\ IF left <= q
       THEN /\ trades' = Append(trades, Closed(p, exited'[p], booked'[p], booked'[p], Reason(p)))
            /\ open' = open \ {p}
            /\ remaining' = [remaining EXCEPT ![p] = left]
       ELSE /\ remaining' = [remaining EXCEPT ![p] = left - q]
            /\ UNCHANGED <<trades, open>>
    /\ UNCHANGED <<pending, qty, entry, entryBar, trailing, fees>>

ManagePosition(p) ==
    /\ phase = "manage"
    /\ p \in todo
    /\ todo' = todo \ {p}
    /\ IF Reason(p) = "none" THEN Trail(p) ELSE ExitPosition(p)
    /\ UNCHANGED clock

-----------------------------------------------------------------------------
(* Orders.                                                                 *)

Alive(p) == bar <= PlanOf[p].detected + PlanOf[p].expiration

\* Expired orders go, then the plans detected at this candle become orders.
CollectOrders ==
    /\ phase = "manage"
    /\ todo = {}
    /\ pending' = {p \in pending : Alive(p)} \cup {p \in Plans : PlanOf[p].detected = bar}
    /\ todo' = pending'
    /\ phase' = "fill"
    /\ UNCHANGED <<candles, share, seg, bar, open, position, money>>

OpenPosition(p, q) ==
    /\ qty' = [qty EXCEPT ![p] = q]
    /\ remaining' = [remaining EXCEPT ![p] = q]
    /\ entry' = [entry EXCEPT ![p] = EntryPrice(p, FillLevel(p))]
    /\ entryBar' = [entryBar EXCEPT ![p] = bar]
    /\ trailing' = [trailing EXCEPT ![p] = NoPrice]
    /\ t1hit' = [t1hit EXCEPT ![p] = FALSE]
    /\ breakeven' = [breakeven EXCEPT ![p] = FALSE]
    /\ exited' = [exited EXCEPT ![p] = 0]
    /\ booked' = [booked EXCEPT ![p] = 0]

\* The candle fills the order and the size is not zero.
FillOrder(p, q) ==
    /\ phase = "fill"
    /\ p \in todo
    /\ p \notin open
    /\ FillLevel(p) # NoPrice
    /\ EntryPrice(p, FillLevel(p)) # PlanOf[p].stop
    /\ q > 0
    /\ OpenPosition(p, q)
    /\ open' = open \cup {p}
    /\ pending' = pending \ {p}
    /\ capital' = capital - Fee
    /\ fees' = fees + Fee
    /\ todo' = todo \ {p}
    /\ UNCHANGED <<clock, trades>>

\* The plan has a position already, or the size comes out as zero.
DropOrder(p, q) ==
    /\ phase = "fill"
    /\ p \in todo
    /\ \/ p \in open
       \/ /\ FillLevel(p) # NoPrice
          /\ EntryPrice(p, FillLevel(p)) = PlanOf[p].stop \/ q = 0
    /\ pending' = pending \ {p}
    /\ todo' = todo \ {p}
    /\ UNCHANGED <<clock, open, position, money>>

\* The candle does not reach the order.
KeepOrder(p) ==
    /\ phase = "fill"
    /\ p \in todo
    /\ p \notin open
    /\ FillLevel(p) = NoPrice
    /\ todo' = todo \ {p}
    /\ UNCHANGED <<clock, book, position, money>>

EndBar ==
    /\ phase = "fill"
    /\ todo = {}
    /\ IF bar < SegmentEnd
       THEN bar' = bar + 1 /\ phase' = "manage"
       ELSE bar' = bar /\ phase' = "close"
    /\ todo' = open
    /\ UNCHANGED <<candles, share, seg, book, position, money>>

-----------------------------------------------------------------------------
(* After the last candle.                                                  *)

\* Mutant: the exit commission is charged but left out of the trade's pnl.
CloseOutMutant(p) ==
    LET pnl == Pnl(p, Candle.close, remaining[p]) - Fee
    IN
    /\ phase = "close"
    /\ p \in todo
    /\ capital' = capital + pnl
    /\ trades' = Append(trades, Closed(p, exited[p] + remaining[p], booked[p], pnl + Fee, "end_of_data"))
    /\ todo' = todo \ {p}
    /\ UNCHANGED <<clock, book, position, fees>>

\* The remainder is closed at the last close, without slippage; trade.pnl is the
\* pnl of this last exit alone.
CloseOut(p) ==
    LET pnl == Pnl(p, Candle.close, remaining[p]) - Fee
    IN
    /\ phase = "close"
    /\ p \in todo
    /\ capital' = capital + pnl
    /\ trades' = Append(trades, Closed(p, exited[p] + remaining[p], booked[p], pnl, "end_of_data"))
    /\ todo' = todo \ {p}
    /\ UNCHANGED <<clock, book, position, fees>>

\* Mutant: windows start one candle early.
NextStartMutant == seg + Step - 1

NextStart == seg + Step

EndSegment ==
    /\ phase = "close"
    /\ todo = {}
    /\ IF WalkForward /\ Fits(NextStart)
       THEN seg' = NextStart /\ bar' = NextStart + 1 /\ phase' = "manage"
       ELSE phase' = "done" /\ UNCHANGED <<seg, bar>>
    /\ pending' = {}
    /\ open' = {}
    /\ UNCHANGED <<candles, share, todo, position, money>>

Next ==
    \/ \E p \in Plans : ManagePosition(p)
    \/ CollectOrders
    \/ \E p \in Plans, q \in Sizes : FillOrder(p, q)
    \/ \E p \in Plans, q \in Sizes : DropOrder(p, q)
    \/ \E p \in Plans : KeepOrder(p)
    \/ EndBar
    \/ \E p \in Plans : CloseOut(p)
    \/ EndSegment

Spec == Init /\ [][Next]_vars

-----------------------------------------------------------------------------
(* Properties.                                                             *)

TradeRows ==
    [plan : Plans, qty : Nat, exited : Nat, partials : Int, pnl : Int, reason : Reasons]

TypeOK ==
    /\ candles \in [1..NBars -> Bars] /\ share \in Shares
    /\ seg \in Nat /\ bar \in Nat
    /\ phase \in {"manage", "fill", "close", "done"}
    /\ todo \subseteq Plans /\ pending \subseteq Plans /\ open \subseteq Plans
    /\ qty \in [Plans -> Nat] /\ remaining \in [Plans -> Nat]
    /\ entry \in [Plans -> Int \cup {NoPrice}]
    /\ entryBar \in [Plans -> Nat]
    /\ trailing \in [Plans -> Int \cup {NoPrice}]
    /\ t1hit \in [Plans -> BOOLEAN] /\ breakeven \in [Plans -> BOOLEAN]
    /\ exited \in [Plans -> Nat] /\ booked \in [Plans -> Int]
    /\ capital \in Int /\ fees \in Nat
    /\ trades \in Seq(TradeRows)

\* What a trade of the list brought in.  The pnl of a trade that ended inside the data is
\* the sum of its partial exits; that of a position closed after the last candle is its
\* last exit alone (engine.py:205), and its partial exits count besides.
Earned(t) == IF t.reason = "end_of_data" THEN t.partials + t.pnl ELSE t.pnl

\* The trade list explains the capital of a finished run: whatever is taken at the first
\* target and whenever the data ends, every exit is in exactly one trade and nothing but
\* the entry commissions, which trade.pnl leaves out, is missing.
CapitalExplained ==
    phase = "done" =>
        FoldSeq(LAMBDA t, sum : Earned(t) + sum, 0, trades) = capital - InitialCapital + fees

\* Plans are traded inside their validity window, on a candle of the test window
\* in which they were detected.
EntryWindow ==
    \A p \in open :
        /\ PlanOf[p].detected > seg
        /\ entryBar[p] \in PlanOf[p].detected..(PlanOf[p].detected + PlanOf[p].expiration)

\* While a position is open its stop moves only in its favour.  A market order filled
\* beyond its own stop is the exception: break-even then puts the stop further away.
StopNeverLoosens ==
    [][\A p \in open \cap open' : Dir(p) * Stop(p)' >= Dir(p) * Stop(p)]_vars

\* Test windows that do not overlap trade a plan at most once.
PlanTradedOnce ==
    \A j, k \in 1..Len(trades) : trades[j].plan = trades[k].plan => j = k

=============================================================================
