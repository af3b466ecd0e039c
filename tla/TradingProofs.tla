----------------------------- MODULE TradingProofs -----------------------------
(***************************************************************************)
(* Theorems about BacktestEngine, for any candles, plans and settings, and *)
(* about DecisionDesk, for any answers, candles, levels and charts.        *)
(***************************************************************************)
EXTENDS BacktestEngine, DecisionDesk, FiniteSums, SequenceTheorems

-----------------------------------------------------------------------------
(* Types.  Open positions have an entry price, the positions a loop still  *)
(* has to visit are open, and the current candle exists.                   *)

InWindow ==
    phase # "done" =>
        bar \in 1..NBars /\ seg < bar /\ bar <= SegmentEnd /\ SegmentEnd <= NBars

Entered ==
    /\ \A p \in open : entry[p] \in Int
    /\ phase \in {"manage", "close"} => todo \subseteq open

TypeInv == TypeOK /\ InWindow /\ Entered

\* Plans, candles and prices have the types their assumptions give them.
LEMMA PlanType ==
    ASSUME NEW p \in Plans
    PROVE  /\ Dir(p) \in {1, -1} /\ Dir(p) \in Int
           /\ PlanOf[p].low \in Int /\ PlanOf[p].high \in Int /\ PlanOf[p].stop \in Int
           /\ PlanOf[p].t1 \in Int /\ PlanOf[p].t2 \in Int
           /\ PlanOf[p].t3 \in Int \cup {NoPrice}
BY PlansAssumption DEF Dir

\* The candle under the cursor is one of the window.
LEMMA CandleType ==
    ASSUME TypeInv, phase # "done"
    PROVE  /\ Candle.open \in Int /\ Candle.high \in Int
           /\ Candle.low \in Int /\ Candle.close \in Int
<1>1. candles[bar] \in Bars
  BY DEF TypeInv, TypeOK, InWindow
<1> QED  BY <1>1, BarsAssumption DEF Candle

\* A moved stop is a price.
LEMMA StopType ==
    ASSUME TypeInv, NEW p \in open
    PROVE  Stop(p) \in Int /\ entry[p] \in Int
<1>1. p \in Plans /\ entry[p] \in Int /\ trailing[p] \in Int \cup {NoPrice}
  BY DEF TypeInv, TypeOK, Entered
<1> QED  BY <1>1, PlanType DEF Stop

\* The best and the worst price of the candle are prices.
LEMMA ReachType ==
    ASSUME TypeInv, phase # "done", NEW p \in Plans
    PROVE  Best(p) \in Int /\ Worst(p) \in Int
BY CandleType DEF Best, Worst

\* The price of an exit is one of the levels the candle reached.
LEMMA LevelType ==
    ASSUME TypeInv, phase # "done", NEW p \in open, Reason(p) # "none"
    PROVE  Level(p) \in Int /\ Reason(p) \in Reasons
<1>0. p \in Plans
  BY DEF TypeInv, TypeOK
<1>1. Stop(p) \in Int /\ Candle.close \in Int
  BY StopType, CandleType
<1>2. PlanOf[p].t1 \in Int /\ PlanOf[p].t2 \in Int /\ PlanOf[p].t3 \in Int \cup {NoPrice}
  BY <1>0, PlanType
<1>3. Reason(p) = "target_3" => PlanOf[p].t3 # NoPrice
  BY DEF Reason, StopReason
<1>4. Reason(p) \in Reasons
  BY DEF Reason, StopReason, Reasons
<1> QED  BY <1>1, <1>2, <1>3, <1>4 DEF Level

\* A share of a quantity is not more than the quantity.
LEMMA ShareType ==
    ASSUME NEW a \in Nat, NEW n \in Nat, NEW d \in Nat \ {0}, n < d
    PROVE  (a * n) \div d \in Nat /\ (a * n) \div d <= a
<1>1. a * n \in Nat
  OBVIOUS
<1>2. a * n <= a * d
  OBVIOUS
<1>3. (a * n) \div d \in Int /\ d * ((a * n) \div d) <= a * n /\ a * n < d * ((a * n) \div d) + d
  BY <1>1
<1> DEFINE q == (a * n) \div d
<1>4. q \in Int /\ d * q <= a * n /\ a * n < d * q + d
  BY <1>3
<1> HIDE DEF q
<1>5. q >= 0
  <2> SUFFICES ASSUME q <= -1 PROVE FALSE
    BY <1>4
  <2>1. d * q <= -d
    BY <1>4
  <2> QED  BY <1>1, <1>4, <2>1
<1>6. q <= a
  <2> SUFFICES ASSUME q >= a + 1 PROVE FALSE
    BY <1>4
  <2>1. d * q >= d * (a + 1)
    BY <1>4
  <2>2. d * (a + 1) = a * d + d
    OBVIOUS
  <2> QED  BY <1>1, <1>2, <1>4, <2>1, <2>2
<1> QED  BY <1>4, <1>5, <1>6 DEF q

\* What is left of a position is a quantity.
LEMMA QtyType ==
    ASSUME TypeInv, NEW p \in open
    PROVE  /\ ExitQty(p) \in Nat /\ ExitQty(p) <= remaining[p]
           /\ LeftByManager(p) \in Nat /\ remaining[p] \in Nat
<1>1. remaining[p] \in Nat
  BY DEF TypeInv, TypeOK
<1>2. CASE IsPartial(p)
  <2>1. share \in Nat /\ Whole \in Nat \ {0} /\ share < Whole
    BY <1>2, ConfigAssumption DEF IsPartial, TypeInv, TypeOK
  <2>2. ExitQty(p) \in Nat /\ ExitQty(p) <= remaining[p]
    BY <1>1, <1>2, <2>1, ShareType DEF ExitQty
  <2> QED  BY <1>1, <1>2, <2>2 DEF LeftByManager
<1>3. CASE ~IsPartial(p)
  BY <1>1, <1>3 DEF ExitQty, LeftByManager
<1> QED  BY <1>2, <1>3

\* Products of prices and quantities are numbers.
LEMMA ProductType ==
    ASSUME NEW d \in Int, NEW a \in Int, NEW b \in Int, NEW q \in Nat
    PROVE  d * (a - b) * q \in Int
<1>1. d * (a - b) \in Int
  OBVIOUS
<1> QED  BY <1>1

-----------------------------------------------------------------------------
(* What the steps of an open position do.                                  *)

\* An exit leaves a well-typed position and trade.
LEMMA ExitType ==
    ASSUME TypeInv, phase = "manage", NEW p \in open, Reason(p) # "none", ExitPosition(p)
    PROVE  /\ remaining' \in [Plans -> Nat] /\ exited' \in [Plans -> Nat]
           /\ booked' \in [Plans -> Int] /\ capital' \in Int
           /\ t1hit' \in [Plans -> BOOLEAN] /\ breakeven' \in [Plans -> BOOLEAN]
           /\ trades' \in Seq(TradeRows)
           /\ open' \subseteq open /\ open \ {p} \subseteq open'
           /\ UNCHANGED <<pending, qty, entry, entryBar, trailing, fees>>
<1> DEFINE q == ExitQty(p)
           left == LeftByManager(p)
           pnl == Pnl(p, ExitPrice(p, Level(p)), q) - Fee
           out == exited[p] + q
           won == booked[p] + pnl
<1>0. /\ p \in Plans /\ capital \in Int /\ qty \in [Plans -> Nat]
      /\ remaining \in [Plans -> Nat] /\ exited \in [Plans -> Nat]
      /\ booked \in [Plans -> Int] /\ entry[p] \in Int
      /\ t1hit \in [Plans -> BOOLEAN] /\ breakeven \in [Plans -> BOOLEAN]
      /\ trades \in Seq(TradeRows)
  BY DEF TypeInv, TypeOK, Entered
<1>1. q \in Nat /\ q <= remaining[p] /\ left \in Nat
  BY QtyType
<1>2. Level(p) \in Int /\ Reason(p) \in Reasons
  BY LevelType
<1>3. pnl \in Int
  <2>1. Dir(p) \in Int /\ Slip \in Int /\ Fee \in Int
    BY <1>0, PlanType, ConfigAssumption
  <2>2. ExitPrice(p, Level(p)) \in Int
    BY <1>2, <2>1 DEF ExitPrice
  <2>3. Pnl(p, ExitPrice(p, Level(p)), q) \in Int
    BY <1>0, <1>1, <2>1, <2>2, ProductType DEF Pnl
  <2> QED  BY <2>1, <2>3
<1>4. out \in Nat /\ won \in Int
  BY <1>0, <1>1, <1>3
<1> HIDE DEF q, left, pnl, out, won
<1>5. /\ capital' = capital + pnl
      /\ exited' = [exited EXCEPT ![p] = out]
      /\ booked' = [booked EXCEPT ![p] = won]
      /\ t1hit' = [t1hit EXCEPT ![p] = @ \/ Reason(p) = "target_1"]
      /\ breakeven' = [breakeven EXCEPT ![p] = @ \/ (Reason(p) = "target_1" /\ MoveToBreakeven)]
      /\ UNCHANGED <<pending, qty, entry, entryBar, trailing, fees>>
  BY DEF ExitPosition, q, pnl, out, won
<1>6. exited'[p] = out /\ booked'[p] = won
  BY <1>0, <1>5
<1>7. CASE left <= q
  <2>1. /\ trades' = Append(trades, Closed(p, out, won, won, Reason(p)))
        /\ open' = open \ {p}
        /\ remaining' = [remaining EXCEPT ![p] = left]
    BY <1>6, <1>7 DEF ExitPosition, q, left
  <2>2. Closed(p, out, won, won, Reason(p)) \in TradeRows
    BY <1>0, <1>2, <1>4 DEF Closed, TradeRows
  <2>3. trades' \in Seq(TradeRows)
    BY <1>0, <2>1, <2>2, AppendProperties
  <2>4. t1hit' \in [Plans -> BOOLEAN] /\ breakeven' \in [Plans -> BOOLEAN]
    BY <1>0, <1>5, ConfigAssumption, Zenon
  <2>5. remaining' \in [Plans -> Nat] /\ exited' \in [Plans -> Nat]
        /\ booked' \in [Plans -> Int] /\ capital' \in Int
    BY <1>0, <1>1, <1>3, <1>4, <1>5, <2>1
  <2>6. open' \subseteq open /\ open \ {p} \subseteq open'
    BY <2>1
  <2> QED  BY <1>5, <2>3, <2>4, <2>5, <2>6
<1>8. CASE ~(left <= q)
  <2>1. /\ remaining' = [remaining EXCEPT ![p] = left - q]
        /\ UNCHANGED <<trades, open>>
    BY <1>8 DEF ExitPosition, q, left
  <2>2. left - q \in Nat
    BY <1>1, <1>8
  <2>4. t1hit' \in [Plans -> BOOLEAN] /\ breakeven' \in [Plans -> BOOLEAN]
    BY <1>0, <1>5, ConfigAssumption, Zenon
  <2> QED  BY <1>0, <1>1, <1>3, <1>4, <1>5, <2>1, <2>2, <2>4
<1> QED  BY <1>7, <1>8

\* Trailing leaves a well-typed position.
LEMMA TrailType ==
    ASSUME TypeInv, phase = "manage", NEW p \in open, Trail(p)
    PROVE  /\ trailing' \in [Plans -> Int \cup {NoPrice}]
           /\ UNCHANGED <<book, qty, remaining, entry, entryBar, t1hit, breakeven,
                          exited, booked, money>>
<1>1. p \in Plans /\ trailing \in [Plans -> Int \cup {NoPrice}]
  BY DEF TypeInv, TypeOK
<1>2. /\ Best(p) \in Int /\ Stop(p) \in Int /\ Dir(p) \in Int /\ TrailBy \in Int
  BY <1>1, ReachType, StopType, PlanType, ConfigAssumption
<1>3. Dir(p) * Stop(p) \in Int /\ Dir(p) * (Best(p) - TrailBy) \in Int
      /\ Dir(p) * (Dir(p) * Stop(p)) \in Int
  BY <1>2
<1> QED  BY <1>1, <1>2, <1>3 DEF Trail

-----------------------------------------------------------------------------
\* The run starts well typed.
LEMMA InitType == Init => TypeInv
<1> SUFFICES ASSUME Init PROVE TypeInv
  OBVIOUS
<1>1. <<>> \in Seq(TradeRows)
  OBVIOUS
<1>2. seg \in Nat /\ bar \in Nat
  BY ConfigAssumption DEF Init, FirstSegment
<1>3. InWindow
  BY <1>2, ConfigAssumption DEF Init, InWindow, Fits, SegmentEnd
<1> QED
  BY <1>1, <1>2, <1>3, ConfigAssumption DEF Init, TypeInv, TypeOK, Entered

\* Every step keeps the types, the cursor in its window and the entries of open positions.
LEMMA NextType == TypeInv /\ [Next]_vars => TypeInv'
<1> SUFFICES ASSUME TypeInv, [Next]_vars PROVE TypeInv'
  OBVIOUS
<1>t. TypeOK /\ InWindow /\ Entered
  BY DEF TypeInv
<1>c. NBars \in Nat /\ Test \in Nat /\ Step \in Nat /\ Fee \in Nat /\ Sizes \subseteq Nat
  BY ConfigAssumption
<1>1. ASSUME NEW p \in Plans, ManagePosition(p) PROVE TypeInv'
  <2>1. phase = "manage" /\ p \in open /\ todo' = todo \ {p} /\ UNCHANGED clock
    BY <1>t, <1>1 DEF ManagePosition, Entered
  <2>2. InWindow'
    BY <1>t, <2>1 DEF InWindow, SegmentEnd, clock
  <2>3. CASE Reason(p) = "none"
    <3>1. /\ trailing' \in [Plans -> Int \cup {NoPrice}]
          /\ UNCHANGED <<book, qty, remaining, entry, entryBar, t1hit, breakeven,
                         exited, booked, money>>
      BY <1>1, <2>1, <2>3, TrailType DEF ManagePosition
    <3>2. TypeOK'
      BY <1>t, <2>1, <3>1 DEF TypeOK, clock, book, money
    <3>3. Entered'
      BY <1>t, <2>1, <3>1 DEF Entered, clock, book
    <3> QED  BY <2>2, <3>2, <3>3 DEF TypeInv
  <2>4. CASE Reason(p) # "none"
    <3>0. ExitPosition(p)
      BY <1>1, <2>4 DEF ManagePosition
    <3>1. /\ remaining' \in [Plans -> Nat] /\ exited' \in [Plans -> Nat]
          /\ booked' \in [Plans -> Int] /\ capital' \in Int
          /\ t1hit' \in [Plans -> BOOLEAN] /\ breakeven' \in [Plans -> BOOLEAN]
          /\ trades' \in Seq(TradeRows)
          /\ open' \subseteq open /\ open \ {p} \subseteq open'
          /\ UNCHANGED <<pending, qty, entry, entryBar, trailing, fees>>
      BY <2>1, <2>4, <3>0, ExitType
    <3>2. TypeOK'
      BY <1>t, <2>1, <3>1 DEF TypeOK, clock
    <3>3. Entered'
      BY <1>t, <2>1, <3>1 DEF Entered, clock
    <3> QED  BY <2>2, <3>2, <3>3 DEF TypeInv
  <2> QED  BY <2>3, <2>4
<1>2. CASE CollectOrders
  <2>1. /\ phase' = "fill" /\ pending' \subseteq Plans /\ todo' = pending'
        /\ UNCHANGED <<candles, share, seg, bar, open, position, money>> /\ phase # "done"
    BY <1>t, <1>2 DEF CollectOrders, TypeOK
  <2> QED
    BY <1>t, <2>1 DEF TypeInv, TypeOK, InWindow, SegmentEnd, Entered, position, money
<1>3. ASSUME NEW p \in Plans, NEW q \in Sizes, FillOrder(p, q) PROVE TypeInv'
  <2>1. phase = "fill" /\ UNCHANGED <<clock, trades>> /\ q \in Nat
        /\ todo' = todo \ {p} /\ open' = open \cup {p} /\ pending' = pending \ {p}
        /\ capital' = capital - Fee /\ fees' = fees + Fee
    BY <1>c, <1>3 DEF FillOrder
  <2>2. EntryPrice(p, FillLevel(p)) \in Int
    <3>1. FillLevel(p) \in Int
      <4>1. FillLevel(p) # NoPrice
        BY <1>3 DEF FillOrder
      <4>2. phase # "done"
        BY <2>1
      <4> QED  BY <4>1, <4>2, CandleType, PlanType DEF FillLevel
    <3> QED  BY <3>1, PlanType, ConfigAssumption DEF EntryPrice
  <2> DEFINE e == EntryPrice(p, FillLevel(p))
  <2>3. /\ qty' = [qty EXCEPT ![p] = q] /\ remaining' = [remaining EXCEPT ![p] = q]
        /\ entry' = [entry EXCEPT ![p] = e] /\ entryBar' = [entryBar EXCEPT ![p] = bar]
        /\ trailing' = [trailing EXCEPT ![p] = NoPrice]
        /\ t1hit' = [t1hit EXCEPT ![p] = FALSE] /\ breakeven' = [breakeven EXCEPT ![p] = FALSE]
        /\ exited' = [exited EXCEPT ![p] = 0] /\ booked' = [booked EXCEPT ![p] = 0]
    BY <1>3 DEF FillOrder, OpenPosition
  <2> HIDE DEF e
  <2>4. e \in Int
    BY <2>2 DEF e
  <2>5. TypeOK'
    <3>1. /\ qty' \in [Plans -> Nat] /\ remaining' \in [Plans -> Nat]
          /\ entryBar' \in [Plans -> Nat] /\ exited' \in [Plans -> Nat]
      BY <1>t, <2>1, <2>3 DEF TypeOK
    <3>2. entry' \in [Plans -> Int \cup {NoPrice}] /\ trailing' \in [Plans -> Int \cup {NoPrice}]
      BY <1>t, <2>3, <2>4 DEF TypeOK
    <3>3. t1hit' \in [Plans -> BOOLEAN] /\ breakeven' \in [Plans -> BOOLEAN]
      BY <1>t, <2>3 DEF TypeOK
    <3>4. booked' \in [Plans -> Int]
      BY <1>t, <2>3 DEF TypeOK
    <3>5. /\ todo' \subseteq Plans /\ pending' \subseteq Plans /\ open' \subseteq Plans
          /\ candles' \in [1..NBars -> Bars] /\ share' \in Shares /\ seg' \in Nat /\ bar' \in Nat
          /\ phase' \in {"manage", "fill", "close", "done"}
      BY <1>t, <2>1 DEF TypeOK, clock
    <3>6. capital' \in Int /\ fees' \in Nat
      BY <1>t, <1>c, <2>1 DEF TypeOK
    <3>7. trades' \in Seq(TradeRows)
      BY <1>t, <2>1 DEF TypeOK
    <3> QED  BY <3>1, <3>2, <3>3, <3>4, <3>5, <3>6, <3>7 DEF TypeOK
  <2>6. InWindow' /\ Entered'
    BY <1>t, <2>1, <2>3, <2>4 DEF TypeOK, clock, InWindow, SegmentEnd, Entered
  <2> QED  BY <2>5, <2>6 DEF TypeInv
<1>4. ASSUME NEW p \in Plans, NEW q \in Sizes, DropOrder(p, q) PROVE TypeInv'
  <2>1. phase = "fill" /\ pending' = pending \ {p} /\ todo' = todo \ {p}
        /\ UNCHANGED <<clock, open, position, money>>
    BY <1>4 DEF DropOrder
  <2> QED
    BY <1>t, <2>1 DEF TypeInv, TypeOK, InWindow, SegmentEnd, Entered, clock, position, money
<1>5. ASSUME NEW p \in Plans, KeepOrder(p) PROVE TypeInv'
  <2>1. phase = "fill" /\ todo' = todo \ {p} /\ UNCHANGED <<clock, book, position, money>>
    BY <1>5 DEF KeepOrder
  <2> QED
    BY <1>t, <2>1 DEF TypeInv, TypeOK, InWindow, SegmentEnd, Entered, clock, book, position, money
<1>6. CASE EndBar
  <2>1. /\ todo' = open /\ phase = "fill"
        /\ UNCHANGED <<candles, share, seg, book, position, money>>
        /\ \/ bar < SegmentEnd /\ bar' = bar + 1 /\ phase' = "manage"
           \/ bar' = bar /\ phase' = "close"
    BY <1>6 DEF EndBar
  <2>2. InWindow'
    <3>1. /\ bar \in 1..NBars /\ SegmentEnd <= NBars /\ bar <= SegmentEnd /\ SegmentEnd \in Nat
          /\ seg \in Nat /\ seg < bar
      BY <1>t, <1>c, <2>1 DEF InWindow, SegmentEnd, TypeOK
    <3>2. SegmentEnd' = SegmentEnd
      BY <2>1 DEF SegmentEnd
    <3> QED  BY <1>c, <2>1, <3>1, <3>2 DEF InWindow
  <2> QED
    BY <1>t, <2>1, <2>2 DEF TypeInv, TypeOK, Entered, book, position, money
<1>7. ASSUME NEW p \in Plans, CloseOut(p) PROVE TypeInv'
  <2> DEFINE pnl == Pnl(p, Candle.close, remaining[p]) - Fee
             out == exited[p] + remaining[p]
  <2>1. phase = "close" /\ p \in open /\ todo' = todo \ {p}
        /\ UNCHANGED <<clock, book, position, fees>>
        /\ capital' = capital + pnl
        /\ trades' = Append(trades, Closed(p, out, booked[p], pnl, "end_of_data"))
    BY <1>t, <1>7 DEF CloseOut, Entered
  <2>2. pnl \in Int /\ out \in Nat
    <3>1. Candle.close \in Int /\ entry[p] \in Int /\ Dir(p) \in Int
          /\ remaining[p] \in Nat /\ exited[p] \in Nat
      BY <1>t, <2>1, CandleType, PlanType DEF TypeInv, TypeOK, Entered
    <3>2. Pnl(p, Candle.close, remaining[p]) \in Int
      BY <3>1, ProductType DEF Pnl
    <3> QED  BY <1>c, <3>1, <3>2
  <2> HIDE DEF pnl, out
  <2>3. Closed(p, out, booked[p], pnl, "end_of_data") \in
            TradeRows
    BY <1>t, <2>2 DEF Closed, TypeOK, Reasons, TradeRows
  <2>4. trades' \in Seq(TradeRows)
    BY <1>t, <2>1, <2>3, AppendProperties DEF TypeOK
  <2>5. TypeOK'
    <3>1. capital' \in Int /\ todo' \subseteq Plans
      BY <1>t, <2>1, <2>2 DEF TypeOK
    <3> QED  BY <1>t, <2>1, <2>4, <3>1 DEF TypeOK, clock, book, position
  <2>6. InWindow' /\ Entered'
    BY <1>t, <2>1 DEF InWindow, SegmentEnd, Entered, clock, book, position
  <2> QED  BY <2>5, <2>6 DEF TypeInv
<1>8. CASE EndSegment
  <2>1. /\ todo = {} /\ open' = {} /\ pending' = {}
        /\ UNCHANGED <<candles, share, todo, position, money>>
        /\ \/ /\ WalkForward /\ Fits(NextStart)
              /\ seg' = NextStart /\ bar' = NextStart + 1 /\ phase' = "manage"
           \/ phase' = "done" /\ UNCHANGED <<seg, bar>>
    BY <1>8 DEF EndSegment
  <2>2. NextStart \in Nat /\ seg \in Nat /\ bar \in Nat
    BY <1>t, <1>c DEF NextStart, TypeOK
  <2>3. SegmentEnd \in Nat
    BY <1>c, <2>2 DEF SegmentEnd
  <2>4. CASE phase' = "done"
    BY <1>t, <2>1, <2>2, <2>4 DEF TypeInv, TypeOK, InWindow, Entered, position, money
  <2>5. CASE WalkForward /\ Fits(NextStart) /\ seg' = NextStart /\ bar' = NextStart + 1
             /\ phase' = "manage"
    <3>1. Test # 0
      BY <1>t, <1>8, <1>c, <2>2, <2>5 DEF EndSegment, InWindow, SegmentEnd, TypeOK
    <3>2. InWindow'
      BY <1>c, <2>2, <2>5, <3>1 DEF InWindow, SegmentEnd, Fits
    <3> QED
      BY <1>t, <2>1, <2>2, <2>5, <3>2 DEF TypeInv, TypeOK, Entered, position, money
  <2> QED  BY <2>1, <2>4, <2>5
<1>9. CASE UNCHANGED vars
  BY <1>t, <1>9 DEF vars, clock, book, position, money, TypeInv, TypeOK, InWindow,
                    SegmentEnd, Entered
<1> QED
  BY <1>1, <1>2, <1>3, <1>4, <1>5, <1>6, <1>7, <1>8, <1>9 DEF Next

\* A run never leaves its types: in particular the quantity left of a position is
\* never negative although a partial exit is subtracted twice.
THEOREM TypeCorrect == Spec => []TypeOK
<1>1. TypeInv => TypeOK  BY DEF TypeInv
<1> QED  BY InitType, NextType, <1>1, PTL DEF Spec

-----------------------------------------------------------------------------
(* Validity windows.  An order belongs to a plan detected in this window   *)
(* and not after this candle; the fill loop meets no expired order.        *)

Valid(p) == bar <= PlanOf[p].detected + PlanOf[p].expiration

OrdersInWindow ==
    /\ \A p \in pending : PlanOf[p].detected > seg /\ PlanOf[p].detected <= bar
    /\ phase = "fill" => todo \subseteq pending /\ \A p \in pending : Valid(p)

WindowInv == OrdersInWindow /\ EntryWindow

\* Every step keeps the orders in the window that detected them.
LEMMA NextWindow == TypeInv /\ WindowInv /\ [Next]_vars => WindowInv'
<1> SUFFICES ASSUME TypeInv, WindowInv, [Next]_vars PROVE WindowInv'
  OBVIOUS
<1>t. /\ \A p \in Plans : PlanOf[p].detected \in Nat /\ PlanOf[p].expiration \in Nat
      /\ bar \in Nat /\ seg \in Nat /\ open \subseteq Plans /\ pending \subseteq Plans
      /\ (phase # "done" => seg < bar)
      /\ entryBar \in [Plans -> Nat]
  BY PlansAssumption DEF TypeInv, TypeOK, InWindow
<1>w. OrdersInWindow /\ EntryWindow
  BY DEF WindowInv
<1>1. ASSUME NEW p \in Plans, ManagePosition(p) PROVE WindowInv'
  <2>1. phase = "manage" /\ UNCHANGED <<clock, pending, entryBar>> /\ open' \subseteq open
    BY <1>1 DEF ManagePosition, Trail, ExitPosition, book
  <2> QED  BY <1>w, <2>1 DEF WindowInv, OrdersInWindow, EntryWindow, Valid, clock
<1>2. CASE CollectOrders
  <2>1. /\ phase = "manage" /\ UNCHANGED <<seg, bar, open, entryBar>> /\ todo' = pending'
        /\ pending' = {p \in pending : Valid(p)} \cup {p \in Plans : PlanOf[p].detected = bar}
    BY <1>2 DEF CollectOrders, Alive, Valid, position
  <2>2. EntryWindow'
    BY <1>w, <2>1 DEF EntryWindow
  <2>3. \A p \in pending' : /\ PlanOf[p].detected > seg /\ PlanOf[p].detected <= bar
                            /\ Valid(p)
    BY <1>t, <1>w, <2>1 DEF OrdersInWindow, Valid
  <2> QED  BY <2>1, <2>2, <2>3 DEF WindowInv, OrdersInWindow, Valid
<1>3. ASSUME NEW p \in Plans, NEW q \in Sizes, FillOrder(p, q) PROVE WindowInv'
  <2>1. /\ phase = "fill" /\ p \in todo /\ UNCHANGED clock /\ todo' = todo \ {p}
        /\ open' = open \cup {p} /\ pending' = pending \ {p}
        /\ entryBar' = [entryBar EXCEPT ![p] = bar]
    BY <1>3 DEF FillOrder, OpenPosition
  <2>2. OrdersInWindow'
    BY <1>w, <2>1 DEF OrdersInWindow, Valid, clock
  <2>3. PlanOf[p].detected > seg /\ bar \in PlanOf[p].detected..(PlanOf[p].detected + PlanOf[p].expiration)
    BY <1>t, <1>w, <2>1 DEF OrdersInWindow, Valid
  <2>4. EntryWindow'
    BY <1>t, <1>w, <2>1, <2>3 DEF EntryWindow, clock
  <2> QED  BY <2>2, <2>4 DEF WindowInv
<1>4. ASSUME NEW p \in Plans, NEW q \in Sizes, DropOrder(p, q) PROVE WindowInv'
  <2>1. pending' = pending \ {p} /\ todo' = todo \ {p} /\ UNCHANGED <<clock, open, entryBar>>
    BY <1>4 DEF DropOrder, position
  <2> QED  BY <1>w, <2>1 DEF WindowInv, OrdersInWindow, EntryWindow, Valid, clock
<1>5. ASSUME NEW p \in Plans, KeepOrder(p) PROVE WindowInv'
  <2>1. todo' = todo \ {p} /\ UNCHANGED <<clock, pending, open, entryBar>>
    BY <1>5 DEF KeepOrder, book, position
  <2> QED  BY <1>w, <2>1 DEF WindowInv, OrdersInWindow, EntryWindow, Valid, clock
<1>6. CASE EndBar
  <2>1. /\ UNCHANGED <<seg, pending, open, entryBar>> /\ phase' # "fill"
        /\ bar' = bar + 1 \/ bar' = bar
    BY <1>6 DEF EndBar, book, position
  <2> QED  BY <1>t, <1>w, <2>1 DEF WindowInv, OrdersInWindow, EntryWindow
<1>7. ASSUME NEW p \in Plans, CloseOut(p) PROVE WindowInv'
  <2>1. phase = "close" /\ UNCHANGED <<clock, pending, open, entryBar>>
    BY <1>7 DEF CloseOut, book, position
  <2> QED  BY <1>w, <2>1 DEF WindowInv, OrdersInWindow, EntryWindow, clock
<1>8. CASE EndSegment
  <2>1. pending' = {} /\ open' = {} /\ phase' # "fill"
    BY <1>8 DEF EndSegment
  <2> QED  BY <2>1 DEF WindowInv, OrdersInWindow, EntryWindow
<1>9. CASE UNCHANGED vars
  BY <1>w, <1>9 DEF vars, clock, book, position, WindowInv, OrdersInWindow, EntryWindow, Valid
<1> QED
  BY <1>1, <1>2, <1>3, <1>4, <1>5, <1>6, <1>7, <1>8, <1>9 DEF Next

\* A plan is entered on a candle of its own validity window and of the test window
\* it was detected in, whatever the windows, the order type and the candles.
THEOREM EntryInWindow == Spec => []EntryWindow
<1>1. Init => WindowInv
  BY DEF Init, WindowInv, OrdersInWindow, EntryWindow
<1>2. WindowInv => EntryWindow
  BY DEF WindowInv
<1> QED  BY <1>1, <1>2, InitType, NextType, NextWindow, PTL DEF Spec

-----------------------------------------------------------------------------
(* Stops.  A limit or a stop order fills inside the zone, so the entry,    *)
(* where break-even puts the stop, is never worse than the stop of the     *)
(* plan.  A market order may fill beyond its own stop.                     *)

EntryBeyondStop == \A p \in open : Dir(p) * entry[p] >= Dir(p) * PlanOf[p].stop

\* A limit or stop order fills on the far side of its stop.
LEMMA FillBeyondStop ==
    ASSUME OrderType # "market", TypeInv, phase # "done", NEW p \in Plans, FillLevel(p) # NoPrice
    PROVE  Dir(p) * EntryPrice(p, FillLevel(p)) >= Dir(p) * PlanOf[p].stop
<1>1. /\ PlanOf[p].low \in Int /\ PlanOf[p].high \in Int /\ PlanOf[p].stop \in Int
      /\ Dir(p) = 1 \/ Dir(p) = -1
  BY PlanType
<1>2. FillLevel(p) \in {PlanOf[p].low, PlanOf[p].high}
  BY DEF FillLevel
<1>3. CASE Dir(p) = 1
  <2>1. FillLevel(p) >= PlanOf[p].stop /\ FillLevel(p) \in Int
    BY <1>1, <1>2, <1>3, ZonesAssumption DEF Dir
  <2> QED  BY <1>1, <1>3, <2>1, ConfigAssumption DEF EntryPrice
<1>4. CASE Dir(p) = -1
  <2>1. FillLevel(p) <= PlanOf[p].stop /\ FillLevel(p) \in Int
    BY <1>1, <1>2, <1>4, ZonesAssumption DEF Dir
  <2> QED  BY <1>1, <1>4, <2>1, ConfigAssumption DEF EntryPrice
<1> QED  BY <1>1, <1>3, <1>4

\* Outside of manage_position, no step touches what the stop of an open position
\* depends on.
LEMMA QuietStops ==
    ASSUME TypeInv, NEW p \in open, entry'[p] = entry[p], trailing'[p] = trailing[p],
           breakeven'[p] = breakeven[p]
    PROVE  Dir(p) * Stop(p)' >= Dir(p) * Stop(p)
<1>1. Stop(p)' = Stop(p)
  BY DEF Stop
<1>2. Stop(p) \in Int /\ Dir(p) \in Int
  BY StopType, PlanType DEF TypeInv, TypeOK
<1> QED  BY <1>1, <1>2

\* Trailing moves a stop towards the price only.
LEMMA TrailTightens ==
    ASSUME TypeInv, phase = "manage", NEW p \in open, Trail(p)
    PROVE  Dir(p) * Stop(p)' >= Dir(p) * Stop(p)
<1>1. p \in Plans /\ trailing \in [Plans -> Int \cup {NoPrice}]
  BY DEF TypeInv, TypeOK
<1>2. /\ Best(p) \in Int /\ Stop(p) \in Int /\ TrailBy \in Int
      /\ Dir(p) = 1 \/ Dir(p) = -1
  BY <1>1, ReachType, StopType, PlanType, ConfigAssumption
<1>3. UNCHANGED <<entry, breakeven>>
  BY DEF Trail
<1>4. CASE TrailBy = 0
  <2>1. trailing' = trailing
    BY <1>4 DEF Trail
  <2> QED  BY <1>3, <2>1, QuietStops
<1>5. CASE TrailBy # 0
  <2> DEFINE stop == Dir(p) * Stop(p)
             trail == Best(p) - TrailBy
             best == IF trail > stop THEN trail ELSE stop
  <2>1. stop \in Int /\ trail \in Int /\ best \in Int /\ best >= stop
    BY <1>2
  <2>2. trailing' = [trailing EXCEPT ![p] = Dir(p) * best]
    BY <1>5 DEF Trail
  <2> HIDE DEF best, stop, trail
  <2>3. Dir(p) * best \in Int /\ Dir(p) * (Dir(p) * best) = best
    BY <1>2, <2>1
  <2>4. trailing'[p] = Dir(p) * best /\ trailing'[p] # NoPrice
    BY <1>1, <2>2, <2>3, NoPriceAssumption
  <2>5. Stop(p)' = Dir(p) * best
    BY <2>4 DEF Stop
  <2>6. Dir(p) * Stop(p)' = best
    BY <2>3, <2>5
  <2> QED  BY <2>1, <2>6 DEF stop
<1> QED  BY <1>4, <1>5

\* The first target may move the stop to the entry.
LEMMA TargetTightens ==
    ASSUME TypeInv, EntryBeyondStop, NEW p \in open, ExitPosition(p)
    PROVE  Dir(p) * Stop(p)' >= Dir(p) * Stop(p)
<1>1. UNCHANGED <<entry, trailing>> /\ (breakeven[p] => breakeven'[p])
  BY DEF ExitPosition, TypeInv, TypeOK
<1>2. p \in Plans /\ entry[p] \in Int /\ PlanOf[p].stop \in Int /\ Dir(p) \in Int /\ Stop(p) \in Int
  BY StopType, PlanType DEF TypeInv, TypeOK
<1>3. CASE trailing[p] # NoPrice \/ breakeven[p]
  <2>1. Stop(p)' = Stop(p)
    BY <1>1, <1>3 DEF Stop
  <2> QED  BY <1>2, <2>1
<1>4. CASE trailing[p] = NoPrice /\ ~breakeven[p]
  <2>1. Stop(p) = PlanOf[p].stop /\ (Stop(p)' = entry[p] \/ Stop(p)' = PlanOf[p].stop)
    BY <1>1, <1>4 DEF Stop
  <2>2. Dir(p) * entry[p] >= Dir(p) * PlanOf[p].stop
    BY DEF EntryBeyondStop
  <2> QED  BY <1>2, <2>1, <2>2
<1> QED  BY <1>3, <1>4

\* Every step keeps entries beyond their first stop and moves no stop back.
LEMMA NextStops ==
    ASSUME OrderType # "market", TypeInv, EntryBeyondStop, [Next]_vars
    PROVE  /\ EntryBeyondStop'
           /\ \A p \in open \cap open' : Dir(p) * Stop(p)' >= Dir(p) * Stop(p)
<1>t. /\ open \subseteq Plans /\ entry \in [Plans -> Int \cup {NoPrice}]
      /\ trailing \in [Plans -> Int \cup {NoPrice}] /\ breakeven \in [Plans -> BOOLEAN]
      /\ (phase = "manage" => todo \subseteq open)
  BY DEF TypeInv, TypeOK, Entered
<1>1. ASSUME NEW p \in Plans, ManagePosition(p)
      PROVE  /\ EntryBeyondStop'
             /\ \A r \in open \cap open' : Dir(r) * Stop(r)' >= Dir(r) * Stop(r)
  <2>1. p \in open /\ phase = "manage" /\ (Trail(p) \/ ExitPosition(p))
    BY <1>t, <1>1 DEF ManagePosition
  <2>2. open' \subseteq open /\ UNCHANGED entry
    BY <2>1 DEF Trail, ExitPosition, book
  <2>3. \A r \in open \ {p} : trailing'[r] = trailing[r] /\ breakeven'[r] = breakeven[r]
    BY <1>t, <2>1 DEF Trail, ExitPosition
  <2>4. Dir(p) * Stop(p)' >= Dir(p) * Stop(p)
    BY <2>1, TrailTightens, TargetTightens
  <2>5. \A r \in open \ {p} : Dir(r) * Stop(r)' >= Dir(r) * Stop(r)
    BY <2>2, <2>3, QuietStops
  <2> QED  BY <2>2, <2>4, <2>5 DEF EntryBeyondStop
<1>2. ASSUME NEW p \in Plans, NEW q \in Sizes, FillOrder(p, q)
      PROVE  /\ EntryBeyondStop'
             /\ \A r \in open \cap open' : Dir(r) * Stop(r)' >= Dir(r) * Stop(r)
  <2> DEFINE e == EntryPrice(p, FillLevel(p))
  <2>1. /\ p \notin open /\ phase = "fill" /\ FillLevel(p) # NoPrice /\ open' = open \cup {p}
        /\ entry' = [entry EXCEPT ![p] = e]
        /\ trailing' = [trailing EXCEPT ![p] = NoPrice]
        /\ breakeven' = [breakeven EXCEPT ![p] = FALSE]
    BY <1>2 DEF FillOrder, OpenPosition
  <2>2. Dir(p) * e >= Dir(p) * PlanOf[p].stop
    BY <2>1, FillBeyondStop
  <2> HIDE DEF e
  <2>3. \A r \in open : /\ r # p /\ entry'[r] = entry[r]
                        /\ trailing'[r] = trailing[r] /\ breakeven'[r] = breakeven[r]
    BY <1>t, <2>1
  <2>4. entry'[p] = e
    BY <1>t, <2>1
  <2> QED  BY <2>1, <2>2, <2>3, <2>4, QuietStops DEF EntryBeyondStop
<1>3. CASE UNCHANGED <<entry, trailing, breakeven>> /\ open' \subseteq open
  BY <1>3, QuietStops DEF EntryBeyondStop
<1>4. ASSUME CollectOrders \/ EndBar \/ EndSegment \/ UNCHANGED vars
      PROVE  UNCHANGED <<entry, trailing, breakeven>> /\ open' \subseteq open
  BY <1>4 DEF CollectOrders, EndBar, EndSegment, vars, position, book
<1>5. ASSUME NEW p \in Plans, NEW q \in Sizes, DropOrder(p, q)
      PROVE  UNCHANGED <<entry, trailing, breakeven>> /\ open' \subseteq open
  BY <1>5 DEF DropOrder, position
<1>6. ASSUME NEW p \in Plans, KeepOrder(p) \/ CloseOut(p)
      PROVE  UNCHANGED <<entry, trailing, breakeven>> /\ open' \subseteq open
  BY <1>6 DEF KeepOrder, CloseOut, position, book
<1> QED  BY <1>1, <1>2, <1>3, <1>4, <1>5, <1>6 DEF Next

\* With limit and stop orders, the stop of an open position only ever moves in its
\* favour, through trailing, partial exits and break-even, whatever the candles.
THEOREM StopsTighten ==
    ASSUME OrderType # "market"
    PROVE  Spec => StopNeverLoosens
<1>1. Init => EntryBeyondStop
  BY DEF Init, EntryBeyondStop
<1>2. TypeInv /\ EntryBeyondStop /\ [Next]_vars => EntryBeyondStop'
  BY NextStops
<1>3. TypeInv /\ EntryBeyondStop /\ [Next]_vars
         => [\A p \in open \cap open' : Dir(p) * Stop(p)' >= Dir(p) * Stop(p)]_vars
  BY NextStops
<1> QED  BY <1>1, <1>2, <1>3, InitType, NextType, PTL DEF Spec, StopNeverLoosens

-----------------------------------------------------------------------------
(* Plans.  Candles only go forward, so a plan is detected once; it is an   *)
(* order, a position or a trade, and never two of them.                    *)

Traded == {trades[k].plan : k \in 1..Len(trades)}

Ahead(p) == PlanOf[p].detected > bar \/ (PlanOf[p].detected = bar /\ phase = "manage")

OnceInv ==
    /\ \A p \in Plans : Ahead(p) => p \notin pending \cup open \cup Traded
    /\ pending \cap (open \cup Traded) = {}
    /\ phase \in {"manage", "fill"} => open \cap Traded = {}
    /\ phase = "close" => todo \cap Traded = {}
    /\ PlanTradedOnce

\* A new trade of a plan that had none.
LEMMA TradeAdded ==
    ASSUME TypeOK, PlanTradedOnce, NEW t, trades' = Append(trades, t), t.plan \notin Traded
    PROVE  Traded' = Traded \cup {t.plan} /\ PlanTradedOnce'
<1>1. trades \in Seq(TradeRows)
  BY DEF TypeOK
<1>2. /\ Len(trades') = Len(trades) + 1 /\ Len(trades) \in Nat
      /\ \A k \in 1..Len(trades) : trades'[k] = trades[k]
      /\ trades'[Len(trades) + 1] = t
  BY <1>1
<1>3. 1..Len(trades') = 1..Len(trades) \cup {Len(trades) + 1}
  BY <1>2
<1>4. Traded' = Traded \cup {t.plan}
  BY <1>2, <1>3 DEF Traded
<1>5. PlanTradedOnce'
  BY <1>2, <1>3 DEF PlanTradedOnce, Traded
<1> QED  BY <1>4, <1>5

\* A step that books no trade trades no plan.
LEMMA TradedKept == trades' = trades => Traded' = Traded /\ PlanTradedOnce' = PlanTradedOnce
BY DEF Traded, PlanTradedOnce

\* Every step keeps each plan in one place.
LEMMA NextOnce ==
    ASSUME ~WalkForward \/ Step >= Test, TypeInv, WindowInv, OnceInv, [Next]_vars
    PROVE  OnceInv'
<1>t. /\ TypeOK /\ \A p \in Plans : PlanOf[p].detected \in Nat
      /\ bar \in Nat /\ seg \in Nat /\ open \subseteq Plans /\ pending \subseteq Plans
      /\ (phase \in {"manage", "close"} => todo \subseteq open)
      /\ (phase = "fill" => todo \subseteq pending)
  BY PlansAssumption DEF TypeInv, TypeOK, Entered, WindowInv, OrdersInWindow
<1>1. ASSUME NEW p \in Plans, ManagePosition(p) PROVE OnceInv'
  <2>1. p \in open /\ phase = "manage" /\ UNCHANGED <<seg, bar, phase>> /\ (Trail(p) \/ ExitPosition(p))
    BY <1>t, <1>1 DEF ManagePosition, clock
  <2>2. pending' = pending
    BY <2>1 DEF Trail, ExitPosition, book
  <2>3. CASE UNCHANGED <<trades, open>>
    BY <2>1, <2>2, <2>3, TradedKept DEF OnceInv, Ahead
  <2>4. CASE open' = open \ {p} /\ \E t : t.plan = p /\ trades' = Append(trades, t)
    <3>1. p \notin Traded
      BY <2>1 DEF OnceInv
    <3>2. Traded' = Traded \cup {p} /\ PlanTradedOnce'
      BY <1>t, <2>4, <3>1, TradeAdded DEF OnceInv
    <3>3. ~Ahead(p) /\ p \notin pending
      BY <2>1 DEF OnceInv
    <3> QED  BY <2>1, <2>2, <2>4, <3>2, <3>3 DEF OnceInv, Ahead
  <2>5. CASE Trail(p)
    BY <2>3, <2>5 DEF Trail, book, money
  <2>6. CASE ExitPosition(p)
    BY <2>3, <2>4, <2>6 DEF ExitPosition, Closed
  <2> QED  BY <2>1, <2>5, <2>6
<1>2. CASE CollectOrders
  <2>1. /\ phase = "manage" /\ phase' = "fill" /\ UNCHANGED <<seg, bar, open, trades>>
        /\ pending' \subseteq pending \cup {p \in Plans : PlanOf[p].detected = bar}
    BY <1>2 DEF CollectOrders, money
  <2> QED  BY <1>t, <2>1, TradedKept DEF OnceInv, Ahead
<1>3. ASSUME NEW p \in Plans, NEW q \in Sizes, FillOrder(p, q) PROVE OnceInv'
  <2>1. /\ phase = "fill" /\ p \in pending /\ UNCHANGED <<seg, bar, phase, trades>>
        /\ open' = open \cup {p} /\ pending' = pending \ {p}
    BY <1>t, <1>3 DEF FillOrder, clock
  <2> QED  BY <2>1, TradedKept DEF OnceInv, Ahead
<1>4. ASSUME NEW p \in Plans, NEW q \in Sizes, DropOrder(p, q) PROVE OnceInv'
  <2>1. phase = "fill" /\ UNCHANGED <<seg, bar, phase, trades, open>> /\ pending' \subseteq pending
    BY <1>4 DEF DropOrder, clock, money
  <2> QED  BY <2>1, TradedKept DEF OnceInv, Ahead
<1>5. ASSUME NEW p \in Plans, KeepOrder(p) PROVE OnceInv'
  <2>1. phase = "fill" /\ UNCHANGED <<seg, bar, phase, trades, open, pending>>
    BY <1>5 DEF KeepOrder, clock, book, money
  <2> QED  BY <2>1, TradedKept DEF OnceInv, Ahead
<1>6. CASE EndBar
  <2>1. /\ phase = "fill" /\ todo' = open /\ UNCHANGED <<seg, open, pending, trades>>
        /\ \/ bar' = bar + 1 /\ phase' = "manage"
           \/ bar' = bar /\ phase' = "close"
    BY <1>6 DEF EndBar, book, money
  <2>2. \A p \in Plans : Ahead(p)' => Ahead(p)
    BY <1>t, <2>1 DEF Ahead
  <2> QED  BY <2>1, <2>2, TradedKept DEF OnceInv
<1>7. ASSUME NEW p \in Plans, CloseOut(p) PROVE OnceInv'
  <2>1. /\ phase = "close" /\ p \in todo /\ p \in open /\ todo' = todo \ {p}
        /\ UNCHANGED <<seg, bar, phase, open, pending>>
        /\ \E t : t.plan = p /\ trades' = Append(trades, t)
    BY <1>t, <1>7 DEF CloseOut, clock, book, Closed
  <2>2. p \notin Traded /\ ~Ahead(p) /\ p \notin pending
    BY <2>1 DEF OnceInv
  <2>3. Traded' = Traded \cup {p} /\ PlanTradedOnce'
    BY <1>t, <2>1, <2>2, TradeAdded DEF OnceInv
  <2> QED  BY <2>1, <2>2, <2>3 DEF OnceInv, Ahead
<1>8. CASE EndSegment
  <2>1. /\ phase = "close" /\ pending' = {} /\ open' = {} /\ trades' = trades
        /\ \/ WalkForward /\ bar' = NextStart + 1 /\ phase' = "manage"
           \/ phase' = "done" /\ bar' = bar
    BY <1>8 DEF EndSegment, money
  <2>2. CASE WalkForward /\ bar' = NextStart + 1 /\ phase' = "manage"
    <3>1. bar <= seg + Test /\ Step >= Test /\ Step \in Nat /\ Test \in Nat
      BY <2>1, <2>2, ConfigAssumption DEF TypeInv, InWindow, SegmentEnd
    <3>2. bar' > bar /\ bar' \in Nat
      BY <1>t, <2>2, <3>1 DEF NextStart
    <3>3. \A p \in Plans : Ahead(p)' => Ahead(p)
      BY <1>t, <3>2 DEF Ahead
    <3> QED  BY <2>1, <2>2, <3>3, TradedKept DEF OnceInv
  <2>3. CASE phase' = "done" /\ bar' = bar
    BY <2>1, <2>3, TradedKept DEF OnceInv, Ahead
  <2> QED  BY <2>1, <2>2, <2>3
<1>9. CASE UNCHANGED vars
  BY <1>9, TradedKept DEF vars, clock, book, money, OnceInv, Ahead
<1> QED
  BY <1>1, <1>2, <1>3, <1>4, <1>5, <1>6, <1>7, <1>8, <1>9 DEF Next

\* A run whose test windows do not overlap trades no plan twice: a plan is detected on one
\* candle, and is an order, then a position, then a trade, never two of them.
THEOREM TradedAtMostOnce ==
    ASSUME ~WalkForward \/ Step >= Test
    PROVE  Spec => []PlanTradedOnce
<1>1. Init => WindowInv /\ OnceInv
  <2>1. Init => WindowInv
    BY DEF Init, WindowInv, OrdersInWindow, EntryWindow
  <2>2. Init => Traded = {} /\ PlanTradedOnce
    BY DEF Init, Traded, PlanTradedOnce
  <2>3. Init => OnceInv
    BY <2>2 DEF Init, OnceInv
  <2> QED  BY <2>1, <2>3
<1>2. TypeInv /\ WindowInv /\ OnceInv /\ [Next]_vars => OnceInv'
  BY NextOnce
<1>3. OnceInv => PlanTradedOnce
  BY DEF OnceInv
<1> QED  BY <1>1, <1>2, <1>3, InitType, NextType, NextWindow, PTL DEF Spec

-----------------------------------------------------------------------------
(* What the trades earned.  FoldSeq adds up the amounts of a finite set of *)
(* places; so one more trade adds what it earned.                          *)

Gains(s) == [k \in DOMAIN s |-> Earned(s[k])]
GainSum(s) == SumOf(Gains(s), DOMAIN s)

\* The fold of the property is the sum of what the trades earned.
LEMMA FoldIsSum ==
    ASSUME NEW s, IsFiniteSet(DOMAIN s)
    PROVE  FoldSeq(LAMBDA t, sum : Earned(t) + sum, 0, s) = GainSum(s)
<1> DEFINE P(f) == f = [T \in SUBSET DOMAIN s |-> IF T = {} THEN 0 ELSE Earned(s[Pick(T)]) + f[T \ {Pick(T)}]]
<1>1. FoldSeq(LAMBDA t, sum : Earned(t) + sum, 0, s) = (CHOOSE f : P(f))[DOMAIN s]
  BY DEF FoldSeq, FoldFunction, FoldFunctionOnSet, MapThenFoldSet, Pick
<1>2. ASSUME NEW f PROVE Summing(f, Gains(s), DOMAIN s) <=> P(f)
  <2> DEFINE F == [T \in SUBSET DOMAIN s |-> IF T = {} THEN 0 ELSE Earned(s[Pick(T)]) + f[T \ {Pick(T)}]]
             G == [T \in SUBSET DOMAIN s |-> IF T = {} THEN 0 ELSE Gains(s)[Pick(T)] + f[T \ {Pick(T)}]]
  <2>1. ASSUME NEW T \in SUBSET DOMAIN s PROVE F[T] = G[T]
    <3>1. CASE T = {}
      BY <3>1
    <3>2. CASE T # {}
      <4>1. Pick(T) \in DOMAIN s
        BY <3>2, PickIn
      <4>2. Gains(s)[Pick(T)] = Earned(s[Pick(T)])
        BY <4>1 DEF Gains
      <4> QED  BY <4>2
    <3> QED  BY <3>1, <3>2
  <2>2. F = G
    BY <2>1
  <2>3. Summing(f, Gains(s), DOMAIN s) <=> f = G
    BY DEF Summing
  <2> QED  BY <2>2, <2>3
<1>3. \E f : Summing(f, Gains(s), DOMAIN s)
  BY SummingExists
<1> DEFINE c == CHOOSE f : P(f)
           d == CHOOSE f : Summing(f, Gains(s), DOMAIN s)
<1>4. P(c) /\ Summing(d, Gains(s), DOMAIN s)
  <2> HIDE DEF P
  <2> QED  BY <1>2, <1>3
<1>5. Summing(c, Gains(s), DOMAIN s)
  <2> HIDE DEF P, c
  <2> QED  BY <1>2, <1>4
<1>6. c[DOMAIN s] = d[DOMAIN s]
  <2> HIDE DEF P, c, d
  <2> QED  BY <1>4, <1>5, SummingAgree
<1>7. (CHOOSE f : P(f))[DOMAIN s] = c[DOMAIN s] /\ GainSum(s) = d[DOMAIN s]
  BY DEF GainSum, SumOf
<1> HIDE DEF P, c, d
<1> QED  BY <1>1, <1>6, <1>7

\* One more trade adds what it earned.
LEMMA GainAdded ==
    ASSUME NEW s \in Seq(TradeRows), NEW t \in TradeRows
    PROVE  GainSum(Append(s, t)) = GainSum(s) + Earned(t) /\ GainSum(s) \in Int
<1> DEFINE n == Len(s)
           a == Append(s, t)
<1>0. \A r \in TradeRows : Earned(r) \in Int
  BY DEF TradeRows, Earned
<1>1. n \in Nat /\ DOMAIN s = 1..n /\ DOMAIN a = (1..n) \cup {n + 1} /\ n + 1 \notin 1..n
  OBVIOUS
<1>2. IsFiniteSet(1..n)
  BY <1>1, FS_Interval
<1>3. \A k \in 1..n : a[k] = s[k] /\ Earned(s[k]) \in Int
  <2> SUFFICES ASSUME NEW k \in 1..n PROVE a[k] = s[k] /\ Earned(s[k]) \in Int
    OBVIOUS
  <2>1. s[k] \in TradeRows
    BY ElementOfSeq
  <2>2. a[k] = s[k]
    BY AppendProperties
  <2> QED  BY <1>0, <2>1, <2>2
<1>4. a[n + 1] = t /\ Earned(t) \in Int
  BY <1>0
<1> HIDE DEF n, a
<1>5. \A k \in 1..n : Gains(s)[k] = Gains(a)[k] /\ Gains(a)[k] \in Int
  BY <1>1, <1>3 DEF Gains
<1>6. Gains(a)[n + 1] = Earned(t)
  BY <1>1, <1>4 DEF Gains
<1>7. \A k \in (1..n) \cup {n + 1} : Gains(a)[k] \in Int
  BY <1>4, <1>5, <1>6
<1>8. SumOf(Gains(a), (1..n) \cup {n + 1}) = Gains(a)[n + 1] + SumOf(Gains(s), 1..n)
  <2>1. \A i \in 1..(n + 1) : Gains(a)[i] \in Int
    BY <1>1, <1>7
  <2>2. SumOf(Gains(a), 1..(n + 1)) = Gains(a)[n + 1] + SumOf(Gains(s), 1..n)
    BY <1>1, <1>5, <2>1, SumNext
  <2>3. 1..(n + 1) = (1..n) \cup {n + 1}
    BY <1>1
  <2> QED  BY <2>2, <2>3
<1>9. SumOf(Gains(s), 1..n) \in Int
  BY <1>2, <1>5, SumInt
<1> QED  BY <1>1, <1>4, <1>6, <1>8, <1>9 DEF GainSum, a

-----------------------------------------------------------------------------
(* Money.  What the exits of a position have booked is in its trade once it *)
(* is closed, and is held by the position until then.  The close-out leaves *)
(* the positions open that it has turned into trades.                       *)

Held == IF phase = "done" THEN {} ELSE IF phase = "close" THEN todo ELSE open

Accounted ==
    /\ IsFiniteSet(open)
    /\ capital - InitialCapital + fees = GainSum(trades) + SumOf(booked, Held)

\* The positions held are finitely many open ones, and their sum is a number.
LEMMA HeldType ==
    ASSUME TypeInv, Accounted
    PROVE  /\ IsFiniteSet(Held) /\ Held \subseteq open /\ open \subseteq Plans
           /\ booked \in [Plans -> Int] /\ SumOf(booked, Held) \in Int
<1>1. Held \subseteq open /\ open \subseteq Plans /\ booked \in [Plans -> Int]
  BY DEF TypeInv, TypeOK, Entered, Held
<1>2. IsFiniteSet(Held)
  BY <1>1, FS_Subset DEF Accounted
<1>3. \A p \in Held : booked[p] \in Int
  BY <1>1
<1> QED  BY <1>1, <1>2, <1>3, SumInt

\* One position's part of a sum over several.
LEMMA SumWithout ==
    ASSUME NEW S, IsFiniteSet(S), NEW w, NEW v, NEW p \in S,
           \A i \in S : w[i] \in Int, \A i \in S \ {p} : v[i] = w[i]
    PROVE  SumOf(w, S) = w[p] + SumOf(v, S \ {p}) /\ SumOf(v, S \ {p}) \in Int
<1> DEFINE T == S \ {p}
<1>1. IsFiniteSet(T) /\ p \notin T /\ T \cup {p} = S
  BY FS_Subset
<1>2. (\A i \in T : v[i] = w[i]) /\ (\A i \in T \cup {p} : w[i] \in Int) /\ \A i \in T : v[i] \in Int
  BY <1>1
<1> HIDE DEF T
<1>3. SumOf(w, T \cup {p}) = w[p] + SumOf(v, T)
  BY <1>1, <1>2, SumAdd
<1>4. SumOf(v, T) \in Int
  BY <1>1, <1>2, SumInt
<1> QED  BY <1>1, <1>3, <1>4 DEF T

\* An exit books its pnl, and the last one of a position moves what is booked to its trade.
LEMMA ExitAccounted ==
    ASSUME TypeInv, TypeInv', Accounted,
           phase = "manage", phase' = "manage", NEW p \in open, Reason(p) # "none", ExitPosition(p)
    PROVE  Accounted'
<1> DEFINE q == ExitQty(p)
           left == LeftByManager(p)
           pnl == Pnl(p, ExitPrice(p, Level(p)), q) - Fee
           t == Closed(p, exited'[p], booked'[p], booked'[p], Reason(p))
<1>0. /\ p \in Plans /\ booked \in [Plans -> Int] /\ open \subseteq Plans
      /\ Held = open /\ Held' = open' /\ IsFiniteSet(open)
      /\ SumOf(booked, open) \in Int
  BY HeldType DEF Held, Accounted
<1>1. /\ capital \in Int /\ fees \in Int /\ trades \in Seq(TradeRows)
  BY DEF TypeInv, TypeOK
<1>2. InitialCapital \in Int
  BY ConfigAssumption
<1>3. /\ capital' = capital + pnl
      /\ booked' = [booked EXCEPT ![p] = booked[p] + pnl]
      /\ fees' = fees
  BY DEF ExitPosition
<1>4. \/ trades' = Append(trades, t) /\ open' = open \ {p}
      \/ UNCHANGED <<trades, open>>
  BY DEF ExitPosition
<1>5. Reason(p) # "end_of_data" /\ Reason(p) \in Reasons
  <2>1. Reason(p) # "end_of_data"
    BY DEF Reason, StopReason
  <2> QED  BY <2>1, LevelType
<1>6. Earned(t) = booked'[p]
  BY <1>5 DEF Closed, Earned
<1>p. pnl \in Int
  <2>1. Dir(p) \in Int /\ Slip \in Int /\ Fee \in Int /\ Level(p) \in Int /\ q \in Nat
        /\ entry[p] \in Int
    BY <1>0, PlanType, ConfigAssumption, LevelType, QtyType, StopType
  <2>2. ExitPrice(p, Level(p)) \in Int
    BY <2>1 DEF ExitPrice
  <2> HIDE DEF q
  <2>3. Pnl(p, ExitPrice(p, Level(p)), q) \in Int
    BY <2>1, <2>2, ProductType DEF Pnl
  <2> QED  BY <2>1, <2>3
<1>7. t \in TradeRows
  <2>1. exited' \in [Plans -> Nat] /\ booked' \in [Plans -> Int] /\ qty \in [Plans -> Nat]
    BY DEF TypeInv, TypeOK
  <2>2. exited'[p] \in Nat /\ booked'[p] \in Int /\ qty[p] \in Nat
    BY <1>0, <2>1
  <2> QED  BY <1>0, <1>5, <2>2 DEF Closed, TradeRows
<1> HIDE DEF q, left, pnl, t
<1>8. booked'[p] = booked[p] + pnl /\ (\A r \in open \ {p} : booked'[r] = booked[r])
      /\ \A r \in open : booked[r] \in Int /\ booked'[r] \in Int
  BY <1>0, <1>3, <1>p
<1>9. SumOf(booked, open) = booked[p] + SumOf(booked', open \ {p})
      /\ SumOf(booked', open \ {p}) \in Int
  BY <1>0, <1>8, SumWithout
<1>10. CASE trades' = Append(trades, t) /\ open' = open \ {p}
  <2>1. GainSum(trades') = GainSum(trades) + booked'[p] /\ GainSum(trades) \in Int
    BY <1>1, <1>6, <1>7, <1>10, GainAdded
  <2>2. IsFiniteSet(open')
    BY <1>0, <1>10, FS_Subset
  <2>3. capital - InitialCapital + fees = GainSum(trades) + SumOf(booked, open)
    BY <1>0 DEF Accounted
  <2>4. SumOf(booked, Held)' = SumOf(booked', open \ {p})
    BY <1>0, <1>10
  <2>5. booked[p] \in Int
    BY <1>8
  <2>6. (capital + pnl) - InitialCapital + fees = (capital - InitialCapital + fees) + pnl
    BY <1>1, <1>2, <1>p
  <2>7. capital - InitialCapital + fees = GainSum(trades) + (booked[p] + SumOf(booked', open \ {p}))
    BY <1>9, <2>3
  <2>8. (capital + pnl) - InitialCapital + fees
          = (GainSum(trades) + (booked[p] + pnl)) + SumOf(booked', open \ {p})
    <3> DEFINE w == SumOf(booked', open \ {p})
             g == GainSum(trades)
             b == booked[p]
    <3>1. w \in Int /\ g \in Int /\ b \in Int /\ pnl \in Int
      BY <1>9, <1>p, <2>1, <2>5
    <3>2. (capital + pnl) - InitialCapital + fees = (g + (b + w)) + pnl
      BY <2>6, <2>7
    <3> HIDE DEF w, g, b
    <3>3. (g + (b + w)) + pnl = (g + (b + pnl)) + w
      BY <3>1
    <3> QED  BY <3>2, <3>3 DEF w, g, b
  <2>9. (capital - InitialCapital + fees)' = GainSum(trades)' + SumOf(booked, Held)'
    BY <1>3, <1>8, <2>1, <2>4, <2>8
  <2> QED  BY <2>2, <2>9 DEF Accounted
<1>11. CASE UNCHANGED <<trades, open>>
  <2>1. SumOf(booked', open) = booked'[p] + SumOf(booked', open \ {p})
    BY <1>0, <1>8, SumWithout
  <2>2. GainSum(trades)' = GainSum(trades) /\ GainSum(trades) \in Int
    BY <1>1, <1>7, <1>11, GainAdded
  <2>3. capital - InitialCapital + fees = GainSum(trades) + SumOf(booked, open)
    BY <1>0 DEF Accounted
  <2>4. SumOf(booked, Held)' = SumOf(booked', open)
    BY <1>0, <1>11
  <2>5. booked[p] \in Int
    BY <1>8
  <2>6. (capital + pnl) - InitialCapital + fees = (capital - InitialCapital + fees) + pnl
    BY <1>1, <1>2, <1>p
  <2>7. capital - InitialCapital + fees = GainSum(trades) + (booked[p] + SumOf(booked', open \ {p}))
    BY <1>9, <2>3
  <2>8. (capital + pnl) - InitialCapital + fees
          = GainSum(trades) + ((booked[p] + pnl) + SumOf(booked', open \ {p}))
    <3> DEFINE w == SumOf(booked', open \ {p})
             g == GainSum(trades)
             b == booked[p]
    <3>1. w \in Int /\ g \in Int /\ b \in Int /\ pnl \in Int
      BY <1>9, <1>p, <2>2, <2>5
    <3>2. (capital + pnl) - InitialCapital + fees = (g + (b + w)) + pnl
      BY <2>6, <2>7
    <3> HIDE DEF w, g, b
    <3>3. (g + (b + w)) + pnl = g + ((b + pnl) + w)
      BY <3>1
    <3> QED  BY <3>2, <3>3 DEF w, g, b
  <2>9. (capital - InitialCapital + fees)' = GainSum(trades)' + SumOf(booked, Held)'
    BY <1>3, <1>8, <2>1, <2>2, <2>4, <2>8
  <2> QED  BY <1>0, <1>11, <2>9 DEF Accounted
<1> QED  BY <1>4, <1>10, <1>11

\* A position closed after the last candle takes what it has booked into its trade.
LEMMA CloseAccounted ==
    ASSUME TypeInv, Accounted, NEW p \in Plans, CloseOut(p)
    PROVE  Accounted'
<1> DEFINE pnl == Pnl(p, Candle.close, remaining[p]) - Fee
           t == Closed(p, exited[p] + remaining[p], booked[p], pnl, "end_of_data")
<1>1. /\ capital' = capital + pnl /\ trades' = Append(trades, t) /\ fees' = fees
      /\ open' = open /\ booked' = booked /\ phase = "close" /\ phase' = "close"
      /\ p \in open /\ p \in todo /\ todo' = todo \ {p}
  BY DEF CloseOut, clock, book, position, TypeInv, Entered
<1>2. /\ capital \in Int /\ fees \in Int /\ trades \in Seq(TradeRows) /\ booked \in [Plans -> Int]
      /\ exited \in [Plans -> Nat] /\ remaining \in [Plans -> Nat] /\ qty \in [Plans -> Nat]
  BY DEF TypeInv, TypeOK
<1>3. InitialCapital \in Int /\ Fee \in Int
  BY ConfigAssumption
<1>4. booked[p] \in Int /\ exited[p] \in Nat /\ remaining[p] \in Nat /\ qty[p] \in Nat
  BY <1>2
<1>5. pnl \in Int
  <2>1. Candle.close \in Int /\ entry[p] \in Int /\ Dir(p) \in Int
    BY <1>1, CandleType, PlanType DEF TypeInv, Entered
  <2>2. Pnl(p, Candle.close, remaining[p]) \in Int
    BY <1>4, <2>1, ProductType DEF Pnl
  <2> QED  BY <1>3, <2>2
<1> HIDE DEF pnl
<1>6. Earned(t) = booked[p] + pnl
  BY DEF Closed, Earned
<1>7. t \in TradeRows
  <2>1. exited[p] + remaining[p] \in Nat
    BY <1>4
  <2> QED  BY <1>4, <1>5, <2>1 DEF Closed, Reasons, TradeRows
<1> HIDE DEF t
<1>8. GainSum(trades') = GainSum(trades) + booked[p] + pnl /\ GainSum(trades) \in Int
  <2>1. GainSum(trades') = GainSum(trades) + Earned(t) /\ GainSum(trades) \in Int
    BY <1>1, <1>2, <1>7, GainAdded
  <2> QED  BY <1>4, <1>5, <1>6, <2>1
<1>9. Held = todo /\ Held' = todo \ {p} /\ IsFiniteSet(todo) /\ \A i \in todo : booked[i] \in Int
  <2>1. Held = todo /\ Held' = todo \ {p}
    BY <1>1 DEF Held
  <2> QED  BY <2>1, HeldType
<1>10. SumOf(booked, todo) = booked[p] + SumOf(booked, todo \ {p}) /\ SumOf(booked, todo \ {p}) \in Int
  BY <1>1, <1>9, SumWithout
<1>11. capital - InitialCapital + fees = GainSum(trades) + SumOf(booked, todo)
  BY <1>9 DEF Accounted
<1>12. SumOf(booked, Held)' = SumOf(booked, todo \ {p})
  BY <1>1, <1>9
<1>13. (capital - InitialCapital + fees)' = GainSum(trades)' + SumOf(booked, Held)'
  <2> DEFINE rest == SumOf(booked, todo \ {p})
             sum == GainSum(trades)
             had == booked[p]
  <2>1. capital - InitialCapital + fees = sum + (had + rest)
    BY <1>10, <1>11
  <2>2. capital \in Int /\ fees \in Int /\ sum \in Int /\ had \in Int /\ rest \in Int
    BY <1>2, <1>4, <1>8, <1>10
  <2> HIDE DEF rest, sum, had
  <2>3. (capital + pnl) - InitialCapital + fees = (sum + had + pnl) + rest
    BY <1>3, <1>5, <2>1, <2>2
  <2> QED  BY <1>1, <1>8, <1>12, <2>3 DEF rest, sum, had
<1> QED  BY <1>1, <1>13 DEF Accounted

\* Every step keeps the books.
LEMMA NextAccounted ==
    ASSUME TypeInv, TypeInv', Accounted, [Next]_vars
    PROVE  Accounted'
<1>t. /\ open \subseteq Plans /\ booked \in [Plans -> Int]
      /\ capital \in Int /\ fees \in Int /\ InitialCapital \in Int /\ Fee \in Int
      /\ (phase = "manage" => todo \subseteq open)
  BY ConfigAssumption DEF TypeInv, TypeOK, Entered
<1>q. ASSUME UNCHANGED <<capital, fees, trades, booked>>, Held' = Held, open' \subseteq open
      PROVE  Accounted'
  <2>1. IsFiniteSet(open')
    BY <1>q, FS_Subset DEF Accounted
  <2> QED  BY <1>q, <2>1 DEF Accounted, GainSum, Gains
<1>1. ASSUME NEW p \in Plans, ManagePosition(p) PROVE Accounted'
  <2>1. p \in open /\ phase = "manage" /\ phase' = "manage"
    BY <1>t, <1>1 DEF ManagePosition, clock
  <2>2. CASE Reason(p) = "none"
    <3>1. UNCHANGED <<capital, fees, trades, booked, open>>
      BY <1>1, <2>2 DEF ManagePosition, Trail, book, money
    <3> QED  BY <1>q, <2>1, <3>1 DEF Held
  <2>3. CASE Reason(p) # "none"
    BY <1>1, <2>1, <2>3, ExitAccounted DEF ManagePosition
  <2> QED  BY <2>2, <2>3
<1>2. CASE CollectOrders
  <2>1. UNCHANGED <<capital, fees, trades, booked, open>> /\ phase = "manage" /\ phase' = "fill"
    BY <1>2 DEF CollectOrders, position, money
  <2> QED  BY <1>q, <2>1 DEF Held
<1>3. ASSUME NEW p \in Plans, NEW q \in Sizes, FillOrder(p, q) PROVE Accounted'
  <2>1. /\ capital' = capital - Fee /\ fees' = fees + Fee /\ trades' = trades
        /\ open' = open \cup {p} /\ booked' = [booked EXCEPT ![p] = 0]
        /\ phase = "fill" /\ phase' = "fill" /\ p \notin open
    BY <1>3 DEF FillOrder, OpenPosition, clock
  <2>2. /\ Held = open /\ Held' = open' /\ IsFiniteSet(open) /\ IsFiniteSet(open')
        /\ SumOf(booked, open) \in Int
    <3>1. Held = open /\ Held' = open' /\ IsFiniteSet(open)
      BY <2>1 DEF Held, Accounted
    <3>2. IsFiniteSet(open')
      BY <2>1, <3>1, FS_AddElement
    <3> QED  BY <3>1, <3>2, HeldType
  <2>3. booked'[p] = 0 /\ (\A i \in open : booked[i] = booked'[i])
        /\ \A i \in open \cup {p} : booked'[i] \in Int
    BY <1>t, <2>1
  <2>4. SumOf(booked', open \cup {p}) = booked'[p] + SumOf(booked, open)
    <3> DEFINE w == booked'
    <3>1. /\ IsFiniteSet(open) /\ p \notin open /\ (\A i \in open : booked[i] = w[i])
          /\ \A i \in open \cup {p} : w[i] \in Int
      BY <2>1, <2>2, <2>3
    <3> HIDE DEF w
    <3>2. SumOf(w, open \cup {p}) = w[p] + SumOf(booked, open)
      BY <3>1, SumAdd
    <3> QED  BY <3>2 DEF w
  <2>5. SumOf(booked, Held)' = SumOf(booked, Held)
    <3>1. SumOf(booked, Held)' = SumOf(booked', open \cup {p})
      BY <2>1, <2>2
    <3> QED  BY <2>2, <2>3, <2>4, <3>1
  <2>6. GainSum(trades)' = GainSum(trades)
    BY <2>1 DEF GainSum, Gains
  <2>7. (capital - InitialCapital + fees)' = capital - InitialCapital + fees
    BY <1>t, <2>1
  <2> QED  BY <2>2, <2>5, <2>6, <2>7 DEF Accounted
<1>4. ASSUME NEW p \in Plans, NEW q \in Sizes, DropOrder(p, q) PROVE Accounted'
  <2>1. UNCHANGED <<capital, fees, trades, booked, open, phase>> /\ phase = "fill"
    BY <1>4 DEF DropOrder, position, money, clock
  <2> QED  BY <1>q, <2>1 DEF Held
<1>5. ASSUME NEW p \in Plans, KeepOrder(p) PROVE Accounted'
  <2>1. UNCHANGED <<capital, fees, trades, booked, open, phase>> /\ phase = "fill"
    BY <1>5 DEF KeepOrder, position, money, book, clock
  <2> QED  BY <1>q, <2>1 DEF Held
<1>6. CASE EndBar
  <2>1. /\ UNCHANGED <<capital, fees, trades, booked, open>> /\ phase = "fill" /\ todo' = open
        /\ phase' \in {"manage", "close"}
    BY <1>6 DEF EndBar, position, money, book
  <2> QED  BY <1>q, <2>1 DEF Held
<1>7. ASSUME NEW p \in Plans, CloseOut(p) PROVE Accounted'
  BY <1>7, CloseAccounted
<1>8. CASE EndSegment
  <2>1. /\ UNCHANGED <<capital, fees, trades, booked, todo>> /\ phase = "close" /\ todo = {}
        /\ open' = {} /\ phase' \in {"manage", "done"}
    BY <1>8 DEF EndSegment, position, money
  <2>2. Held' = Held
    BY <2>1 DEF Held
  <2> QED  BY <1>q, <2>1, <2>2
<1>9. CASE UNCHANGED vars
  <2>1. UNCHANGED <<capital, fees, trades, booked, open, phase, todo>>
    BY <1>9 DEF vars, position, money, book, clock
  <2> QED  BY <1>q, <2>1 DEF Held
<1> QED  BY <1>1, <1>2, <1>3, <1>4, <1>5, <1>6, <1>7, <1>8, <1>9 DEF Next

\* What the trades of a finished run list is what the run did to the capital, entry
\* commissions apart, whatever the candles, targets, stops and windows and whatever share
\* is taken at the first target.
THEOREM TradesExplainCapital == Spec => []CapitalExplained
<1>1. Init => Accounted
  <2> SUFFICES ASSUME Init PROVE Accounted
    OBVIOUS
  <2>1. trades = <<>> /\ DOMAIN trades = {} /\ open = {} /\ Held = {}
    BY DEF Init, Held
  <2>2. GainSum(trades) = 0 /\ SumOf(booked, Held) = 0
    BY <2>1, SumNone DEF GainSum
  <2>3. IsFiniteSet(open)
    BY <2>1, FS_EmptySet
  <2> QED  BY <2>2, <2>3, ConfigAssumption DEF Init, Accounted
<1>2. TypeInv /\ TypeInv' /\ Accounted /\ [Next]_vars => Accounted'
  BY NextAccounted
<1>3. TypeInv /\ Accounted => CapitalExplained
  <2> SUFFICES ASSUME TypeInv, Accounted, phase = "done"
               PROVE  FoldSeq(LAMBDA t, sum : Earned(t) + sum, 0, trades) = capital - InitialCapital + fees
    BY DEF CapitalExplained
  <2>1. DOMAIN trades = 1..Len(trades) /\ Len(trades) \in Nat /\ trades \in Seq(TradeRows)
    BY DEF TypeInv, TypeOK
  <2>2. IsFiniteSet(DOMAIN trades)
    BY <2>1, FS_Interval
  <2>3. FoldSeq(LAMBDA t, sum : Earned(t) + sum, 0, trades) = GainSum(trades)
    BY <2>2, FoldIsSum
  <2>4. SumOf(booked, Held) = 0
    BY SumNone DEF Held
  <2>5. GainSum(trades) \in Int
    <3>1. \A k \in DOMAIN trades : Gains(trades)[k] \in Int
      <4> SUFFICES ASSUME NEW k \in DOMAIN trades PROVE Gains(trades)[k] \in Int
        OBVIOUS
      <4>1. trades[k] \in TradeRows
        BY <2>1, ElementOfSeq
      <4> QED  BY <4>1 DEF Gains, Earned, TradeRows
    <3> QED  BY <2>2, <3>1, SumInt DEF GainSum
  <2>6. capital - InitialCapital + fees = GainSum(trades) + 0
    BY <2>4 DEF Accounted
  <2>7. GainSum(trades) + 0 = GainSum(trades)
    BY <2>5
  <2> QED  BY <2>3, <2>6, <2>7
<1> QED  BY <1>1, <1>2, <1>3, InitType, NextType, PTL DEF Spec


-----------------------------------------------------------------------------
(* The answers.  Whatever has arrived is an answer of the chart's server   *)
(* or what was there before any came.                                      *)

AnswersOK ==
    /\ chart \in Charts /\ profile \in Profiles /\ emaOn \in BOOLEAN
    /\ setups \in SetupAnswers[chart.server] \cup {{}}
    /\ zones \in ZoneAnswers[chart.server] \cup {{}} /\ events \in EventAnswers[chart.server] \cup {NoEvents}
    /\ trends \in [TrendKeys -> {Nil} \cup (UNION {TrendAnswers[tf] : tf \in TrendKeys})]
    /\ tape \in DOMAIN Tapes /\ lines \in DOMAIN LevelSets

LEMMA InitAnswers == DecisionInit => AnswersOK
<1> SUFFICES ASSUME DecisionInit PROVE AnswersOK
  OBVIOUS
<1>1. trends \in [TrendKeys -> {Nil} \cup (UNION {TrendAnswers[tf] : tf \in TrendKeys})]
  BY DEF DecisionInit
<1> QED  BY <1>1, TapesAssumption, LevelsAssumption DEF DecisionInit, AnswersOK, Profiles

LEMMA NextAnswers == AnswersOK /\ [DecisionNext]_decisionVars => AnswersOK'
<1> SUFFICES ASSUME AnswersOK, [DecisionNext]_decisionVars PROVE AnswersOK'
  OBVIOUS
<1> USE DEF AnswersOK
<1>1. CASE SetupsAnswered
  BY <1>1 DEF SetupsAnswered, TrendKeys
<1>2. CASE StrategiesAnswered
  BY <1>2 DEF StrategiesAnswered, TrendKeys
<1>3. CASE ZonesAnswered
  BY <1>3 DEF ZonesAnswered, TrendKeys
<1>4. CASE EventsAnswered
  BY <1>4 DEF EventsAnswered, TrendKeys
<1>5. CASE CandlesAnswered
  <2>1. tape' \in DOMAIN Tapes
    BY <1>5, ChartsAssumption DEF CandlesAnswered
  <2> QED  BY <1>5, <2>1 DEF CandlesAnswered, TrendKeys
<1>6. CASE LevelsAnswered
  BY <1>6 DEF LevelsAnswered, TrendKeys
<1>7. CASE SetProfile
  BY <1>7 DEF SetProfile, answers, TrendKeys
<1>8. CASE ToggleEma
  BY <1>8 DEF ToggleEma, answers, TrendKeys
<1>9. ASSUME NEW tf \in TrendKeys, TrendAnswered(tf) PROVE AnswersOK'
  <2> DEFINE Arrived == {Nil} \cup (UNION {TrendAnswers[k] : k \in TrendKeys})
  <2>1. PICK t \in TrendAnswers[tf] : trends' = [trends EXCEPT ![tf] = t]
    BY <1>9 DEF TrendAnswered
  <2>2. t \in Arrived /\ trends \in [TrendKeys -> Arrived]
    OBVIOUS
  <2> HIDE DEF Arrived
  <2>3. trends' \in [TrendKeys -> Arrived]
    BY <2>1, <2>2
  <2>4. trends' \in [TrendKeys -> {Nil} \cup (UNION {TrendAnswers[k] : k \in TrendKeys})]
    BY <2>3 DEF Arrived
  <2> QED  BY <1>9, <2>4 DEF TrendAnswered
<1>10. CASE UNCHANGED decisionVars
  BY <1>10 DEF decisionVars, answers, TrendKeys
<1> QED  BY <1>1, <1>2, <1>3, <1>4, <1>5, <1>6, <1>7, <1>8, <1>9, <1>10 DEF DecisionNext

THEOREM AnswersKept == DecisionSpec => []AnswersOK
BY InitAnswers, NextAnswers, PTL DEF DecisionSpec

\* The setup a decision is about is one of those that arrived.
LEMMA TopIsOne ==
    ASSUME AnswersOK, TopSetup # Nil
    PROVE  /\ TopSetup \in setups
           /\ TopSetup.confidence \in 0..100
           /\ TopSetup.entry \in (Nat \ {0}) \X (Nat \ {0}) /\ TopSetup.stop \in (Nat \ {0}) \X (Nat \ {0})
           /\ TopSetup.targets \in Seq(Nat \X Nat)
           /\ TopSetup.direction \in {"bullish", "bearish", "buy", "sell"}
           /\ \A k \in {1, 2} :
                 /\ Gain(ToneSide(TopSetup.direction), 2 * TopSetup.stop[k], Middle(TopSetup.entry)) > 0
                 /\ TopSetup.targets # <<>> =>
                       Gain(ToneSide(TopSetup.direction), Middle(TopSetup.entry), 2 * TopSetup.targets[1][k]) > 0
<1> DEFINE fresh == {s \in setups : ~Dead(s)}
           pool == IF fresh = {} THEN setups ELSE fresh
           Foremost(s) == \A t \in pool : s.confidence >= t.confidence
<1>1. pool \subseteq setups /\ pool # {} /\ TopSetup = CHOOSE s \in pool : Foremost(s)
  BY DEF TopSetup
<1>2. setups \in SetupAnswers[chart.server] /\ chart \in Charts
  BY <1>1 DEF AnswersOK
<1>3. \A s \in setups : s.confidence \in 0..100
  BY <1>2, SetupsAssumption
<1> HIDE DEF pool
<1>4. \E s \in pool : Foremost(s)
  <2> DEFINE S == {100 - s.confidence : s \in pool}
  <2>1. S \in SUBSET Nat /\ S # {}
    BY <1>1, <1>3
  <2>2. \E x \in S : \A y \in S : x <= y
    <3> HIDE DEF S
    <3> QED  BY <2>1, LeastIn
  <2>3. PICK s \in pool : \A t \in pool : 100 - s.confidence <= 100 - t.confidence
    BY <2>2
  <2>4. ASSUME NEW t \in pool PROVE s.confidence >= t.confidence
    <3>1. s.confidence \in 0..100 /\ t.confidence \in 0..100
      BY <1>1, <1>3
    <3>2. 100 - s.confidence <= 100 - t.confidence
      BY <2>3
    <3>3. \A x, y \in Int : 100 - x <= 100 - y => x >= y
      OBVIOUS
    <3>4. s.confidence \in Int /\ t.confidence \in Int
      BY <3>1
    <3> QED  BY <3>2, <3>3, <3>4
  <2> QED  BY <2>4
<1>5. TopSetup \in pool
  <2> HIDE DEF Foremost
  <2> QED  BY <1>1, <1>4
<1>6. TopSetup \in setups
  BY <1>1, <1>5
<1> QED  BY <1>2, <1>6, SetupsAssumption

-----------------------------------------------------------------------------
(* A trade needs a setup, and pays two for one.                            *)

LEMMA EnrichedWaits ==
    ASSUME NEW d, NEW intel, "direction" \in DOMAIN d, d.direction = "wait"
    PROVE  Enriched(d, intel).direction = "wait"
BY DEF Enriched

LEMMA InstitutionalDirection ==
    ASSUME NEW i, NEW cs
    PROVE  /\ "direction" \in DOMAIN Institutional(i, cs)
           /\ i.setup = Nil => Institutional(i, cs).direction = "wait"
           /\ i.setup # Nil => Institutional(i, cs).direction \in {"wait", ToneSide(i.setup.direction)}
<1> DEFINE r == Reading(i, cs)
           checks == Checks(i, cs, r)
           composite == CompositeOf(i, cs, r)
           score == InstitutionalScore(checks, composite, r)
           takes == WouldTake(checks, composite, score, r)
<1>1. Institutional(i, cs) = Card(r, checks, composite, score, takes)
  BY DEF Institutional, Checked, Rated, Reviewed
<1>2. i.setup = Nil => r.has = FALSE
  BY DEF Reading
<1>3. i.setup = Nil => takes = FALSE
  BY <1>2 DEF WouldTake
<1>6. i.setup # Nil => r.side = ToneSide(i.setup.direction)
  BY DEF Reading
<1> HIDE DEF r, checks, composite, score, takes
<1>4. "direction" \in DOMAIN Card(r, checks, composite, score, takes)
  BY DEF Card
<1>5. Card(r, checks, composite, score, takes).direction = IF takes THEN r.side ELSE "wait"
  BY DEF Card
<1> QED  BY <1>1, <1>3, <1>4, <1>5, <1>6

LEMMA IntradayDirection ==
    ASSUME NEW i, NEW M, NEW cs, NEW scan, NEW p
    PROVE  /\ "direction" \in DOMAIN Intraday(i, M, cs, scan, p)
           /\ i.setup = Nil => Intraday(i, M, cs, scan, p).direction = "wait"
           /\ i.setup # Nil => Intraday(i, M, cs, scan, p).direction \in {"wait", TradeSide(i.setup)}
<1>1. ASSUME NEW f PROVE /\ "direction" \in DOMAIN Graded(i, M, f, scan, p)
                        /\ Graded(i, M, f, scan, p).direction \in {"wait", TradeSide(i.setup)}
  BY DEF Graded, IntradayCard
<1>2. "direction" \in DOMAIN NoSetup(scan, p) /\ NoSetup(scan, p).direction = "wait"
  BY DEF NoSetup
<1> QED  BY <1>1, <1>2 DEF Intraday

\* A trade has a setup, and its side is the one the profile reads off that setup.
LEMMA TradeHasSetup ==
    ASSUME NEW prof, NEW seen, Acted(DecisionWith(prof, seen))
    PROVE  /\ TopSetup # Nil
           /\ DecisionWith(prof, seen).direction =
                 IF prof \in FastProfiles THEN TradeSide(TopSetup) ELSE ToneSide(TopSetup.direction)
<1> DEFINE i == InputsWith(seen)
           d == Derived(prof, i)
           read == IF prof \in FastProfiles THEN TradeSide(TopSetup) ELSE ToneSide(TopSetup.direction)
<1>1. i.setup = TopSetup
  BY DEF InputsWith
<1> HIDE DEF i
<1>2. /\ "direction" \in DOMAIN d
      /\ TopSetup = Nil => d.direction = "wait"
      /\ TopSetup # Nil => d.direction \in {"wait", read}
  <2>1. CASE prof \in {"intraday", "scalping"}
    <3> DEFINE Card1(M) == Intraday(i, M, Tapes[tape], ScanOf[tape][lines][emaOn], PersonalityOf[tape][BosSide])
    <3>1. d = Card1(SCALPING_MODEL) \/ d = Card1(INTRADAY_MODEL)
      <4>1. CASE prof = "scalping"
        BY <4>1 DEF Derived
      <4>2. CASE prof # "scalping"
        BY <2>1, <4>2 DEF Derived
      <4> QED  BY <4>1, <4>2
    <3>2. ASSUME NEW M
          PROVE  /\ "direction" \in DOMAIN Card1(M)
                 /\ TopSetup = Nil => Card1(M).direction = "wait"
                 /\ TopSetup # Nil => Card1(M).direction \in {"wait", TradeSide(TopSetup)}
      BY <1>1, IntradayDirection
    <3>3. read = TradeSide(TopSetup)
      BY <2>1 DEF FastProfiles
    <3> HIDE DEF Card1, d, read
    <3> QED  BY <3>1, <3>2, <3>3
  <2>2. CASE prof \notin {"intraday", "scalping"}
    <3>1. d = Institutional(i, Tapes[tape])
      BY <2>2 DEF Derived
    <3>2. read = ToneSide(TopSetup.direction)
      BY <2>2 DEF FastProfiles
    <3> HIDE DEF d, read
    <3> QED  BY <1>1, <3>1, <3>2, InstitutionalDirection
  <2> QED  BY <2>1, <2>2
<1>3. DecisionWith(prof, seen) = Enriched(d, ExpiryIntel)
  BY DEF DecisionWith, i
<1> HIDE DEF d, read
<1>4. d.direction # "wait"
  <2> SUFFICES ASSUME d.direction = "wait" PROVE FALSE
    OBVIOUS
  <2>1. Enriched(d, ExpiryIntel).direction = "wait"
    BY <1>2, EnrichedWaits
  <2> QED  BY <1>3, <2>1 DEF Acted
<1>5. DecisionWith(prof, seen) = d
  BY <1>3, <1>4 DEF Enriched
<1> QED  BY <1>2, <1>4, <1>5 DEF read

LEMMA RatioOfTwo ==
    ASSUME NEW middle \in Int, NEW stop \in Int, NEW target \in Int, middle # stop,
           AbsVal(target - middle) >= 2 * AbsVal(middle - stop)
    PROVE  Ratio(middle, stop, target) >= 200
<1>1. PICK r \in Int : r = AbsVal(middle - stop) /\ r > 0
  <2>1. AbsVal(middle - stop) \in Int /\ AbsVal(middle - stop) > 0
    BY DEF AbsVal
  <2> QED  BY <2>1
<1>2. PICK t \in Int : t = AbsVal(target - middle) /\ t >= 2 * r
  BY <1>1 DEF AbsVal
<1>3. (100 * t) \div r >= 200
  <2> DEFINE q == (100 * t) \div r
  <2>1. q \in Int /\ 100 * t < r * (q + 1)
    BY <1>1, <1>2
  <2>2. 200 * r < r * (q + 1)
    BY <1>1, <1>2, <2>1
  <2> HIDE DEF q
  <2>3. 200 < q + 1
    BY <1>1, <2>1, <2>2
  <2> QED  BY <2>1, <2>3 DEF q
<1> QED  BY <1>1, <1>2, <1>3 DEF Ratio

\* Levels that pay two for one on a side show a ratio of two.
LEMMA PaysShows ==
    ASSUME NEW n \in Sides, NEW e \in Int, NEW st \in Int, NEW t \in Int,
           Gain(n, st, e) > 0, Gain(n, e, t) >= 2 * Gain(n, st, e)
    PROVE  e # st /\ Ratio(e, st, t) >= 200
<1>1. e # st /\ AbsVal(t - e) >= 2 * AbsVal(e - st)
  BY DEF Gain, AbsVal, Sides
<1> QED  BY <1>1, RatioOfTwo

LEMMA TwoAway ==
    ASSUME NEW n \in Sides, NEW e \in Int, NEW st \in Int, Gain(n, st, e) > 0
    PROVE  LET risk == AbsVal(e - st)
               t == IF n = "buy" THEN e + 2 * risk ELSE e - 2 * risk
           IN /\ risk \in Int /\ risk > 0 /\ risk = Gain(n, st, e)
              /\ t \in Int /\ Gain(n, e, t) >= 2 * Gain(n, st, e) /\ AbsVal(t - e) = 2 * risk
BY DEF Gain, AbsVal, Sides

\* What SetupsAssumption says of a setup, for the side it names.
Placed(s) ==
    /\ s.entry \in (Nat \ {0}) \X (Nat \ {0}) /\ s.stop \in (Nat \ {0}) \X (Nat \ {0})
    /\ s.targets \in Seq(Nat \X Nat)
    /\ s.direction \in {"bullish", "bearish", "buy", "sell"}
    /\ \A k \in {1, 2} :
          /\ Gain(ToneSide(s.direction), 2 * s.stop[k], Middle(s.entry)) > 0
          /\ s.targets # <<>> => Gain(ToneSide(s.direction), Middle(s.entry), 2 * s.targets[1][k]) > 0

LEMMA PlacedSide ==
    ASSUME NEW s, Placed(s)
    PROVE  /\ ToneSide(s.direction) \in Sides /\ TradeSide(s) \in Sides
           /\ TradeSide(s) = "buy" => ToneSide(s.direction) = "buy"
           /\ Middle(s.entry) \in Int
BY DEF Placed, ToneSide, TradeSide, Sides, Middle

\* The plan: the middle of the entry zone, an edge of the stop, and a first target that is
\* the setup's own or two risks away, all on the side the setup names; so it is valid.
LEMMA PlanPays ==
    ASSUME NEW s, Placed(s)
    PROVE  LET plan == PredictivePlan(s)
               n == ToneSide(s.direction)
           IN /\ plan.entry \in Int /\ plan.stop \in Int /\ plan.targets[1] \in Int
              /\ Gain(n, plan.stop, plan.entry) > 0
              /\ Gain(n, plan.entry, plan.targets[1]) >= 2 * Gain(n, plan.stop, plan.entry)
              /\ \/ s.targets # <<>> /\ plan.targets[1] = Middle(s.targets[1])
                 \/ AbsVal(plan.targets[1] - plan.entry) = 2 * AbsVal(plan.entry - plan.stop)
              /\ ValidPlan(plan) /\ plan # Nil
<1> DEFINE n == ToneSide(s.direction)
           edge == IF n = "buy" THEN Smaller(s.stop[1], s.stop[2]) ELSE Larger(s.stop[1], s.stop[2])
           middle == Middle(s.entry)
           stop == 2 * edge
           risk == AbsVal(middle - stop)
           targets == Targets(middle, risk, n, s.targets)
           two == IF n = "buy" THEN middle + 2 * risk ELSE middle - 2 * risk
<1>1. n \in Sides /\ middle \in Int
  BY PlacedSide
<1>2. (IF ToneSide(s.direction) = "buy" THEN "buy" ELSE "sell") = n
  BY <1>1 DEF Sides
<1>3. PredictivePlan(s) = [side |-> n, entry |-> middle, stop |-> stop, targets |-> targets,
                           rr |-> IF middle = stop THEN s.rr ELSE Ratio(middle, stop, targets[1])]
  BY <1>2 DEF PredictivePlan
<1>4. edge \in Int /\ Gain(n, 2 * edge, middle) > 0
  <2>1. edge = s.stop[1] \/ edge = s.stop[2]
    BY DEF Smaller, Larger
  <2>2. \A k \in {1, 2} : s.stop[k] \in Int /\ Gain(n, 2 * s.stop[k], middle) > 0
    BY DEF Placed
  <2> HIDE DEF edge, middle, n
  <2> QED  BY <2>1, <2>2
<1>5. stop \in Int /\ Gain(n, stop, middle) > 0
  BY <1>4
<1>6. s.targets # <<>> => /\ 1 \in DOMAIN s.targets /\ s.targets[1] \in Nat \X Nat
                          /\ Gain(n, middle, Middle(s.targets[1])) > 0
  <2> SUFFICES ASSUME s.targets # <<>>
               PROVE  /\ 1 \in DOMAIN s.targets /\ s.targets[1] \in Nat \X Nat
                      /\ Gain(n, middle, Middle(s.targets[1])) > 0
    OBVIOUS
  <2>1. 1 \in DOMAIN s.targets /\ s.targets[1] \in Nat \X Nat
    BY DEF Placed
  <2>2. Gain(n, middle, 2 * s.targets[1][1]) > 0 /\ Gain(n, middle, 2 * s.targets[1][2]) > 0
    BY DEF Placed
  <2>3. Middle(s.targets[1]) = s.targets[1][1] + s.targets[1][2]
    BY DEF Middle
  <2> HIDE DEF middle, n
  <2> QED  BY <1>1, <2>1, <2>2, <2>3 DEF Gain
<1> DEFINE first == IF 1 \in DOMAIN s.targets THEN Middle(s.targets[1]) ELSE middle
           Zone(k) == IF k \in DOMAIN s.targets THEN Middle(s.targets[k]) ELSE IF k = 1 THEN middle ELSE Nil
<1>7. first \in Int /\ (s.targets # <<>> => first = Middle(s.targets[1]) /\ Gain(n, middle, first) > 0)
      /\ (s.targets = <<>> => first = middle)
  BY <1>1, <1>6 DEF Middle
<1>8. \A k \in 1..3 : Zone(k) \in Int \cup {Nil}
  <2> SUFFICES ASSUME NEW k \in 1..3 PROVE Zone(k) \in Int \cup {Nil}
    OBVIOUS
  <2>1. k \in DOMAIN s.targets => s.targets[k] \in Nat \X Nat
    BY DEF Placed
  <2>2. k \in DOMAIN s.targets => Middle(s.targets[k]) \in Int
    BY <2>1 DEF Middle
  <2> HIDE DEF middle
  <2> QED  BY <1>1, <2>2
<1> HIDE DEF middle, n, stop
<1>9. /\ risk \in Int /\ risk > 0 /\ risk = Gain(n, stop, middle)
      /\ two \in Int /\ Gain(n, middle, two) >= 2 * Gain(n, stop, middle) /\ AbsVal(two - middle) = 2 * risk
  BY <1>1, <1>5, TwoAway
<1>10. targets[1] = IF AbsVal(first - middle) < 2 * risk THEN two ELSE first
  BY <1>9 DEF Targets
<1>11. targets \in [1..3 -> Int \cup {Nil}]
  <2>1. targets = IF risk > 0 /\ AbsVal(Zone(1) - middle) < 2 * risk
                  THEN [k \in 1..3 |-> IF n = "buy" THEN middle + (k + 1) * risk ELSE middle - (k + 1) * risk]
                  ELSE [k \in 1..3 |-> Zone(k)]
    BY DEF Targets
  <2> HIDE DEF Zone, targets, risk
  <2> QED  BY <1>1, <1>8, <1>9, <2>1
<1> HIDE DEF first, two, risk, targets
<1>12. /\ targets[1] \in Int /\ Gain(n, middle, targets[1]) >= 2 * Gain(n, stop, middle)
       /\ \/ s.targets # <<>> /\ targets[1] = Middle(s.targets[1])
          \/ AbsVal(targets[1] - middle) = 2 * risk
  <2>1. CASE AbsVal(first - middle) < 2 * risk
    BY <1>9, <1>10, <2>1
  <2>2. CASE ~(AbsVal(first - middle) < 2 * risk)
    <3>1. targets[1] = first
      BY <1>10, <2>2
    <3>2. s.targets # <<>>
      <4> SUFFICES ASSUME s.targets = <<>> PROVE FALSE
        OBVIOUS
      <4>1. AbsVal(first - middle) = 0
        BY <1>1, <1>7 DEF AbsVal
      <4> QED  BY <1>9, <2>2, <4>1
    <3>3. Gain(n, middle, first) = AbsVal(first - middle)
      BY <1>1, <1>7, <3>2 DEF Gain, AbsVal, Sides
    <3>4. AbsVal(first - middle) \in Int
      BY <1>1, <1>7 DEF AbsVal
    <3> QED  BY <1>7, <1>9, <2>2, <3>1, <3>2, <3>3, <3>4
  <2> QED  BY <2>1, <2>2
<1>13. middle # stop /\ Ratio(middle, stop, targets[1]) >= 200
  BY <1>1, <1>5, <1>12, PaysShows
<1>14. PredictivePlan(s) = [side |-> n, entry |-> middle, stop |-> stop, targets |-> targets,
                            rr |-> Ratio(middle, stop, targets[1])]
  BY <1>3, <1>13
<1>15. Ratio(middle, stop, targets[1]) \in Int
  <2>1. AbsVal(targets[1] - middle) \in Int
    BY <1>1, <1>12 DEF AbsVal
  <2>2. AbsVal(middle - stop) \in Int /\ AbsVal(middle - stop) > 0
    BY <1>1, <1>5, <1>13 DEF AbsVal
  <2> QED  BY <2>1, <2>2 DEF Ratio
<1>16. PredictivePlan(s) # Nil
  BY <1>1, <1>5, <1>11, <1>14, <1>15, NilAssumption
<1>17. ValidPlan(PredictivePlan(s))
  <2>1. IF n = "buy" THEN stop < middle ELSE stop > middle
    BY <1>1, <1>5 DEF Gain, Sides
  <2> QED  BY <1>13, <1>14, <2>1 DEF ValidPlan
<1> QED  BY <1>1, <1>5, <1>12, <1>14, <1>16, <1>17 DEF risk, n

\* The levels on the card of every trade pay two for one on the side the setup names, for
\* any setups, zones, trends, candles and levels, in any order of their answers; the side
\* traded is that side unless a fast profile sells a setup called "bullish".
THEOREM TradesPayTwoToOne == DecisionSpec => []TwoToOne
<1>1. AnswersOK => TwoToOne
  <2> DEFINE s == TopSetup
             plan == IF tape = "none" THEN Nil ELSE Predictive(profile, s, Decision)
             side == Decision.direction
             n == ToneSide(s.direction)
             middle == IF plan # Nil THEN plan.entry ELSE Middle(s.entry)
             stop == IF plan # Nil THEN plan.stop ELSE 2 * s.stop[IF side = "buy" THEN 1 ELSE 2]
             risk == AbsVal(middle - stop)
             target == IF plan # Nil THEN plan.targets[1]
                       ELSE IF side = "buy" THEN middle + 2 * risk ELSE middle - 2 * risk
             card == ExecutionCard(profile, Decision)
  <2> SUFFICES ASSUME AnswersOK, Acted(Decision)
               PROVE  /\ card.mode = "trade" /\ card.rr >= 200
                      /\ OwnTarget(s, card) \/ TwoRisks(card)
                      /\ side # n => profile \in FastProfiles /\ side = "sell"
                      /\ IF side # n /\ tape = "none" THEN card.stop < card.entry /\ card.target < card.entry
                         ELSE PaysTwo(n, card)
    BY DEF TwoToOne, PaysAsNamed
  <2>1. /\ s # Nil /\ side # "wait"
        /\ side = IF profile \in FastProfiles THEN TradeSide(s) ELSE n
    BY TradeHasSetup DEF Decision, DecisionFor, Acted
  <2>2. Placed(s)
    BY <2>1, TopIsOne DEF Placed
  <2>3. card = IF risk = 0 THEN WaitCard
               ELSE [mode |-> "trade", entry |-> middle, stop |-> stop, target |-> target,
                     rr |-> Ratio(middle, stop, target)]
    BY <2>1 DEF ExecutionCard, CardOf
  <2>4. n \in Sides /\ side \in Sides /\ Middle(s.entry) \in Int
        /\ (side # n => profile \in FastProfiles /\ side = "sell" /\ n = "buy")
    BY <2>1, <2>2, PlacedSide DEF Sides
  <2>5. tape = "none" => plan = Nil
    OBVIOUS
  <2>6. tape # "none" => plan = PredictivePlan(s) /\ plan # Nil
    BY <2>1, <2>2, PlanPays DEF Predictive
  <2>7. s.stop[1] \in Int /\ s.stop[2] \in Int
        /\ Gain(n, 2 * s.stop[1], Middle(s.entry)) > 0 /\ Gain(n, 2 * s.stop[2], Middle(s.entry)) > 0
    BY <2>2 DEF Placed
  <2> HIDE DEF card, s, side, plan, n
  <2> SUFFICES /\ middle \in Int /\ stop \in Int /\ target \in Int /\ middle # stop
               /\ Ratio(middle, stop, target) >= 200
               /\ \/ s.targets # <<>> /\ target = Middle(s.targets[1])
                  \/ AbsVal(target - middle) = 2 * risk
               /\ IF side # n /\ tape = "none" THEN stop < middle /\ target < middle
                  ELSE Gain(n, stop, middle) > 0 /\ Gain(n, middle, target) >= 2 * Gain(n, stop, middle)
    <3> HIDE DEF middle, stop, target
    <3>1. ASSUME middle \in Int, stop \in Int, middle # stop PROVE risk # 0
      BY <3>1 DEF AbsVal
    <3> QED  BY <2>3, <2>4, <3>1 DEF OwnTarget, TwoRisks, PaysTwo
  <2>8. CASE tape # "none"
    <3>1. middle = plan.entry /\ stop = plan.stop /\ target = plan.targets[1]
      BY <2>6, <2>8
    <3> HIDE DEF middle, stop, target
    <3>2. /\ middle \in Int /\ stop \in Int /\ target \in Int
          /\ Gain(n, stop, middle) > 0 /\ Gain(n, middle, target) >= 2 * Gain(n, stop, middle)
          /\ \/ s.targets # <<>> /\ target = Middle(s.targets[1])
             \/ AbsVal(target - middle) = 2 * risk
      BY <2>2, <2>6, <2>8, <3>1, PlanPays DEF n
    <3>3. middle # stop /\ Ratio(middle, stop, target) >= 200
      BY <2>4, <3>2, PaysShows
    <3> QED  BY <2>8, <3>2, <3>3
  <2>9. CASE tape = "none"
    <3>1. middle = Middle(s.entry) /\ stop = 2 * s.stop[IF side = "buy" THEN 1 ELSE 2]
          /\ target = IF side = "buy" THEN middle + 2 * risk ELSE middle - 2 * risk
      BY <2>5, <2>9
    <3> HIDE DEF middle, stop, target
    <3>2. middle \in Int /\ stop \in Int /\ Gain(n, stop, middle) > 0
      BY <2>4, <2>7, <3>1
    <3>3. CASE side = n
      <4>1. /\ target \in Int /\ Gain(n, middle, target) >= 2 * Gain(n, stop, middle)
            /\ AbsVal(target - middle) = 2 * risk
        BY <2>4, <3>1, <3>2, <3>3, TwoAway
      <4>2. middle # stop /\ Ratio(middle, stop, target) >= 200
        BY <2>4, <3>2, <4>1, PaysShows
      <4> QED  BY <3>2, <3>3, <4>1, <4>2
    <3>4. CASE side # n
      <4>1. side = "sell" /\ n = "buy" /\ stop < middle
        BY <2>4, <3>2, <3>4 DEF Gain
      <4>2. risk \in Int /\ risk > 0
        BY <3>2, <4>1 DEF AbsVal
      <4>3. target = middle - 2 * risk
        BY <3>1, <4>1
      <4> HIDE DEF risk
      <4>4. target \in Int /\ target < middle /\ AbsVal(target - middle) = 2 * risk
        BY <3>2, <4>2, <4>3 DEF AbsVal
      <4>5. Ratio(middle, stop, target) >= 200
        <5>1. AbsVal(target - middle) >= 2 * AbsVal(middle - stop)
          BY <4>2, <4>4 DEF risk
        <5> QED  BY <3>2, <4>1, <4>4, <5>1, RatioOfTwo
      <4> QED  BY <2>9, <3>2, <3>4, <4>1, <4>4, <4>5
    <3> QED  BY <3>3, <3>4
  <2> QED  BY <2>8, <2>9
<1> QED  BY <1>1, AnswersKept, PTL

-----------------------------------------------------------------------------
(* The late session.  Turning trend and structure to one side never takes  *)
(* a point from that side nor gives one to the other.                      *)

LEMMA PointsMove ==
    ASSUME NEW m, NEW t, NEW b, NEW levels, NEW s \in Sides
    PROVE  LET now == Scores(m, t, b, levels)
               then == Scores(m, s, s, levels)
           IN /\ now[s] \in Int /\ then[s] \in Int /\ now[Other(s)] \in Int /\ then[Other(s)] \in Int
              /\ then[s] >= now[s] /\ then[Other(s)] <= now[Other(s)]
<1> DEFINE First(tr, bi) == [r \in Sides |-> If(m.beyond[r], 1) + If(m.broke[r], 2)
                                             + If(tr = r, 1) + If(bi = r, 2)]
           Leader(tr, bi) == IF First(tr, bi)["buy"] >= First(tr, bi)["sell"] THEN "buy" ELSE "sell"
           Before(r) == LET p == IF r = "sell" THEN levels.res ELSE levels.sup
                        IN p # Nil /\ Beyond(r, m.px, 100 * p) /\ AbsVal(m.px - 100 * p) < 2500
           Rest(r) == If(m.beyond[r] /\ Reach(r, m.nearLow, m.nearHigh), 1)
           Near(r) == If(Before(r), 1)
<1>1. \A holds, n : If(holds, n) = n \/ If(holds, n) = 0
  BY DEF If
<1>2. ASSUME NEW tr, NEW bi, NEW r \in Sides
      PROVE  /\ Scores(m, tr, bi, levels)[r] = First(tr, bi)[r] + If(r = Leader(tr, bi) /\ m.volume, 1) + Rest(r) + Near(r)
             /\ First(tr, bi)[r] \in Int
  <2>1. Scores(m, tr, bi, levels)[r] = First(tr, bi)[r] + If(r = Leader(tr, bi) /\ m.volume, 1) + Rest(r) + Near(r)
    BY DEF Scores
  <2>2. First(tr, bi)[r] = If(m.beyond[r], 1) + If(m.broke[r], 2) + If(tr = r, 1) + If(bi = r, 2)
    OBVIOUS
  <2>3. First(tr, bi)[r] \in Int
    <3> HIDE DEF First
    <3> QED  BY <1>1, <2>2
  <2> QED  BY <2>1, <2>3
<1>3. Other(s) \in Sides /\ Other(s) # s /\ Sides = {"buy", "sell"} /\ s \in {"buy", "sell"}
  BY DEF Sides, Other
<1>4. First(s, s)[s] >= First(t, b)[s] /\ First(s, s)[Other(s)] <= First(t, b)[Other(s)]
  <2>1. \A r \in Sides : First(t, b)[r] = If(m.beyond[r], 1) + If(m.broke[r], 2) + If(t = r, 1) + If(b = r, 2)
    OBVIOUS
  <2>2. \A r \in Sides : First(s, s)[r] = If(m.beyond[r], 1) + If(m.broke[r], 2) + If(s = r, 1) + If(s = r, 2)
    OBVIOUS
  <2> HIDE DEF First
  <2>3. If(s = s, 1) = 1 /\ If(s = s, 2) = 2 /\ If(s = Other(s), 1) = 0 /\ If(s = Other(s), 2) = 0
    BY <1>3 DEF If
  <2> QED  BY <1>1, <1>3, <2>1, <2>2, <2>3
<1>5. Leader(t, b) = s => Leader(s, s) = s
  <2>1. \A r \in Sides : First(t, b)[r] \in Int /\ First(s, s)[r] \in Int
    <3> HIDE DEF First
    <3> QED  BY <1>2
  <2> HIDE DEF First
  <2>2. CASE s = "buy"
    BY <1>3, <1>4, <2>1, <2>2 DEF Other, Sides
  <2>3. CASE s = "sell"
    BY <1>3, <1>4, <2>1, <2>3 DEF Other, Sides
  <2> QED  BY <1>3, <2>2, <2>3
<1>6. \A tr, bi : Leader(tr, bi) \in Sides
  BY <1>3
<1>7. /\ If(s = Leader(s, s) /\ m.volume, 1) >= If(s = Leader(t, b) /\ m.volume, 1)
      /\ If(Other(s) = Leader(s, s) /\ m.volume, 1) <= If(Other(s) = Leader(t, b) /\ m.volume, 1)
  <2> HIDE DEF Leader
  <2> QED  BY <1>3, <1>5, <1>6 DEF If
<1> HIDE DEF First, Leader, Rest, Near
<1>8. \A r : Rest(r) \in Int /\ Near(r) \in Int
  BY <1>1 DEF Rest, Near
<1>9. \A r, x : If(r = x /\ m.volume, 1) \in Int
  BY <1>1
<1>10. Scores(m, t, b, levels)[s] = First(t, b)[s] + If(s = Leader(t, b) /\ m.volume, 1) + Rest(s) + Near(s)
  BY <1>2
<1>11. Scores(m, s, s, levels)[s] = First(s, s)[s] + If(s = Leader(s, s) /\ m.volume, 1) + Rest(s) + Near(s)
  BY <1>2
<1>12. Scores(m, t, b, levels)[Other(s)] = First(t, b)[Other(s)] + If(Other(s) = Leader(t, b) /\ m.volume, 1)
                                             + Rest(Other(s)) + Near(Other(s))
  BY <1>2, <1>3
<1>13. Scores(m, s, s, levels)[Other(s)] = First(s, s)[Other(s)] + If(Other(s) = Leader(s, s) /\ m.volume, 1)
                                             + Rest(Other(s)) + Near(Other(s))
  BY <1>2, <1>3
<1>14. First(t, b)[s] \in Int /\ First(s, s)[s] \in Int /\ First(t, b)[Other(s)] \in Int /\ First(s, s)[Other(s)] \in Int
  BY <1>2, <1>3
<1> DEFINE a == If(s = Leader(t, b) /\ m.volume, 1)
           c == If(s = Leader(s, s) /\ m.volume, 1)
           d == If(Other(s) = Leader(t, b) /\ m.volume, 1)
           e == If(Other(s) = Leader(s, s) /\ m.volume, 1)
<1>15. a \in Int /\ c \in Int /\ d \in Int /\ e \in Int /\ c >= a /\ e <= d
  BY <1>7, <1>9
<1>16. /\ Scores(m, t, b, levels)[s] = First(t, b)[s] + a + Rest(s) + Near(s)
       /\ Scores(m, s, s, levels)[s] = First(s, s)[s] + c + Rest(s) + Near(s)
       /\ Scores(m, t, b, levels)[Other(s)] = First(t, b)[Other(s)] + d + Rest(Other(s)) + Near(Other(s))
       /\ Scores(m, s, s, levels)[Other(s)] = First(s, s)[Other(s)] + e + Rest(Other(s)) + Near(Other(s))
  BY <1>10, <1>11, <1>12, <1>13
<1> HIDE DEF a, c, d, e
<1> QED  BY <1>4, <1>8, <1>14, <1>15, <1>16

\* A trade of the side that leads stays one when its points only grow and the other side's
\* only shrink.
LEMMA SideHolds ==
    ASSUME NEW m, NEW expiry, NEW s \in Sides, NEW now, NEW then,
           now[s] \in Int, then[s] \in Int, now[Other(s)] \in Int, then[Other(s)] \in Int,
           then[s] >= now[s], then[Other(s)] <= now[Other(s)], now[s] > now[Other(s)],
           LateJudged(m, now, expiry).side = s
    PROVE  LateJudged(m, then, expiry).side = s
<1> DEFINE class == LateClass(m, now, expiry)
           newer == LateClass(m, then, expiry)
<1>0. /\ (s = "buy" /\ Other(s) = "sell") \/ (s = "sell" /\ Other(s) = "buy")
      /\ Sides = {"buy", "sell"} /\ \A c : NoLate(c).side = "wait"
  <2>1. (s = "buy" /\ Other(s) = "sell") \/ (s = "sell" /\ Other(s) = "buy")
    BY DEF Sides, Other
  <2>2. \A c : NoLate(c).side = "wait"
    BY DEF NoLate
  <2> QED  BY <2>1, <2>2 DEF Sides
<1>1. /\ Spoken(m, now, class) # {} /\ Larger(now["buy"], now["sell"]) >= 5
      /\ (IF "buy" \in Spoken(m, now, class) THEN "buy" ELSE "sell") = s
      /\ \A c, k : LateTrade(m, s, c, k).side = s
  <2>1. LateJudged(m, now, expiry) = LateScored(m, now, expiry, class)
    BY DEF LateJudged
  <2>2. Spoken(m, now, class) # {} /\ ~(Larger(now["buy"], now["sell"]) < 5)
    BY <1>0, <2>1 DEF LateScored
  <2> DEFINE r == IF "buy" \in Spoken(m, now, class) THEN "buy" ELSE "sell"
  <2>3. \E k : LateScored(m, now, expiry, class) = LateTrade(m, r, class, k)
    BY <2>2 DEF LateScored
  <2>4. PICK k : LateTrade(m, r, class, k).side = s
    BY <2>1, <2>3
  <2>5. \A c, j : LateTrade(m, r, c, j).side = r \/ LateTrade(m, r, c, j).side = "wait"
    BY <1>0 DEF LateTrade
  <2>6. r = s
    BY <1>0, <2>4, <2>5
  <2>7. ~(LET stop == LateStop(m, s)
              target == IF s = "buy" THEN m.high ELSE m.low
              risk == AbsVal(m.px - stop)
              reward == AbsVal(target - m.px)
          IN risk = 0 \/ risk > 100 * MaxRiskPoints \/ reward < 2 * risk)
    BY <1>0, <2>4, <2>6 DEF LateTrade
  <2>8. \A c, j : LateTrade(m, s, c, j).side = s
    BY <2>7 DEF LateTrade
  <2>9. Larger(now["buy"], now["sell"]) >= 5
    BY <1>0, <2>2 DEF Larger
  <2> QED  BY <2>2, <2>6, <2>8, <2>9
<1>2. now[s] >= 5 /\ then[s] >= 5
  BY <1>0, <1>1 DEF Larger
<1>3. s \in Spoken(m, now, class)
  <2>1. Spoken(m, now, class) \subseteq Sides
    BY DEF Spoken
  <2> QED  BY <1>0, <1>1, <2>1
<1>4. s = "sell" => "buy" \notin Spoken(m, now, class)
  BY <1>1
<1>5. class # "expiry_compression" /\ class # "no_late_session_setup"
  BY <1>1 DEF Spoken
<1>6. newer = class /\ s \in Spoken(m, then, newer)
      /\ (s = "sell" => "buy" \notin Spoken(m, then, newer))
  <2>1. ~(expiry.active /\ expiry.compressing /\ ~m.expands)
    BY <1>5 DEF LateClass
  <2>2. CASE expiry.active /\ m.expands
    <3>1. class = "expiry_driven_expansion" /\ newer = "expiry_driven_expansion"
      BY <1>2, <2>1, <2>2 DEF LateClass
    <3>2. \A score : Spoken(m, score, "expiry_driven_expansion") = {r \in Sides : score[r] > score[Other(r)]}
      BY DEF Spoken
    <3>3. then[s] > then[Other(s)] /\ ~(then[Other(s)] > then[s])
      OBVIOUS
    <3>4. s = "sell" => ~(then["buy"] > then["sell"])
      BY <1>0, <3>3
    <3>5. "buy" \in Spoken(m, then, "expiry_driven_expansion") => then["buy"] > then["sell"]
      BY <3>2 DEF Other
    <3> QED  BY <3>1, <3>2, <3>3, <3>4, <3>5
  <2>3. CASE ~(expiry.active /\ m.expands)
    <3>1. CASE \E r \in Sides : m.broke[r] /\ now[r] >= 5
      <4>1. class = "breakout"
        BY <2>1, <2>3, <3>1 DEF LateClass
      <4>2. m.broke[s]
        BY <1>3, <4>1 DEF Spoken
      <4>3. newer = "breakout"
        BY <1>2, <2>1, <2>3, <4>2 DEF LateClass
      <4> QED  BY <1>0, <1>2, <1>4, <4>1, <4>2, <4>3 DEF Spoken
    <3>2. CASE ~(\E r \in Sides : m.broke[r] /\ now[r] >= 5)
      <4>1. ~(\E r \in Sides : m.broke[r] /\ then[r] >= 5)
        BY <1>0, <1>2, <3>2
      <4>2. CASE \E r \in Sides : m.beyond[r] /\ now[r] >= 5
        <5>1. class = "continuation"
          BY <2>1, <2>3, <3>2, <4>2 DEF LateClass
        <5>2. m.beyond[s]
          BY <1>3, <5>1 DEF Spoken
        <5>3. newer = "continuation"
          BY <1>2, <2>1, <2>3, <4>1, <5>2 DEF LateClass
        <5> QED  BY <1>0, <1>2, <1>4, <5>1, <5>2, <5>3 DEF Spoken
      <4>3. CASE ~(\E r \in Sides : m.beyond[r] /\ now[r] >= 5)
        <5>1. class = "mean_reversion"
          BY <1>5, <2>1, <2>3, <3>2, <4>3 DEF LateClass
        <5>2. Reach(s, m.nearLow, m.nearHigh)
          BY <1>3, <5>1 DEF Spoken
        <5>3. ~(\E r \in Sides : m.beyond[r] /\ then[r] >= 5)
          BY <1>0, <1>2, <4>3
        <5>4. newer = "mean_reversion"
          BY <1>0, <1>2, <2>1, <2>3, <4>1, <5>2, <5>3 DEF LateClass, Reach
        <5> QED  BY <1>0, <1>3, <1>4, <5>1, <5>4 DEF Spoken
      <4> QED  BY <4>2, <4>3
    <3> QED  BY <3>1, <3>2
  <2> QED  BY <2>2, <2>3
<1>7. ~(Larger(then["buy"], then["sell"]) < 5)
  BY <1>0, <1>2 DEF Larger
<1>8. \E k : LateScored(m, then, expiry, newer) = LateTrade(m, s, newer, k)
  <2>1. Spoken(m, then, newer) # {} /\ (IF "buy" \in Spoken(m, then, newer) THEN "buy" ELSE "sell") = s
    BY <1>0, <1>6
  <2> QED  BY <1>7, <2>1 DEF LateScored
<1> QED  BY <1>1, <1>8 DEF LateJudged

\* Evidence for the side of a late-session trade that leads, from the trend and the newest
\* structure, never cancels or reverses it, for any day, levels and expiry session.
THEOREM AgreementNeverHurts == DecisionSpec => []AgreementHelps
<1>1. AgreementHelps
  <2> SUFFICES ASSUME NEW s \in Sides, Late.side = s,
                      Leads(s, Scores(Marks, TrendSide, Bias, LevelSets[lines]))
               PROVE  LateWith(s, s).side = s
    BY DEF AgreementHelps
  <2>1. s # "wait" /\ Late = LateWith(TrendSide, Bias)
    BY DEF Sides, Late
  <2> DEFINE now == Scores(Marks, TrendSide, Bias, LevelSets[lines])
             then == Scores(Marks, s, s, LevelSets[lines])
  <2>2. Clock[tape].minute \in LATE_WINDOW_START..LATE_WINDOW_END /\ Marks # Nil
    BY <2>1 DEF LateWith, LateSession, NoLate
  <2>3. LateJudged(Marks, now, ExpiryIntel).side = s
    BY <2>1, <2>2 DEF LateWith, LateSession
  <2>4. LateWith(s, s) = LateJudged(Marks, then, ExpiryIntel)
    BY <2>2 DEF LateWith, LateSession
  <2>5. /\ now[s] \in Int /\ then[s] \in Int /\ now[Other(s)] \in Int /\ then[Other(s)] \in Int
        /\ then[s] >= now[s] /\ then[Other(s)] <= now[Other(s)]
    BY PointsMove
  <2>6. now[s] > now[Other(s)]
    BY DEF Leads
  <2> HIDE DEF now, then
  <2> QED  BY <2>3, <2>4, <2>5, <2>6, SideHolds
<1> QED  BY <1>1, PTL

-----------------------------------------------------------------------------
(* The intraday gates.  A model with lower floors, or inputs with more     *)
(* zones, keep every factor of confluence, and so every level of entry.     *)

\* N asks no more than M does.
NoStricter(N, M) ==
    /\ M \in {SCALPING_MODEL, INTRADAY_MODEL} /\ N \in {M, INTRADAY_MODEL}

\* j adds at most zones to i.
AddsZones(i, j) ==
    /\ j.setup = i.setup /\ j.timeframe = i.timeframe /\ j.unit = i.unit
    /\ j.trend = i.trend /\ j.trends = i.trends /\ j.bos = i.bos /\ j.choch = i.choch
    /\ i.zones \subseteq j.zones

\* What the gates compare are integers.
Comparable(i, cs, scan, p) ==
    /\ i.setup # Nil /\ i.setup.confidence \in Int
    /\ i.setup.entry \in (Nat \ {0}) \X (Nat \ {0}) /\ i.setup.stop \in (Nat \ {0}) \X (Nat \ {0})
    /\ i.setup.targets \in Seq(Nat \X Nat)
    /\ Confidence(i, i.trend) \in Int /\ \A z \in i.zones : z.confidence \in Int
    /\ Participation(cs) \in Int /\ scan.score \in Int /\ p.early \in Int

LEMMA Floors ==
    ASSUME NEW M, NEW N, NoStricter(N, M)
    PROVE  /\ M.setupFloor \in Int /\ N.setupFloor \in Int /\ N.setupFloor <= M.setupFloor
           /\ M.trendFloor \in Int /\ N.trendFloor \in Int /\ N.trendFloor <= M.trendFloor
           /\ M.volumeFloor \in Int /\ N.volumeFloor \in Int /\ N.volumeFloor <= M.volumeFloor
           /\ M.earlyScore \in Int /\ N.earlyScore \in Int /\ N.earlyScore <= M.earlyScore
           /\ M.earlySetup \in Int /\ N.earlySetup \in Int /\ N.earlySetup <= M.earlySetup
           /\ \A k \in Kinds : M.zoneFloor[k] \in Int /\ N.zoneFloor[k] \in Int /\ N.zoneFloor[k] <= M.zoneFloor[k]
<1>1. (M = SCALPING_MODEL \/ M = INTRADAY_MODEL) /\ (N = M \/ N = INTRADAY_MODEL)
  BY DEF NoStricter
<1>2. CASE M = SCALPING_MODEL /\ N = SCALPING_MODEL
  BY <1>2 DEF SCALPING_MODEL, Kinds
<1>3. CASE M = SCALPING_MODEL /\ N = INTRADAY_MODEL
  BY <1>3 DEF SCALPING_MODEL, INTRADAY_MODEL, Kinds
<1>4. CASE M = INTRADAY_MODEL /\ N = INTRADAY_MODEL
  BY <1>4 DEF INTRADAY_MODEL, Kinds
<1> QED  BY <1>1, <1>2, <1>3, <1>4

LEMMA DivMono ==
    ASSUME NEW a \in Int, NEW b \in Int, NEW m \in Nat \ {0}, a <= b
    PROVE  /\ a \div m \in Int /\ b \div m \in Int /\ a \div m <= b \div m
<1> DEFINE q == a \div m
           r == b \div m
<1>1. q \in Int /\ m * q <= a
  OBVIOUS
<1>2. r \in Int /\ b < m * (r + 1)
  OBVIOUS
<1> HIDE DEF q, r
<1>3. SUFFICES ASSUME r + 1 <= q PROVE FALSE
  BY <1>1, <1>2 DEF q, r
<1>4. m * (r + 1) <= m * q
  BY <1>1, <1>2, <1>3
<1>5. m * q \in Int /\ m * (r + 1) \in Int
  BY <1>1, <1>2
<1> QED  BY <1>1, <1>2, <1>4, <1>5

\* The early tells.
LEMMA EarlyGrows ==
    ASSUME NEW M, NEW N, NoStricter(N, M), NEW scan, NEW p, scan.score \in Int, p.early \in Int,
           NEW side, EarlyAligned(M, scan, p, side)
    PROVE  EarlyAligned(N, scan, p, side)
<1> DEFINE mult == EarlyMultiplier(p)
           Share(K) == (10000 * K.earlyScore) \div mult
           Floor1(K) == Clamp(Round(Share(K)), 28, 48)
<1>1. mult \in Nat \ {0}
  BY DEF EarlyMultiplier, Clamp
<1> HIDE DEF mult
<1>2. Share(M) \in Int /\ Share(N) \in Int /\ Share(N) <= Share(M)
  <2>1. /\ 10000 * M.earlyScore \in Int /\ 10000 * N.earlyScore \in Int
        /\ 10000 * N.earlyScore <= 10000 * M.earlyScore
    BY Floors
  <2> QED  BY <1>1, <2>1, DivMono
<1> HIDE DEF Share
<1>3. Floor1(M) \in Int /\ Floor1(N) \in Int /\ Floor1(N) <= Floor1(M)
  BY <1>2 DEF Clamp, Round
<1>4. \A K : EarlyAligned(K, scan, p, side) <=>
          /\ scan.hits[side] >= (IF mult <= 85 THEN 3 ELSE 2)
          /\ scan.score >= Floor1(K)
          /\ scan.prefers \in {side, "wait"}
  BY DEF EarlyAligned, mult, Share
<1> HIDE DEF Floor1
<1> QED  BY <1>3, <1>4

LEMMA ZoneGrows ==
    ASSUME NEW i, NEW j, NEW M, NEW N, NoStricter(N, M), i.zones \subseteq j.zones,
           \A z \in i.zones : z.confidence \in Int, NEW kind \in Kinds, NEW side, HasZone(i, M, kind, side)
    PROVE  HasZone(j, N, kind, side)
<1>1. M.zoneFloor[kind] \in Int /\ N.zoneFloor[kind] \in Int /\ N.zoneFloor[kind] <= M.zoneFloor[kind]
  BY Floors
<1>2. PICK z \in i.zones :
        /\ z.kind = kind /\ z.side = side /\ z.confidence >= M.zoneFloor[kind]
        /\ kind = "ob" => z.state \in {"untouched", "first_touch"}
        /\ kind = "fvg" => z.fill < 70
  BY DEF HasZone
<1>3. z \in j.zones /\ z.confidence \in Int
  OBVIOUS
<1>4. z.confidence >= N.zoneFloor[kind]
  BY <1>1, <1>2, <1>3
<1> QED  BY <1>2, <1>3, <1>4 DEF HasZone

\* A plan that pays for M pays for N, which may project what M takes as it is.
LEMMA PlanGrows ==
    ASSUME NEW s, s.entry \in (Nat \ {0}) \X (Nat \ {0}), s.stop \in (Nat \ {0}) \X (Nat \ {0}), s.targets \in Seq(Nat \X Nat),
           NEW bullish \in BOOLEAN, NEW a \in Int, NEW b \in Int, NEW x \in Int, NEW y \in Int, b <= a, x <= y,
           NEW M, NEW N, M.scalping, ~N.scalping,
           PlanFits(ExpectedRr(s, bullish, M, a), a, x)
    PROVE  PlanFits(ExpectedRr(s, bullish, N, b), b, y)
<1> DEFINE middle == s.entry[1] + s.entry[2]
           k == IF bullish THEN 1 ELSE 2
           stop == 2 * s.stop[k]
           risk == AbsVal(middle - stop)
           engine == IF s.targets = <<>> THEN Nil
                     ELSE (100 * AbsVal(2 * s.targets[1][IF bullish THEN 2 ELSE 1] - middle)) \div risk
           taken == IF risk = 0 \/ engine = Nil THEN Nil
                    ELSE [rr |-> engine, risk |-> risk, riskPct |-> (10000 * risk) \div middle]
           projected == IF risk = 0 THEN Nil
                        ELSE [rr |-> IF engine = Nil \/ engine < b THEN b ELSE engine,
                              risk |-> risk, riskPct |-> (10000 * risk) \div middle]
<1>1. ExpectedRr(s, bullish, M, a) = taken /\ ExpectedRr(s, bullish, N, b) = projected
  <2> DEFINE Plan(K, min) ==
                 IF risk = 0 \/ (engine = Nil /\ K.scalping) THEN Nil
                 ELSE [rr |-> IF ~K.scalping /\ (engine = Nil \/ engine < min) THEN min ELSE engine,
                       risk |-> risk, riskPct |-> (10000 * risk) \div middle]
  <2>1. ExpectedRr(s, bullish, M, a) = Plan(M, a) /\ ExpectedRr(s, bullish, N, b) = Plan(N, b)
    BY DEF ExpectedRr
  <2> HIDE DEF risk, engine, middle
  <2>2. Plan(M, a) = taken
    OBVIOUS
  <2>3. Plan(N, b) = projected
    OBVIOUS
  <2> HIDE DEF Plan
  <2> QED  BY <2>1, <2>2, <2>3
<1> HIDE DEF risk, engine, taken, projected
<1>2. middle \in Nat \ {0} /\ stop \in Int
  <2>1. s.entry[1] \in Nat \ {0} /\ s.entry[2] \in Nat \ {0} /\ s.stop[1] \in Nat /\ s.stop[2] \in Nat
    OBVIOUS
  <2>2. \A u, v \in Nat \ {0} : u + v \in Nat \ {0}
    OBVIOUS
  <2>3. middle \in Nat \ {0}
    BY <2>1, <2>2
  <2>4. s.stop[k] \in Nat
    BY <2>1
  <2> QED  BY <2>3, <2>4
<1> USE DEF risk, engine, taken, projected
<1> HIDE DEF middle, stop
<1>3. risk \in Nat
  BY <1>2 DEF AbsVal
<1> HIDE DEF risk
<1>4. taken # Nil /\ taken.rr >= a /\ taken.riskPct <= x
  <2> HIDE DEF taken, projected
  <2> QED  BY <1>1 DEF PlanFits
<1>5. risk # 0 /\ engine # Nil
  BY <1>4
<1>6. engine \in Int
  <2>1. s.targets # <<>>
    BY <1>5
  <2>2. s.targets[1] \in Nat \X Nat
    BY <2>1
  <2> DEFINE edge == s.targets[1][IF bullish THEN 2 ELSE 1]
  <2>3. edge \in Nat
    BY <2>2
  <2> HIDE DEF edge
  <2>4. AbsVal(2 * edge - middle) \in Nat
    BY <1>2, <2>3 DEF AbsVal
  <2>5. engine = (100 * AbsVal(2 * edge - middle)) \div risk
    BY <2>1 DEF edge
  <2> HIDE DEF engine
  <2> QED  BY <1>3, <1>5, <2>4, <2>5
<1> HIDE DEF engine
<1>7. engine >= a /\ (10000 * risk) \div middle <= x /\ (10000 * risk) \div middle \in Int
  BY <1>2, <1>3, <1>4, <1>5
<1>8. projected = [rr |-> engine, risk |-> risk, riskPct |-> (10000 * risk) \div middle]
  BY <1>5, <1>6, <1>7
<1>9. projected \in [rr : Int, risk : Int, riskPct : Int]
  BY <1>3, <1>6, <1>7, <1>8
<1>10. projected # Nil
  BY <1>9, NilAssumption
<1>11. projected.rr >= b /\ projected.riskPct <= y
  BY <1>6, <1>7, <1>8
<1> HIDE DEF projected
<1> QED  BY <1>1, <1>10, <1>11 DEF PlanFits

LEMMA PlanKept ==
    ASSUME NEW M, NEW N, NoStricter(N, M), NEW s, s.entry \in (Nat \ {0}) \X (Nat \ {0}),
           s.stop \in (Nat \ {0}) \X (Nat \ {0}), s.targets \in Seq(Nat \X Nat), NEW bullish \in BOOLEAN
    PROVE  /\ PlanFits(ExpectedRr(s, bullish, M, M.minRr), M.minRr, M.maxRisk)
              => PlanFits(ExpectedRr(s, bullish, N, N.minRr), N.minRr, N.maxRisk)
           /\ PlanFits(ExpectedRr(s, bullish, M, M.earlyRr), M.earlyRr, M.earlyRisk)
              => PlanFits(ExpectedRr(s, bullish, N, N.earlyRr), N.earlyRr, N.earlyRisk)
<1>1. CASE N = M
  BY <1>1
<1>2. CASE M = SCALPING_MODEL /\ N = INTRADAY_MODEL
  <2>1. /\ M.scalping /\ ~N.scalping /\ M.minRr = 200 /\ N.minRr = 200
        /\ M.maxRisk = 135 /\ N.maxRisk = 225 /\ M.earlyRr = 200 /\ N.earlyRr = 180
        /\ M.earlyRisk = 120 /\ N.earlyRisk = 200
    BY <1>2 DEF SCALPING_MODEL, INTRADAY_MODEL
  <2>2. /\ M.minRr \in Int /\ N.minRr \in Int /\ M.maxRisk \in Int /\ N.maxRisk \in Int
        /\ M.earlyRr \in Int /\ N.earlyRr \in Int /\ M.earlyRisk \in Int /\ N.earlyRisk \in Int
        /\ N.minRr <= M.minRr /\ M.maxRisk <= N.maxRisk /\ N.earlyRr <= M.earlyRr /\ M.earlyRisk <= N.earlyRisk
    BY <2>1
  <2>3. M.scalping /\ ~N.scalping
    BY <2>1
  <2>4. ASSUME NEW a \in Int, NEW b \in Int, NEW x \in Int, NEW y \in Int, b <= a, x <= y,
               PlanFits(ExpectedRr(s, bullish, M, a), a, x)
        PROVE  PlanFits(ExpectedRr(s, bullish, N, b), b, y)
    BY <2>3, <2>4, PlanGrows
  <2>5. PlanFits(ExpectedRr(s, bullish, M, M.minRr), M.minRr, M.maxRisk)
        => PlanFits(ExpectedRr(s, bullish, N, N.minRr), N.minRr, N.maxRisk)
    BY <2>2, <2>4
  <2>6. PlanFits(ExpectedRr(s, bullish, M, M.earlyRr), M.earlyRr, M.earlyRisk)
        => PlanFits(ExpectedRr(s, bullish, N, N.earlyRr), N.earlyRr, N.earlyRisk)
    BY <2>2, <2>4
  <2> QED  BY <2>5, <2>6
<1> QED  BY <1>1, <1>2 DEF NoStricter

LEMMA FactorsGrow ==
    ASSUME NEW M, NEW N, NoStricter(N, M), NEW i, NEW j, AddsZones(i, j), NEW cs, NEW scan, NEW p,
           Comparable(i, cs, scan, p)
    PROVE  Factors(i, M, cs, scan, p) \subseteq Factors(j, N, cs, scan, p)
<1> DEFINE side == TradeSide(i.setup)
           Fact(id, holds) == IF holds THEN {id} ELSE {}
           F1(k, K) == Fact("setup_quality", k.setup.confidence >= K.setupFloor /\ TypeTradable(k.setup))
           F2(k, K) == Fact("chart_trend", /\ k.trend # Nil /\ ToneSide(k.trend.side) = TradeSide(k.setup)
                                           /\ Confidence(k, k.trend) >= K.trendFloor)
           F3(k, K) == Fact("structure", Recent(k.bos, TradeSide(k.setup)) \/ Recent(k.choch, TradeSide(k.setup)))
           F4(k, K) == Fact("order_block", HasZone(k, K, "ob", TradeSide(k.setup)))
           F5(k, K) == Fact("fvg", HasZone(k, K, "fvg", TradeSide(k.setup)))
           F6(k, K) == Fact("sweep", HasZone(k, K, "sweep", TradeSide(k.setup)))
           F7(k, K) == Fact("momentum", Drift(cs) = TradeSide(k.setup))
           F8(k, K) == Fact("volume", Participation(cs) >= K.volumeFloor)
           F9(k, K) == Fact("mtf", IntradayMtf(k, TradeSide(k.setup)))
           F10(k, K) == Fact("rr", PlanFits(ExpectedRr(k.setup, TradeSide(k.setup) = "buy", K, K.minRr),
                                            K.minRr, K.maxRisk))
           F11(k, K) == Fact("early_patterns", EarlyAligned(K, scan, p, TradeSide(k.setup)))
           F12(k, K) == Fact("personality", \/ Agrees(p, TradeSide(k.setup))
                                            \/ (p.prefers = "wait" /\ p.strength < 55))
<1>1. \A k, K : Factors(k, K, cs, scan, p) =
          UNION {F1(k, K), F2(k, K), F3(k, K), F4(k, K), F5(k, K), F6(k, K), F7(k, K), F8(k, K), F9(k, K),
                 F10(k, K), F11(k, K), F12(k, K)}
  BY DEF Factors
<1>2. j.setup = i.setup /\ j.trend = i.trend /\ j.bos = i.bos /\ j.choch = i.choch /\ i.zones \subseteq j.zones
  BY DEF AddsZones
<1>3. F1(i, M) \subseteq F1(j, N)
  BY <1>2, Floors DEF Comparable
<1>4. F2(i, M) \subseteq F2(j, N)
  <2>1. Confidence(j, j.trend) = Confidence(i, i.trend)
    BY <1>2 DEF AddsZones, Confidence, Sent
  <2> QED  BY <1>2, <2>1, Floors DEF Comparable
<1>5. F3(i, M) \subseteq F3(j, N)
  BY <1>2
<1>6. F4(i, M) \subseteq F4(j, N)
  <2>1. HasZone(i, M, "ob", side) => HasZone(j, N, "ob", side)
    BY <1>2, ZoneGrows DEF Comparable, Kinds
  <2> QED  BY <1>2, <2>1
<1>7. F5(i, M) \subseteq F5(j, N)
  <2>1. HasZone(i, M, "fvg", side) => HasZone(j, N, "fvg", side)
    BY <1>2, ZoneGrows DEF Comparable, Kinds
  <2> QED  BY <1>2, <2>1
<1>8. F6(i, M) \subseteq F6(j, N)
  <2>1. HasZone(i, M, "sweep", side) => HasZone(j, N, "sweep", side)
    BY <1>2, ZoneGrows DEF Comparable, Kinds
  <2> QED  BY <1>2, <2>1
<1>9. F7(i, M) \subseteq F7(j, N)
  BY <1>2
<1>10. F8(i, M) \subseteq F8(j, N)
  BY Floors DEF Comparable
<1>11. F9(i, M) \subseteq F9(j, N)
  <2>1. IntradayMtf(j, side) = IntradayMtf(i, side)
    BY <1>2 DEF AddsZones, IntradayMtf, Confidence, Sent
  <2> QED  BY <1>2, <2>1
<1>12. F10(i, M) \subseteq F10(j, N)
  <2>1. PlanFits(ExpectedRr(i.setup, side = "buy", M, M.minRr), M.minRr, M.maxRisk)
        => PlanFits(ExpectedRr(i.setup, side = "buy", N, N.minRr), N.minRr, N.maxRisk)
    BY PlanKept DEF Comparable
  <2> QED  BY <1>2, <2>1
<1>13. F11(i, M) \subseteq F11(j, N)
  <2>1. EarlyAligned(M, scan, p, side) => EarlyAligned(N, scan, p, side)
    BY EarlyGrows DEF Comparable
  <2> QED  BY <1>2, <2>1
<1>14. F12(i, M) \subseteq F12(j, N)
  BY <1>2
<1> HIDE DEF F1, F2, F3, F4, F5, F6, F7, F8, F9, F10, F11, F12
<1>15. SUFFICES ASSUME NEW x \in Factors(i, M, cs, scan, p) PROVE x \in Factors(j, N, cs, scan, p)
  OBVIOUS
<1>16. \/ x \in F1(i, M) \/ x \in F2(i, M) \/ x \in F3(i, M) \/ x \in F4(i, M) \/ x \in F5(i, M) \/ x \in F6(i, M)
       \/ x \in F7(i, M) \/ x \in F8(i, M) \/ x \in F9(i, M) \/ x \in F10(i, M) \/ x \in F11(i, M) \/ x \in F12(i, M)
  BY <1>1
<1>17. \/ x \in F1(j, N) \/ x \in F2(j, N) \/ x \in F3(j, N) \/ x \in F4(j, N) \/ x \in F5(j, N) \/ x \in F6(j, N)
       \/ x \in F7(j, N) \/ x \in F8(j, N) \/ x \in F9(j, N) \/ x \in F10(j, N) \/ x \in F11(j, N) \/ x \in F12(j, N)
  BY <1>3, <1>4, <1>5, <1>6, <1>7, <1>8, <1>9, <1>10, <1>11, <1>12, <1>13, <1>14, <1>16
<1> QED  BY <1>1, <1>17

LEMMA FourFinite == \A a, b, c, d : IsFiniteSet({a, b, c, d})
<1> SUFFICES ASSUME NEW a, NEW b, NEW c, NEW d PROVE IsFiniteSet({a, b, c, d})
  OBVIOUS
<1>1. IsFiniteSet({a} \cup {b})
  BY FS_Singleton, FS_AddElement
<1>2. IsFiniteSet(({a} \cup {b}) \cup {c})
  BY <1>1, FS_AddElement
<1>3. IsFiniteSet((({a} \cup {b}) \cup {c}) \cup {d})
  BY <1>2, FS_AddElement
<1>4. (({a} \cup {b}) \cup {c}) \cup {d} = {a, b, c, d}
  OBVIOUS
<1> QED  BY <1>3, <1>4

LEMMA FactorsFinite ==
    ASSUME NEW i, NEW M, NEW cs, NEW scan, NEW p
    PROVE  IsFiniteSet(Factors(i, M, cs, scan, p))
<1> DEFINE A == {"setup_quality", "chart_trend", "structure", "order_block"}
           B == {"fvg", "sweep", "momentum", "volume"}
           C == {"mtf", "rr", "early_patterns", "personality"}
<1>1. IsFiniteSet(A) /\ IsFiniteSet(B) /\ IsFiniteSet(C)
  BY FourFinite
<1>2. Factors(i, M, cs, scan, p) \subseteq (A \cup B) \cup C
  BY DEF Factors
<1> HIDE DEF A, B, C
<1>3. IsFiniteSet((A \cup B) \cup C)
  BY <1>1, FS_Union
<1> QED  BY <1>2, <1>3, FS_Subset

\* More factors, with lower floors, keep the level of entry or lift it.
LEMMA LevelGrows ==
    ASSUME NEW M, NEW N, NoStricter(N, M), NEW i, NEW j, AddsZones(i, j), NEW scan, NEW p,
           i.setup.confidence \in Int, i.setup.entry \in (Nat \ {0}) \X (Nat \ {0}),
           i.setup.stop \in (Nat \ {0}) \X (Nat \ {0}), i.setup.targets \in Seq(Nat \X Nat),
           NEW F, NEW G, F \subseteq G, IsFiniteSet(G)
    PROVE  /\ Confirmed(i, M, F, p) => Confirmed(j, N, G, p)
           /\ Early(i, M, F, scan, p) => Early(j, N, G, scan, p)
<1>1. j.setup = i.setup /\ j.timeframe = i.timeframe
  BY DEF AddsZones
<1>2. Cardinality(F) \in Nat /\ Cardinality(G) \in Nat /\ Cardinality(F) <= Cardinality(G)
  <2>1. IsFiniteSet(F) /\ Cardinality(F) <= Cardinality(G)
    BY FS_Subset
  <2> QED  BY <2>1, FS_CardinalityType
<1>3. TimeframeOk(i, M) => TimeframeOk(j, N)
  BY <1>1 DEF TimeframeOk, NoStricter, SCALPING_MODEL, INTRADAY_MODEL
<1>5. ZoneSmc(F) => ZoneSmc(G)
  BY DEF ZoneSmc
<1> DEFINE side == TradeSide(i.setup)
           P(K, min) == ExpectedRr(i.setup, side = "buy", K, min)
<1>6. \A min, low : PointsOk(M, P(M, min)) => PointsOk(N, P(N, IF N = M THEN min ELSE low))
  <2>1. CASE N = M
    BY <2>1
  <2>2. CASE N = INTRADAY_MODEL
    <3>1. ~N.scalping
      BY <2>2 DEF INTRADAY_MODEL
    <3> QED  BY <3>1 DEF PointsOk
  <2> QED  BY <2>1, <2>2 DEF NoStricter
<1>7. PointsOk(M, P(M, M.minRr)) => PointsOk(N, P(N, N.minRr))
  BY <1>6
<1>8. PointsOk(M, P(M, M.earlyRr)) => PointsOk(N, P(N, N.earlyRr))
  BY <1>6
<1>9. PlanFits(P(M, M.earlyRr), M.earlyRr, M.earlyRisk) => PlanFits(P(N, N.earlyRr), N.earlyRr, N.earlyRisk)
  BY PlanKept
<1> HIDE DEF P
<1>10. ASSUME Confirmed(i, M, F, p) PROVE Confirmed(j, N, G, p)
  <2>1. /\ TimeframeOk(i, M) /\ Cardinality(F) >= 3 /\ ZoneSmc(F)
        /\ {"setup_quality", "rr", "structure"} \subseteq F
        /\ Opposes(p, side) => Cardinality(F) >= 6
        /\ ~(WaitContext(p) /\ p.patience > 55 /\ Cardinality(F) < 5)
        /\ PointsOk(M, P(M, M.minRr))
    BY <1>10 DEF Confirmed, P
  <2>2. /\ Cardinality(G) >= 3 /\ {"setup_quality", "rr", "structure"} \subseteq G
        /\ Opposes(p, side) => Cardinality(G) >= 6
        /\ ~(WaitContext(p) /\ p.patience > 55 /\ Cardinality(G) < 5)
    BY <1>2, <2>1
  <2> QED  BY <1>1, <1>3, <1>5, <1>7, <2>1, <2>2 DEF Confirmed, P
<1>11. ASSUME Early(i, M, F, scan, p) PROVE Early(j, N, G, scan, p)
  <2>1. /\ TimeframeOk(i, M) /\ "early_patterns" \in F
        /\ PlanFits(P(M, M.earlyRr), M.earlyRr, M.earlyRisk) /\ PointsOk(M, P(M, M.earlyRr))
        /\ i.setup.confidence >= M.earlySetup /\ TypeTradable(i.setup)
        /\ scan.prefers = side \/ F \cap {"momentum", "chart_trend"} # {}
        /\ Agrees(p, side) /\ ~WaitContext(p) /\ ~Opposes(p, side)
    BY <1>11 DEF Early, P
  <2>2. i.setup.confidence >= N.earlySetup
    BY <2>1, Floors
  <2>3. "early_patterns" \in G /\ (scan.prefers = side \/ G \cap {"momentum", "chart_trend"} # {})
    BY <2>1
  <2> QED  BY <1>1, <1>3, <1>8, <1>9, <2>1, <2>2, <2>3 DEF Early, P
<1> QED  BY <1>10, <1>11

-----------------------------------------------------------------------------
(* What the gates compare are integers, for any candles.                   *)

LEMMA LastOnes ==
    ASSUME NEW T, NEW s \in Seq(T), NEW n \in Nat
    PROVE  LastN(n, s) \in Seq(T) /\ (Len(s) >= n => Len(LastN(n, s)) = n)
<1>1. CASE Len(s) > n
  <2>1. /\ SubSeq(s, Len(s) - n + 1, Len(s)) \in Seq(T)
        /\ Len(SubSeq(s, Len(s) - n + 1, Len(s))) = n
    BY <1>1, SubSeqProperties
  <2> QED  BY <1>1, <2>1 DEF LastN
<1>2. CASE ~(Len(s) > n)
  <2>1. LastN(n, s) = s
    BY <1>2 DEF LastN
  <2>2. Len(s) \in Nat
    OBVIOUS
  <2>3. ASSUME Len(s) >= n PROVE Len(s) = n
    BY <1>2, <2>2, <2>3
  <2> QED  BY <2>1, <2>3
<1> QED  BY <1>1, <1>2

Volumes(x) == [k \in DOMAIN x |-> x[k].v]

LEMMA VolumeSum ==
    ASSUME NEW x, IsFiniteSet(DOMAIN x)
    PROVE  LET Volume(k) == x[k].v
           IN MapThenSumSet(Volume, DOMAIN x) = SumOf(Volumes(x), DOMAIN x)
<1> DEFINE Volume(k) == x[k].v
           P(f) == f = [T \in SUBSET DOMAIN x |-> IF T = {} THEN 0 ELSE x[Pick(T)].v + f[T \ {Pick(T)}]]
<1>1. MapThenSumSet(Volume, DOMAIN x) = (CHOOSE f : P(f))[DOMAIN x]
  BY DEF MapThenSumSet, MapThenFoldSet, Pick
<1>2. ASSUME NEW f PROVE Summing(f, Volumes(x), DOMAIN x) <=> P(f)
  <2> DEFINE F == [T \in SUBSET DOMAIN x |-> IF T = {} THEN 0 ELSE x[Pick(T)].v + f[T \ {Pick(T)}]]
             G == [T \in SUBSET DOMAIN x |-> IF T = {} THEN 0 ELSE Volumes(x)[Pick(T)] + f[T \ {Pick(T)}]]
  <2>1. ASSUME NEW T \in SUBSET DOMAIN x PROVE F[T] = G[T]
    <3>1. CASE T = {}
      BY <3>1
    <3>2. CASE T # {}
      <4>1. Pick(T) \in DOMAIN x
        BY <3>2, PickIn
      <4>2. Volumes(x)[Pick(T)] = x[Pick(T)].v
        BY <4>1 DEF Volumes
      <4> QED  BY <4>2
    <3> QED  BY <3>1, <3>2
  <2>2. F = G
    BY <2>1
  <2>3. Summing(f, Volumes(x), DOMAIN x) <=> f = G
    BY DEF Summing
  <2> QED  BY <2>2, <2>3
<1>3. \E f : Summing(f, Volumes(x), DOMAIN x)
  BY SummingExists
<1> DEFINE c == CHOOSE f : P(f)
           d == CHOOSE f : Summing(f, Volumes(x), DOMAIN x)
<1>4. P(c) /\ Summing(d, Volumes(x), DOMAIN x)
  <2> HIDE DEF P
  <2> QED  BY <1>2, <1>3
<1>5. Summing(c, Volumes(x), DOMAIN x)
  <2> HIDE DEF P, c
  <2> QED  BY <1>2, <1>4
<1>6. c[DOMAIN x] = d[DOMAIN x]
  <2> HIDE DEF P, c, d
  <2> QED  BY <1>4, <1>5, SummingAgree
<1>7. (CHOOSE f : P(f))[DOMAIN x] = c[DOMAIN x] /\ SumOf(Volumes(x), DOMAIN x) = d[DOMAIN x]
  BY DEF SumOf
<1> HIDE DEF P, c, d
<1> QED  BY <1>1, <1>6, <1>7

Candles == [o : Int, h : Int, l : Int, c : Int, v : Nat]

LEMMA ParticipationInt == ASSUME NEW cs \in Seq(Candles) PROVE Participation(cs) \in Int
<1> DEFINE x == LastN(20, cs)
           Volume(k) == x[k].v
           total == MapThenSumSet(Volume, DOMAIN x)
<1>1. x \in Seq(Candles) /\ (Len(cs) >= 20 => Len(x) = 20)
  BY LastOnes
<1>2. total = SumOf(Volumes(x), DOMAIN x)
  <2>1. IsFiniteSet(DOMAIN x)
    <3> HIDE DEF x
    <3>1. DOMAIN x = 1..Len(x) /\ Len(x) \in Int
      BY <1>1
    <3> QED  BY <3>1, FS_Interval
  <2> QED  BY <2>1, VolumeSum
<1>3. Participation(cs) = IF Len(cs) < 20 \/ total = 0 THEN 50
                          ELSE Clamp(Round((110000 * x[20].v) \div total), 0, 100)
  BY DEF Participation
<1> HIDE DEF x, total
<1>4. total \in Nat
  <2>1. DOMAIN x = 1..Len(x) /\ Len(x) \in Int
    BY <1>1
  <2>2. IsFiniteSet(DOMAIN x)
    BY <2>1, FS_Interval
  <2>3. \A k \in DOMAIN x : Volumes(x)[k] \in Nat
    <3>1. \A k \in DOMAIN x : x[k] \in Candles /\ Volumes(x)[k] = x[k].v
      BY <1>1 DEF Volumes
    <3>2. \A c \in Candles : c.v \in Nat
      BY DEF Candles
    <3> QED  BY <3>1, <3>2
  <2> QED  BY <1>2, <2>2, <2>3, SumNat
<1>5. CASE Len(cs) < 20 \/ total = 0
  BY <1>3, <1>5
<1>6. CASE Len(cs) >= 20 /\ total > 0
  <2>1. x[20].v \in Nat
    <3>1. x[20] \in Candles
      <4>1. x \in Seq(Candles) /\ Len(x) = 20
        BY <1>1, <1>6
      <4>2. 20 \in 1..Len(x)
        BY <4>1
      <4> HIDE DEF Volume
      <4> QED  BY <4>1, <4>2, ElementOfSeq
    <3> QED  BY <3>1 DEF Candles
  <2>2. (110000 * x[20].v) \div total \in Int
    BY <1>4, <1>6, <2>1
  <2>3. \A n \in Int : Clamp(Round(n), 0, 100) \in Int
    BY DEF Clamp, Round
  <2> QED  BY <1>3, <1>4, <1>6, <2>2, <2>3
<1>7. Len(cs) \in Nat
  OBVIOUS
<1> QED  BY <1>4, <1>5, <1>6, <1>7

-----------------------------------------------------------------------------
(* The early patterns: a score of 0 to 100.                                *)

TellIds == {"lower_high", "trendline_rejection", "weak_pullback", "momentum_exhaustion"}
           \cup {"level_break", "multi_rejection_candles", "failure_to_reclaim", "vwap_rejection"}
           \cup {"ema_rejection", "volume_expansion"}
AllTells == [id : TellIds, weight : 0..135]

LEMMA TellsType ==
    ASSUME NEW s, NEW x, NEW cs, NEW levels
    PROVE  TellsOf(s, x, cs, levels) \subseteq AllTells
<1>1. ASSUME NEW hs, NEW a PROVE SwingTells(s, x, hs, a) \subseteq AllTells
  BY DEF SwingTells, Tell, AllTells, TellIds
<1>2. ASSUME NEW top, NEW low, NEW a, NEW level, NEW vwap
      PROVE  LevelTells(s, x, top, low, a, level, vwap, levels) \subseteq AllTells
  BY DEF LevelTells, Tell, AllTells, TellIds
<1>3. VolumeTells(x) \subseteq AllTells
  <2>1. VolumeTells(x) = {[id |-> "volume_expansion", weight |-> 120]} \/ VolumeTells(x) = {}
    BY Zenon DEF VolumeTells, Tell
  <2> QED  BY <2>1 DEF AllTells, TellIds
<1> QED  BY <1>1, <1>2, <1>3 DEF TellsOf

\* The weight a side's tells give to one of them.
Heaviest(tells) == [id \in {t.id : t \in tells} |-> Max({t.weight : t \in {u \in tells : u.id = id}})]

LEMMA WeightSum ==
    ASSUME NEW tells, IsFiniteSet({t.id : t \in tells})
    PROVE  SideWeight(tells) = SumOf(Heaviest(tells), {t.id : t \in tells})
<1> DEFINE S == {t.id : t \in tells}
           w == Heaviest(tells)
           Weight(id) == Max({t.weight : t \in {u \in tells : u.id = id}})
           P(f) == f = [T \in SUBSET S |-> IF T = {} THEN 0 ELSE Weight(Pick(T)) + f[T \ {Pick(T)}]]
<1>1. SideWeight(tells) = (CHOOSE f : P(f))[S]
  BY DEF SideWeight, MapThenSumSet, MapThenFoldSet, Pick
<1>2. \A id \in S : w[id] = Weight(id)
  BY DEF Heaviest
<1> HIDE DEF S, w, Weight
<1>3. ASSUME NEW f PROVE Summing(f, w, S) <=> P(f)
  <2> DEFINE F == [T \in SUBSET S |-> IF T = {} THEN 0 ELSE Weight(Pick(T)) + f[T \ {Pick(T)}]]
             G == [T \in SUBSET S |-> IF T = {} THEN 0 ELSE w[Pick(T)] + f[T \ {Pick(T)}]]
  <2>1. \A T \in SUBSET S : T # {} => Pick(T) \in S
    BY PickIn
  <2>2. \A T \in SUBSET S : F[T] = G[T]
    BY <1>2, <2>1
  <2>3. F = G
    BY <2>2
  <2> QED  BY <2>3 DEF Summing
<1> HIDE DEF P
<1>4. \E f : Summing(f, w, S)
  BY SummingExists DEF S
<1> DEFINE c == CHOOSE f : P(f)
           d == CHOOSE f : Summing(f, w, S)
<1>5. P(c) /\ Summing(d, w, S)
  BY <1>3, <1>4
<1> HIDE DEF c, d
<1>6. c[S] = d[S]
  <2>1. Summing(c, w, S) /\ IsFiniteSet(S) /\ S \in SUBSET (S \cap S)
    BY <1>3, <1>5 DEF S
  <2> QED  BY <1>5, <2>1, SummingAgree
<1> QED  BY <1>1, <1>6 DEF SumOf, S, w, c, d

LEMMA MaxIn ==
    ASSUME NEW n \in Nat, NEW W, W # {}, W \subseteq 0..n
    PROVE  Max(W) \in W
<1> DEFINE D == {n - y : y \in W}
<1>1. D \in SUBSET Nat /\ D # {}
  <2>1. \A y \in W : n - y \in Nat
    OBVIOUS
  <2> QED  BY <2>1
<1>2. PICK x \in D : \A y \in D : x <= y
  <2> HIDE DEF D
  <2> QED  BY <1>1, LeastIn
<1>3. PICK m \in W : x = n - m
  OBVIOUS
<1>4. \A y \in W : n - m <= n - y
  BY <1>2, <1>3
<1>5. \A y \in W : m \in Int /\ y \in Int
  <2> HIDE DEF D
  <2>1. \A y \in W : y \in 0..n
    OBVIOUS
  <2> QED  BY <1>3, <2>1
<1>6. \A y \in W : m >= y
  BY <1>4, <1>5
<1> DEFINE Greatest(k) == \A y \in W : k >= y
<1>7. Greatest(m) /\ Max(W) = CHOOSE k \in W : Greatest(k)
  BY <1>6 DEF Max
<1> HIDE DEF Greatest
<1> QED  BY <1>7

LEMMA HeaviestInt ==
    ASSUME NEW tells, tells \subseteq AllTells, NEW id \in {t.id : t \in tells}
    PROVE  Heaviest(tells)[id] \in Int
<1> DEFINE W == {t.weight : t \in {u \in tells : u.id = id}}
<1>1. W # {} /\ W \subseteq 0..135
  BY DEF AllTells
<1>2. Heaviest(tells)[id] = Max(W)
  BY DEF Heaviest
<1> HIDE DEF W
<1>3. Max(W) \in W
  <2>1. 135 \in Nat
    OBVIOUS
  <2> QED  BY <1>1, <2>1, MaxIn
<1>4. Max(W) \in 0..135
  BY <1>1, <1>3
<1> DEFINE m == Max(W)
<1>5. m \in 0..135
  BY <1>4
<1> HIDE DEF m
<1>6. m \in Int
  BY <1>5
<1> QED  BY <1>2, <1>6 DEF m

LEMMA SideWeightInt == ASSUME NEW tells, tells \subseteq AllTells PROVE SideWeight(tells) \in Int
<1> DEFINE S == {t.id : t \in tells}
<1>1. IsFiniteSet(S)
  <2> DEFINE A == {"lower_high", "trendline_rejection", "weak_pullback", "momentum_exhaustion"}
             B == {"level_break", "multi_rejection_candles", "failure_to_reclaim", "vwap_rejection"}
             C == {"ema_rejection", "volume_expansion", "ema_rejection", "volume_expansion"}
  <2>1. IsFiniteSet(A) /\ IsFiniteSet(B) /\ IsFiniteSet(C)
    BY FourFinite
  <2>2. S \subseteq (A \cup B) \cup C
    BY DEF AllTells, TellIds
  <2> HIDE DEF A, B, C, S
  <2>3. IsFiniteSet((A \cup B) \cup C)
    BY <2>1, FS_Union
  <2> QED  BY <2>2, <2>3, FS_Subset
<1>2. \A id \in S : Heaviest(tells)[id] \in Int
  BY HeaviestInt
<1>3. SideWeight(tells) = SumOf(Heaviest(tells), S)
  BY <1>1, WeightSum
<1> HIDE DEF S
<1> QED  BY <1>1, <1>2, <1>3, SumInt

LEMMA ScoreInt == ASSUME NEW cs, NEW levels PROVE EarlyScan(cs, levels).score \in Int
<1> DEFINE tells == [s \in Sides |-> TellsOf(s, View(s, cs), cs, levels)]
           w == [s \in Sides |-> SideWeight(tells[s])]
           Outweighs(s) == w[s] >= 220 /\ 100 * w[s] > 115 * w[Other(s)]
           prefers == IF \E s \in Sides : Outweighs(s) THEN CHOOSE s \in Sides : Outweighs(s) ELSE "wait"
           weight == IF prefers = "wait" THEN w["buy"] + w["sell"] ELSE w[prefers]
<1>1. \A s \in Sides : w[s] \in Int
  BY TellsType, SideWeightInt
<1>2. EarlyScan(cs, levels).score = IF Len(cs) < 12 THEN 0 ELSE Clamp(Round((100 * weight) \div 8), 0, 100)
  BY DEF EarlyScan, Weighed, Scored
<1> HIDE DEF w, Outweighs
<1>3. prefers \in Sides \/ prefers = "wait"
  OBVIOUS
<1> HIDE DEF prefers
<1>4. weight \in Int
  BY <1>1, <1>3 DEF Sides
<1> HIDE DEF weight
<1>5. Clamp(Round((100 * weight) \div 8), 0, 100) \in Int
  BY <1>4 DEF Clamp, Round
<1> QED  BY <1>2, <1>5

LEMMA EarlyBiasInt == ASSUME NEW cs, NEW side PROVE Personality(cs, side).early \in Int
<1>1. \A id : EarlyBias(id) \in Int
  BY DEF EarlyBias
<1>2. TooShort.early \in Int
  BY DEF TooShort
<1>3. ASSUME NEW offers, NEW bars PROVE Classified(offers, bars, side).early \in Int
  <2> DEFINE lifted == [i \in DOMAIN offers |->
                          IF offers[i].bias = side
                          THEN [offers[i] EXCEPT !.score = Smaller(9900, @ + 600)] ELSE offers[i]]
             heard == IF offers = <<>> THEN <<[id |-> "balanced_auction", bias |-> "wait", score |-> 4000]>>
                      ELSE lifted
             most == Max({heard[i].score : i \in DOMAIN heard})
             first == Min({i \in DOMAIN heard : heard[i].score = most})
             chosen == heard[first].id
  <2>1. Classified(offers, bars, side).early = EarlyBias(chosen)
    BY SMTT(30) DEF Classified
  <2> HIDE DEF chosen
  <2> QED  BY <1>1, <2>1
<1> QED  BY <1>2, <1>3 DEF Personality

LEMMA SentInt ==
    ASSUME NEW i, NEW t, t # Nil => t.confidence \in Nat
    PROVE  Confidence(i, t) \in Int
<1>1. CASE t = Nil
  BY <1>1 DEF Confidence
<1>2. CASE t # Nil
  <2>1. t.confidence \in Nat /\ t.confidence \div 100 \in Int
    BY <1>2
  <2> QED  BY <1>2, <2>1 DEF Confidence, Sent
<1> QED  BY <1>1, <1>2

LEMMA ScanRead ==
    ASSUME AnswersOK
    PROVE  ScanOf[tape][lines][emaOn].score \in Int
<1>1. ScanOf[tape][lines][emaOn] = EarlyScan(Tapes[tape], LevelsShown(lines, emaOn))
  BY DEF AnswersOK, ScanOf
<1> QED  BY <1>1, ScoreInt

LEMMA PersonalityRead ==
    ASSUME AnswersOK
    PROVE  PersonalityOf[tape][BosSide].early \in Int
<1> DEFINE Named == Sides \cup {"none"}
<1>1. events.bos \in Seq(Named)
  <2>1. CASE events = NoEvents
    BY <2>1 DEF NoEvents
  <2>2. CASE events \in EventAnswers[chart.server]
    BY <2>2, AnswersAssumption DEF AnswersOK
  <2> QED  BY <2>1, <2>2 DEF AnswersOK
<1>2. BosSide \in Named
  <2>1. CASE events.bos = <<>>
    BY <2>1 DEF BosSide
  <2>2. CASE events.bos # <<>>
    <3> HIDE DEF Named
    <3>1. Len(events.bos) \in 1..Len(events.bos)
      BY <1>1, <2>2
    <3>2. events.bos[Len(events.bos)] \in Named
      BY <1>1, <3>1
    <3> QED  BY <2>2, <3>2 DEF BosSide, Last
  <2> QED  BY <2>1, <2>2
<1>3. PersonalityOf[tape][BosSide] = Personality(Tapes[tape], BosSide)
  BY <1>2 DEF AnswersOK, PersonalityOf
<1> QED  BY <1>3, EarlyBiasInt

Scan == ScanOf[tape][lines][emaOn]
Character == PersonalityOf[tape][BosSide]

LEMMA AllComparable ==
    ASSUME AnswersOK, TopSetup # Nil
    PROVE  Comparable(InputsWith(zones), Tapes[tape], Scan, Character)
<1> DEFINE i == InputsWith(zones)
<1>1. i.setup = TopSetup /\ i.trend = trends[chart.timeframe] /\ i.zones = zones
  BY DEF InputsWith
<1>2. /\ TopSetup.confidence \in 0..100
      /\ TopSetup.entry \in (Nat \ {0}) \X (Nat \ {0}) /\ TopSetup.stop \in (Nat \ {0}) \X (Nat \ {0})
      /\ TopSetup.targets \in Seq(Nat \X Nat)
  BY TopIsOne
<1>3. Confidence(i, i.trend) \in Int
  <2> DEFINE Arrived == UNION {TrendAnswers[tf] : tf \in TrendKeys}
             t == trends[chart.timeframe]
  <2>1. t \in {Nil} \cup Arrived
    <3>1. trends \in [TrendKeys -> {Nil} \cup Arrived] /\ chart.timeframe \in TrendKeys
      BY DEF AnswersOK, TrendKeys
    <3> HIDE DEF Arrived
    <3> QED  BY <3>1
  <2>2. \A u \in Arrived : u.confidence \in Nat
    <3>1. \A u \in Arrived : u.confidence \in 0..100
      BY AnswersAssumption DEF TrendKeys
    <3> HIDE DEF Arrived
    <3> QED  BY <3>1
  <2> HIDE DEF Arrived, t, i
  <2>3. t # Nil => t.confidence \in Nat
    BY <2>1, <2>2
  <2>4. Confidence(i, t) \in Int
    BY <2>3, SentInt
  <2> QED  BY <1>1, <2>4 DEF t
<1>4. \A z \in zones : z.confidence \in Int
  BY AnswersAssumption DEF AnswersOK
<1>5. Participation(Tapes[tape]) \in Int
  <2>1. Tapes[tape] \in Seq(Candles)
    BY TapesAssumption DEF AnswersOK, Candles
  <2> QED  BY <2>1, ParticipationInt
<1> HIDE DEF i
<1>6. i.setup.confidence \in Int
  <2> DEFINE n == TopSetup.confidence
  <2>1. n \in 0..100
    BY <1>2
  <2> HIDE DEF n
  <2>2. n \in Int
    BY <2>1
  <2> QED  BY <1>1, <2>2 DEF n
<1>7. Scan.score \in Int /\ Character.early \in Int
  BY ScanRead, PersonalityRead DEF Scan, Character
<1> QED  BY <1>1, <1>2, <1>3, <1>4, <1>5, <1>6, <1>7 DEF Comparable, i

\* A decision of the intraday gates about a setup is its level and the setup's side.
LEMMA GradedLevel ==
    ASSUME NEW i, NEW M, NEW cs, NEW scan, NEW p, i.setup # Nil
    PROVE  LET d == Intraday(i, M, cs, scan, p)
               level == LevelOf(i, M, Factors(i, M, cs, scan, p), scan, p)
           IN /\ "direction" \in DOMAIN d /\ "level" \in DOMAIN d
              /\ d.level = level
              /\ d.direction = IF level = "none" THEN "wait" ELSE TradeSide(i.setup)
<1> DEFINE F == Factors(i, M, cs, scan, p)
<1>1. Intraday(i, M, cs, scan, p) = Graded(i, M, F, scan, p)
  BY DEF Intraday
<1> HIDE DEF F
<1> QED  BY <1>1 DEF Graded, IntradayCard, F

LEMMA EnrichedKeeps ==
    ASSUME NEW d, NEW intel, "direction" \in DOMAIN d, "level" \in DOMAIN d
    PROVE  Enriched(d, intel).direction = d.direction /\ Enriched(d, intel).level = d.level
BY DEF Enriched

LEMMA FastDecision ==
    ASSUME NEW prof, NEW seen, NEW M, TopSetup # Nil,
           \/ prof = "intraday" /\ M = INTRADAY_MODEL
           \/ prof = "scalping" /\ M = SCALPING_MODEL
    PROVE  LET i == InputsWith(seen)
               level == LevelOf(i, M, Factors(i, M, Tapes[tape], Scan, Character), Scan, Character)
           IN /\ DecisionWith(prof, seen).level = level
              /\ DecisionWith(prof, seen).direction = IF level = "none" THEN "wait" ELSE TradeSide(TopSetup)
<1> DEFINE i == InputsWith(seen)
           d == Intraday(i, M, Tapes[tape], Scan, Character)
           level == LevelOf(i, M, Factors(i, M, Tapes[tape], Scan, Character), Scan, Character)
<1>1. Derived(prof, i) = d
  BY DEF Derived, Scan, Character
<1>2. i.setup = TopSetup
  BY DEF InputsWith
<1> HIDE DEF i
<1>3. /\ "direction" \in DOMAIN d /\ "level" \in DOMAIN d
      /\ d.level = level
      /\ d.direction = IF level = "none" THEN "wait" ELSE TradeSide(i.setup)
  BY <1>2, GradedLevel
<1> HIDE DEF d, level
<1>4. /\ Enriched(d, ExpiryIntel).direction = d.direction
      /\ Enriched(d, ExpiryIntel).level = d.level
  BY <1>3, EnrichedKeeps
<1> QED  BY <1>1, <1>2, <1>3, <1>4 DEF DecisionWith, i, level

\* The level, of a model with floors no higher and with zones added.
LEMMA LevelNoWorse ==
    ASSUME AnswersOK, TopSetup # Nil, NEW M, NEW N, NoStricter(N, M), NEW more, zones \subseteq more
    PROVE  LET i == InputsWith(zones)
               j == InputsWith(more)
               Here(k, K) == LevelOf(k, K, Factors(k, K, Tapes[tape], Scan, Character), Scan, Character)
           IN \/ Here(i, M) = "none"
              \/ Here(j, N) = "confirmed"
              \/ Here(i, M) = "early" /\ Here(j, N) = "early"
<1> DEFINE i == InputsWith(zones)
           j == InputsWith(more)
           F == Factors(i, M, Tapes[tape], Scan, Character)
           G == Factors(j, N, Tapes[tape], Scan, Character)
<1>1. AddsZones(i, j)
  BY DEF AddsZones, InputsWith
<1>2. Comparable(i, Tapes[tape], Scan, Character)
  BY AllComparable
<1> HIDE DEF i, j
<1>3. F \subseteq G /\ IsFiniteSet(G)
  BY <1>1, <1>2, FactorsGrow, FactorsFinite
<1> HIDE DEF F, G
<1>4. /\ Confirmed(i, M, F, Character) => Confirmed(j, N, G, Character)
      /\ Early(i, M, F, Scan, Character) => Early(j, N, G, Scan, Character)
  BY <1>1, <1>2, <1>3, LevelGrows DEF Comparable
<1>5. \/ LevelOf(i, M, F, Scan, Character) = "none"
      \/ LevelOf(j, N, G, Scan, Character) = "confirmed"
      \/ LevelOf(i, M, F, Scan, Character) = "early" /\ LevelOf(j, N, G, Scan, Character) = "early"
  BY <1>4 DEF LevelOf
<1> QED  BY <1>5 DEF F, G, i, j

LEMMA Narrow == AnswersOK => ScalpingIsStricter
<1> SUFFICES ASSUME AnswersOK, Acted(DecisionFor("scalping"))
             PROVE  DecisionFor("intraday").direction = DecisionFor("scalping").direction
  BY DEF ScalpingIsStricter, Narrows
<1> DEFINE i == InputsWith(zones)
           Here(K) == LevelOf(i, K, Factors(i, K, Tapes[tape], Scan, Character), Scan, Character)
<1>1. TopSetup # Nil
  BY TradeHasSetup DEF DecisionFor
<1>2. DecisionFor("scalping").direction = IF Here(SCALPING_MODEL) = "none" THEN "wait" ELSE TradeSide(TopSetup)
  BY <1>1, FastDecision DEF DecisionFor
<1>3. DecisionFor("intraday").direction = IF Here(INTRADAY_MODEL) = "none" THEN "wait" ELSE TradeSide(TopSetup)
  BY <1>1, FastDecision DEF DecisionFor
<1>4. NoStricter(INTRADAY_MODEL, SCALPING_MODEL)
  BY DEF NoStricter
<1>5. \/ Here(SCALPING_MODEL) = "none"
      \/ Here(INTRADAY_MODEL) = "confirmed"
      \/ Here(SCALPING_MODEL) = "early" /\ Here(INTRADAY_MODEL) = "early"
  BY <1>1, <1>4, LevelNoWorse
<1> HIDE DEF Here
<1> QED  BY <1>2, <1>3, <1>5 DEF Acted

\* Scalping only narrows intraday trading, for all answers, candles and levels.
THEOREM ScalpingNarrows == DecisionSpec => []ScalpingIsStricter
<1>1. AnswersOK => ScalpingIsStricter
  BY Narrow
<1> QED  BY <1>1, AnswersKept, PTL

LEMMA Helped == AnswersOK => (profile \in FastProfiles => ZonesOnlyHelp)
<1> SUFFICES ASSUME AnswersOK, profile \in FastProfiles, NEW more \in ZoneAnswers[chart.server],
                    zones \subseteq more, Acted(Decision)
             PROVE  Rank(DecisionWith(profile, more)) >= Rank(Decision)
  BY DEF ZonesOnlyHelp, NoWorse
<1> DEFINE M == IF profile = "scalping" THEN SCALPING_MODEL ELSE INTRADAY_MODEL
           Here(seen) == LevelOf(InputsWith(seen), M,
                                 Factors(InputsWith(seen), M, Tapes[tape], Scan, Character), Scan, Character)
<1>1. TopSetup # Nil
  BY TradeHasSetup DEF Decision, DecisionFor
<1>2. /\ NoStricter(M, M)
      /\ (profile = "intraday" /\ M = INTRADAY_MODEL) \/ (profile = "scalping" /\ M = SCALPING_MODEL)
  BY DEF NoStricter, FastProfiles
<1> HIDE DEF M
<1>3. /\ Decision.level = Here(zones)
      /\ Decision.direction = IF Here(zones) = "none" THEN "wait" ELSE TradeSide(TopSetup)
  BY <1>1, <1>2, FastDecision DEF Decision, DecisionFor
<1>4. DecisionWith(profile, more).level = Here(more)
  BY <1>1, <1>2, FastDecision
<1>5. \/ Here(zones) = "none"
      \/ Here(more) = "confirmed"
      \/ Here(zones) = "early" /\ Here(more) = "early"
  BY <1>1, <1>2, LevelNoWorse
<1> HIDE DEF Here
<1>6. Here(zones) # "none"
  BY <1>3 DEF Acted
<1> QED  BY <1>3, <1>4, <1>5, <1>6 DEF Rank

-----------------------------------------------------------------------------
(* The institutional composite: a percentage found by its logarithm.       *)

\* The logarithms: nothing at 100, and more with every step below, by 12739 at most from
\* 78 on.
LEMMA TermIs ==
    ASSUME NEW j \in 1..99
    PROVE  Terms[j] \in Nat /\ Terms[j] >= 1 /\ (j >= 78 => Terms[j] <= 20000)
<1>1. Terms[j] = 2000000 \div (2 * j + 1)
  BY DEF Terms
<1>2. 2 * j + 1 \in 3..199 /\ (j >= 78 => 2 * j + 1 >= 157)
  OBVIOUS
<1>3. \A n \in 3..199 : 2000000 \div n \in Nat /\ 2000000 \div n >= 1 /\ (n >= 157 => 2000000 \div n <= 20000)
  OBVIOUS
<1> QED  BY <1>1, <1>2, <1>3

LEMMA NegLnIs ==
    ASSUME NEW u \in 1..100, NEW v \in 1..100
    PROVE  /\ NegLn[u] \in Nat /\ NegLn[100] = 0
           /\ u < v => NegLn[u] > NegLn[v]
           /\ u < 100 => NegLn[u] = Terms[u] + NegLn[u + 1]
<1>1. \A a \in 1..100 : NegLn[a] = SumOf(Terms, a..99)
  BY SumIs DEF NegLn
<1>0. \A j \in 1..99 : Terms[j] \in Nat /\ Terms[j] \in Int
  BY TermIs
<1>2. ASSUME NEW a \in 1..100, NEW b \in 0..99
      PROVE  IsFiniteSet(a..b) /\ \A i \in a..b : i \in 1..99 /\ Terms[i] \in Nat
  <2>1. IsFiniteSet(a..b)
    BY FS_Interval
  <2>2. \A i \in a..b : i \in 1..99
    OBVIOUS
  <2> QED  BY <1>0, <2>1, <2>2
<1>3. ASSUME NEW a \in 1..100, NEW b \in 0..99 PROVE SumOf(Terms, a..b) \in Nat
  BY <1>2, SumNat
<1>4. NegLn[100] = 0
  <2>1. 100..99 = {}
    OBVIOUS
  <2> QED  BY <1>1, <2>1, SumNone
<1>5. ASSUME NEW a \in 1..99, NEW b \in a..99
      PROVE  SumOf(Terms, a..b) = Terms[a] + SumOf(Terms, (a + 1)..b)
  <2> DEFINE B == (a + 1)..b
  <2>1. a..b = B \cup {a} /\ a \notin B
    OBVIOUS
  <2>2. IsFiniteSet(B)
    BY FS_Interval
  <2>3. \A i \in B \cup {a} : i \in 1..99
    OBVIOUS
  <2> HIDE DEF B
  <2>4. SumOf(Terms, B \cup {a}) = Terms[a] + SumOf(Terms, B)
    BY <1>0, <2>1, <2>2, <2>3, SumAdd
  <2> QED  BY <2>1, <2>4 DEF B
<1>6. ASSUME u < 100 PROVE NegLn[u] = Terms[u] + NegLn[u + 1]
  <2>1. u \in 1..99 /\ 99 \in u..99 /\ u + 1 \in 1..100
    BY <1>6
  <2>2. SumOf(Terms, u..99) = Terms[u] + SumOf(Terms, (u + 1)..99)
    BY <1>5, <2>1
  <2> QED  BY <1>1, <2>1, <2>2
<1>7. ASSUME u < v PROVE NegLn[u] > NegLn[v]
  <2> DEFINE A == u..(v - 1)
             B == v..99
  <2>1. u..99 = A \cup B /\ A \cap B = {}
    BY <1>7
  <2>2. u \in 1..99 /\ v - 1 \in u..99 /\ u + 1 \in 1..100 /\ v - 1 \in 0..99
    BY <1>7
  <2>3. SumOf(Terms, A) = Terms[u] + SumOf(Terms, (u + 1)..(v - 1))
    BY <1>5, <2>2
  <2>4. SumOf(Terms, (u + 1)..(v - 1)) \in Nat
    BY <1>3, <2>2
  <2>5. SumOf(Terms, B) \in Nat
    <3>1. 99 \in 0..99
      OBVIOUS
    <3> QED  BY <1>3, <3>1
  <2>6. Terms[u] \in Nat /\ Terms[u] >= 1
    BY <2>2, TermIs
  <2>7. IsFiniteSet(A) /\ IsFiniteSet(B) /\ \A i \in A \cup B : Terms[i] \in Int
    <3>1. IsFiniteSet(A) /\ IsFiniteSet(B)
      BY <2>2, FS_Interval
    <3>2. \A i \in A \cup B : i \in 1..99
      BY <2>1
    <3> HIDE DEF A, B
    <3> QED  BY <1>0, <3>1, <3>2
  <2>8. NegLn[u] = SumOf(Terms, u..99)
    BY <1>1
  <2>9. NegLn[v] = SumOf(Terms, B)
    BY <1>1
  <2>10. NegLn[u] = SumOf(Terms, A \cup B)
    <3> HIDE DEF A, B
    <3> QED  BY <2>1, <2>8
  <2> HIDE DEF A, B
  <2>11. SumOf(Terms, A \cup B) = SumOf(Terms, A) + SumOf(Terms, B)
    BY <2>1, <2>7, SumSplit
  <2>12. \A x, y, z, t \in Nat : t >= 1 => t + x \in Nat /\ (t + x) + y > y
    OBVIOUS
  <2>13. SumOf(Terms, A) + SumOf(Terms, B) > SumOf(Terms, B)
    BY <2>3, <2>4, <2>5, <2>6, <2>12
  <2> QED  BY <2>9, <2>10, <2>11, <2>13
<1>8. NegLn[u] \in Nat
  <2>1. 99 \in 0..99
    OBVIOUS
  <2> QED  BY <1>1, <1>3, <2>1, Zenon
<1> QED  BY <1>4, <1>6, <1>7, <1>8

\* The percentages, and how far the logarithm of one lies from a sum.
Percents == 1..100
Off(v, sum) == AbsVal(NegLn[v] - sum)

LEMMA LogFalls ==
    /\ \A v \in Percents : NegLn[v] \in Nat
    /\ \A u, v \in Percents : u < v => NegLn[u] > NegLn[v]
    /\ \A u \in Percents : u >= 78 /\ u < 100 => NegLn[u] <= 20000 + NegLn[u + 1]
<1>1. \A v \in Percents : NegLn[v] \in Nat
  BY NegLnIs DEF Percents
<1>2. \A u, v \in Percents : u < v => NegLn[u] > NegLn[v]
  BY NegLnIs DEF Percents
<1>3. ASSUME NEW u \in Percents, u >= 78, u < 100 PROVE NegLn[u] <= 20000 + NegLn[u + 1]
  <2>1. u \in 1..99 /\ u \in 1..100 /\ u + 1 \in Percents
    BY <1>3 DEF Percents
  <2>2. NegLn[u] = Terms[u] + NegLn[u + 1]
    BY <1>3, <2>1, NegLnIs
  <2>3. Terms[u] \in Nat /\ Terms[u] <= 20000
    BY <1>3, <2>1, TermIs
  <2>4. NegLn[u + 1] \in Nat
    BY <1>1, <2>1
  <2> QED  BY <2>2, <2>3, <2>4
<1> QED  BY <1>1, <1>2, <1>3

LEMMA OffIs ==
    \A v \in Percents : \A sum \in Int :
        /\ Off(v, sum) \in Nat
        /\ NegLn[v] >= sum => Off(v, sum) = NegLn[v] - sum
        /\ NegLn[v] < sum => Off(v, sum) = sum - NegLn[v]
<1> SUFFICES ASSUME NEW v \in Percents, NEW sum \in Int
             PROVE  /\ Off(v, sum) \in Nat
                    /\ NegLn[v] >= sum => Off(v, sum) = NegLn[v] - sum
                    /\ NegLn[v] < sum => Off(v, sum) = sum - NegLn[v]
  OBVIOUS
<1>1. NegLn[v] \in Nat
  BY LogFalls
<1>2. Off(v, sum) = IF NegLn[v] - sum < 0 THEN -(NegLn[v] - sum) ELSE NegLn[v] - sum
  BY DEF Off, AbsVal
<1>3. \A a \in Nat : -(a - sum) = sum - a
  OBVIOUS
<1> QED  BY <1>1, <1>2, <1>3

\* The percentage of a sum that is near one is at least as near as any.
LEMMA PercentIs ==
    ASSUME NEW sum \in Int, NEW w \in Percents, Off(w, sum) <= 100000
    PROVE  /\ PercentOf(sum) \in Percents
           /\ \A u \in Percents : Off(PercentOf(sum), sum) <= Off(u, sum)
<1> DEFINE near == {v \in Percents : Off(v, sum) <= 100000}
           Closest(v) == \A u \in near : Off(v, sum) <= Off(u, sum)
           offs == {Off(v, sum) : v \in near}
<1>1. PercentOf(sum) = CHOOSE v \in near : Closest(v)
  <2>1. near # {}
    OBVIOUS
  <2>2. PercentOf(sum) = IF near = {} THEN 1 ELSE CHOOSE v \in near : Closest(v)
    BY DEF PercentOf, Off, Percents
  <2> HIDE DEF near, Closest
  <2> QED  BY <2>1, <2>2
<1>2. offs \in SUBSET Nat /\ offs # {}
  BY OffIs
<1>3. \E v \in near : Closest(v)
  <2>1. \E x \in offs : \A y \in offs : x <= y
    <3> HIDE DEF offs
    <3> QED  BY <1>2, LeastIn
  <2> QED  BY <2>1
<1> HIDE DEF Closest, near
<1>4. PercentOf(sum) \in near /\ Closest(PercentOf(sum))
  BY <1>1, <1>3
<1>5. PercentOf(sum) \in Percents /\ Off(PercentOf(sum), sum) <= 100000
  BY <1>4 DEF near
<1>6. ASSUME NEW u \in Percents PROVE Off(PercentOf(sum), sum) <= Off(u, sum)
  <2>1. CASE u \in near
    BY <1>4, <2>1 DEF Closest
  <2>2. CASE u \notin near
    <3>1. ~(Off(u, sum) <= 100000)
      BY <2>2 DEF near
    <3>2. Off(u, sum) \in Nat /\ Off(PercentOf(sum), sum) \in Nat
      BY <1>5, OffIs
    <3> QED  BY <1>5, <3>1, <3>2
  <2> QED  BY <2>1, <2>2
<1> QED  BY <1>5, <1>6

\* Between the logarithms of a percentage from 78 on and of 100, every sum is near one.
LEMMA SomeNear ==
    ASSUME NEW v \in Percents, v >= 78, NEW sum \in Nat, sum <= NegLn[v]
    PROVE  \E w \in Percents : Off(w, sum) <= 100000
<1> DEFINE above == {u \in Percents : u >= v /\ NegLn[u] >= sum}
<1>1. v \in above /\ above \subseteq Int /\ IsFiniteSet(above)
  <2>1. NegLn[v] \in Nat /\ v \in Int
    <3>1. NegLn[v] \in Nat
      BY LogFalls
    <3>2. v \in Int
      BY DEF Percents
    <3> QED  BY <3>1, <3>2
  <2>2. v \in above
    BY <2>1
  <2>3. \A b \in Nat : IsFiniteSet(1..b)
    BY FS_Interval
  <2>4. IsFiniteSet(Percents)
    BY <2>3 DEF Percents
  <2>5. above \subseteq Percents /\ Percents \subseteq Int
    BY DEF Percents
  <2> QED  BY <2>2, <2>4, <2>5, FS_Subset
<1>2. PICK m \in above : \A y \in above : m >= y
  <2> HIDE DEF above
  <2> QED  BY <1>1, MaxOf
<1>3. m \in Percents /\ m >= v /\ NegLn[m] >= sum
  OBVIOUS
<1>4. m \in Nat /\ m >= 78 /\ m <= 100 /\ NegLn[m] \in Nat /\ v \in Nat
  <2>1. NegLn[m] \in Nat
    BY <1>3, LogFalls
  <2>2. m \in Nat /\ m >= 78 /\ m <= 100 /\ v \in Nat
    BY <1>3 DEF Percents
  <2> QED  BY <2>1, <2>2
<1>5. CASE m = 100
  <2>1. NegLn[m] = 0
    BY <1>5, NegLnIs DEF Percents
  <2>2. Off(m, sum) = NegLn[m] - sum
    BY <1>3, OffIs
  <2> QED  BY <1>3, <2>1, <2>2
<1>6. CASE m < 100
  <2>1. m + 1 \in Percents /\ m + 1 >= v /\ ~(m >= m + 1)
    BY <1>3, <1>4, <1>6 DEF Percents
  <2>2. m + 1 \notin above
    BY <1>2, <2>1
  <2>3. ~(NegLn[m + 1] >= sum) /\ NegLn[m + 1] \in Nat
    BY <2>1, <2>2, LogFalls
  <2>4. NegLn[m] <= 20000 + NegLn[m + 1]
    BY <1>3, <1>4, <1>6, LogFalls
  <2>5. Off(m, sum) = NegLn[m] - sum
    BY <1>3, OffIs
  <2>6. Off(m, sum) <= 100000
    BY <1>4, <2>3, <2>4, <2>5
  <2> QED  BY <1>3, <2>6
<1> QED  BY <1>4, <1>5, <1>6

\* A smaller sum has no lower percentage, from 78 on.
LEMMA PercentGrows ==
    ASSUME NEW s \in Nat, NEW t \in Nat, t <= s, PercentOf(s) >= 78
    PROVE  PercentOf(t) \in Percents /\ PercentOf(s) \in Percents /\ PercentOf(t) >= PercentOf(s)
<1> DEFINE near == {v \in Percents : Off(v, s) <= 100000}
           p == PercentOf(s)
           q == PercentOf(t)
<1>1. near # {}
  <2>1. p = IF near = {} THEN 1 ELSE CHOOSE v \in near : \A u \in near : Off(v, s) <= Off(u, s)
    BY DEF PercentOf, Off, Percents
  <2> QED  BY <2>1
<1>2. PICK w \in Percents : Off(w, s) <= 100000
  BY <1>1
<1>3. p \in Percents /\ \A u \in Percents : Off(p, s) <= Off(u, s)
  BY <1>2, PercentIs
<1> HIDE DEF p, q
<1>4. p >= 78
  BY DEF p
<1>5. /\ NegLn[p] \in Nat /\ Off(p, s) \in Nat /\ Off(p, t) \in Nat /\ Off(w, s) \in Nat
      /\ NegLn[p] >= s => Off(p, s) = NegLn[p] - s
      /\ NegLn[p] < s => Off(p, s) = s - NegLn[p]
      /\ NegLn[p] >= t => Off(p, t) = NegLn[p] - t
      /\ NegLn[p] < t => Off(p, t) = t - NegLn[p]
  BY <1>3, OffIs, LogFalls
<1>6. \E u \in Percents : Off(u, t) <= 100000
  <2>1. CASE t <= NegLn[p]
    BY <1>3, <1>4, <2>1, SomeNear
  <2>2. CASE ~(t <= NegLn[p])
    <3>1. Off(p, s) <= Off(w, s)
      BY <1>3
    <3>2. Off(p, t) <= 100000
      BY <1>2, <1>5, <2>2, <3>1
    <3> QED  BY <1>3, <3>2
  <2> QED  BY <2>1, <2>2
<1>7. q \in Percents /\ \A u \in Percents : Off(q, t) <= Off(u, t)
  BY <1>6, PercentIs DEF q
<1>8. q >= p
  <2> SUFFICES ASSUME ~(q >= p), s # t PROVE FALSE
    BY <1>3 DEF p, q, Percents
  <2>1. q \in Nat /\ p \in Nat
    BY <1>3, <1>7 DEF Percents
  <2>2. NegLn[q] \in Nat /\ NegLn[q] > NegLn[p]
    BY <1>3, <1>7, <2>1, LogFalls
  <2>3. Off(p, s) <= Off(q, s) /\ Off(q, t) <= Off(p, t)
    BY <1>3, <1>7
  <2>4. /\ NegLn[q] >= s => Off(q, s) = NegLn[q] - s
        /\ NegLn[q] < s => Off(q, s) = s - NegLn[q]
        /\ NegLn[q] >= t => Off(q, t) = NegLn[q] - t
        /\ NegLn[q] < t => Off(q, t) = t - NegLn[q]
    BY <1>7, OffIs
  <2> QED  BY <1>5, <2>2, <2>3, <2>4
<1> QED  BY <1>3, <1>7, <1>8 DEF p, q

\* No lower factors have no lower composite, from 78 on.
Factor8 == DOMAIN Weights
LEMMA CompositeGrows ==
    ASSUME NEW f, NEW g, \A k \in Factor8 : f[k] \in Int /\ g[k] \in Int /\ f[k] <= g[k],
           Composite(f) >= 78
    PROVE  Composite(g) \in Percents /\ Composite(f) \in Percents /\ Composite(g) >= Composite(f)
<1>1. IsFiniteSet(Factor8)
  <2> DEFINE A == {"historical", "structure", "trend", "smc"}
             B == {"volume", "volatility", "mtf", "strategy"}
  <2>1. IsFiniteSet(A) /\ IsFiniteSet(B)
    BY FourFinite
  <2>2. Factor8 = A \cup B
    BY DEF Factor8, Weights
  <2> HIDE DEF A, B
  <2> QED  BY <2>1, <2>2, FS_Union
<1> DEFINE F == Weighted(f)
           G == Weighted(g)
<1>2. ASSUME NEW k \in Factor8 PROVE F[k] \in Nat /\ G[k] \in Nat /\ G[k] <= F[k]
  <2> DEFINE a == Clamp(f[k], 1, 100)
             b == Clamp(g[k], 1, 100)
  <2>1. a \in Percents /\ b \in Percents /\ a <= b
    BY DEF Clamp, Percents
  <2>2. F[k] = Weights[k] * NegLn[a] /\ G[k] = Weights[k] * NegLn[b]
    BY DEF Weighted, Factor8
  <2>3. Weights[k] \in Nat
    BY DEF Weights, Factor8
  <2> HIDE DEF a, b, F, G
  <2>4. NegLn[a] \in Nat /\ NegLn[b] \in Nat /\ NegLn[b] <= NegLn[a]
    <3>1. a \in Nat /\ b \in Nat
      BY <2>1 DEF Percents
    <3>2. NegLn[a] \in Nat /\ NegLn[b] \in Nat
      BY <2>1, LogFalls
    <3>3. a < b => NegLn[a] > NegLn[b]
      BY <2>1, LogFalls
    <3> QED  BY <2>1, <3>1, <3>2, <3>3
  <2>5. \A w, x, y \in Nat : y <= x => w * x \in Nat /\ w * y \in Nat /\ w * y <= w * x
    OBVIOUS
  <2> QED  BY <2>2, <2>3, <2>4, <2>5
<1> DEFINE s == SumOf(F, Factor8)
           t == SumOf(G, Factor8)
<1>3. Composite(f) = PercentOf(s \div 100) /\ Composite(g) = PercentOf(t \div 100)
  BY SumIs DEF Composite, Factor8
<1> HIDE DEF F, G
<1>4. s \in Nat /\ t \in Nat
  BY <1>1, <1>2, SumNat
<1>5. t <= s
  <2>1. \A k \in Factor8 : G[k] \in Int /\ F[k] \in Int /\ G[k] <= F[k]
    BY <1>2
  <2> QED  BY <1>1, <2>1, SumGrows
<1> HIDE DEF s, t
<1>6. s \div 100 \in Nat /\ t \div 100 \in Nat /\ t \div 100 <= s \div 100
  BY <1>4, <1>5
<1> QED  BY <1>3, <1>6, PercentGrows

-----------------------------------------------------------------------------
(* What the institutional score is made of are integers.                   *)

LEMMA BandedInt ==
    ASSUME NEW n, NEW last \in Int, NEW bands \in Seq(Int \X Int)
    PROVE  Banded(n, bands, last) \in Int
<1> DEFINE reached == {k \in DOMAIN bands : n >= bands[k][1]}
<1>1. DOMAIN bands = 1..Len(bands) /\ Len(bands) \in Nat
  OBVIOUS
<1>2. CASE reached = {}
  BY <1>2 DEF Banded
<1>3. CASE reached # {}
  <2>1. reached \in SUBSET Nat
    BY <1>1
  <2>2. \E x \in reached : \A y \in reached : x <= y
    <3> HIDE DEF reached
    <3> QED  BY <1>3, <2>1, LeastIn
  <2>3. Min(reached) \in reached
    <3> HIDE DEF reached
    <3>1. PICK x \in reached : \A y \in reached : x <= y
      BY <2>2
    <3>2. reached \subseteq Int
      BY <2>1
    <3>3. Min(reached) = x
      BY <3>1, <3>2, MinIs
    <3> QED  BY <3>3
  <2>4. Min(reached) \in DOMAIN bands
    BY <2>3
  <2>5. bands[Min(reached)] \in Int \X Int
    <3> DEFINE k == Min(reached)
    <3> HIDE DEF k
    <3>1. \A j \in 1..Len(bands) : bands[j] \in Int \X Int
      OBVIOUS
    <3>2. k \in 1..Len(bands)
      BY <1>1, <2>4 DEF k
    <3> QED  BY <3>1, <3>2 DEF k
  <2>6. Banded(n, bands, last) = bands[Min(reached)][2]
    BY <1>3 DEF Banded
  <2> QED  BY <2>5, <2>6
<1> QED  BY <1>2, <1>3

LEMMA QualityInt == ASSUME NEW cs PROVE VolumeQuality(cs) \in Int
<1> DEFINE bands == <<<<150, 90>>, <<125, 80>>, <<105, 68>>, <<85, 55>>>>
           x == LastN(20, cs)
           Volume(k) == x[k].v
           total == MapThenSumSet(Volume, DOMAIN x)
           n == (2000 * x[20].v) \div total
<1>1. bands \in Seq(Int \X Int)
  OBVIOUS
<1>2. \A m : Banded(m, bands, 28) \in Int
  <2> HIDE DEF bands
  <2> QED  BY <1>1, BandedInt
<1>3. VolumeQuality(cs) = IF Len(cs) < 20 THEN 40 ELSE IF total = 0 THEN 45 ELSE Banded(n, bands, 28)
  BY DEF VolumeQuality
<1> HIDE DEF bands, total, n
<1> QED  BY <1>2, <1>3

LEMMA VolatilityInt == ASSUME NEW cs PROVE Volatility(cs) \in Int
<1> DEFINE bands == <<<<401, 28>>, <<281, 48>>, <<121, 82>>, <<56, 78>>>>
           x == LastN(14, cs)
           RangeOf(k) == Part(Spread(x[k]), x[k].c, 10000)
           n == MapThenSumSet(RangeOf, 1..14) \div 14
<1>1. bands \in Seq(Int \X Int)
  OBVIOUS
<1>2. \A m : Banded(m, bands, 50) \in Int
  <2> HIDE DEF bands
  <2> QED  BY <1>1, BandedInt
<1>3. Volatility(cs) = IF Len(cs) < 14 THEN 45 ELSE Banded(n, bands, 50)
  BY DEF Volatility
<1> HIDE DEF bands, n
<1> QED  BY <1>2, <1>3

LEMMA MomentumInt == ASSUME NEW cs PROVE Momentum(cs).score \in Int
<1> DEFINE bands == <<<<151, 88>>, <<41, 72>>>>
           change == Part(cs[Len(cs)].c - cs[Len(cs) - 9].c, cs[Len(cs) - 9].c, 10000)
           towards == IF change > 40 THEN "buy" ELSE IF change < -40 THEN "sell" ELSE "flat"
           score == Banded(AbsVal(change), bands, 42)
<1>1. bands \in Seq(Int \X Int)
  OBVIOUS
<1>2. \A m : Banded(m, bands, 42) \in Int
  <2> HIDE DEF bands
  <2> QED  BY <1>1, BandedInt
<1>3. Momentum(cs) = IF Len(cs) < 10 THEN [side |-> "flat", score |-> 45]
                     ELSE [side |-> towards, score |-> score]
  BY DEF Momentum
<1>4. score \in Int
  <2> HIDE DEF bands, change
  <2> QED  BY <1>2
<1> HIDE DEF score, towards
<1> QED  BY <1>3, <1>4

\* A trend's confidences, as they are sent.
TrendOK(t) == t # Nil => t.confidence \in Nat /\ t.phaseConfidence \in Nat

LEMMA HealthInt ==
    ASSUME NEW i, NEW cs, TrendOK(i.trend)
    PROVE  Health(i, cs).score \in Int
<1> DEFINE a == IF i.trend = Nil THEN 35 ELSE Sent(i, i.trend.confidence)
           e == IF i.trend = Nil THEN 35 ELSE Sent(i, i.trend.phaseConfidence)
           b == Volatility(cs)
           c == VolumeQuality(cs)
           d == Momentum(cs).score
<1>1. \A n \in Nat : Sent(i, n) \in Int
  <2>1. \A n \in Nat : n \div 100 \in Int
    OBVIOUS
  <2> QED  BY <2>1 DEF Sent
<1>2. a \in Int /\ e \in Int
  BY <1>1 DEF TrendOK
<1>3. b \in Int /\ c \in Int /\ d \in Int
  BY QualityInt, VolatilityInt, MomentumInt
<1>4. Health(i, cs).score = Round(30 * a + 18 * b + 22 * c + 18 * d + 12 * e)
  BY DEF Health
<1> HIDE DEF a, b, c, d, e
<1>5. 30 * a + 18 * b + 22 * c + 18 * d + 12 * e \in Int
  BY <1>2, <1>3
<1>6. \A n \in Int : Round(n) \in Int
  BY DEF Round
<1> QED  BY <1>4, <1>5, <1>6

-----------------------------------------------------------------------------
(* Zones added to what the institutional gates read.                       *)

\* What they read of answers of the server.
InputsOK(i) ==
    /\ IsFiniteSet(i.zones) /\ \A z \in i.zones : z.confidence \in Nat
    /\ TrendOK(i.trend)
    /\ i.setup # Nil => /\ i.setup.confidence \in 0..100
                        /\ \A k \in DOMAIN i.setup.evidence : i.setup.evidence[k] \in Int
    /\ Nil \notin Int

\* The best zone of a kind is one that qualifies.
LEMMA BestIs ==
    ASSUME NEW i, InputsOK(i), NEW kind \in Kinds, NEW side
    PROVE  /\ BestZone(i, kind, side) # Nil => BestZone(i, kind, side) \in Nat /\ BestZone(i, kind, side) >= 75
           /\ BestZone(i, kind, side) # Nil <=> \E z \in i.zones : z.kind = kind /\ Qualifies(z, side)
<1> DEFINE good == {y \in i.zones : y.kind = kind /\ Qualifies(y, side)}
           Conf == [z \in i.zones |-> z.confidence]
           found == {z.confidence : z \in good}
<1>1. BestZone(i, kind, side) = IF found = {} THEN Nil ELSE Max(found)
  BY DEF BestZone
<1>2. ASSUME NEW z \in good PROVE z.confidence \in Nat /\ z.confidence >= 75
  <2>1. z.confidence \in Nat /\ Qualifies(z, side) /\ z.kind = kind
    BY DEF InputsOK
  <2>2. CASE kind = "ob"
    BY <2>1, <2>2 DEF Qualifies
  <2>3. CASE kind = "fvg"
    BY <2>1, <2>3 DEF Qualifies
  <2>4. CASE kind = "sweep"
    BY <2>1, <2>4 DEF Qualifies
  <2> QED  BY <2>2, <2>3, <2>4 DEF Kinds
<1>3. IsFiniteSet(found)
  <2>1. IsFiniteSet(good)
    BY FS_Subset DEF InputsOK
  <2>2. found = {Conf[z] : z \in good}
    OBVIOUS
  <2> HIDE DEF good, Conf, found
  <2> QED  BY <2>1, <2>2, ImageFinite
<1>4. \A n \in found : n \in Nat /\ n >= 75
  BY <1>2
<1>5. found # {} <=> \E z \in i.zones : z.kind = kind /\ Qualifies(z, side)
  OBVIOUS
<1> HIDE DEF found
<1>6. found # {} => Max(found) \in found
  <2>1. found \subseteq Int
    BY <1>4
  <2> QED  BY <1>3, <2>1, MaxOf
<1>7. found # {} => Max(found) # Nil
  BY <1>4, <1>6 DEF InputsOK
<1> QED  BY <1>1, <1>4, <1>5, <1>6, <1>7

LEMMA ThreeKinds == IsFiniteSet(Kinds)
<1>1. \A a : IsFiniteSet({a, "ob", "fvg", "sweep"})
  BY FourFinite
<1>2. {"ob", "ob", "fvg", "sweep"} = Kinds
  BY DEF Kinds
<1> QED  BY <1>1, <1>2

\* The mean confidence of the best zones is a number, and at least 1 if there are any.
LEMMA QualityIs ==
    ASSUME NEW i, NEW best, \A k \in Kinds : best[k] # Nil => best[k] \in Nat /\ best[k] >= 75
    PROVE  /\ SmcQuality(i, best) \in Int
           /\ (\E k \in Kinds : best[k] # Nil) => SmcQuality(i, best) >= 1
<1> DEFINE found == {k \in Kinds : best[k] # Nil}
           unit == IF i.unit = "fraction" THEN 100 ELSE 1
           c == Cardinality(found)
           sum == SumOf(best, found)
<1>1. SmcQuality(i, best) = IF found = {} THEN 0 ELSE (2 * sum + unit * c) \div (2 * (unit * c))
  BY SumIs DEF SmcQuality
<1>2. IsFiniteSet(found)
  BY ThreeKinds, FS_Subset
<1>3. found # {} => c \in Nat /\ c >= 1
  <2>1. c \in Nat /\ (c = 0 => found = {})
    BY <1>2, FS_CardinalityType, FS_EmptySet
  <2> QED  BY <2>1
<1>4. sum >= 75 * c /\ sum \in Int
  <2> DEFINE w == [k \in found |-> 75]
  <2>1. \A k \in found : w[k] \in Int /\ best[k] \in Int /\ w[k] <= best[k]
    OBVIOUS
  <2>2. \A k \in found : w[k] = 75
    OBVIOUS
  <2> HIDE DEF w, found
  <2>3. SumOf(w, found) <= SumOf(best, found)
    BY <1>2, <2>1, SumGrows
  <2>4. SumOf(w, found) = 75 * Cardinality(found)
    <3>1. 75 \in Int
      OBVIOUS
    <3> QED  BY <1>2, <2>2, <3>1, SumOfSame
  <2>5. SumOf(w, found) \in Int /\ SumOf(best, found) \in Int
    BY <1>2, <2>1, SumInt
  <2> QED  BY <2>3, <2>4, <2>5
<1> HIDE DEF sum, c
<1>5. CASE found = {}
  BY <1>1, <1>5
<1>6. CASE found # {}
  <2> DEFINE n == unit * c
  <2>1. n \in Nat /\ n >= 1 /\ n <= 100 * c
    BY <1>3, <1>6
  <2> HIDE DEF n
  <2>2. 2 * sum + n >= 2 * n
    BY <1>3, <1>4, <1>6, <2>1
  <2>3. \A a \in Int, b \in Int : b >= 1 /\ a >= b => a \div b \in Int /\ a \div b >= 1
    OBVIOUS
  <2>4. (2 * sum + n) \div (2 * n) \in Int /\ (2 * sum + n) \div (2 * n) >= 1
    <3>1. 2 * sum + n \in Int /\ 2 * n \in Int /\ 2 * n >= 1
      BY <1>4, <2>1
    <3> HIDE DEF sum, n
    <3> QED  BY <2>2, <2>3, <3>1
  <2> QED  BY <1>1, <1>6, <2>4 DEF n
<1> QED  BY <1>5, <1>6

\* j adds at most zones to what i says, for the institutional gates.
AddsSeen(i, j) ==
    /\ j.setup = i.setup /\ j.accepts = i.accepts /\ j.unit = i.unit
    /\ j.trend = i.trend /\ j.trends = i.trends /\ i.zones \subseteq j.zones

\* What the gates compute from trends and setup alone.
LEMMA SameEvidence ==
    ASSUME NEW i, NEW j, AddsSeen(i, j)
    PROVE  /\ \A t : Confidence(j, t) = Confidence(i, t) /\ Strong(j, t) = Strong(i, t)
           /\ \A side : Mtf(j, side) = Mtf(i, side)
           /\ \A cs : Health(j, cs) = Health(i, cs)
           /\ PhaseSupports(j) = PhaseSupports(i)
           /\ Evidence(j) = Evidence(i) /\ EvidenceHits(j) = EvidenceHits(i)
           /\ StructureScore(j) = StructureScore(i)
<1> USE DEF AddsSeen
<1>1. \A c : Sent(j, c) = Sent(i, c)
  BY DEF Sent
<1>2. \A t : Confidence(j, t) = Confidence(i, t)
  BY <1>1 DEF Confidence
<1>3. \A t : Strong(j, t) = Strong(i, t)
  BY <1>2 DEF Strong
<1>4. \A t : TrendBias(j, t) = TrendBias(i, t)
  BY <1>3 DEF TrendBias
<1>5. \A side : Mtf(j, side) = Mtf(i, side)
  <2> DEFINE Biases(x) == [tf \in Timeframes |-> TrendBias(x, x.trends[tf])]
  <2>1. Biases(j) = Biases(i)
    BY <1>4
  <2> QED  BY <2>1 DEF Mtf
<1>6. \A cs : Health(j, cs) = Health(i, cs)
  <2>1. j.trend = i.trend /\ j.accepts = i.accepts
    OBVIOUS
  <2>2. /\ Sent(j, i.trend.confidence) = Sent(i, i.trend.confidence)
        /\ Sent(j, i.trend.phaseConfidence) = Sent(i, i.trend.phaseConfidence)
    BY <1>1
  <2> QED  BY <2>1, <2>2 DEF Health
<1>7. PhaseSupports(j) = PhaseSupports(i)
  BY DEF PhaseSupports
<1>8. Evidence(j) = Evidence(i)
  BY <1>1, <1>2 DEF Evidence
<1>9. EvidenceHits(j) = EvidenceHits(i)
  BY <1>8 DEF EvidenceHits
<1>10. StructureScore(j) = StructureScore(i)
  BY <1>2, <1>8 DEF StructureScore
<1> QED  BY <1>2, <1>3, <1>5, <1>6, <1>7, <1>8, <1>9, <1>10

\* The numbers a reading carries.
LEMMA ReadingIs ==
    ASSUME NEW i, NEW cs, InputsOK(i)
    PROVE  LET r == Reading(i, cs)
           IN /\ \A k \in Kinds : r.best[k] # Nil => r.best[k] \in Nat /\ r.best[k] >= 75
              /\ r.smc \in Nat /\ r.smc = Cardinality({k \in Kinds : r.best[k] # Nil})
              /\ r.conf \in 0..100
<1> DEFINE r == Reading(i, cs)
           has == i.setup # Nil
           side == IF has THEN ToneSide(i.setup.direction)
                   ELSE IF i.trend # Nil THEN ToneSide(i.trend.side) ELSE "neutral"
           BestAt(k) == IF has /\ side \in Sides THEN BestZone(i, k, side) ELSE Nil
<1>1. r.best = [k \in Kinds |-> BestAt(k)] /\ r.smc = Cardinality({k \in Kinds : [l \in Kinds |-> BestAt(l)][k] # Nil})
  BY DEF Reading
<1>2. r.conf = IF has THEN i.setup.confidence ELSE 0
  BY DEF Reading
<1>3. r.conf \in 0..100
  BY <1>2 DEF InputsOK
<1> HIDE DEF r, side
<1>4. ASSUME NEW k \in Kinds, r.best[k] # Nil PROVE r.best[k] \in Nat /\ r.best[k] >= 75
  <2>1. r.best[k] = BestZone(i, k, side)
    BY <1>1, <1>4
  <2> QED  BY <1>4, <2>1, BestIs
<1>5. r.smc = Cardinality({k \in Kinds : r.best[k] # Nil})
  BY <1>1
<1>6. Cardinality({k \in Kinds : r.best[k] # Nil}) \in Nat
  BY ThreeKinds, FS_Subset, FS_CardinalityType
<1> QED  BY <1>3, <1>4, <1>5, <1>6 DEF r

\* With more zones a reading is the same but for the zones, of which it has no fewer.
LEMMA ReadingGrows ==
    ASSUME NEW i, NEW j, NEW cs, AddsSeen(i, j), InputsOK(i), InputsOK(j)
    PROVE  LET r == Reading(i, cs)
               q == Reading(j, cs)
           IN /\ q.has = r.has /\ q.side = r.side /\ q.conf = r.conf /\ q.aligned = r.aligned
              /\ q.trendAgrees = r.trendAgrees /\ q.historical = r.historical /\ q.plan = r.plan
              /\ q.mtf = r.mtf /\ q.health = r.health
              /\ \A k \in Kinds : r.best[k] # Nil => q.best[k] # Nil
              /\ r.smc <= q.smc
<1> DEFINE r == Reading(i, cs)
           q == Reading(j, cs)
           Side(x) == IF x.setup # Nil THEN ToneSide(x.setup.direction)
                      ELSE IF x.trend # Nil THEN ToneSide(x.trend.side) ELSE "neutral"
<1>1. j.setup = i.setup /\ j.accepts = i.accepts /\ j.trend = i.trend /\ i.zones \subseteq j.zones
  BY DEF AddsSeen
<1>2. q.has = r.has
  BY <1>1 DEF Reading
<1>3. q.side = r.side /\ r.side = Side(i) /\ Side(j) = Side(i)
  BY <1>1 DEF Reading
<1>4. q.conf = r.conf
  BY <1>1 DEF Reading
<1>5. q.aligned = r.aligned
  BY <1>1 DEF Reading
<1>6. q.trendAgrees = r.trendAgrees
  BY <1>1, SameEvidence DEF Reading
<1>7. q.historical = r.historical
  BY <1>1, SameEvidence DEF Reading
<1>8. q.plan = r.plan
  BY <1>1 DEF Reading
<1>9. q.mtf = r.mtf
  <2>1. q.mtf = Mtf(j, Side(j)) /\ r.mtf = Mtf(i, Side(i))
    BY DEF Reading
  <2> HIDE DEF Side
  <2> QED  BY <1>3, <2>1, SameEvidence
<1>10. q.health = r.health
  <2>1. q.health = Health(j, cs) /\ r.health = Health(i, cs)
    BY DEF Reading
  <2> QED  BY <2>1, SameEvidence
<1>11. ASSUME NEW k \in Kinds, r.best[k] # Nil PROVE q.best[k] # Nil
  <2>1. r.best[k] = IF i.setup # Nil /\ Side(i) \in Sides THEN BestZone(i, k, Side(i)) ELSE Nil
    BY DEF Reading
  <2>2. q.best[k] = IF j.setup # Nil /\ Side(j) \in Sides THEN BestZone(j, k, Side(j)) ELSE Nil
    BY DEF Reading
  <2> DEFINE side == Side(i)
  <2>3. r.best[k] = BestZone(i, k, side) /\ q.best[k] = BestZone(j, k, side)
    BY <1>1, <1>3, <1>11, <2>1, <2>2
  <2> HIDE DEF r, q, side
  <2>4. \E z \in i.zones : z.kind = k /\ Qualifies(z, side)
    BY <1>11, <2>3, BestIs
  <2>5. \E z \in j.zones : z.kind = k /\ Qualifies(z, side)
    BY <1>1, <2>4
  <2> QED  BY <2>3, <2>5, BestIs
<1>12. r.smc <= q.smc
  <2> DEFINE A == {k \in Kinds : r.best[k] # Nil}
             B == {k \in Kinds : q.best[k] # Nil}
  <2>1. r.smc = Cardinality(A) /\ q.smc = Cardinality(B)
    BY ReadingIs
  <2>2. A \subseteq B
    BY <1>11
  <2>3. IsFiniteSet(B)
    BY ThreeKinds, FS_Subset
  <2> HIDE DEF A, B, r, q
  <2> QED  BY <2>1, <2>2, <2>3, FS_Subset
<1> HIDE DEF r, q
<1>13. /\ q.has = r.has /\ q.side = r.side /\ q.conf = r.conf /\ q.aligned = r.aligned
       /\ q.trendAgrees = r.trendAgrees /\ q.historical = r.historical /\ q.plan = r.plan
       /\ q.mtf = r.mtf /\ q.health = r.health
       /\ \A k \in Kinds : r.best[k] # Nil => q.best[k] # Nil
       /\ r.smc <= q.smc
  BY <1>2, <1>3, <1>4, <1>5, <1>6, <1>7, <1>8, <1>9, <1>10, <1>11, <1>12
<1> QED  BY <1>13 DEF r, q

\* The checks, by name.
ContextNames == {"structure", "htf_bias", "chart_tf", "trend_strength", "signal_fresh", "smc_confluence",
                 "zone_smc", "volume", "volatility", "phase", "momentum"}
PlanNames == {"rr", "risk_size", "strategy", "mtf", "confidence", "evidence", "historical", "market_health"}

LEMMA NamesFinite == IsFiniteSet(ContextNames) /\ IsFiniteSet(PlanNames)
<1> DEFINE A == {"structure", "htf_bias", "chart_tf", "trend_strength"}
           B == {"signal_fresh", "smc_confluence", "zone_smc", "volume"}
           C == {"volatility", "phase", "momentum", "momentum"}
           D == {"rr", "risk_size", "strategy", "mtf"}
           E == {"confidence", "evidence", "historical", "market_health"}
<1>1. IsFiniteSet(A) /\ IsFiniteSet(B) /\ IsFiniteSet(C) /\ IsFiniteSet(D) /\ IsFiniteSet(E)
  BY FourFinite
<1>2. ContextNames = (A \cup B) \cup C /\ PlanNames = D \cup E
  BY DEF ContextNames, PlanNames
<1> HIDE DEF A, B, C, D, E
<1>3. IsFiniteSet((A \cup B) \cup C) /\ IsFiniteSet(D \cup E)
  BY <1>1, FS_Union
<1> QED  BY <1>2, <1>3

\* The two checks that look at the zones.
LEMMA ContextIs ==
    ASSUME NEW i, NEW cs, NEW r
    PROVE  /\ ContextChecks(i, cs, r)["smc_confluence"] <=> (r.has => r.smc >= 2)
           /\ ContextChecks(i, cs, r)["zone_smc"] <=> (r.has => (r.best["ob"] # Nil \/ r.best["fvg"] # Nil))
<1>1. ContextChecks(i, cs, r)["smc_confluence"] = (r.has => r.smc >= 2)
  BY Zenon DEF ContextChecks
<1>2. ContextChecks(i, cs, r)["zone_smc"] = (r.has => (r.best["ob"] # Nil \/ r.best["fvg"] # Nil))
  BY Zenon DEF ContextChecks
<1> QED  BY <1>1, <1>2

\* A check of the chart that passes, passes with more zones.
LEMMA ContextKept ==
    ASSUME NEW i, NEW j, NEW cs, AddsSeen(i, j), InputsOK(i), InputsOK(j), NEW k \in ContextNames,
           ContextChecks(i, cs, Reading(i, cs))[k]
    PROVE  ContextChecks(j, cs, Reading(j, cs))[k]
<1> DEFINE r == Reading(i, cs)
           q == Reading(j, cs)
           C == ContextChecks(i, cs, r)
           D == ContextChecks(j, cs, q)
<1>1. /\ q.has = r.has /\ q.side = r.side /\ q.trendAgrees = r.trendAgrees /\ q.mtf = r.mtf
      /\ \A l \in Kinds : r.best[l] # Nil => q.best[l] # Nil
      /\ r.smc <= q.smc
  BY ReadingGrows
<1>2. r.smc \in Nat /\ q.smc \in Nat
  BY ReadingIs
<1>3. StructureScore(j) = StructureScore(i) /\ PhaseSupports(j) = PhaseSupports(i) /\ j.setup = i.setup
  BY SameEvidence DEF AddsSeen
<1>4. "ob" \in Kinds /\ "fvg" \in Kinds
  BY DEF Kinds
<1> HIDE DEF r, q
<1>5. CASE k \in {"structure", "trend_strength"}
  BY <1>1, <1>3, <1>5 DEF ContextChecks, r, q
<1>6. CASE k \in {"htf_bias", "chart_tf"}
  BY <1>1, <1>6 DEF ContextChecks, r, q
<1>7. CASE k = "signal_fresh"
  BY <1>1, <1>3, <1>7 DEF ContextChecks, r, q
<1>8. CASE k = "smc_confluence"
  <2>1. r.has => r.smc >= 2
    BY <1>8, ContextIs DEF r
  <2>2. q.has => q.smc >= 2
    BY <1>1, <1>2, <2>1
  <2> QED  BY <1>8, <2>2, ContextIs DEF q
<1>9. CASE k = "zone_smc"
  <2>1. r.has => (r.best["ob"] # Nil \/ r.best["fvg"] # Nil)
    BY <1>9, ContextIs DEF r
  <2>2. q.has => (q.best["ob"] # Nil \/ q.best["fvg"] # Nil)
    BY <1>1, <1>4, <2>1
  <2> QED  BY <1>9, <2>2, ContextIs DEF q
<1>10. CASE k \in {"volume", "volatility", "momentum"}
  BY <1>1, <1>10 DEF ContextChecks, r, q
<1>11. CASE k = "phase"
  BY <1>1, <1>3, <1>11 DEF ContextChecks, r, q
<1> QED  BY <1>5, <1>6, <1>7, <1>8, <1>9, <1>10, <1>11 DEF ContextNames

\* The checks of the plan do not look at zones.
LEMMA PlanChecksKept ==
    ASSUME NEW i, NEW j, NEW cs, AddsSeen(i, j), InputsOK(i), InputsOK(j)
    PROVE  PlanChecks(j, Reading(j, cs)) = PlanChecks(i, Reading(i, cs))
<1> DEFINE r == Reading(i, cs)
           q == Reading(j, cs)
<1>1. /\ q.has = r.has /\ q.conf = r.conf /\ q.aligned = r.aligned
      /\ q.historical = r.historical /\ q.plan = r.plan /\ q.mtf = r.mtf /\ q.health = r.health
  BY ReadingGrows
<1>2. EvidenceHits(j) = EvidenceHits(i)
  BY SameEvidence
<1> HIDE DEF r, q
<1>3. PlanChecks(j, q) = PlanChecks(i, r)
  BY <1>1, <1>2 DEF PlanChecks
<1> QED  BY <1>3 DEF r, q

\* The checks of an institutional decision.
ChecksOf(i, cs) == Checks(i, cs, Reading(i, cs))

LEMMA ChecksKept ==
    ASSUME NEW i, NEW j, NEW cs, AddsSeen(i, j), InputsOK(i), InputsOK(j)
    PROVE  /\ DOMAIN ChecksOf(j, cs) = DOMAIN ChecksOf(i, cs)
           /\ IsFiniteSet(DOMAIN ChecksOf(i, cs)) /\ "rr" \in DOMAIN ChecksOf(i, cs)
           /\ \A k \in DOMAIN ChecksOf(i, cs) : ChecksOf(i, cs)[k] => ChecksOf(j, cs)[k]
<1> DEFINE Context(x) == ContextChecks(x, cs, Reading(x, cs))
           Plan(x) == PlanChecks(x, Reading(x, cs))
           Needed(x) == IF Reading(x, cs).has THEN Needs(x.setup.type) ELSE {}
           Names(x) == ContextNames \cup PlanNames \cup Needed(x)
<1>1. \A x : DOMAIN Context(x) = ContextNames /\ DOMAIN Plan(x) = PlanNames
  BY DEF ContextChecks, PlanChecks, ContextNames, PlanNames
<1>2. ASSUME NEW x
      PROVE  ChecksOf(x, cs) = [k \in Names(x) |-> IF k \in Needed(x) THEN Reading(x, cs).best[k] # Nil
                                                   ELSE IF k \in PlanNames THEN Plan(x)[k] ELSE Context(x)[k]]
  <2>1. ChecksOf(x, cs) = [k \in DOMAIN Context(x) \cup DOMAIN Plan(x) \cup Needed(x) |->
                             IF k \in Needed(x) THEN Reading(x, cs).best[k] # Nil
                             ELSE IF k \in DOMAIN Plan(x) THEN Plan(x)[k] ELSE Context(x)[k]]
    BY DEF ChecksOf, Checks
  <2> HIDE DEF Context, Plan, Needed
  <2> QED  BY <1>1, <2>1
<1>3. /\ Reading(j, cs).has = Reading(i, cs).has
      /\ \A k \in Kinds : Reading(i, cs).best[k] # Nil => Reading(j, cs).best[k] # Nil
  BY ReadingGrows
<1>4. Needed(j) = Needed(i) /\ Needed(i) \subseteq Kinds
  BY <1>3 DEF AddsSeen, Needs, Kinds
<1>5. Plan(j) = Plan(i)
  BY PlanChecksKept
<1>6. \A k \in ContextNames : Context(i)[k] => Context(j)[k]
  BY ContextKept
<1> HIDE DEF Context, Plan, Needed
<1>7. DOMAIN ChecksOf(j, cs) = DOMAIN ChecksOf(i, cs) /\ DOMAIN ChecksOf(i, cs) = Names(i)
  BY <1>2, <1>4
<1>8. IsFiniteSet(Names(i))
  <2>1. IsFiniteSet(Needed(i))
    BY <1>4, ThreeKinds, FS_Subset
  <2> QED  BY <2>1, NamesFinite, FS_Union
<1>9. "rr" \in Names(i)
  BY DEF PlanNames
<1>10. ASSUME NEW k \in Names(i), ChecksOf(i, cs)[k] PROVE ChecksOf(j, cs)[k]
  <2>1. k \in Names(j)
    BY <1>4
  <2>2. CASE k \in Needed(i)
    <3>1. Reading(i, cs).best[k] # Nil
      BY <1>2, <1>10, <2>2
    <3>2. Reading(j, cs).best[k] # Nil
      BY <1>3, <1>4, <2>2, <3>1
    <3> QED  BY <1>2, <1>4, <2>1, <2>2, <3>2
  <2>3. CASE k \notin Needed(i) /\ k \in PlanNames
    <3>1. Plan(i)[k]
      BY <1>2, <1>10, <2>3
    <3>2. Plan(j)[k]
      BY <1>5, <3>1
    <3> QED  BY <1>2, <1>4, <2>1, <2>3, <3>2
  <2>4. CASE k \notin Needed(i) /\ k \notin PlanNames
    <3>1. Context(i)[k]
      BY <1>2, <1>10, <2>4
    <3>2. Context(j)[k]
      BY <1>6, <2>4, <3>1
    <3> QED  BY <1>2, <1>4, <2>1, <2>4, <3>2
  <2> QED  BY <2>2, <2>3, <2>4
<1> QED  BY <1>7, <1>8, <1>9, <1>10

\* How many timeframes agree is a number.
LEMMA AgreeInt == ASSUME NEW i, NEW side PROVE Mtf(i, side).agree \in Int
<1> DEFINE bias == [tf \in Timeframes |-> TrendBias(i, i.trends[tf])]
           checked == side \in Sides /\ \E tf \in Timeframes : bias[tf] # "neutral"
           agree == {tf \in Timeframes : bias[tf] = side}
<1>1. Mtf(i, side).agree = IF checked THEN Cardinality(agree) ELSE 0
  BY DEF Mtf
<1>2. IsFiniteSet(Timeframes)
  BY FourFinite DEF Timeframes
<1>3. agree \subseteq Timeframes
  OBVIOUS
<1> HIDE DEF agree, checked
<1>4. Cardinality(agree) \in Nat
  BY <1>2, <1>3, FS_Subset, FS_CardinalityType
<1> QED  BY <1>1, <1>4

\* When all checks pass, the score of a higher composite is no lower.
LEMMA ScoreGrows ==
    ASSUME NEW C, NEW D, DOMAIN D = DOMAIN C, IsFiniteSet(DOMAIN C), "rr" \in DOMAIN C,
           \A k \in DOMAIN C : C[k] /\ D[k],
           NEW r, NEW q, q.mtf = r.mtf, q.health = r.health, r.mtf.agree \in Int, r.health.score \in Int,
           NEW a \in Int, NEW b \in Int, a <= b, InstitutionalScore(C, a, r) >= 82
    PROVE  InstitutionalScore(D, b, q) >= 82
<1> DEFINE n == Cardinality(DOMAIN C)
           rest == (3000 * n) \div n
           bonus == IF r.mtf.htf THEN 600 ELSE 0
           Score(x) == Clamp(Round(38 * x + rest + 16 * r.health.score + 250 * r.mtf.agree + bonus), 0, 100)
<1>1. n \in Nat /\ n # 0
  BY FS_CardinalityType, FS_EmptySet
<1>2. {k \in DOMAIN C : C[k]} = DOMAIN C /\ {k \in DOMAIN D : D[k]} = DOMAIN C
  OBVIOUS
<1>3. InstitutionalScore(C, a, r) = Score(a)
  BY <1>2 DEF InstitutionalScore
<1>4. InstitutionalScore(D, b, q) = Score(b)
  BY <1>2 DEF InstitutionalScore
<1> HIDE DEF n
<1>5. rest \in Int /\ bonus \in Int
  BY <1>1
<1> HIDE DEF rest, bonus
<1> DEFINE x == 38 * a + rest + 16 * r.health.score + 250 * r.mtf.agree + bonus
           y == 38 * b + rest + 16 * r.health.score + 250 * r.mtf.agree + bonus
<1>6. x \in Int /\ y \in Int /\ x <= y
  <2>1. \A e, f, g, h \in Int : 38 * a + e + f + g + h \in Int /\ 38 * b + e + f + g + h \in Int
                               /\ 38 * a + e + f + g + h <= 38 * b + e + f + g + h
    OBVIOUS
  <2>2. 16 * r.health.score \in Int /\ 250 * r.mtf.agree \in Int
    OBVIOUS
  <2> QED  BY <1>5, <2>1, <2>2
<1>7. Score(a) = Clamp(Round(x), 0, 100) /\ Score(b) = Clamp(Round(y), 0, 100)
  OBVIOUS
<1> HIDE DEF x, y, Score
<1>8. \A u, v \in Int : u <= v => Round(u) \in Int /\ Round(v) \in Int /\ Round(u) <= Round(v)
  BY DEF Round
<1>9. \A u, v \in Int : u <= v /\ Clamp(u, 0, 100) >= 82 => Clamp(v, 0, 100) >= 82
  BY DEF Clamp
<1>10. Round(x) \in Int /\ Round(y) \in Int /\ Round(x) <= Round(y)
  BY <1>6, <1>8
<1> QED  BY <1>3, <1>4, <1>7, <1>9, <1>10

\* What the composite is made of.
FactorsOf(i, cs) ==
    LET r == Reading(i, cs)
    IN [historical |-> r.historical, structure |-> StructureScore(i),
        trend |-> Confidence(i, i.trend),
        smc |-> IF SmcQuality(i, r.best) = 0 THEN (55 * r.conf) \div 100 ELSE SmcQuality(i, r.best),
        volume |-> VolumeQuality(cs), volatility |-> Volatility(cs),
        mtf |-> 25 * r.mtf.agree,
        strategy |-> IF r.aligned THEN 80 + (8 * r.conf) \div 100 ELSE 28]

LEMMA FactorsInt ==
    ASSUME NEW i, NEW cs, InputsOK(i), i.setup # Nil
    PROVE  \A k \in Factor8 : FactorsOf(i, cs)[k] \in Int
<1> DEFINE r == Reading(i, cs)
           f == FactorsOf(i, cs)
<1>1. r.conf \in 0..100 /\ \A k \in Kinds : r.best[k] # Nil => r.best[k] \in Nat /\ r.best[k] >= 75
  BY ReadingIs
<1>2. f["historical"] \in Int
  <2>1. f["historical"] = Clamp((9 * r.conf) \div 10 + (IF r.aligned THEN 8 ELSE 0)
                                + (IF EvidenceHits(i) >= 4 THEN 5 ELSE 0), 0, 100)
    BY DEF FactorsOf, Reading
  <2> DEFINE m == (9 * r.conf) \div 10 + (IF r.aligned THEN 8 ELSE 0) + (IF EvidenceHits(i) >= 4 THEN 5 ELSE 0)
  <2>2. m \in Int
    <3> HIDE DEF r
    <3> QED  BY <1>1
  <2> HIDE DEF m
  <2>3. Clamp(m, 0, 100) \in Int
    BY <2>2 DEF Clamp
  <2> QED  BY <2>1, <2>3 DEF m
<1>3. f["structure"] \in Int /\ f["trend"] \in Int
  <2>1. Confidence(i, i.trend) \in Int
    BY SentInt DEF InputsOK, TrendOK
  <2>2. Evidence(i) = i.setup.evidence
    BY DEF Evidence
  <2>3. StructureScore(i) \in Int
    BY <2>1, <2>2 DEF StructureScore, InputsOK
  <2> QED  BY <2>1, <2>3 DEF FactorsOf
<1>4. f["smc"] \in Int
  <2>1. SmcQuality(i, r.best) \in Int
    <3> HIDE DEF r
    <3> QED  BY <1>1, QualityIs
  <2>2. (55 * r.conf) \div 100 \in Int
    <3> HIDE DEF r
    <3> QED  BY <1>1
  <2>3. f["smc"] = IF SmcQuality(i, r.best) = 0 THEN (55 * r.conf) \div 100 ELSE SmcQuality(i, r.best)
    BY DEF FactorsOf
  <2> QED  BY <2>1, <2>2, <2>3
<1>5. f["volume"] \in Int /\ f["volatility"] \in Int
  BY QualityInt, VolatilityInt DEF FactorsOf
<1>6. f["mtf"] \in Int
  <2>1. f["mtf"] = 25 * r.mtf.agree
    BY DEF FactorsOf
  <2>2. \E side : r.mtf = Mtf(i, side)
    BY DEF Reading
  <2>3. r.mtf.agree \in Int
    <3> HIDE DEF r
    <3> QED  BY <2>2, AgreeInt
  <2> QED  BY <2>1, <2>3
<1>7. f["strategy"] \in Int
  <2>1. f["strategy"] = IF r.aligned THEN 80 + (8 * r.conf) \div 100 ELSE 28
    BY DEF FactorsOf
  <2>2. 80 + (8 * r.conf) \div 100 \in Int
    <3> HIDE DEF r
    <3> QED  BY <1>1
  <2> QED  BY <2>1, <2>2
<1> HIDE DEF f
<1>8. \A k \in Factor8 : f[k] \in Int
  BY <1>2, <1>3, <1>4, <1>5, <1>6, <1>7 DEF Factor8, Weights
<1> QED  BY <1>8 DEF f

\* Whether the gates let a trade through.
Takes(i, cs) ==
    LET r == Reading(i, cs)
        composite == Composite(FactorsOf(i, cs))
    IN WouldTake(ChecksOf(i, cs), composite, InstitutionalScore(ChecksOf(i, cs), composite, r), r)

LEMMA InstitutionalIs ==
    ASSUME NEW i, NEW cs
    PROVE  /\ "direction" \in DOMAIN Institutional(i, cs) /\ "level" \in DOMAIN Institutional(i, cs)
           /\ Institutional(i, cs).direction = IF Takes(i, cs) THEN Reading(i, cs).side ELSE "wait"
           /\ Institutional(i, cs).level = IF Takes(i, cs) THEN "full" ELSE "none"
<1> DEFINE r == Reading(i, cs)
           checks == ChecksOf(i, cs)
           composite == Composite(FactorsOf(i, cs))
           score == InstitutionalScore(checks, composite, r)
           takes == WouldTake(checks, composite, score, r)
<1>1. CompositeOf(i, cs, r) = composite
  BY DEF CompositeOf, FactorsOf
<1>2. Institutional(i, cs) = Card(r, checks, composite, score, takes)
  BY <1>1 DEF Institutional, Checked, Rated, Reviewed, ChecksOf
<1>3. takes = Takes(i, cs)
  BY DEF Takes
<1> HIDE DEF r, checks, composite, score, takes
<1>4. /\ "direction" \in DOMAIN Card(r, checks, composite, score, takes)
      /\ "level" \in DOMAIN Card(r, checks, composite, score, takes)
      /\ Card(r, checks, composite, score, takes).direction = IF takes THEN r.side ELSE "wait"
      /\ Card(r, checks, composite, score, takes).level = IF takes THEN "full" ELSE "none"
  BY DEF Card
<1> QED  BY <1>2, <1>3, <1>4 DEF r

\* Zones that do not dilute the mean leave a trade what it is.
LEMMA TakesStill ==
    ASSUME NEW i, NEW j, NEW cs, AddsSeen(i, j), InputsOK(i), InputsOK(j), Takes(i, cs),
           ~(SmcQuality(j, Reading(j, cs).best) < SmcQuality(i, Reading(i, cs).best))
    PROVE  Takes(j, cs)
<1> DEFINE r == Reading(i, cs)
           q == Reading(j, cs)
           f == FactorsOf(i, cs)
           g == FactorsOf(j, cs)
           C == ChecksOf(i, cs)
           D == ChecksOf(j, cs)
<1>1. /\ r.has /\ r.side \in Sides /\ \A k \in DOMAIN C : C[k]
      /\ InstitutionalScore(C, Composite(f), r) >= 82 /\ Composite(f) >= 78
  BY DEF Takes, WouldTake
<1>2. /\ q.has = r.has /\ q.side = r.side /\ q.conf = r.conf /\ q.aligned = r.aligned
      /\ q.historical = r.historical /\ q.mtf = r.mtf /\ q.health = r.health
  BY ReadingGrows
<1>3. /\ DOMAIN D = DOMAIN C /\ IsFiniteSet(DOMAIN C) /\ "rr" \in DOMAIN C
      /\ \A k \in DOMAIN C : C[k] => D[k]
  BY ChecksKept
<1>4. i.setup # Nil /\ j.setup # Nil
  <2>1. r.has = (i.setup # Nil)
    BY DEF Reading
  <2> QED  BY <1>1, <2>1 DEF AddsSeen
<1>5. SmcQuality(i, r.best) >= 1
  <2>1. /\ r.smc \in Nat /\ r.smc = Cardinality({k \in Kinds : r.best[k] # Nil})
        /\ \A k \in Kinds : r.best[k] # Nil => r.best[k] \in Nat /\ r.best[k] >= 75
    BY ReadingIs
  <2>2. r.smc >= 2
    <3>1. "smc_confluence" \in DOMAIN C /\ C["smc_confluence"] = ContextChecks(i, cs, r)["smc_confluence"]
      BY DEF ChecksOf, Checks, ContextChecks, PlanChecks, Needs
    <3>2. ContextChecks(i, cs, r)["smc_confluence"]
      BY <1>1, <3>1
    <3> HIDE DEF r, C
    <3> QED  BY <1>1, <3>2, ContextIs
  <2> HIDE DEF r
  <2>3. {k \in Kinds : r.best[k] # Nil} # {}
    <3>1. Cardinality({}) = 0
      BY FS_EmptySet
    <3> QED  BY <2>1, <2>2, <3>1
  <2> QED  BY <2>1, <2>3, QualityIs
<1>6. SmcQuality(i, r.best) \in Int /\ SmcQuality(j, q.best) \in Int /\ SmcQuality(j, q.best) >= SmcQuality(i, r.best)
  <2>1. /\ \A k \in Kinds : r.best[k] # Nil => r.best[k] \in Nat /\ r.best[k] >= 75
        /\ \A k \in Kinds : q.best[k] # Nil => q.best[k] \in Nat /\ q.best[k] >= 75
    BY ReadingIs
  <2>2. ~(SmcQuality(j, q.best) < SmcQuality(i, r.best))
    OBVIOUS
  <2> HIDE DEF r, q
  <2>3. SmcQuality(i, r.best) \in Int /\ SmcQuality(j, q.best) \in Int
    BY <2>1, QualityIs
  <2> QED  BY <2>2, <2>3
<1>7. \A k \in Factor8 : f[k] \in Int /\ g[k] \in Int
  BY <1>4, FactorsInt
<1>8. \A k \in Factor8 : f[k] <= g[k]
  <2>1. StructureScore(j) = StructureScore(i) /\ Confidence(j, j.trend) = Confidence(i, i.trend)
    BY SameEvidence DEF AddsSeen
  <2>2. \A k \in Factor8 \ {"smc"} : g[k] = f[k]
    BY <1>2, <2>1 DEF FactorsOf, Factor8, Weights
  <2>3. f["smc"] = SmcQuality(i, r.best) /\ g["smc"] = SmcQuality(j, q.best)
    <3>1. SmcQuality(i, r.best) # 0 /\ SmcQuality(j, q.best) # 0
      BY <1>5, <1>6
    <3> QED  BY <3>1 DEF FactorsOf
  <2> HIDE DEF f, g, r, q
  <2>4. ASSUME NEW k \in Factor8, k # "smc" PROVE f[k] <= g[k]
    <3>1. f[k] \in Int /\ g[k] = f[k]
      BY <1>7, <2>2, <2>4
    <3> QED  BY <3>1
  <2>5. f["smc"] <= g["smc"]
    BY <1>6, <2>3
  <2> QED  BY <2>4, <2>5
<1>9. Composite(g) \in Percents /\ Composite(f) \in Percents /\ Composite(g) >= Composite(f)
  <2> HIDE DEF f, g
  <2> QED  BY <1>1, <1>7, <1>8, CompositeGrows
<1>10. Composite(g) \in Int /\ Composite(f) \in Int /\ Composite(f) <= Composite(g)
  BY <1>9 DEF Percents
<1>11. r.mtf.agree \in Int /\ r.health.score \in Int
  <2>1. \E side : r.mtf = Mtf(i, side)
    BY DEF Reading
  <2>2. r.health = Health(i, cs)
    BY DEF Reading
  <2> HIDE DEF r
  <2> QED  BY <2>1, <2>2, AgreeInt, HealthInt DEF InputsOK
<1> HIDE DEF r, q, f, g, C, D
<1>12. \A k \in DOMAIN C : C[k] /\ D[k]
  BY <1>1, <1>3
<1>13. InstitutionalScore(D, Composite(g), q) >= 82
  BY <1>1, <1>2, <1>3, <1>10, <1>11, <1>12, ScoreGrows
<1>14. Composite(g) >= 78
  BY <1>1, <1>10
<1>15. WouldTake(D, Composite(g), InstitutionalScore(D, Composite(g), q), q)
  BY <1>1, <1>2, <1>3, <1>12, <1>13, <1>14 DEF WouldTake
<1> QED  BY <1>15 DEF Takes, q, g, D

\* What has arrived is what the gates read.
LEMMA ArrivedOK ==
    ASSUME AnswersOK, NEW seen \in ZoneAnswers[chart.server] \cup {{}}
    PROVE  InputsOK(InputsWith(seen))
<1> DEFINE i == InputsWith(seen)
<1>1. i.setup = TopSetup /\ i.trend = trends[chart.timeframe] /\ i.zones = seen
  BY DEF InputsWith
<1> HIDE DEF i
<1>2. IsFiniteSet(i.zones) /\ \A z \in i.zones : z.confidence \in Nat
  <2>1. CASE seen = {}
    BY <1>1, <2>1, FS_EmptySet
  <2>2. CASE seen \in ZoneAnswers[chart.server]
    BY <1>1, <2>2, AnswersAssumption DEF AnswersOK
  <2> QED  BY <2>1, <2>2
<1>3. TrendOK(i.trend)
  <2> DEFINE Arrived == UNION {TrendAnswers[tf] : tf \in TrendKeys}
             t == trends[chart.timeframe]
  <2>1. t \in {Nil} \cup Arrived
    <3>1. trends \in [TrendKeys -> {Nil} \cup Arrived] /\ chart.timeframe \in TrendKeys
      BY DEF AnswersOK, TrendKeys
    <3> HIDE DEF Arrived
    <3> QED  BY <3>1
  <2>2. \A u \in Arrived : u.confidence \in Nat /\ u.phaseConfidence \in Nat
    <3>1. \A u \in Arrived : u.confidence \in 0..100 /\ u.phaseConfidence \in 0..100
      BY AnswersAssumption DEF TrendKeys
    <3> HIDE DEF Arrived
    <3> QED  BY <3>1
  <2> HIDE DEF Arrived, t
  <2>3. t # Nil => t.confidence \in Nat /\ t.phaseConfidence \in Nat
    BY <2>1, <2>2
  <2> QED  BY <1>1, <2>3 DEF TrendOK, t
<1>4. ASSUME TopSetup # Nil
      PROVE  TopSetup.confidence \in 0..100 /\ \A k \in DOMAIN TopSetup.evidence : TopSetup.evidence[k] \in Int
  <2>1. TopSetup \in setups
    BY <1>4, TopIsOne
  <2>2. chart \in Charts /\ setups \in SetupAnswers[chart.server]
    BY <2>1 DEF AnswersOK
  <2> QED  BY <2>1, <2>2, SetupsAssumption
<1>5. Nil \notin Int
  BY NilAssumption
<1>6. InputsOK(i)
  BY <1>1, <1>2, <1>3, <1>4, <1>5 DEF InputsOK
<1> QED  BY <1>6 DEF i

\* An institutional trade stays one.
LEMMA SlowHelped == AnswersOK => (profile \notin FastProfiles => ZonesOnlyHelp)
<1> SUFFICES ASSUME AnswersOK, profile \notin FastProfiles, NEW more \in ZoneAnswers[chart.server],
                    zones \subseteq more, ~Dilutes(more), Acted(Decision)
             PROVE  Rank(DecisionWith(profile, more)) >= Rank(Decision)
  BY DEF ZonesOnlyHelp, NoWorse
<1> DEFINE i == InputsWith(zones)
           j == InputsWith(more)
           cs == Tapes[tape]
           d == Institutional(i, cs)
           e == Institutional(j, cs)
<1>1. AddsSeen(i, j)
  BY DEF AddsSeen, InputsWith
<1>2. InputsOK(i) /\ InputsOK(j)
  BY ArrivedOK DEF AnswersOK
<1>3. ~(SmcQuality(j, Reading(j, cs).best) < SmcQuality(i, Reading(i, cs).best))
  BY DEF Dilutes, MeanOf
<1>4. Decision = Enriched(d, ExpiryIntel) /\ DecisionWith(profile, more) = Enriched(e, ExpiryIntel)
  BY DEF Decision, DecisionFor, DecisionWith, Derived, FastProfiles
<1> HIDE DEF i, j, cs
<1>5. /\ "direction" \in DOMAIN d /\ "level" \in DOMAIN d
      /\ d.direction = IF Takes(i, cs) THEN Reading(i, cs).side ELSE "wait"
      /\ d.level = IF Takes(i, cs) THEN "full" ELSE "none"
  BY InstitutionalIs
<1>6. /\ "direction" \in DOMAIN e /\ "level" \in DOMAIN e
      /\ e.level = IF Takes(j, cs) THEN "full" ELSE "none"
  BY InstitutionalIs
<1> HIDE DEF d, e
<1>7. Decision.direction = d.direction /\ Decision.level = d.level /\ DecisionWith(profile, more).level = e.level
  BY <1>4, <1>5, <1>6, EnrichedKeeps
<1>8. Takes(i, cs)
  BY <1>5, <1>7 DEF Acted
<1>9. Takes(j, cs)
  BY <1>1, <1>2, <1>3, <1>8, TakesStill
<1> QED  BY <1>5, <1>6, <1>7, <1>8, <1>9 DEF Rank

\* More zones never cost a trade its grade, whatever the profile: for all answers, candles
\* and levels, and under the institutional profile whenever they do not dilute the mean.
THEOREM ZonesHelp == DecisionSpec => []ZonesOnlyHelp
<1>1. AnswersOK => ZonesOnlyHelp
  BY Helped, SlowHelped
<1> QED  BY <1>1, AnswersKept, PTL

\* Where trends come with fractions, as from the API, the institutional profile (and swing,
\* which means it) never trades: trends are read as percent, so none is strong.
THEOREM FractionsNeverTrade ==
    DecisionSpec => [](Unit[chart.server] = "fraction" /\ profile \notin FastProfiles => ~Acted(Decision))
<1>1. ASSUME AnswersOK, Unit[chart.server] = "fraction", profile \notin FastProfiles PROVE ~Acted(Decision)
  <2> DEFINE i == InputsWith(zones)
             cs == Tapes[tape]
             r == Reading(i, cs)
             d == Institutional(i, cs)
  <2>1. i.unit = "fraction" /\ i.trend = trends[chart.timeframe]
    BY <1>1 DEF InputsWith
  <2>2. Decision = Enriched(d, ExpiryIntel)
    BY <1>1 DEF Decision, DecisionFor, DecisionWith, Derived, FastProfiles
  <2> HIDE DEF i, cs
  <2>3. /\ "direction" \in DOMAIN d /\ "level" \in DOMAIN d
        /\ d.direction = IF Takes(i, cs) THEN r.side ELSE "wait"
    BY InstitutionalIs
  <2>4. i.trend # Nil => i.trend.confidence \in 0..100
    <3> DEFINE Arrived == UNION {TrendAnswers[tf] : tf \in TrendKeys}
    <3>1. trends \in [TrendKeys -> {Nil} \cup Arrived] /\ chart.timeframe \in TrendKeys
      BY <1>1 DEF AnswersOK, TrendKeys
    <3>2. \A u \in Arrived : u.confidence \in 0..100
      BY AnswersAssumption DEF TrendKeys
    <3> HIDE DEF Arrived
    <3> QED  BY <2>1, <3>1, <3>2
  <2>5. ~Strong(i, i.trend)
    <3>1. CASE i.trend = Nil
      BY <3>1 DEF Strong, Confidence
    <3>2. CASE i.trend # Nil
      <4>1. Confidence(i, i.trend) = i.trend.confidence \div 100
        BY <2>1, <3>2 DEF Confidence, Sent
      <4>2. \A n \in 0..100 : ~(n \div 100 >= 72)
        OBVIOUS
      <4> QED  BY <2>4, <3>2, <4>1, <4>2 DEF Strong
    <3> QED  BY <3>1, <3>2
  <2>6. ~r.trendAgrees
    BY <2>5 DEF Reading
  <2>7. ~Takes(i, cs)
    <3> SUFFICES ASSUME Takes(i, cs) PROVE FALSE
      OBVIOUS
    <3> DEFINE C == ChecksOf(i, cs)
    <3>1. "trend_strength" \in DOMAIN C /\ C["trend_strength"] = r.trendAgrees
      BY DEF ChecksOf, Checks, ContextChecks, PlanChecks, Needs
    <3>2. \A k \in DOMAIN C : C[k]
      BY DEF Takes, WouldTake
    <3> HIDE DEF C, r
    <3> QED  BY <2>6, <3>1, <3>2
  <2> HIDE DEF d
  <2>8. Decision.direction = d.direction
    BY <2>2, <2>3, EnrichedKeeps
  <2> QED  BY <2>3, <2>7, <2>8 DEF Acted
<1> QED  BY <1>1, AnswersKept, PTL

-----------------------------------------------------------------------------
(* The expiry calendar.                                                    *)

\* The day numbers of the holidays.
LEMMA HolidayList == MARKET_HOLIDAYS = {26, 62, 85, 90, 93, 104, 121, 227, 275, 293, 312, 359}
<1>1. /\ MonthEnd[1] = 31 /\ MonthEnd[2] = 59 /\ MonthEnd[3] = 90 /\ MonthEnd[4] = 120
      /\ MonthEnd[7] = 212 /\ MonthEnd[9] = 273 /\ MonthEnd[10] = 304 /\ MonthEnd[11] = 334
  BY DEF MonthEnd
<1>2. /\ DayOf(1, 26) = 26 /\ DayOf(3, 3) = 62 /\ DayOf(3, 26) = 85 /\ DayOf(3, 31) = 90
      /\ DayOf(4, 3) = 93 /\ DayOf(4, 14) = 104
  BY <1>1 DEF DayOf
<1>3. /\ DayOf(5, 1) = 121 /\ DayOf(8, 15) = 227 /\ DayOf(10, 2) = 275 /\ DayOf(10, 20) = 293
      /\ DayOf(11, 8) = 312 /\ DayOf(12, 25) = 359
  BY <1>1 DEF DayOf
<1> QED  BY <1>2, <1>3 DEF MARKET_HOLIDAYS

\* The days of a week from its Monday on.
LEMMA WeekdaysFollow ==
    ASSUME NEW d \in Int
    PROVE  /\ Weekday(d) \in 0..6
           /\ \A k \in 0..6 : Weekday(d) + k < 7 => Weekday(d + k) = Weekday(d) + k
           /\ Weekday(d) # 0 => Weekday(d - 1) = Weekday(d) - 1
BY DEF Weekday

\* A Tuesday and a Thursday that the market is closed follow a day that it is open.
LEMMA EveOpen ==
    ASSUME NEW d \in Int, Weekday(d) \in {Tuesday, Thursday}
    PROVE  ~IsHoliday(d) \/ ~IsHoliday(d - 1)
<1>1. Weekday(d) \in {2, 4} /\ Weekday(d - 1) \notin {0, 6}
  BY WeekdaysFollow DEF Tuesday, Thursday
<1>2. d \in MARKET_HOLIDAYS => d - 1 \notin MARKET_HOLIDAYS
  BY <1>1, HolidayList DEF Weekday
<1> QED  BY <1>1, <1>2 DEF IsHoliday

\* An expiry moves to the last day before it that the market is open.
LEMMA AdjustedIs ==
    ASSUME NEW d \in Int, Weekday(d) \in {Tuesday, Thursday}
    PROVE  /\ Adjusted(d) = IF IsHoliday(d) THEN d - 1 ELSE d
           /\ ~IsHoliday(Adjusted(d))
<1> DEFINE S == {x \in d - 9..d : ~IsHoliday(x)} \cup {d - 10}
<1>1. S \subseteq Int /\ \A x \in S : x <= d
  OBVIOUS
<1>2. CASE ~IsHoliday(d)
  <2>1. d \in S
    BY <1>2
  <2> HIDE DEF S
  <2>2. Max(S) = d
    BY <1>1, <2>1, MaxIs
  <2> QED  BY <1>2, <2>2 DEF Adjusted, S
<1>3. CASE IsHoliday(d)
  <2>1. ~IsHoliday(d - 1)
    BY <1>3, EveOpen
  <2>2. d - 1 \in S /\ d \notin S
    BY <1>3, <2>1
  <2> HIDE DEF S
  <2>3. \A x \in S : d - 1 >= x
    <3>1. \A x \in S : x \in Int /\ x <= d /\ x # d
      BY <1>1, <2>2
    <3> QED  BY <3>1
  <2>4. Max(S) = d - 1
    BY <1>1, <2>2, <2>3, MaxIs
  <2> QED  BY <1>3, <2>1, <2>4 DEF Adjusted, S
<1> QED  BY <1>2, <1>3

\* The weekly expiry a day shows is open, and is the one of its week until it has passed.
LEMMA WeeklyOpen ==
    ASSUME NEW x \in Int, NEW w \in {Tuesday, Thursday}
    PROVE  ~IsHoliday(NextOrSame(x, w))
<1> DEFINE y == x + ((w - Weekday(x)) % 7)
<1>1. y \in Int /\ Weekday(y) = w
  BY DEF Weekday, Tuesday, Thursday
<1> HIDE DEF y
<1>2. ~IsHoliday(Adjusted(y))
  BY <1>1, AdjustedIs
<1> QED  BY <1>2 DEF NextOrSame, y


\* The weekly expiry of a week, from its Monday: on its day only is it the one shown.
LEMMA WeeklyOfWeek ==
    ASSUME NEW d \in Int, Weekday(d) = 1, NEW w \in {Tuesday, Thursday}
    PROVE  /\ Adjusted(d + w - 1) \in d..d + 4
           /\ \A x \in d..d + 4 : NextOrSame(x, w) = x <=> x = Adjusted(d + w - 1)
<1> DEFINE t == d + w - 1
<1>1. t \in Int /\ t + 7 \in Int /\ Weekday(t) = w /\ Weekday(t + 7) = w /\ t \in d + 1..d + 3
  BY DEF Weekday, Tuesday, Thursday
<1>2. \A x \in d..d + 4 : x + ((w - Weekday(x)) % 7) = IF x <= t THEN t ELSE t + 7
  BY DEF Weekday, Tuesday, Thursday
<1>3. \A x \in d..d + 4 : NextOrSame(x, w) = IF x <= t THEN Adjusted(t) ELSE Adjusted(t + 7)
  BY <1>2 DEF NextOrSame
<1> HIDE DEF t
<1>4. Adjusted(t) \in {t - 1, t} /\ Adjusted(t + 7) \in {t + 6, t + 7}
  BY <1>1, AdjustedIs
<1>5. Adjusted(t) \in d..d + 4
  BY <1>1, <1>4
<1>6. ASSUME NEW x \in d..d + 4 PROVE NextOrSame(x, w) = x <=> x = Adjusted(t)
  <2>1. CASE x <= t
    BY <1>3, <2>1
  <2>2. CASE ~(x <= t)
    <3>1. NextOrSame(x, w) = Adjusted(t + 7)
      BY <1>3, <2>2
    <3> QED  BY <1>1, <1>4, <2>2, <3>1
  <2> QED  BY <2>1, <2>2
<1> QED  BY <1>5, <1>6 DEF t

\* The months and their last days.
LEMMA MonthsIs ==
    /\ MonthEnd[1] = 31 /\ MonthEnd[2] = 59 /\ MonthEnd[3] = 90 /\ MonthEnd[4] = 120
    /\ MonthEnd[5] = 151 /\ MonthEnd[6] = 181 /\ MonthEnd[7] = 212 /\ MonthEnd[8] = 243
    /\ MonthEnd[9] = 273 /\ MonthEnd[10] = 304 /\ MonthEnd[11] = 334 /\ MonthEnd[12] = 365
BY DEF MonthEnd

\* The month of a day is the one it lies in.
LEMMA MonthOfDay ==
    ASSUME NEW m \in 1..12, NEW x \in DayOf(m, 1)..MonthEnd[m]
    PROVE  MonthOf(x) = m
<1>1. x \in Int /\ x <= MonthEnd[m] /\ \A n \in 1..12 : n < m => x > MonthEnd[n]
  <2>1. MonthEnd[m] \in Int /\ DayOf(m, 1) \in Int
    BY MonthsIs DEF DayOf
  <2>2. \A n \in 1..12 : n < m => DayOf(m, 1) > MonthEnd[n]
    BY MonthsIs DEF DayOf
  <2>3. \A n \in 1..12 : MonthEnd[n] \in Int
    BY MonthsIs
  <2> QED  BY <2>1, <2>2, <2>3
<1> DEFINE S == {n \in 1..12 : x <= MonthEnd[n]}
<1>2. S \subseteq Int /\ m \in S /\ \A n \in S : m <= n
  <2>1. \A n \in S : n \in Int /\ ~(n < m)
    <3>1. \A n \in S : n \in 1..12 /\ x <= MonthEnd[n] /\ MonthEnd[n] \in Int
      BY MonthsIs
    <3> QED  BY <1>1, <3>1
  <2>2. m \in S
    BY <1>1
  <2> HIDE DEF S
  <2> QED  BY <2>1, <2>2
<1> HIDE DEF S
<1>3. Min(S) = m
  BY <1>2, MinIs
<1> QED  BY <1>3 DEF MonthOf, S

\* Every day of the year lies in a month.
LEMMA DayHasMonth ==
    ASSUME NEW x \in 1..365
    PROVE  \E m \in 1..12 : x \in DayOf(m, 1)..MonthEnd[m]
BY MonthsIs DEF DayOf

\* The last Tuesdays of the months that the market is open.
LastTuesdays == <<27, 55, 83, 118, 146, 181, 209, 237, 272, 300, 328, 363>>

\* In every month the rule finds its last open Tuesday, in March the one before.
LEMMA LastTuesdayIs ==
    ASSUME NEW m \in 1..12
    PROVE  /\ LastWeekday(m, Tuesday) = LastTuesdays[m]
           /\ LastTuesdays[m] \in DayOf(m, 1)..MonthEnd[m]
           /\ Weekday(LastTuesdays[m]) = Tuesday /\ ~IsHoliday(LastTuesdays[m])
<1> DEFINE end == MonthEnd[m]
           fit == {x \in end - 9..end : Weekday(x) = Tuesday /\ x \notin MARKET_HOLIDAYS}
           S == fit \cup {end - 10}
           t == LastTuesdays[m]
<1>1. /\ LastTuesdays[1] = 27 /\ LastTuesdays[2] = 55 /\ LastTuesdays[3] = 83 /\ LastTuesdays[4] = 118
      /\ LastTuesdays[5] = 146 /\ LastTuesdays[6] = 181 /\ LastTuesdays[7] = 209 /\ LastTuesdays[8] = 237
      /\ LastTuesdays[9] = 272 /\ LastTuesdays[10] = 300 /\ LastTuesdays[11] = 328 /\ LastTuesdays[12] = 363
  BY DEF LastTuesdays
<1>2. t \in Int /\ end \in Int /\ t \in end - 9..end
  BY <1>1, MonthsIs
<1>3. t \in DayOf(m, 1)..end
  BY <1>1, MonthsIs DEF DayOf
<1>4. Weekday(t) = Tuesday
  BY <1>1 DEF Weekday, Tuesday
<1>5. t \notin MARKET_HOLIDAYS
  BY <1>1, HolidayList
<1>6. ~IsHoliday(t)
  BY <1>4, <1>5 DEF IsHoliday, Tuesday
<1>7. \A x \in end - 9..end : x > t => Weekday(x) # Tuesday \/ x \in MARKET_HOLIDAYS
  <2>1. m = 3 => t = 83 /\ end = 90 /\ 90 \in MARKET_HOLIDAYS
    BY <1>1, MonthsIs, HolidayList
  <2>2. m # 3 => end <= t + 6
    BY <1>1, MonthsIs
  <2> HIDE DEF t, end
  <2>3. \A x \in end - 9..end : x > t /\ Weekday(x) = Tuesday => x >= t + 7
    BY <1>2, <1>4 DEF Weekday, Tuesday
  <2> QED  BY <1>2, <2>1, <2>2, <2>3
<1>8. t \in S
  BY <1>2, <1>4, <1>5
<1>9. S \subseteq Int /\ \A x \in S : t >= x
  <2>1. \A x \in fit : x \in Int /\ t >= x
    BY <1>2, <1>7
  <2>2. end - 10 \in Int /\ t >= end - 10
    BY <1>2
  <2> QED  BY <2>1, <2>2
<1> HIDE DEF S, t
<1>10. Max(S) = t
  BY <1>8, <1>9, MaxIs
<1>11. Adjusted(t) = t
  BY <1>2, <1>4, <1>6, AdjustedIs
<1>12. LastWeekday(m, Tuesday) = Adjusted(Max(S))
  BY DEF LastWeekday, S
<1> QED  BY <1>3, <1>4, <1>6, <1>10, <1>11, <1>12 DEF t

\* The days a symbol has a session: the weekly ones, the monthly ones.
LEMMA SessionDays ==
    ASSUME NEW x \in 1..365
    PROVE  /\ IsExpiryDay("NIFTY50", x) <=> NextOrSame(x, Tuesday) = x
           /\ IsExpiryDay("SENSEX", x) <=> NextOrSame(x, Thursday) = x
           /\ IsExpiryDay("BANKNIFTY", x) <=> LastWeekday(MonthOf(x), Tuesday) = x
<1>1. IsExpiryDay("SENSEX", x) <=> NextOrSame(x, Thursday) = x
  BY DEF IsExpiryDay, Schedule
<1>2. IsExpiryDay("BANKNIFTY", x) <=> LastWeekday(MonthOf(x), Tuesday) = x
  BY DEF IsExpiryDay, Schedule
<1>3. IsExpiryDay("NIFTY50", x) <=> LastWeekday(MonthOf(x), Tuesday) = x \/ NextOrSame(x, Tuesday) = x
  BY DEF IsExpiryDay, Schedule
<1>4. ASSUME LastWeekday(MonthOf(x), Tuesday) = x PROVE NextOrSame(x, Tuesday) = x
  <2>1. PICK m \in 1..12 : x \in DayOf(m, 1)..MonthEnd[m]
    BY DayHasMonth
  <2>2. MonthOf(x) = m
    BY <2>1, MonthOfDay
  <2>3. x = LastTuesdays[m] /\ Weekday(x) = Tuesday /\ ~IsHoliday(x)
    BY <1>4, <2>2, LastTuesdayIs
  <2>4. x + ((Tuesday - Weekday(x)) % 7) = x
    BY <2>3 DEF Tuesday
  <2>5. Adjusted(x) = x
    BY <2>3, AdjustedIs
  <2> QED  BY <2>4, <2>5 DEF NextOrSame
<1> QED  BY <1>1, <1>2, <1>3, <1>4

\* A set of days with one session has one expiry.
LEMMA OneExpiry ==
    ASSUME NEW s, NEW days, NEW e \in days, \A x \in days : IsExpiryDay(s, x) <=> x = e
    PROVE  Expiries(s, days) = {e}
BY DEF Expiries

\* The session of a week lies on the day due, or on the day before that the market is open.
LEMMA WeeklyLands ==
    ASSUME NEW s \in {"NIFTY50", "SENSEX"}, NEW d \in Int, Weekday(d) = 1, NEW w,
           w = IF s = "SENSEX" THEN Thursday ELSE Tuesday
    PROVE  Lands(s, d..d + 4, Adjusted(d + w - 1))
<1> DEFINE t == d + w - 1
           days == d..d + 4
<1>1. w \in {Tuesday, Thursday} /\ t \in days /\ Weekday(t) = w /\ t \in Int
  BY DEF Weekday, Tuesday, Thursday
<1>2. Due(s, days) = {x \in days : Weekday(x) = w}
  BY DEF Due
<1>3. \A x \in days : Weekday(x) = w => x = t
  BY DEF Weekday, Tuesday, Thursday
<1>4. Adjusted(t) = (IF IsHoliday(t) THEN t - 1 ELSE t) /\ ~IsHoliday(Adjusted(t))
  BY <1>1, AdjustedIs
<1> HIDE DEF t, days
<1>5. t \in Due(s, days) /\ \A u \in Due(s, days) : u <= t
  <2>1. t \in Due(s, days)
    BY <1>1, <1>2
  <2>2. ASSUME NEW u \in Due(s, days) PROVE u <= t
    <3>1. u = t
      BY <1>2, <1>3
    <3> QED  BY <1>1, <3>1
  <2> QED  BY <2>1, <2>2
<1>6. Eve(Adjusted(t), t)
  <2>1. CASE IsHoliday(t)
    <3>1. Adjusted(t) = t - 1 /\ \A x \in t - 1 + 1..t : x = t
      BY <1>1, <1>4, <2>1
    <3> QED  BY <1>1, <1>4, <2>1, <3>1 DEF Eve
  <2>2. CASE ~IsHoliday(t)
    BY <1>1, <1>4, <2>2 DEF Eve
  <2> QED  BY <2>1, <2>2
<1>7. s # "BANKNIFTY"
  OBVIOUS
<1> QED  BY <1>5, <1>6, <1>7 DEF Lands, t, days

\* The session of a month lies on its last Tuesday, of March on the Tuesday before.
LEMMA MonthlyLands ==
    ASSUME NEW m \in 1..12
    PROVE  Lands("BANKNIFTY", DayOf(m, 1)..MonthEnd[m], LastTuesdays[m])
<1> DEFINE days == DayOf(m, 1)..MonthEnd[m]
           e == LastTuesdays[m]
           t == IF m = 3 THEN 90 ELSE e
<1>1. /\ LastTuesdays[1] = 27 /\ LastTuesdays[2] = 55 /\ LastTuesdays[3] = 83 /\ LastTuesdays[4] = 118
      /\ LastTuesdays[5] = 146 /\ LastTuesdays[6] = 181 /\ LastTuesdays[7] = 209 /\ LastTuesdays[8] = 237
      /\ LastTuesdays[9] = 272 /\ LastTuesdays[10] = 300 /\ LastTuesdays[11] = 328 /\ LastTuesdays[12] = 363
  BY DEF LastTuesdays
<1>2. /\ MonthEnd[m] \in Int /\ DayOf(m, 1) \in Int /\ DayOf(3, 31) = 90
      /\ DayOf(m, 1) <= t /\ t <= MonthEnd[m] /\ MonthEnd[m] <= t + 6
      /\ e \in Int /\ t \in Int /\ (m = 3 => e = 83) /\ (m # 3 => t = e /\ t # 90)
  BY <1>1, MonthsIs DEF DayOf
<1>3. Weekday(t) = Tuesday
  BY <1>1 DEF Weekday, Tuesday
<1>4. ~IsHoliday(e)
  BY LastTuesdayIs
<1> HIDE DEF t, e
<1>5. t \in Due("BANKNIFTY", days)
  BY <1>2, <1>3 DEF Due
<1>6. ASSUME NEW u \in Due("BANKNIFTY", days) PROVE u <= t
  <2>1. u \in Int /\ u <= t + 6 /\ Weekday(u) = Tuesday
    BY <1>2 DEF Due
  <2> QED  BY <1>2, <1>3, <2>1 DEF Weekday, Tuesday
<1>7. IF t = DayOf(3, 31) THEN e = t - 7 ELSE Eve(e, t)
  <2>1. CASE m = 3
    BY <1>2, <2>1 DEF t
  <2>2. CASE m # 3
    BY <1>2, <1>4, <2>2 DEF Eve
  <2> QED  BY <2>1, <2>2
<1> QED  BY <1>5, <1>6, <1>7 DEF Lands, e, days

\* The weekly expiries: one a week, each on a day the market is open.
LEMMA WeeklyRegular ==
    ASSUME NEW s \in {"NIFTY50", "SENSEX"}
    PROVE  s \in Regular
<1> DEFINE w == IF s = "SENSEX" THEN Thursday ELSE Tuesday
<1>1. w \in {Tuesday, Thursday} /\ \A x \in 1..365 : IsExpiryDay(s, x) <=> NextOrSame(x, w) = x
  BY SessionDays
<1> HIDE DEF w
<1>2. ASSUME NEW days \in Weeks PROVE \E d \in days : Expiries(s, days) = {d} /\ Lands(s, days, d)
  <2>1. PICK d \in {x \in 1..361 : Weekday(x) = 1} : days = d..d + 4
    BY DEF Weeks
  <2>2. d \in Int /\ days \subseteq 1..365
    BY <2>1
  <2>3. Adjusted(d + w - 1) \in days /\ \A x \in days : NextOrSame(x, w) = x <=> x = Adjusted(d + w - 1)
    <3>1. Weekday(d) = 1 /\ w \in {Tuesday, Thursday}
      BY <1>1
    <3> QED  BY <2>1, <2>2, <3>1, WeeklyOfWeek
  <2>4. \A x \in days : IsExpiryDay(s, x) <=> x = Adjusted(d + w - 1)
    BY <1>1, <2>2, <2>3
  <2>5. Expiries(s, days) = {Adjusted(d + w - 1)}
    BY <2>3, <2>4, OneExpiry
  <2>6. Lands(s, days, Adjusted(d + w - 1))
    <3>1. Weekday(d) = 1 /\ w = (IF s = "SENSEX" THEN Thursday ELSE Tuesday)
      BY <2>1 DEF w
    <3> QED  BY <2>1, <2>2, <3>1, WeeklyLands
  <2> QED  BY <2>3, <2>5, <2>6
<1>3. ASSUME NEW x \in Expiries(s, 1..365) PROVE ~IsHoliday(x)
  <2>1. x \in 1..365 /\ IsExpiryDay(s, x)
    BY DEF Expiries
  <2>2. NextOrSame(x, w) = x /\ x \in Int
    BY <1>1, <2>1
  <2> QED  BY <1>1, <2>2, WeeklyOpen
<1>4. s \in Listed /\ s # "BANKNIFTY"
  BY DEF Listed
<1> QED  BY <1>2, <1>3, <1>4 DEF Regular

\* The monthly expiry likewise, one a month.
LEMMA MonthlyRegular == "BANKNIFTY" \in Regular
<1> DEFINE s == "BANKNIFTY"
<1>1. \A m \in 1..12 : DayOf(m, 1)..MonthEnd[m] \subseteq 1..365
  BY MonthsIs DEF DayOf
<1>2. ASSUME NEW m \in 1..12, NEW x \in DayOf(m, 1)..MonthEnd[m]
      PROVE  IsExpiryDay(s, x) <=> x = LastTuesdays[m]
  <2>1. x \in 1..365
    BY <1>1
  <2>2. MonthOf(x) = m
    BY MonthOfDay
  <2>3. IsExpiryDay(s, x) <=> LastWeekday(MonthOf(x), Tuesday) = x
    BY <2>1, SessionDays
  <2>4. LastWeekday(m, Tuesday) = LastTuesdays[m]
    BY LastTuesdayIs
  <2> QED  BY <2>2, <2>3, <2>4
<1>3. ASSUME NEW days \in Months PROVE \E d \in days : Expiries(s, days) = {d} /\ Lands(s, days, d)
  <2>1. PICK m \in 1..12 : days = DayOf(m, 1)..MonthEnd[m]
    BY DEF Months
  <2>2. LastTuesdays[m] \in days
    BY <2>1, LastTuesdayIs
  <2>3. \A x \in days : IsExpiryDay(s, x) <=> x = LastTuesdays[m]
    BY <1>2, <2>1
  <2>4. Expiries(s, days) = {LastTuesdays[m]}
    BY <2>2, <2>3, OneExpiry
  <2> QED  BY <2>1, <2>2, <2>4, MonthlyLands
<1>4. ASSUME NEW x \in Expiries(s, 1..365) PROVE ~IsHoliday(x)
  <2>1. x \in 1..365 /\ IsExpiryDay(s, x)
    BY DEF Expiries
  <2>2. PICK m \in 1..12 : x \in DayOf(m, 1)..MonthEnd[m]
    BY <2>1, DayHasMonth
  <2>3. x = LastTuesdays[m]
    BY <1>2, <2>1, <2>2
  <2> QED  BY <2>3, LastTuesdayIs
<1>5. s \in Listed
  BY DEF Listed
<1> QED  BY <1>3, <1>4, <1>5 DEF Regular

\* In every week of the year a weekly contract has one session, in every month a monthly
\* one, on the day a holiday leaves open before the day due, save March's monthly session,
\* a week early; and so for the symbol of any chart.
THEOREM EveryExpiryOnce == DecisionSpec => []ExpiresOnce
<1>1. Listed \subseteq Regular
  BY WeeklyRegular, MonthlyRegular DEF Listed
<1>2. DecisionInit => ExpiresOnce
  BY <1>1 DEF ExpiresOnce
<1>3. ExpiresOnce /\ [DecisionNext]_decisionVars => ExpiresOnce'
  BY <1>1 DEF ExpiresOnce
<1> QED  BY <1>2, <1>3, PTL DEF DecisionSpec
=============================================================================
