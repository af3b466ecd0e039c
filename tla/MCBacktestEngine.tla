--------------------------- MODULE MCBacktestEngine ---------------------------
(* A finite instance of BacktestEngine: a buy and a sell plan around 10, and a buy *)
(* that is detected on the last candle of a window.                               *)
EXTENDS BacktestEngine

MCPlans == {"buy", "sell", "late"}
MCPlanOf ==
    [buy  |-> [dir |-> 1, low |-> 10, high |-> 11, stop |-> 8,
               t1 |-> 14, t2 |-> 15, t3 |-> NoPrice, detected |-> 1, expiration |-> 1],
     sell |-> [dir |-> -1, low |-> 13, high |-> 14, stop |-> 16,
               t1 |-> 11, t2 |-> 9, t3 |-> 8, detected |-> 4, expiration |-> 1],
     late |-> [dir |-> 1, low |-> 10, high |-> 11, stop |-> 8,
               t1 |-> 14, t2 |-> 15, t3 |-> NoPrice, detected |-> 3, expiration |-> 1]]

Bar(o, h, l, c) == [open |-> o, high |-> h, low |-> l, close |-> c]

\* Flat at the entries, a narrow one at the sell's entry, one
\* beyond the second target and the sell's stop, and a wide one that touches all but
\* the second target of the buys.
MCBars == {Bar(10, 11, 10, 11), Bar(12, 13, 12, 12), Bar(14, 16, 13, 15), Bar(12, 14, 8, 12)}
MCSizes == {0, 4}
\* A quarter, the default half (which the engine takes for the whole) and all of it.
MCShares == {1, 2, 4}
=============================================================================
