---------------------------- MODULE MCChartDrawings ----------------------------
(* Two panes over two symbols for TLC; panes, symbols and spots are interchangeable. *)
EXTENDS ChartDrawings, TLC

CONSTANTS left, right, nifty, btc, here, there
MCPanes == {left, right}
MCSymbols == {nifty, btc}
MCSpots == {here, there}
MCSymmetry == Permutations(MCPanes) \cup Permutations(MCSymbols) \cup Permutations(MCSpots)
=============================================================================
