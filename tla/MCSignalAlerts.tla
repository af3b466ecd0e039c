--------------------------- MODULE MCSignalAlerts ---------------------------
(* Instances of SignalAlerts for TLC.                                      *)
EXTENDS SignalAlerts, TLC

CONSTANTS s1, nifty, bank

Buy == [dir |-> "BUY", entry |-> 10000, stop |-> 9900,
        targets |-> <<10100, 10200, 10300>>]

\* Two markets, a buy setup in one of them: the whole ladder of levels.
TwoMarketWatch == <<nifty, bank>>
OneMarketOf == s1 :> nifty
OneKey == s1 :> "ob"
LadderLevels == s1 :> Buy
\* Below the stop, near the entry only, at the first and at the second target.
LadderPrices == {9890, 10012, 10100, 10200}
=============================================================================
