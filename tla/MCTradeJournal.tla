---------------------------- MODULE MCTradeJournal ----------------------------
(* Values for the constants of TradeJournal and TradeReports.               *)
EXTENDS TradeReports, TLC

\* A buy whose first target is at two risks, the same spelt "bullish" with wider zones,
\* and a sell whose target is so near that the plan projects its own.
MCBuy == [dir |-> 1, worded |-> FALSE, low |-> 4, high |-> 4, entry |-> 4, stop |-> 3,
          cut |-> 3, t1 |-> 6, near1 |-> 6, far1 |-> 6, near2 |-> 7, far2 |-> 7]
MCBullish == [dir |-> 1, worded |-> TRUE, low |-> 5, high |-> 5, entry |-> 5, stop |-> 3,
              cut |-> 4, t1 |-> 8, near1 |-> 7, far1 |-> 9, near2 |-> Nil, far2 |-> Nil]
MCSell == [dir |-> -1, worded |-> FALSE, low |-> 5, high |-> 5, entry |-> 5, stop |-> 6,
           cut |-> 6, t1 |-> 4, near1 |-> 5, far1 |-> 3, near2 |-> Nil, far2 |-> Nil]
MCSetups == {MCBuy, MCBullish, MCSell}
MCKept == {{k} : k \in Stores}
MCFirst == CHOOSE c \in Charts : TRUE
MCAct(s) == [setup |-> s, act |-> TRUE, strong |-> s.dir = 1, expired |-> s.dir = -1]
MCWait(s, hypo) == [setup |-> s, act |-> FALSE, hypo |-> hypo, evidence |-> s # Nil]
MCIdle == MCWait(Nil, 0)
\* Two stores see the bullish setup, which the intraday profiles sell.  The personalities look at the price alone.
MCDecisions(k) == IF k = {"personality"} THEN {MCIdle}
                  ELSE {MCAct(IF k \cap {"paper", "journal"} # {} THEN MCBullish ELSE MCBuy),
                        MCAct(MCSell), MCIdle, MCWait(MCBuy, 1)}
MCPrices(k) == CASE k = {"validation"} -> {3, 4, 6}
                 [] k = {"paper"} -> {3, 4, 6, 9}
                 [] OTHER -> {3, 4, 6, 7}
\* The first chart moves; the second waits, unless the plans are what is followed.
MCFeed == [k \in MCKept |-> [c \in Charts |->
    IF c = MCFirst
    THEN {[price |-> x] @@ d : x \in MCPrices(k), d \in MCDecisions(k)}
    ELSE {[price |-> 4] @@ MCIdle}
         \cup {m \in {[price |-> x] @@ MCAct(MCBuy) : x \in {3, 4}} : k = {"plans"}}]]
MCPersonalities == {[name |-> "trend", pref |-> 1], [name |-> "range", pref |-> 0]}
\* What the reports sort by: one strategy each, the two charts of one symbol.
MCStrategyOf == [s \in MCSetups |-> IF s = MCBuy THEN "ob" ELSE "fvg"]
MCTypeOf == [s \in MCSetups |-> IF s = MCBuy THEN "zone" ELSE "gap"]
MCConfidenceOf == [s \in MCSetups |-> IF s = MCBuy THEN 80 ELSE 62]
MCSymbolOf == [c \in Charts |-> "btc"]
MCMarketOf == [c \in Charts |-> "crypto"]
MCTimeframeOf == [c \in Charts |-> IF c = MCFirst THEN "15m" ELSE "5m"]
MCLadder == {2, 3}
MCSymmetry == Permutations(Panes)
=============================================================================
