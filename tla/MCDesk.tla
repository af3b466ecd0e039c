-------------------------------- MODULE MCDesk --------------------------------
(* An instance of Desk for TLC. *)
EXTENDS Desk

CONSTANTS nifty, btc, old
MCSymbols == {nifty, btc, old}
MCUniverse == {nifty, btc}
MCGone == {old}
MCLayouts == {"1", "2v"}
MCPaneCount == [l \in MCLayouts |-> IF l = "1" THEN 1 ELSE 2]
MCFrames == {"5m", "1h"}
MCBooks == {"my-markets", "new"}
MCRailTabs == {"options", "orders"}
MCPanelTabs == {"ai", "watchlist", "options", "orders"}
=============================================================================
