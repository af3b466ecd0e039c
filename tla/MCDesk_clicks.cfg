CONSTANTS
    nifty = nifty
    btc = btc
    old = old
    Symbols <- MCSymbols
    NoSymbol = NoSymbol
    Home = nifty
    Gone <- MCGone
    Universe <- MCUniverse
    Layouts <- MCLayouts
    PaneCount <- MCPaneCount
    Single = "1"
    Frames <- MCFrames
    Books <- MCBooks
    Mine = "my-markets"
    RailTabs <- MCRailTabs
    PanelTabs <- MCPanelTabs
    RecentLimit = 2
    MaxClicks = 4
SPECIFICATION DeskFairSpec
INVARIANT ListsAgree
PROPERTIES OneChartMoves GoneIsLeft
CHECK_DEADLOCK FALSE
