CONSTANTS
    left = left
    right = right
    nifty = nifty
    btc = btc
    here = here
    there = there
    Panes <- MCPanes
    Symbols <- MCSymbols
    Spots <- MCSpots
    MaxIds = 1
    MaxMenus = 1
    MaxCancels = 1
    Nil = Nil
SPECIFICATION Spec
SYMMETRY MCSymmetry
PROPERTIES KeepsTheShelf NoStrayAnchor
