--------------------------------- MODULE Desk ---------------------------------
(***************************************************************************)
(* The terminal's desk: which page is open, which symbol each chart pane   *)
(* shows, which panels are open and what is on the watchlists.  The state  *)
(* is that of two persisted stores, store/workspace.ts and store/prefs.ts, *)
(* and of the URL; every component of the desk writes to them.             *)
(*                                                                         *)
(* The page copies the symbol of the URL into a pane only when the URL     *)
(* changes, a pane that is clicked becomes active without a change of the  *)
(* URL, and the ids of symbols are the server's: those a browser has       *)
(* stored may be unknown when it is opened again.                          *)
(*                                                                         *)
(* A click is one step together with the effects that React runs before it *)
(* takes the next event.  Widths, chart types, overlays and drawing        *)
(* switches are left out; a book is the set of its symbols.                *)
(***************************************************************************)
EXTENDS Listing, Integers, Sequences, SequencesExt

CONSTANTS
    Home,          \* the symbol of NIFTY50
    Gone,          \* stored by the browser, unknown to the server
    Universe,      \* the fixed list of markets
    Layouts, PaneCount, Single,    \* LAYOUT_COUNTS and the layout "1"
    Frames,        \* timeframes
    Books, Mine,   \* ids of watchlists; "my-markets"
    RailTabs,      \* the bottom tabs on the rail
    PanelTabs,     \* tabs of the right panel
    RecentLimit,   \* RECENT_LIMIT
    MaxClicks      \* bound: what the user does

ASSUME MarketsAssumption ==
    /\ Gone \subseteq Symbols
    /\ Universe \subseteq Symbols \ Gone /\ Home \in Universe
ASSUME LayoutsAssumption ==
    /\ PaneCount \in [Layouts -> Nat \ {0}]
    /\ Single \in Layouts /\ PaneCount[Single] = 1
ASSUME BooksAssumption == Mine \in Books
ASSUME TabsAssumption ==
    /\ RailTabs \subseteq {"options", "depth", "positions", "alerts", "orders", "journal"}
    /\ {"ai", "watchlist", "options"} \subseteq PanelTabs
ASSUME ClicksAssumption == RecentLimit \in Nat \ {0} /\ MaxClicks \in Nat

VARIABLES
    page, route,   \* "home", "terminal" or "markets"; symbolId of the URL
    layout, panes, activePane,   \* panes: [id, sym, tf]; activePane: activePaneId
    panel,         \* panels: watch, right and bottom open, their tabs, focus, ...
    mobile,        \* useIsMobile
    books, open,   \* watchlistBooks by id, activeWatchlistId
    flat,          \* watchlist: the symbols of the open book
    catalog, recents, favorites,
    known,         \* symbols that useUniverseSymbols has resolved
    seeded,        \* mounted watchlist panels whose seeded ref is set
    clicks

place == <<page, route>>
charts == <<layout, panes, activePane>>
lists == <<books, open, flat, catalog>>
deskVars == <<place, charts, panel, mobile, lists, recents, favorites, known, seeded, clicks>>

Panels == {"left", "right"}
OnTerminal == page = "terminal"
Shown == IF \E i \in DOMAIN panes : panes[i].id = activePane
         THEN CHOOSE i \in DOMAIN panes : panes[i].id = activePane
         ELSE 1

-----------------------------------------------------------------------------
(* Panes.                                                                  *)

Pane(id, s, f) == [id |-> id, sym |-> s, tf |-> f]

\* resizePanes: a new pane takes the symbol and the timeframe of the first one.
Resized(count) ==
    [i \in 1..count |-> IF i <= Len(panes) THEN panes[i]
                        ELSE Pane(<<i, clicks>>, panes[1].sym, panes[1].tf)]

SetLayout(l) ==
    /\ layout' = l
    /\ panes' = Resized(PaneCount[l])
    /\ activePane' = IF \E i \in 1..PaneCount[l] : panes'[i].id = activePane
                     THEN activePane ELSE panes'[1].id

\* Mutant: the symbol goes to the first pane in every layout.
SyncPrimarySymbolMutant(s) ==
    /\ panes' = [panes EXCEPT ![1].sym = s]
    /\ activePane' = IF layout = Single THEN panes[1].id ELSE activePane
    /\ layout' = layout

\* syncPrimarySymbol: with one pane that pane and it becomes active, otherwise the
\* active pane.
SyncPrimarySymbol(s) ==
    /\ panes' = [i \in DOMAIN panes |->
                   IF (IF layout = Single THEN i = 1 ELSE panes[i].id = activePane)
                   THEN [panes[i] EXCEPT !.sym = s] ELSE panes[i]]
    /\ activePane' = IF layout = Single THEN panes[1].id ELSE activePane
    /\ layout' = layout

\* navigate("/terminal/s"): the effect runs when the page mounts or its symbol changes.
GoTo(s) ==
    /\ page' = "terminal"
    /\ route' = s
    /\ IF OnTerminal /\ route = s THEN UNCHANGED charts ELSE SyncPrimarySymbol(s)

-----------------------------------------------------------------------------
(* Watchlists and panels.                                                  *)

WithSymbol(bs, b, S) == [bs EXCEPT ![b] = @ \cup S]

LeftWatch(p, m) == p.watch /\ ~m
RightWatch(p) == p.right /\ p.rtab = "watchlist"

\* The watchlist panels on the screen.
Mounted(pg, p, m) ==
    IF pg # "terminal" \/ p.focus THEN {}
    ELSE {w \in Panels : IF w = "left" THEN LeftWatch(p, m) ELSE RightWatch(p)}

\* syncFlat: the flat list is the open book, as far as the catalog knows it.
SyncFlat(bs, b, cat) == bs[b] \cap cat

\* Mutant: the watchlist panel fills the first book, the flat list it does not touch.
SettledMutant(bs, b, cat, known_, mounted) ==
    LET seeds == {w \in mounted \ seeded : bs[Mine] = {} /\ known_ # {}} IN
    /\ seeded' = (seeded \cap mounted) \cup seeds
    /\ open' = b
    /\ books' = IF seeds = {} THEN bs ELSE WithSymbol(bs, Mine, known_)
    /\ flat' = bs[b]
    /\ catalog' = IF seeds = {} THEN cat ELSE cat \cup known_

\* The effect of WatchlistPanel: while "my-markets" is empty a panel adds the
\* universe, once for each time it is mounted, to the book that is open.
Settled(bs, b, cat, known_, mounted) ==
    LET seeds == {w \in mounted \ seeded : bs[Mine] = {} /\ known_ # {}} IN
    /\ seeded' = (seeded \cap mounted) \cup seeds
    /\ open' = b
    /\ books' = IF seeds = {} THEN bs ELSE WithSymbol(bs, b, known_)
    /\ catalog' = IF seeds = {} THEN cat ELSE cat \cup known_
    /\ flat' = SyncFlat(books', b, catalog')

\* Nothing but the set of mounted panels, the universe or the catalog changes.
SameBooks(cat) == Settled(books, open, cat, known', Mounted(page', panel', mobile'))

\* The terminal hides the strip on a small screen.
PanelFits(p) ==
    panel' = IF page' = "terminal" /\ mobile' /\ p.ai = "strip"
             THEN [p EXCEPT !.ai = "hidden"] ELSE p

OpenRight(p, tab) == [p EXCEPT !.right = TRUE, !.rtab = tab]
OpenBottom(p, tab) == [p EXCEPT !.bottom = TRUE, !.btab = tab]

\* openDeskWorkspace: orders and journal open on both sides.
OpenDesk(p, w) ==
    CASE w = "chart" -> [p EXCEPT !.desk = "chart"]
      [] w = "ai" -> [OpenRight(p, "ai") EXCEPT !.desk = "ai"]
      [] w \in {"orders", "journal"} ->
            [OpenRight(OpenBottom(p, w), w) EXCEPT !.desk = "chart"]
      [] OTHER -> [OpenBottom(p, w) EXCEPT !.desk = "chart"]

-----------------------------------------------------------------------------
(* What the user does.                                                     *)

Click ==
    /\ clicks < MaxClicks
    /\ clicks' = clicks + 1

\* pushRecent.
Pushed(s) ==
    LET rest == SelectSeq(recents, LAMBDA r : r # s)
    IN SubSeq(<<s>> \o rest, 1, IF Len(rest) < RecentLimit THEN Len(rest) + 1 ELSE RecentLimit)

\* useSelectSymbol, with what the caller does to the panels.
Select(s, p) ==
    /\ Click
    /\ recents' = Pushed(s)
    /\ GoTo(s)
    /\ UNCHANGED <<mobile, favorites, known>>
    /\ PanelFits(p)
    /\ SameBooks(catalog \cup {s})

\* Rows of the watchlist panels; an empty book shows the universe.
Rows == IF flat # {} THEN flat ELSE known

PickRow ==
    \E s \in Rows : Mounted(page, panel, mobile) # {} /\ Select(s, panel)

\* MarketsPage, WatchlistPage.
PickMarket == \E s \in known : page = "markets" /\ Select(s, panel)

\* MarketStrip.
PickChip ==
    \E s \in known :
        /\ OnTerminal /\ ~mobile /\ ~panel.focus
        /\ Select(s, OpenDesk(panel, "chart"))

\* SymbolSearchModal lists recents, favorites and what the server finds.
Found == ToSet(recents) \cup favorites \cup (Symbols \ Gone)

SearchPick ==
    \E s \in Found, options \in BOOLEAN :
        /\ OnTerminal /\ panel.search
        /\ LET p == [panel EXCEPT !.search = FALSE] IN
           Select(s, IF options THEN OpenRight(p, "options") ELSE p)

\* A symbol is chosen, wherever it is listed.
Choose == PickRow \/ PickMarket \/ PickChip \/ SearchPick

\* toggleFavorite.
ToggleFavorite ==
    \E s \in Found :
        /\ OnTerminal /\ panel.search
        /\ Click
        /\ favorites' = IF s \in favorites THEN favorites \ {s} ELSE favorites \cup {s}
        /\ UNCHANGED <<place, charts, panel, mobile, recents, known>>
        /\ SameBooks(catalog \cup {s})

\* The chart link of IconRail and MobileNav.
ChartId ==
    IF recents # <<>> THEN {recents[1]}
    ELSE IF flat # {} THEN flat
    ELSE known

\* MobileNav's sheets open the chart as well.
OpenChart ==
    \E s \in ChartId, tab \in PanelTabs \cup {"none"} :
        /\ page = "markets"
        /\ tab # "none" => mobile
        /\ Click
        /\ GoTo(s)
        /\ UNCHANGED <<mobile, recents, favorites, known>>
        /\ PanelFits(IF tab = "none" THEN panel ELSE OpenRight(panel, tab))
        /\ SameBooks(catalog)

\* A link to a page without charts, or to "/".
LeaveTerminal ==
    \E pg \in {"home", "markets"} :
        /\ page # pg
        /\ Click
        /\ page' = pg /\ route' = NoSymbol
        /\ UNCHANGED <<charts, panel, mobile, recents, favorites, known>>
        /\ SameBooks(catalog)

PickLayout ==
    \E l \in Layouts :
        /\ OnTerminal /\ l # layout
        /\ Click
        /\ SetLayout(l)
        /\ UNCHANGED <<place, panel, mobile, lists, recents, favorites, known, seeded>>

\* Mouse down on a pane.
SetActivePane ==
    \E i \in DOMAIN panes :
        /\ OnTerminal /\ i # Shown
        /\ Click
        /\ activePane' = panes[i].id
        /\ UNCHANGED <<place, layout, panes, panel, mobile, lists, recents, favorites,
                       known, seeded>>

\* The toolbar acts on the pane that is shown as active.
SetPaneTimeframe ==
    \E f \in Frames :
        /\ OnTerminal
        /\ Click
        /\ panes' = [panes EXCEPT ![Shown].tf = f]
        /\ UNCHANGED <<place, layout, activePane, panel, mobile, lists, recents, favorites,
                       known, seeded>>

\* A click on the panels of the terminal, or a window that is resized.
SetPanels(p, m) ==
    /\ OnTerminal
    /\ Click
    /\ mobile' = m
    /\ UNCHANGED <<place, charts, recents, favorites, known>>
    /\ PanelFits(p)
    /\ SameBooks(catalog)

\* The rail beside the chart closes what is open at the bottom, and no more.
RailButton ==
    /\ ~mobile /\ ~panel.focus
    /\ \/ SetPanels([panel EXCEPT !.watch = ~@], mobile)
       \/ \E w \in RailTabs :
             SetPanels(IF panel.bottom /\ panel.btab = w
                       THEN [panel EXCEPT !.bottom = FALSE] ELSE OpenDesk(panel, w), mobile)
       \/ SetPanels(IF panel.right /\ panel.rtab = "ai"
                    THEN [panel EXCEPT !.right = FALSE] ELSE OpenRight(panel, "ai"), mobile)

\* The header's "Markets", "Options" and "Desk".
HeaderButton ==
    /\ ~mobile /\ ~panel.focus
    /\ \/ SetPanels([panel EXCEPT !.watch = TRUE], mobile)
       \/ \E w \in {"chart", "options", "ai"} : SetPanels(OpenDesk(panel, w), mobile)

\* Tabs and cross of the panel on the right.
RightButton ==
    /\ ~panel.focus /\ panel.right
    /\ \/ \E tab \in PanelTabs : SetPanels(OpenRight(panel, tab), mobile)
       \/ SetPanels([panel EXCEPT !.right = FALSE], mobile)

\* ... and of the one at the bottom.
BottomButton ==
    /\ ~panel.focus /\ panel.bottom /\ ~mobile
    /\ \/ \E tab \in RailTabs : SetPanels(OpenBottom(panel, tab), mobile)
       \/ SetPanels([panel EXCEPT !.bottom = FALSE], mobile)

\* MobileNav on the terminal: the sheets of a small screen.
SheetButton ==
    /\ mobile
    /\ \E tab \in PanelTabs : SetPanels(OpenRight(panel, tab), mobile)

\* FloatingAiButton: in focus mode it asks for a strip that nothing shows any more.
FloatingAiButton ==
    /\ panel.focus \/ ~(panel.right /\ panel.rtab = "ai")
    /\ SetPanels(IF panel.focus THEN [panel EXCEPT !.ai = "strip"] ELSE OpenRight(panel, "ai"),
                 mobile)

\* F, Escape, the focus and exit buttons; Ctrl+K and the search modal; the window.
ToggleAnalysisMode == SetPanels([panel EXCEPT !.focus = ~@], mobile)
ToggleSearch == SetPanels([panel EXCEPT !.search = ~@], mobile)
ResizeWindow == SetPanels(panel, ~mobile)

\* The open book changes; its content is shown at once.
SetActiveWatchlist ==
    \E b \in DOMAIN books :
        /\ Mounted(page, panel, mobile) # {}
        /\ b # open
        /\ Click
        /\ UNCHANGED <<place, charts, panel, mobile, recents, favorites, known>>
        /\ Settled(books, b, catalog, known, Mounted(page, panel, mobile))

\* The books with a new, empty one.
Started(b) ==
    [x \in DOMAIN books \cup {b} |-> IF x = b THEN {} ELSE books[x]]

CreateWatchlist ==
    \E b \in Books \ DOMAIN books :
        /\ Mounted(page, panel, mobile) # {}
        /\ Click
        /\ UNCHANGED <<place, charts, panel, mobile, recents, favorites, known>>
        /\ Settled(Started(b), b, catalog, known, Mounted(page, panel, mobile))

\* Only rows of the universe have a cross; it may stand in a book that is empty.
RemoveWatch ==
    \E s \in Rows \cap known :
        /\ Mounted(page, panel, mobile) # {}
        /\ Click
        /\ UNCHANGED <<place, charts, panel, mobile, recents, favorites, known>>
        /\ Settled([books EXCEPT ![open] = @ \ {s}], open, catalog, known,
                   Mounted(page, panel, mobile))

\* Panes and lists come back from localStorage, the URL is still the same; focus,
\* search and what the server said are gone.
Reload ==
    /\ Click
    /\ known' = {}
    /\ UNCHANGED <<place, mobile, lists, recents, favorites>>
    /\ seeded' = {}
    /\ IF OnTerminal THEN SyncPrimarySymbol(route) ELSE UNCHANGED charts
    /\ PanelFits([panel EXCEPT !.focus = FALSE, !.search = FALSE])

-----------------------------------------------------------------------------
(* What the server answers.                                                *)

\* The query of one market of the universe.
UniverseAnswer(s) ==
    /\ s \in Universe \ known
    /\ known' = known \cup {s}
    /\ UNCHANGED <<place, charts, panel, mobile, recents, favorites, clicks>>
    /\ SameBooks(catalog)

\* TerminalHomeRedirect: NIFTY, the first recent symbol the server knows, any.
HomeSymbols ==
    IF Home \in known THEN {Home}
    ELSE LET live == SelectSeq(recents, LAMBDA r : r \in known) IN
         IF live # <<>> THEN {live[1]} ELSE known

HomeRedirect ==
    \E s \in HomeSymbols :
        /\ page = "home"
        /\ GoTo(s)
        /\ UNCHANGED <<mobile, recents, favorites, known, clicks>>
        /\ PanelFits(panel)
        /\ SameBooks(catalog)

\* Mutant: only a malformed id counts as missing, not one the server does not know.
MissingMutant(s) == FALSE

\* The quote of the URL's symbol ends in 404 with the id as its message, or in 422.
Missing(s) == s \in Gone

RedirectMissing ==
    /\ OnTerminal
    /\ Missing(route)
    /\ Home \in known
    /\ GoTo(Home)
    /\ UNCHANGED <<mobile, recents, favorites, known, clicks>>
    /\ PanelFits(panel)
    /\ SameBooks(catalog)

-----------------------------------------------------------------------------
ClosedPanels ==
    [watch |-> FALSE, right |-> FALSE, rtab |-> "ai", bottom |-> FALSE, btab |-> "options",
     ai |-> "hidden", focus |-> FALSE, search |-> FALSE, desk |-> "chart"]

\* migrate of the workspace: one pane is left of an older layout, and the active pane
\* may be one that is not.
StoredPanes ==
    \E f \in Frames, s \in {NoSymbol} \cup Gone, n \in {1, 2} :
        /\ s = NoSymbol => n = 1
        /\ panes = <<Pane(<<1, 0>>, s, f)>>
        /\ activePane = <<n, 0>>

\* migrate of the preferences: the catalog is what the lists hold, and the open book
\* is flattened anew; the symbol seen last may be gone.
StoredLists ==
    /\ recents = IF panes[1].sym = NoSymbol THEN <<>> ELSE <<panes[1].sym>>
    /\ books \in [{Mine} -> IF recents = <<>> THEN {{}} ELSE {{}, Universe \cup Gone}]
    /\ open = Mine /\ favorites = {}
    /\ catalog = books[Mine] \cup ToSet(recents)
    /\ flat = SyncFlat(books, open, catalog)

\* A new browser, or one with the stores of an older version.
DeskInit ==
    /\ page = "home" /\ route = NoSymbol
    /\ layout = Single /\ panel = ClosedPanels
    /\ mobile \in BOOLEAN
    /\ StoredPanes /\ StoredLists
    /\ known = {} /\ seeded = {} /\ clicks = 0

UserClicks ==
    \/ Choose \/ ToggleFavorite
    \/ OpenChart \/ LeaveTerminal
    \/ PickLayout \/ SetActivePane \/ SetPaneTimeframe
    \/ RailButton \/ HeaderButton \/ RightButton \/ BottomButton \/ SheetButton
    \/ FloatingAiButton
    \/ ToggleAnalysisMode \/ ToggleSearch \/ ResizeWindow
    \/ SetActiveWatchlist \/ CreateWatchlist \/ RemoveWatch
    \/ Reload

DeskNext ==
    \/ UserClicks
    \/ \E s \in Universe : UniverseAnswer(s)
    \/ HomeRedirect
    \/ RedirectMissing

DeskSpec == DeskInit /\ [][DeskNext]_deskVars

\* The server answers, and effects run; the user is free to do nothing.
DeskFairSpec ==
    /\ DeskSpec
    /\ \A s \in Universe : WF_deskVars(UniverseAnswer(s))
    /\ WF_deskVars(HomeRedirect) /\ WF_deskVars(RedirectMissing)

-----------------------------------------------------------------------------
(* Properties.                                                             *)

\* The layout has as many panes as it says, with ids of their own, and on the
\* terminal one of them is the active one; recents are distinct and bounded.
DeskTypeOK ==
    /\ page \in {"home", "terminal", "markets"}
    /\ route \in Symbols \cup {NoSymbol} /\ (OnTerminal <=> route # NoSymbol)
    /\ layout \in Layouts /\ Len(panes) = PaneCount[layout]
    /\ \A i \in DOMAIN panes :
          /\ panes[i].sym \in Symbols \cup {NoSymbol} /\ panes[i].tf \in Frames
          /\ \A j \in DOMAIN panes : panes[i].id = panes[j].id => i = j
    /\ OnTerminal => \E i \in DOMAIN panes : panes[i].id = activePane
    /\ panel.rtab \in PanelTabs \cup RailTabs /\ panel.btab \in RailTabs \cup {"options"}
    /\ known \subseteq Universe /\ favorites \subseteq Symbols
    /\ Len(recents) <= RecentLimit
    /\ \A i, j \in DOMAIN recents : recents[i] = recents[j] => i = j

\* Choosing a symbol makes the chart in view show it, unless the URL names it already: the
\* page copies a symbol only when the URL changes (TerminalPage.tsx:89), so then no chart
\* moves, even if the one in view, clicked since, shows another (useSelectSymbol.ts:24).
\* Nothing ever moves a chart but the one in view, nor to a symbol that is not the URL's.
OneChartMoves ==
    [][/\ Choose => IF OnTerminal /\ route' = route
                    THEN panes' = panes ELSE panes'[Shown'].sym = route'
       /\ \A i \in DOMAIN panes \cap DOMAIN panes' :
             /\ panes'[i].id = panes[i].id
             /\ panes'[i].sym # panes[i].sym
             => panes'[i].id = activePane' /\ panes'[i].sym = route'
       /\ route' \notin {route, NoSymbol} => panes'[Shown'].sym = route']_deskVars

\* What the panels list is the open book: no symbol of it is lost for want of a
\* catalog entry and none of another book is shown, whichever handler changed books.
ListsAgree ==
    /\ open \in DOMAIN books
    /\ flat = books[open]
    /\ (UNION {books[b] : b \in DOMAIN books}) \cup favorites \subseteq catalog

\* A symbol the server does not know is left again: sooner or later the URL names
\* another one (panes that are not active keep it).
GoneIsLeft == [](OnTerminal /\ route \in Gone => <>(route \notin Gone))

=============================================================================
