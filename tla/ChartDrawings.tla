---------------------------- MODULE ChartDrawings ----------------------------
(***************************************************************************)
(* The drawing layer of the terminal's charts: one DrawingOverlay per pane *)
(* over a store of drawings shared by all panes, the toolbar and the page's *)
(* keys.  Selection and gesture refs belong to an overlay, the tool and the *)
(* anchor of a drawing in the making (`draft`) to everybody, so a press, a  *)
(* key, a symbol switch and the click that ends a press can meet in any     *)
(* order.  Each action is one event handler with the effects its state      *)
(* changes trigger.  Coordinates are abstracted to Spots; which drawing the *)
(* hit test finds, and whether a pointer is over the series, is left open.  *)
(* Tools are grouped by what a click or a stroke does with them: "one"      *)
(* (hline, vline, text), "two" (lines, shapes, fib, positions), "measure",  *)
(* "brush", "eraser", and the two that do not draw.                         *)
(***************************************************************************)
EXTENDS Naturals, FiniteSets

CONSTANTS
    Panes,      \* chart panes, each with its overlay
    Symbols,
    Spots,      \* where a pointer or a drawing may be
    MaxIds,     \* bound: drawings ever made
    MaxMenus,   \* bound: context menus open at the same time
    MaxCancels, \* bound: presses cut off by the browser
    Nil

ASSUME PanesAssumption == Panes # {} /\ Nil \notin Panes
ASSUME SpotsAssumption == Nil \notin Spots /\ Spots # {}
ASSUME IdsAssumption == MaxIds \in Nat /\ Nil \notin 1 .. MaxIds
ASSUME BoundsAssumption == MaxMenus \in Nat /\ MaxCancels \in Nat

VARIABLES
    drawings,   \* the store: per symbol, the ids of its drawings
    spot,       \* where a drawing is
    next,       \* ids drawn so far
    shown,      \* the symbol of a pane
    tool, locked, hidden, focus, draft,
    selected, drag, didDrag, stroke, brush, menu,  \* the overlay of a pane
    press,      \* the pointer: Nil, or the pane it went down on and the phase
    cancels     \* presses cut off so far

vars == <<drawings, spot, next, shown, tool, locked, hidden, focus, draft,
          selected, drag, didDrag, stroke, brush, menu, press, cancels>>
store == <<drawings, spot, next>>
toggles == <<locked, hidden, focus>>
overlay == <<selected, drag, didDrag, stroke, brush, menu>>

Ids == 1 .. MaxIds
Tools == {"cursor", "crosshair", "one", "two", "measure", "brush", "eraser"}
Drawing == Tools \ {"cursor", "crosshair"}
TwoPoint == {"two", "measure"}

TypeOK ==
    /\ drawings \in [Symbols -> SUBSET Ids]
    /\ spot \in [Ids -> Spots]
    /\ next \in 0 .. MaxIds
    /\ shown \in [Panes -> Symbols]
    /\ tool \in Tools
    /\ locked \in BOOLEAN /\ hidden \in BOOLEAN /\ focus \in BOOLEAN
    /\ draft \in Spots \cup {Nil}
    /\ selected \in [Panes -> Ids \cup {Nil}]
    /\ drag \in [Panes -> Ids \cup {Nil}]
    /\ didDrag \in [Panes -> BOOLEAN]
    /\ stroke \in [Panes -> [at : Spots, moved : BOOLEAN] \cup {Nil}]
    /\ brush \in [Panes -> 0 .. 2]
    /\ menu \in [Panes -> [hit : Ids \cup {Nil}] \cup {Nil}]
    /\ cancels \in 0 .. MaxCancels
    /\ press \in [pane : Panes, up : BOOLEAN, made : BOOLEAN] \cup {Nil}

-----------------------------------------------------------------------------
Blank(value) == [p \in Panes |-> value]
FreshOverlays ==
    /\ selected' = Blank(Nil) /\ drag' = Blank(Nil) /\ didDrag' = Blank(FALSE)
    /\ stroke' = Blank(Nil) /\ brush' = Blank(0) /\ menu' = Blank(Nil)

Init ==
    /\ drawings = [s \in Symbols |-> {}]
    /\ spot \in [Ids -> Spots] /\ \A i, j \in Ids : spot[i] = spot[j]
    /\ next = 0
    /\ shown \in [Panes -> Symbols]
    /\ tool = "cursor" /\ draft = Nil
    /\ locked = FALSE /\ hidden = FALSE /\ focus = FALSE
    /\ selected = Blank(Nil) /\ drag = Blank(Nil) /\ didDrag = Blank(FALSE)
    /\ stroke = Blank(Nil) /\ brush = Blank(0) /\ menu = Blank(Nil)
    /\ press = Nil /\ cancels = 0

Here(p) == drawings[shown[p]]
\* The overlay takes the pointer away from the chart.
Capture(p) == ~hidden /\ (tool \in Drawing \/ selected[p] # Nil \/ draft # Nil)
Interactive(p) == ~hidden /\ (tool # "crosshair" \/ selected[p] # Nil \/ draft # Nil)
Free == press = Nil
\* The click of a press is dispatched right after its up.
Settled == IF Free THEN TRUE ELSE ~press.up

\* hitTestAt: any drawing of the pane's symbol may be near the pointer, or none.
Hits(p) == IF hidden THEN {Nil} ELSE Here(p) \cup {Nil}
\* readPoint: the spot under the pointer, snapped by the magnet, or Nil off the series.
Points == Spots \cup {Nil}

-----------------------------------------------------------------------------
(* Effects of handlers on the store.                                       *)

Forget(s, ids) ==
    /\ drawings' = [drawings EXCEPT ![s] = @ \ ids]
    /\ UNCHANGED <<spot, next>>

PlaceAndSelect(p, at) ==
    /\ next < MaxIds
    /\ next' = next + 1
    /\ drawings' = [drawings EXCEPT ![shown[p]] = @ \cup {next + 1}]
    /\ spot' = [spot EXCEPT ![next + 1] = at]
    /\ selected' = [selected EXCEPT ![p] = next + 1]
    /\ tool' = "cursor"
    /\ draft' = Nil

\* A measurement shows its result and puts nothing in the store.
Finish(p, at) ==
    IF tool = "measure"
    THEN draft' = Nil /\ UNCHANGED <<store, tool, selected>>
    ELSE PlaceAndSelect(p, at)

\* update() replaces the drawing with this id among those of the pane's symbol.
Update(p, id, at) ==
    /\ spot' = IF id \in Here(p) THEN [spot EXCEPT ![id] = at] ELSE spot
    /\ UNCHANGED <<drawings, next>>

-----------------------------------------------------------------------------
(* The pointer on an overlay: down, moves, up, and the click that follows. *)

PointerDown(p) ==
    /\ Free /\ Capture(p)
    /\ press' = [pane |-> p, up |-> FALSE, made |-> FALSE]
    /\ UNCHANGED <<store, shown, toggles, tool, draft, menu>>
    /\ \/ /\ locked \/ tool \in {"crosshair", "one", "eraser"}
          /\ UNCHANGED <<selected, drag, didDrag, stroke, brush>>
       \/ /\ ~locked /\ tool = "cursor"
          /\ \E h \in Hits(p), at \in Points :
                IF h = Nil \/ at = Nil THEN UNCHANGED <<selected, drag, didDrag>>
                ELSE /\ selected' = [selected EXCEPT ![p] = h]
                     /\ drag' = [drag EXCEPT ![p] = h]
                     /\ didDrag' = [didDrag EXCEPT ![p] = FALSE]
          /\ UNCHANGED <<stroke, brush>>
       \/ /\ ~locked /\ tool \in TwoPoint
          /\ \E at \in Points :
                stroke' = IF draft # Nil \/ at = Nil THEN stroke
                          ELSE [stroke EXCEPT ![p] = [at |-> at, moved |-> FALSE]]
          /\ UNCHANGED <<selected, drag, didDrag, brush>>
       \/ /\ ~locked /\ tool = "brush"
          /\ \E at \in Points :
                brush' = IF at = Nil THEN brush ELSE [brush EXCEPT ![p] = 1]
          /\ UNCHANGED <<selected, drag, didDrag, stroke>>

\* Moves reach the overlay that captured the press, or the one under the pointer.
PointerMove(p) ==
    /\ \/ press # Nil /\ press.pane = p /\ ~press.up
       \/ Free /\ Capture(p)
    /\ UNCHANGED <<shown, toggles, tool, selected, drag, menu, press>>
    /\ \/ /\ drag[p] # Nil /\ ~locked
          /\ \E at \in Spots : Update(p, drag[p], at)
          /\ didDrag' = [didDrag EXCEPT ![p] = TRUE]
          /\ UNCHANGED <<stroke, brush, draft>>
       \/ /\ drag[p] = Nil \/ locked
          /\ stroke[p] # Nil
          /\ stroke' = [stroke EXCEPT ![p].moved = TRUE]
          /\ draft' = stroke[p].at
          /\ UNCHANGED <<store, didDrag, brush>>
       \/ /\ drag[p] = Nil \/ locked
          /\ stroke[p] = Nil
          /\ ~(draft # Nil /\ tool \in TwoPoint)
          /\ tool = "brush" /\ brush[p] # 0
          /\ brush' = [brush EXCEPT ![p] = 2]
          /\ UNCHANGED <<store, didDrag, stroke, draft>>

PointerUp(p) ==
    /\ press # Nil /\ press.pane = p /\ ~press.up
    /\ UNCHANGED <<shown, toggles, menu>>
    /\ \/ /\ stroke[p] # Nil
          /\ stroke' = [stroke EXCEPT ![p] = Nil]
          /\ \/ /\ stroke[p].moved
                /\ \E to \in Spots \ {stroke[p].at} : Finish(p, stroke[p].at)
                /\ didDrag' = [didDrag EXCEPT ![p] = TRUE]
                /\ press' = [press EXCEPT !.up = TRUE, !.made = TRUE]
             \/ /\ press' = [press EXCEPT !.up = TRUE]   \* back on its start
                /\ UNCHANGED <<store, tool, selected, draft, didDrag>>
          /\ UNCHANGED <<drag, brush>>
       \/ /\ stroke[p] = Nil /\ drag[p] # Nil
          /\ drag' = [drag EXCEPT ![p] = Nil]
          /\ press' = [press EXCEPT !.up = TRUE]
          /\ UNCHANGED <<store, tool, selected, draft, didDrag, stroke, brush>>
       \/ /\ stroke[p] = Nil /\ drag[p] = Nil
          /\ brush' = [brush EXCEPT ![p] = 0]
          /\ IF tool = "brush" /\ brush[p] = 2
             THEN /\ \E at \in Spots : PlaceAndSelect(p, at)
                  /\ press' = [press EXCEPT !.up = TRUE, !.made = TRUE]
             ELSE /\ press' = [press EXCEPT !.up = TRUE]
                  /\ UNCHANGED <<store, tool, selected, draft>>
          /\ UNCHANGED <<drag, didDrag, stroke>>

\* onClick after the swallowed click of a drag: select, erase, anchor or finish.
ClickTool(p) ==
    \/ /\ ~Interactive(p) \/ tool = "crosshair" \/ tool = "brush"
       /\ UNCHANGED <<store, tool, selected, draft>>
    \/ /\ Interactive(p) /\ locked /\ tool # "measure"
       /\ UNCHANGED <<store, tool, selected, draft>>
    \/ /\ Interactive(p) /\ ~locked /\ tool = "cursor"
       /\ \E h \in Hits(p) : selected' = [selected EXCEPT ![p] = h]
       /\ UNCHANGED <<store, tool, draft>>
    \/ /\ Interactive(p) /\ ~locked /\ tool = "eraser"
       /\ \E h \in Here(p) :              \* the one hit, else removeNearest
             /\ Forget(shown[p], {h})
             /\ selected' = [selected EXCEPT ![p] = IF @ = h THEN Nil ELSE @]
       /\ UNCHANGED <<tool, draft>>
    \/ /\ Interactive(p) /\ ~locked /\ tool = "one"
       /\ \E at \in Spots : PlaceAndSelect(p, at)
    \/ /\ Interactive(p) /\ tool \in TwoPoint /\ (~locked \/ tool = "measure")
       /\ IF draft = Nil
          THEN draft' \in Spots /\ UNCHANGED <<store, tool, selected>>
          ELSE Finish(p, draft)
    \/ /\ Interactive(p)                  \* off the series, or the prompt cancelled
       /\ tool \in {"one", "two", "measure", "eraser"}
       /\ UNCHANGED <<store, tool, selected, draft>>

\* Mutant: the click after a stroke or a drag is handled like any other.
SwallowedMutant(p) == FALSE
Swallowed(p) == didDrag[p]

Click(p) ==
    /\ press # Nil /\ press.pane = p /\ press.up
    /\ press' = Nil
    /\ menu' = [menu EXCEPT ![p] = Nil]
    /\ didDrag' = [didDrag EXCEPT ![p] = FALSE]
    /\ IF Swallowed(p) THEN UNCHANGED <<store, tool, selected, draft>> ELSE ClickTool(p)
    /\ UNCHANGED <<shown, toggles, drag, stroke, brush>>

\* The browser ends the press without an up: nothing in the overlay listens.
PointerCancel ==
    /\ press # Nil /\ ~press.up
    /\ cancels < MaxCancels
    /\ cancels' = cancels + 1
    /\ press' = Nil
    /\ UNCHANGED <<store, shown, toggles, tool, draft, overlay>>

-----------------------------------------------------------------------------
(* Clicks on the chart itself, the badge of a selected drawing, the menu.  *)

ChartClick(p) ==
    /\ Free /\ tool = "cursor" /\ ~hidden /\ ~Capture(p)
    /\ \E h \in Hits(p) :
          selected' = [selected EXCEPT ![p] = IF locked THEN Nil ELSE h]
    /\ UNCHANGED <<store, shown, tool, toggles, draft, drag, didDrag, stroke, brush, menu,
                   press>>

Badge(p) ==
    /\ Free /\ ~hidden /\ selected[p] \in Here(p)
    /\ \/ ~locked /\ Forget(shown[p], {selected[p]})
       \/ UNCHANGED store
    /\ selected' = [selected EXCEPT ![p] = Nil]
    /\ UNCHANGED <<shown, tool, toggles, draft, drag, didDrag, stroke, brush, menu, press>>

OpenMenu(p) ==
    /\ Free
    /\ Cardinality({q \in Panes \ {p} : menu[q] # Nil}) < MaxMenus
    /\ \E h \in Hits(p) :
          /\ selected' = [selected EXCEPT ![p] = IF h = Nil THEN @ ELSE h]
          /\ menu' = [menu EXCEPT ![p] = [hit |-> h]]
    /\ UNCHANGED <<store, shown, tool, toggles, draft, drag, didDrag, stroke, brush, press>>

\* Every item closes the menu; copying a price and the magnet change nothing else here.
MenuItem(p) ==
    /\ Free /\ menu[p] # Nil
    /\ menu' = [menu EXCEPT ![p] = Nil]
    /\ \/ /\ menu[p].hit # Nil /\ ~locked              \* delete drawing
          /\ Forget(shown[p], {menu[p].hit})
          /\ selected' = [selected EXCEPT ![p] = IF @ = menu[p].hit THEN Nil ELSE @]
          /\ UNCHANGED <<tool, draft, hidden>>
       \/ /\ ~locked                                   \* add horizontal line
          /\ \E at \in Spots : PlaceAndSelect(p, at)
          /\ UNCHANGED hidden
       \/ /\ ~locked                                   \* clear drawings
          /\ Forget(shown[p], Here(p))
          /\ selected' = [selected EXCEPT ![p] = Nil]
          /\ UNCHANGED <<tool, draft, hidden>>
       \/ /\ tool' = "cursor"                          \* select tool
          /\ UNCHANGED <<store, selected, draft, hidden>>
       \/ /\ hidden' = ~hidden                         \* show or hide drawings
          /\ UNCHANGED <<store, selected, tool, draft>>
       \/ UNCHANGED <<store, selected, tool, draft, hidden>>
    /\ UNCHANGED <<shown, locked, focus, drag, didDrag, stroke, brush, press>>

-----------------------------------------------------------------------------
(* Keys reach the page and every overlay, also in the middle of a press.   *)

\* Mutant: the key handler does not look at the lock.
KeyDeletesMutant == {p \in Panes : selected[p] # Nil}
KeyDeletes == {p \in Panes : selected[p] # Nil /\ ~locked}

\* One key press is a deletion in every pane that has a selection.
DeleteKey ==
    /\ Settled /\ KeyDeletes # {}
    /\ drawings' = [s \in Symbols |->
                       drawings[s] \ {selected[p] : p \in {q \in KeyDeletes : shown[q] = s}}]
    /\ selected' = [p \in Panes |-> IF p \in KeyDeletes THEN Nil ELSE selected[p]]
    /\ UNCHANGED <<spot, next, shown, tool, toggles, draft, drag, didDrag, stroke, brush,
                   menu, press>>

\* Escape drops selections and drags; it leaves focus mode first, the tool second.
Escape ==
    /\ Settled
    /\ selected' = Blank(Nil) /\ drag' = Blank(Nil)
    /\ IF focus
       THEN /\ focus' = FALSE                     \* the page is laid out anew
            /\ didDrag' = Blank(FALSE) /\ stroke' = Blank(Nil)
            /\ brush' = Blank(0) /\ menu' = Blank(Nil) /\ press' = Nil
            /\ UNCHANGED <<tool, draft>>
       ELSE /\ tool' = "cursor" /\ draft' = Nil
            /\ UNCHANGED <<focus, didDrag, stroke, brush, menu, press>>
    /\ UNCHANGED <<store, shown, locked, hidden>>

ToggleFocus ==
    /\ Settled
    /\ focus' = ~focus
    /\ FreshOverlays
    /\ press' = Nil
    /\ UNCHANGED <<store, shown, locked, hidden, tool, draft>>

\* V, C, T, R, H, and the buttons of the toolbar for every tool.
PickTool ==
    /\ Settled
    /\ \/ tool' \in {"cursor", "crosshair", "one", "two"}
       \/ Free /\ tool' \in Tools
    /\ draft' = Nil
    /\ UNCHANGED <<store, shown, toggles, overlay, press>>

-----------------------------------------------------------------------------
(* The rest of the toolbar, the symbol of a pane, and a reload.            *)

ToggleLocked ==
    /\ Free
    /\ locked' = ~locked
    /\ UNCHANGED <<store, shown, hidden, focus, tool, draft, overlay, press>>

ToggleHidden ==
    /\ Free
    /\ hidden' = ~hidden
    /\ UNCHANGED <<store, shown, locked, focus, tool, draft, overlay, press>>

ClearAll(p) ==
    /\ Free /\ ~locked
    /\ Forget(shown[p], Here(p))
    /\ UNCHANGED <<shown, toggles, tool, draft, overlay, press>>

\* A redirect may change the symbol in the middle of a press.
SwitchSymbol(p, s) ==
    /\ Settled
    /\ shown[p] # s
    /\ shown' = [shown EXCEPT ![p] = s]
    /\ selected' = [selected EXCEPT ![p] = Nil]
    /\ drag' = [drag EXCEPT ![p] = Nil]
    /\ UNCHANGED <<store, tool, toggles, draft, didDrag, stroke, brush, menu, press>>

Reload ==
    /\ Settled
    /\ tool' = "cursor" /\ draft' = Nil /\ focus' = FALSE
    /\ FreshOverlays
    /\ press' = Nil
    /\ UNCHANGED <<store, shown, locked, hidden>>

Next ==
    \/ /\ \/ \E p \in Panes : \/ PointerDown(p) \/ PointerMove(p) \/ PointerUp(p) \/ Click(p)
                              \/ ChartClick(p) \/ Badge(p) \/ OpenMenu(p) \/ MenuItem(p)
                              \/ ClearAll(p) \/ \E s \in Symbols : SwitchSymbol(p, s)
          \/ DeleteKey \/ Escape \/ ToggleFocus \/ PickTool
          \/ ToggleLocked \/ ToggleHidden \/ Reload
       /\ UNCHANGED cancels
    \/ PointerCancel

Spec == Init /\ [][Next]_vars

-----------------------------------------------------------------------------
(* Properties.                                                             *)

\* No stroke of a two-point tool and no brush stroke is under way.  Locking needs the
\* pointer, so under a lock there is one only if its press was cut off.
NoOpenGesture == \A p \in Panes : stroke[p] = Nil /\ brush[p] = 0

\* The shelf is sealed while the drawings are locked.
Sealed == locked /\ NoOpenGesture

Shelf == INSTANCE DrawingShelf
    WITH shelf <- drawings, place <- spot, drawn <- next, sealed <- Sealed

\* The panes, tools, keys and menus together keep the promise of the shelf: an id is drawn
\* once, on one symbol; a drawing once deleted does not come back when a drag, a menu or a
\* press of another pane still holds its id; and locked drawings neither appear, move nor
\* vanish, whatever handler of whatever pane runs (drawings.ts:92, 98, 105, 112;
\* DrawingOverlay.tsx:264, 347, 439, 484, 639, 675; DrawingToolbar.tsx:277).
KeepsTheShelf == Shelf!Spec

\* When a stroke has made a drawing or a measurement, the click that ends the press does
\* not anchor the next one (DrawingOverlay.tsx:339, 538).
NoStrayAnchor ==
    [][press # Nil /\ press' = Nil => (press.made => draft' = Nil)]_vars
=============================================================================
