------------------------- MODULE ChartDrawingsProofs -------------------------
(***************************************************************************)
(* Theorems about ChartDrawings, for any number of panes, any symbols and   *)
(* spots, and any bounds: the overlays, keys and menus implement the shelf. *)
(***************************************************************************)
EXTENDS ChartDrawings, TLAPS

-----------------------------------------------------------------------------
(* What the effects on the store are on the shelf.                         *)

\* A drawing is sealed or not.
LEMMA SealIsBoolean == Sealed' \in BOOLEAN
  BY Zenon DEF Sealed

\* A step that touches neither drawings nor anchors.
LEMMA QuietStep ==
    ASSUME UNCHANGED store
    PROVE  [Shelf!Next]_(Shelf!shelfVars)
  BY SealIsBoolean DEF store, Shelf!Next

\* A new drawing takes the next id: the shelf adds it, unless it is sealed.
LEMMA PlaceStep ==
    ASSUME TypeOK, NEW p \in Panes, NEW at \in Spots, PlaceAndSelect(p, at)
    PROVE  /\ drawings' \in [Symbols -> SUBSET Ids]
           /\ spot' \in [Ids -> Spots]
           /\ next' \in 0 .. MaxIds
           /\ tool' \in Tools
           /\ draft' \in Spots \cup {Nil}
           /\ selected' \in [Panes -> Ids \cup {Nil}]
           /\ ~Sealed => Shelf!Next
<1>1. next + 1 \in Ids /\ next' = next + 1 /\ next' \in 0 .. MaxIds
  BY IdsAssumption DEF TypeOK, PlaceAndSelect, Ids
<1>2. shown[p] \in Symbols
  BY DEF TypeOK
<1>3. Shelf!Draw(shown[p], at)
  BY <1>1 DEF PlaceAndSelect, Shelf!Draw
<1>4. ~Sealed => Shelf!Next
  BY <1>2, <1>3, SealIsBoolean DEF Shelf!Next
<1>5. drawings' \in [Symbols -> SUBSET Ids]
  BY <1>1, <1>2 DEF TypeOK, PlaceAndSelect
<1>6. spot' \in [Ids -> Spots]
  BY <1>1 DEF TypeOK, PlaceAndSelect
<1>7. selected' \in [Panes -> Ids \cup {Nil}]
  BY <1>1 DEF TypeOK, PlaceAndSelect
<1> QED  BY <1>1, <1>4, <1>5, <1>6, <1>7 DEF PlaceAndSelect, Tools

\* A finished press places its drawing and gives its anchors up.
LEMMA FinishStep ==
    ASSUME TypeOK, NEW p \in Panes, NEW at \in Spots, Finish(p, at)
    PROVE  /\ drawings' \in [Symbols -> SUBSET Ids]
           /\ spot' \in [Ids -> Spots]
           /\ next' \in 0 .. MaxIds
           /\ tool' \in Tools
           /\ draft' \in Spots \cup {Nil}
           /\ selected' \in [Panes -> Ids \cup {Nil}]
           /\ (~Sealed \/ tool = "measure") => [Shelf!Next]_(Shelf!shelfVars)
<1>1. CASE tool = "measure"
  <2>1. UNCHANGED <<store, tool, selected>> /\ draft' = Nil
    BY <1>1 DEF Finish
  <2> QED  BY <2>1, QuietStep DEF TypeOK, store
<1>2. CASE tool # "measure"
  BY <1>2, PlaceStep DEF Finish
<1> QED  BY <1>1, <1>2

\* Removing drawings removes no other.
LEMMA ForgetStep ==
    ASSUME TypeOK, NEW s \in Symbols, NEW ids, Forget(s, ids)
    PROVE  /\ drawings' \in [Symbols -> SUBSET Ids]
           /\ spot' \in [Ids -> Spots]
           /\ next' \in 0 .. MaxIds
           /\ ~Sealed => Shelf!Next
<1>1. drawings' \in [Symbols -> SUBSET Ids]
  BY DEF TypeOK, Forget
<1>2. Shelf!Discard(drawings')
  BY DEF TypeOK, Forget, Shelf!Discard
<1>3. ~Sealed => Shelf!Next
  BY <1>1, <1>2, SealIsBoolean DEF Shelf!Next, Ids
<1> QED  BY <1>1, <1>3 DEF TypeOK, Forget

\* Moving a drawing moves no other, and none that is gone.
LEMMA UpdateStep ==
    ASSUME TypeOK, NEW p \in Panes, NEW id \in Ids, NEW at \in Spots, Update(p, id, at)
    PROVE  /\ drawings' \in [Symbols -> SUBSET Ids]
           /\ spot' \in [Ids -> Spots]
           /\ next' \in 0 .. MaxIds
           /\ ~Sealed => [Shelf!Next]_(Shelf!shelfVars)
<1>1. spot' \in [Ids -> Spots]
  BY DEF TypeOK, Update
<1>2. CASE id \in Here(p)
  <2>1. shown[p] \in Symbols /\ Shelf!Move(shown[p], id, at)
    BY <1>2 DEF TypeOK, Update, Here, Shelf!Move
  <2>2. ~Sealed => Shelf!Next
    BY <1>2, <2>1, SealIsBoolean DEF Shelf!Next, Here
  <2> QED  BY <1>1, <2>2 DEF TypeOK, Update
<1>3. CASE id \notin Here(p)
  <2>1. UNCHANGED store
    BY <1>3 DEF Update, store
  <2> QED  BY <1>1, <2>1, QuietStep DEF TypeOK, Update
<1> QED  BY <1>2, <1>3

-----------------------------------------------------------------------------
(* One lemma per handler: it keeps the types and takes a step of the shelf *)
(* or leaves the shelf alone.                                              *)

\* A press.
LEMMA PointerDownStep ==
    ASSUME TypeOK, NEW p \in Panes, PointerDown(p), UNCHANGED cancels
    PROVE  TypeOK' /\ [Shelf!Next]_(Shelf!shelfVars)
<1>1. UNCHANGED store
  BY DEF PointerDown
<1>2. selected' \in [Panes -> Ids \cup {Nil}] /\ drag' \in [Panes -> Ids \cup {Nil}]
  <2>1. Hits(p) \subseteq Ids \cup {Nil}
    BY DEF TypeOK, Hits, Here
  <2> QED  BY <2>1 DEF TypeOK, PointerDown
<1>3. didDrag' \in [Panes -> BOOLEAN]
  BY DEF TypeOK, PointerDown
<1>4. stroke' \in [Panes -> [at : Spots, moved : BOOLEAN] \cup {Nil}]
  <2>1. stroke' = stroke \/ \E at \in Spots :
           stroke' = [stroke EXCEPT ![p] = [at |-> at, moved |-> FALSE]]
    BY DEF PointerDown, Points
  <2>2. ASSUME NEW at \in Spots, stroke' = [stroke EXCEPT ![p] = [at |-> at, moved |-> FALSE]]
        PROVE  stroke' \in [Panes -> [at : Spots, moved : BOOLEAN] \cup {Nil}]
    <3> DEFINE Held == [at : Spots, moved : BOOLEAN] \cup {Nil}
    <3>1. [at |-> at, moved |-> FALSE] \in Held /\ stroke \in [Panes -> Held]
      BY DEF TypeOK
    <3> HIDE DEF Held
    <3>2. stroke' \in [Panes -> Held]
      BY <2>2, <3>1
    <3> QED  BY <3>2 DEF Held
  <2> QED  BY <2>1, <2>2 DEF TypeOK
<1>5. brush' \in [Panes -> 0 .. 2]
  BY DEF TypeOK, PointerDown
<1>6. press' \in [pane : Panes, up : BOOLEAN, made : BOOLEAN] \cup {Nil}
  BY DEF PointerDown
<1>7. TypeOK'
  BY <1>1, <1>2, <1>3, <1>4, <1>5, <1>6 DEF TypeOK, PointerDown, store, toggles
<1> QED  BY <1>1, <1>7, QuietStep

\* A move of the pointer.
LEMMA PointerMoveStep ==
    ASSUME TypeOK, NEW p \in Panes, PointerMove(p), UNCHANGED cancels
    PROVE  TypeOK' /\ [Shelf!Next]_(Shelf!shelfVars)
<1>1. CASE drag[p] # Nil /\ ~locked
  <2>1. PICK at \in Spots : Update(p, drag[p], at)
    BY <1>1 DEF PointerMove
  <2>2. drag[p] \in Ids
    BY <1>1 DEF TypeOK
  <2>3. ~Sealed
    BY <1>1 DEF Sealed
  <2>4. UNCHANGED <<stroke, brush, draft>> /\ didDrag' \in [Panes -> BOOLEAN]
    BY <1>1 DEF TypeOK, PointerMove
  <2> QED  BY <2>1, <2>2, <2>3, <2>4, UpdateStep DEF TypeOK, PointerMove, toggles
<1>2. CASE drag[p] = Nil \/ locked
  <2>1. UNCHANGED <<store, didDrag>>
    BY <1>2 DEF PointerMove
  <2>2. draft' \in Spots \cup {Nil}
    BY <1>2 DEF TypeOK, PointerMove
  <2>3. stroke' \in [Panes -> [at : Spots, moved : BOOLEAN] \cup {Nil}]
    <3>1. \/ stroke' = stroke
          \/ stroke[p] # Nil /\ stroke' = [stroke EXCEPT ![p] = [stroke[p] EXCEPT !.moved = TRUE]]
      BY <1>2 DEF PointerMove
    <3>2. stroke \in [Panes -> [at : Spots, moved : BOOLEAN] \cup {Nil}]
      BY DEF TypeOK
    <3>3. stroke[p] # Nil => [stroke[p] EXCEPT !.moved = TRUE] \in [at : Spots, moved : BOOLEAN]
      BY <3>2
    <3> QED  BY <3>1, <3>2, <3>3
  <2>4. brush' \in [Panes -> 0 .. 2]
    BY <1>2 DEF TypeOK, PointerMove
  <2> QED  BY <2>1, <2>2, <2>3, <2>4, QuietStep DEF TypeOK, PointerMove, store, toggles
<1> QED  BY <1>1, <1>2

\* The release of a press.
LEMMA PointerUpStep ==
    ASSUME TypeOK, NEW p \in Panes, PointerUp(p), UNCHANGED cancels
    PROVE  TypeOK' /\ [Shelf!Next]_(Shelf!shelfVars)
<1>1. press' \in [pane : Panes, up : BOOLEAN, made : BOOLEAN] \cup {Nil}
  BY DEF TypeOK, PointerUp
<1>2. CASE stroke[p] # Nil
  <2>1. stroke[p].at \in Spots /\ ~Sealed
    BY <1>2 DEF TypeOK, Sealed, NoOpenGesture
  <2>2. stroke' \in [Panes -> [at : Spots, moved : BOOLEAN] \cup {Nil}]
    BY <1>2 DEF TypeOK, PointerUp
  <2>3. CASE Finish(p, stroke[p].at)
    <3>1. didDrag' \in [Panes -> BOOLEAN] /\ UNCHANGED <<drag, brush>>
      BY <1>2 DEF TypeOK, PointerUp
    <3> QED  BY <1>1, <2>1, <2>2, <2>3, <3>1, FinishStep DEF TypeOK, PointerUp, toggles
  <2>4. CASE ~Finish(p, stroke[p].at)
    <3>1. UNCHANGED <<store, tool, selected, draft, didDrag, drag, brush>>
      BY <1>2, <2>4 DEF PointerUp
    <3> QED  BY <1>1, <2>2, <3>1, QuietStep DEF TypeOK, PointerUp, store, toggles
  <2> QED  BY <2>3, <2>4
<1>3. CASE stroke[p] = Nil /\ drag[p] # Nil
  <2>1. UNCHANGED <<store, tool, selected, draft, didDrag, stroke, brush>>
    BY <1>3 DEF PointerUp
  <2>2. drag' \in [Panes -> Ids \cup {Nil}]
    BY <1>3 DEF TypeOK, PointerUp
  <2> QED  BY <1>1, <2>1, <2>2, QuietStep DEF TypeOK, PointerUp, store, toggles
<1>4. CASE stroke[p] = Nil /\ drag[p] = Nil
  <2>1. brush' \in [Panes -> 0 .. 2] /\ UNCHANGED <<drag, didDrag, stroke>>
    BY <1>4 DEF TypeOK, PointerUp
  <2>2. CASE tool = "brush" /\ brush[p] = 2
    <3>1. PICK at \in Spots : PlaceAndSelect(p, at)
      BY <1>4, <2>2 DEF PointerUp
    <3>2. ~Sealed
      BY <2>2 DEF Sealed, NoOpenGesture
    <3> QED  BY <1>1, <2>1, <3>1, <3>2, PlaceStep DEF TypeOK, PointerUp, toggles
  <2>3. CASE ~(tool = "brush" /\ brush[p] = 2)
    <3>1. UNCHANGED <<store, tool, selected, draft>>
      BY <1>4, <2>3 DEF PointerUp
    <3> QED  BY <1>1, <2>1, <3>1, QuietStep DEF TypeOK, PointerUp, store, toggles
  <2> QED  BY <2>2, <2>3
<1> QED  BY <1>2, <1>3, <1>4

\* A click with a tool that takes anchors.
LEMMA ClickToolStep ==
    ASSUME TypeOK, NEW p \in Panes, ClickTool(p)
    PROVE  /\ drawings' \in [Symbols -> SUBSET Ids]
           /\ spot' \in [Ids -> Spots]
           /\ next' \in 0 .. MaxIds
           /\ tool' \in Tools
           /\ draft' \in Spots \cup {Nil}
           /\ selected' \in [Panes -> Ids \cup {Nil}]
           /\ [Shelf!Next]_(Shelf!shelfVars)
<1> DEFINE Quiet == UNCHANGED <<store, tool>> /\ draft' \in Spots \cup {Nil}
                   /\ selected' \in [Panes -> Ids \cup {Nil}]
           Erased == /\ ~locked
                     /\ \E h \in Here(p) :
                           /\ Forget(shown[p], {h})
                           /\ selected' = [selected EXCEPT ![p] = IF @ = h THEN Nil ELSE @]
                     /\ UNCHANGED <<tool, draft>>
           Placed == ~locked /\ \E at \in Spots : PlaceAndSelect(p, at)
           Finished == (~locked \/ tool = "measure") /\ draft \in Spots /\ Finish(p, draft)
<1>1. Quiet \/ Erased \/ Placed \/ Finished
  <2>1. Hits(p) \subseteq Ids \cup {Nil}
    BY DEF TypeOK, Hits, Here
  <2> QED  BY <2>1 DEF TypeOK, ClickTool
<1>2. CASE Quiet
  <2> QED  BY <1>2, QuietStep DEF TypeOK, store
<1>3. CASE Erased
  <2>1. PICK h \in Here(p) :
           /\ Forget(shown[p], {h})
           /\ selected' = [selected EXCEPT ![p] = IF @ = h THEN Nil ELSE @]
    BY <1>3
  <2>2. shown[p] \in Symbols /\ ~Sealed
    BY <1>3 DEF TypeOK, Sealed
  <2>3. selected' \in [Panes -> Ids \cup {Nil}] /\ tool' \in Tools /\ draft' \in Spots \cup {Nil}
    BY <1>3, <2>1 DEF TypeOK
  <2> QED  BY <2>1, <2>2, <2>3, ForgetStep
<1>4. CASE Placed
  <2>1. ~Sealed
    BY <1>4 DEF Sealed
  <2> QED  BY <1>4, <2>1, PlaceStep
<1>5. CASE Finished
  <2>1. ~Sealed \/ tool = "measure"
    BY <1>5 DEF Sealed
  <2> QED  BY <1>5, <2>1, FinishStep
<1> QED  BY <1>1, <1>2, <1>3, <1>4, <1>5

\* The click the browser sends after a release.
LEMMA ClickStep ==
    ASSUME TypeOK, NEW p \in Panes, Click(p), UNCHANGED cancels
    PROVE  TypeOK' /\ [Shelf!Next]_(Shelf!shelfVars)
<1>1. /\ press' = Nil /\ UNCHANGED <<shown, locked, hidden, focus, drag, stroke, brush>>
      /\ menu' \in [Panes -> [hit : Ids \cup {Nil}] \cup {Nil}]
      /\ didDrag' \in [Panes -> BOOLEAN]
  BY DEF TypeOK, Click, toggles
<1>2. CASE Swallowed(p)
  <2>1. UNCHANGED <<store, tool, selected, draft>>
    BY <1>2 DEF Click
  <2> QED  BY <1>1, <2>1, QuietStep DEF TypeOK, store
<1>3. CASE ~Swallowed(p)
  <2>1. ClickTool(p)
    BY <1>3 DEF Click
  <2> QED  BY <1>1, <2>1, ClickToolStep DEF TypeOK
<1> QED  BY <1>2, <1>3

-----------------------------------------------------------------------------
(* Clicks on the chart, the badge and the menu.                            *)

\* A click on the chart, whatever the tool.
LEMMA ChartClickStep ==
    ASSUME TypeOK, NEW p \in Panes, ChartClick(p), UNCHANGED cancels
    PROVE  TypeOK' /\ [Shelf!Next]_(Shelf!shelfVars)
<1>1. Hits(p) \subseteq Ids \cup {Nil}
  BY DEF TypeOK, Hits, Here
<1>2. selected' \in [Panes -> Ids \cup {Nil}]
  BY <1>1 DEF TypeOK, ChartClick
<1> QED  BY <1>2, QuietStep DEF TypeOK, ChartClick, store, toggles

\* The badge of a drawing.
LEMMA BadgeStep ==
    ASSUME TypeOK, NEW p \in Panes, Badge(p), UNCHANGED cancels
    PROVE  TypeOK' /\ [Shelf!Next]_(Shelf!shelfVars)
<1>1. selected' \in [Panes -> Ids \cup {Nil}] /\ shown[p] \in Symbols
  BY DEF TypeOK, Badge
<1>2. CASE ~locked /\ Forget(shown[p], {selected[p]})
  <2>1. ~Sealed
    BY <1>2 DEF Sealed
  <2> QED  BY <1>1, <1>2, <2>1, ForgetStep DEF TypeOK, Badge, toggles
<1>3. CASE UNCHANGED store
  BY <1>1, <1>3, QuietStep DEF TypeOK, Badge, store, toggles
<1> QED  BY <1>2, <1>3 DEF Badge

\* The menu of a drawing opens.
LEMMA OpenMenuStep ==
    ASSUME TypeOK, NEW p \in Panes, OpenMenu(p), UNCHANGED cancels
    PROVE  TypeOK' /\ [Shelf!Next]_(Shelf!shelfVars)
<1>1. Hits(p) \subseteq Ids \cup {Nil}
  BY DEF TypeOK, Hits, Here
<1>2. PICK h \in Hits(p) :
         /\ selected' = [selected EXCEPT ![p] = IF h = Nil THEN @ ELSE h]
         /\ menu' = [menu EXCEPT ![p] = [hit |-> h]]
  BY DEF OpenMenu
<1>3. selected' \in [Panes -> Ids \cup {Nil}]
  BY <1>1, <1>2 DEF TypeOK
<1>4. menu' \in [Panes -> [hit : Ids \cup {Nil}] \cup {Nil}]
  BY <1>1, <1>2 DEF TypeOK
<1> QED  BY <1>3, <1>4, QuietStep DEF TypeOK, OpenMenu, store, toggles

\* An item of the menu.
LEMMA MenuItemStep ==
    ASSUME TypeOK, NEW p \in Panes, MenuItem(p), UNCHANGED cancels
    PROVE  TypeOK' /\ [Shelf!Next]_(Shelf!shelfVars)
<1> DEFINE Types == /\ drawings' \in [Symbols -> SUBSET Ids]
                    /\ spot' \in [Ids -> Spots]
                    /\ next' \in 0 .. MaxIds
                    /\ tool' \in Tools
                    /\ draft' \in Spots \cup {Nil}
                    /\ selected' \in [Panes -> Ids \cup {Nil}]
                    /\ hidden' \in BOOLEAN
           Goal == Types /\ [Shelf!Next]_(Shelf!shelfVars)
<1>1. shown[p] \in Symbols
  BY DEF TypeOK
<1>2. Goal
  <2>1. CASE /\ menu[p].hit # Nil /\ ~locked
             /\ Forget(shown[p], {menu[p].hit})
             /\ selected' = [selected EXCEPT ![p] = IF @ = menu[p].hit THEN Nil ELSE @]
             /\ UNCHANGED <<tool, draft, hidden>>
    <3>1. selected' \in [Panes -> Ids \cup {Nil}] /\ ~Sealed
      BY <2>1 DEF TypeOK, Sealed
    <3> QED  BY <1>1, <2>1, <3>1, ForgetStep DEF TypeOK
  <2>2. CASE ~locked /\ (\E at \in Spots : PlaceAndSelect(p, at)) /\ UNCHANGED hidden
    <3>1. ~Sealed
      BY <2>2 DEF Sealed
    <3> QED  BY <2>2, <3>1, PlaceStep DEF TypeOK
  <2>3. CASE /\ ~locked
             /\ Forget(shown[p], Here(p))
             /\ selected' = [selected EXCEPT ![p] = Nil]
             /\ UNCHANGED <<tool, draft, hidden>>
    <3>1. selected' \in [Panes -> Ids \cup {Nil}] /\ ~Sealed
      BY <2>3 DEF TypeOK, Sealed
    <3> QED  BY <1>1, <2>3, <3>1, ForgetStep DEF TypeOK
  <2>4. CASE UNCHANGED <<store, selected, draft>> /\ tool' \in {tool, "cursor"}
               /\ hidden' \in {hidden, ~hidden}
    BY <2>4, QuietStep DEF TypeOK, store, Tools
  <2> QED  BY <2>1, <2>2, <2>3, <2>4 DEF MenuItem
<1>3. /\ menu' \in [Panes -> [hit : Ids \cup {Nil}] \cup {Nil}]
      /\ UNCHANGED <<shown, locked, focus, drag, didDrag, stroke, brush, press>>
  BY DEF TypeOK, MenuItem
<1> QED  BY <1>2, <1>3 DEF TypeOK

-----------------------------------------------------------------------------
(* Keys, toolbar, symbol switches and reloads.                             *)

\* The delete key.
LEMMA DeleteKeyStep ==
    ASSUME TypeOK, DeleteKey, UNCHANGED cancels
    PROVE  TypeOK' /\ [Shelf!Next]_(Shelf!shelfVars)
<1>1. drawings' \in [Symbols -> SUBSET Ids]
  BY DEF TypeOK, DeleteKey
<1>2. selected' \in [Panes -> Ids \cup {Nil}]
  BY DEF TypeOK, DeleteKey
<1>3. Shelf!Discard(drawings')
  BY DEF DeleteKey, Shelf!Discard
<1>4. ~Sealed
  BY DEF DeleteKey, KeyDeletes, Sealed
<1>5. Shelf!Next
  BY <1>1, <1>3, <1>4, SealIsBoolean DEF Shelf!Next, Ids
<1> QED  BY <1>1, <1>2, <1>5 DEF TypeOK, DeleteKey, toggles

\* The escape key.
LEMMA EscapeStep ==
    ASSUME TypeOK, Escape, UNCHANGED cancels
    PROVE  TypeOK' /\ [Shelf!Next]_(Shelf!shelfVars)
<1>1. UNCHANGED store /\ tool' \in Tools /\ focus' \in BOOLEAN /\ draft' \in Spots \cup {Nil}
  BY DEF TypeOK, Escape, Tools
<1>2. /\ selected' \in [Panes -> Ids \cup {Nil}]
      /\ drag' \in [Panes -> Ids \cup {Nil}]
      /\ didDrag' \in [Panes -> BOOLEAN]
      /\ brush' \in [Panes -> 0 .. 2]
  <2>1. /\ selected' = Blank(Nil) /\ drag' = Blank(Nil)
        /\ didDrag' = Blank(FALSE) \/ didDrag' = didDrag
        /\ brush' = Blank(0) \/ brush' = brush
    BY DEF Escape
  <2>2. didDrag' \in [Panes -> BOOLEAN]
    BY <2>1 DEF TypeOK, Blank
  <2>3. brush' \in [Panes -> 0 .. 2]
    BY <2>1 DEF TypeOK, Blank
  <2> QED  BY <2>1, <2>2, <2>3 DEF Blank
<1>3. /\ stroke' \in [Panes -> [at : Spots, moved : BOOLEAN] \cup {Nil}]
      /\ menu' \in [Panes -> [hit : Ids \cup {Nil}] \cup {Nil}]
  <2>1. (stroke' = Blank(Nil) /\ menu' = Blank(Nil)) \/ UNCHANGED <<stroke, menu>>
    BY DEF Escape
  <2> QED  BY <2>1 DEF TypeOK, Blank
<1>4. press' \in [pane : Panes, up : BOOLEAN, made : BOOLEAN] \cup {Nil}
  BY DEF TypeOK, Escape
<1>5. TypeOK'
  BY <1>1, <1>2, <1>3, <1>4 DEF TypeOK, Escape, store
<1> QED  BY <1>1, <1>5, QuietStep

\* A tool starts with nothing pressed.
LEMMA FreshTypes ==
    ASSUME FreshOverlays
    PROVE  /\ selected' \in [Panes -> Ids \cup {Nil}]
           /\ drag' \in [Panes -> Ids \cup {Nil}]
           /\ didDrag' \in [Panes -> BOOLEAN]
           /\ stroke' \in [Panes -> [at : Spots, moved : BOOLEAN] \cup {Nil}]
           /\ brush' \in [Panes -> 0 .. 2]
           /\ menu' \in [Panes -> [hit : Ids \cup {Nil}] \cup {Nil}]
  BY DEF FreshOverlays, Blank

\* The toolbar.
LEMMA ToolbarStep ==
    ASSUME TypeOK, UNCHANGED cancels,
           ToggleFocus \/ PickTool \/ ToggleLocked \/ ToggleHidden \/ Reload
    PROVE  TypeOK' /\ [Shelf!Next]_(Shelf!shelfVars)
<1>1. UNCHANGED store
  BY DEF ToggleFocus, PickTool, ToggleLocked, ToggleHidden, Reload
<1>2. CASE ToggleFocus
  BY <1>1, <1>2, FreshTypes, QuietStep DEF TypeOK, ToggleFocus, store
<1>3. CASE PickTool
  BY <1>1, <1>3, QuietStep DEF TypeOK, PickTool, store, toggles, overlay, Tools
<1>4. CASE ToggleLocked
  BY <1>1, <1>4, QuietStep DEF TypeOK, ToggleLocked, store, overlay
<1>5. CASE ToggleHidden
  BY <1>1, <1>5, QuietStep DEF TypeOK, ToggleHidden, store, overlay
<1>6. CASE Reload
  BY <1>1, <1>6, FreshTypes, QuietStep DEF TypeOK, Reload, store, Tools
<1> QED  BY <1>2, <1>3, <1>4, <1>5, <1>6

\* All drawings of a symbol go.
LEMMA ClearAllStep ==
    ASSUME TypeOK, NEW p \in Panes, ClearAll(p), UNCHANGED cancels
    PROVE  TypeOK' /\ [Shelf!Next]_(Shelf!shelfVars)
<1>1. shown[p] \in Symbols /\ ~Sealed
  BY DEF TypeOK, ClearAll, Sealed
<1>2. Forget(shown[p], Here(p))
  BY DEF ClearAll
<1> QED  BY <1>1, <1>2, ForgetStep DEF TypeOK, ClearAll, toggles, overlay

\* A pane shows another symbol.
LEMMA SwitchSymbolStep ==
    ASSUME TypeOK, NEW p \in Panes, NEW s \in Symbols, SwitchSymbol(p, s), UNCHANGED cancels
    PROVE  TypeOK' /\ [Shelf!Next]_(Shelf!shelfVars)
<1>1. /\ shown' \in [Panes -> Symbols]
      /\ selected' \in [Panes -> Ids \cup {Nil}]
      /\ drag' \in [Panes -> Ids \cup {Nil}]
  BY DEF TypeOK, SwitchSymbol
<1> QED  BY <1>1, QuietStep DEF TypeOK, SwitchSymbol, store, toggles

\* The browser cuts a press off.
LEMMA PointerCancelStep ==
    ASSUME TypeOK, PointerCancel
    PROVE  TypeOK' /\ [Shelf!Next]_(Shelf!shelfVars)
<1>1. cancels' \in 0 .. MaxCancels
  BY BoundsAssumption DEF TypeOK, PointerCancel
<1> QED  BY <1>1, QuietStep DEF TypeOK, PointerCancel, store, toggles, overlay

-----------------------------------------------------------------------------
(* The types and the shelf.                                                *)

\* The desk starts well typed.
LEMMA InitTypes == Init => TypeOK
<1> SUFFICES ASSUME Init PROVE TypeOK
  OBVIOUS
<1>1. next \in 0 .. MaxIds /\ cancels \in 0 .. MaxCancels
  BY IdsAssumption, BoundsAssumption DEF Init
<1>2. brush \in [Panes -> 0 .. 2] /\ didDrag \in [Panes -> BOOLEAN]
  BY DEF Init, Blank
<1>3. /\ selected \in [Panes -> Ids \cup {Nil}] /\ drag \in [Panes -> Ids \cup {Nil}]
      /\ stroke \in [Panes -> [at : Spots, moved : BOOLEAN] \cup {Nil}]
      /\ menu \in [Panes -> [hit : Ids \cup {Nil}] \cup {Nil}]
  BY DEF Init, Blank
<1> QED  BY <1>1, <1>2, <1>3 DEF Init, TypeOK, Tools

\* Every step keeps the invariant and maps to the shelf.
LEMMA NextStep == TypeOK /\ [Next]_vars => TypeOK' /\ [Shelf!Next]_(Shelf!shelfVars)
<1> SUFFICES ASSUME TypeOK, [Next]_vars
             PROVE  TypeOK' /\ [Shelf!Next]_(Shelf!shelfVars)
  OBVIOUS
<1>1. CASE UNCHANGED vars
  BY <1>1, QuietStep DEF TypeOK, vars, store
<1>2. CASE PointerCancel
  BY <1>2, PointerCancelStep
<1>3. ASSUME UNCHANGED cancels, NEW p \in Panes,
             \/ PointerDown(p) \/ PointerMove(p) \/ PointerUp(p) \/ Click(p)
             \/ ChartClick(p) \/ Badge(p) \/ OpenMenu(p) \/ MenuItem(p) \/ ClearAll(p)
      PROVE  TypeOK' /\ [Shelf!Next]_(Shelf!shelfVars)
  BY <1>3, PointerDownStep, PointerMoveStep, PointerUpStep, ClickStep, ChartClickStep,
     BadgeStep, OpenMenuStep, MenuItemStep, ClearAllStep
<1>4. ASSUME UNCHANGED cancels, NEW p \in Panes, NEW s \in Symbols, SwitchSymbol(p, s)
      PROVE  TypeOK' /\ [Shelf!Next]_(Shelf!shelfVars)
  BY <1>4, SwitchSymbolStep
<1>5. ASSUME UNCHANGED cancels,
             \/ DeleteKey \/ Escape \/ ToggleFocus \/ PickTool
             \/ ToggleLocked \/ ToggleHidden \/ Reload
      PROVE  TypeOK' /\ [Shelf!Next]_(Shelf!shelfVars)
  BY <1>5, DeleteKeyStep, EscapeStep, ToolbarStep
<1> QED  BY <1>1, <1>2, <1>3, <1>4, <1>5 DEF Next

\* In every reachable state the overlays and the store hold what their types say: a
\* drawing in hand is an id that was given out, a spot never the place off the series.
THEOREM TypeCorrect == Spec => []TypeOK
<1>1. TypeOK /\ [Next]_vars => TypeOK'
  BY NextStep
<1> QED  BY <1>1, InitTypes, PTL DEF Spec

\* However presses, keys, menus, switches and cancelled pointers of any number of panes
\* interleave, the drawings behave as the shelf says (KeepsTheShelf).
THEOREM ShelfIsKept == Spec => KeepsTheShelf
<1>1. Init => Shelf!Init
  BY DEF Init, Shelf!Init, Sealed, Ids
<1>2. TypeOK /\ [Next]_vars => [Shelf!Next]_(Shelf!shelfVars)
  BY NextStep
<1> QED  BY <1>1, <1>2, TypeCorrect, PTL DEF Spec, KeepsTheShelf, Shelf!Spec

-----------------------------------------------------------------------------
(* The click after a stroke.  Between the up that makes a drawing and its  *)
(* click no other handler runs; the stroke has emptied the draft, and the  *)
(* click is swallowed or meets the cursor the tool has gone back to.       *)

Made == press # Nil /\ press.made

MadeInv == Made => press.up /\ draft = Nil /\ (didDrag[press.pane] \/ tool = "cursor")

\* The draft is spent when the press ends.
Spent == press # Nil /\ press' = Nil => (press.made => draft' = Nil)

\* What is finished leaves no anchor.
LEMMA FinishEmptiesDraft ==
    ASSUME NEW p, NEW at, Finish(p, at) \/ PlaceAndSelect(p, at)
    PROVE  draft' = Nil
BY DEF Finish, PlaceAndSelect

\* The release of a stroke marks its click as spent.
LEMMA UpMakes ==
    ASSUME TypeOK, MadeInv, NEW p \in Panes, PointerUp(p)
    PROVE  MadeInv' /\ Spent
<1>1. /\ press # Nil /\ press.pane = p /\ ~press.up /\ ~press.made
      /\ press \in [pane : Panes, up : BOOLEAN, made : BOOLEAN]
  BY DEF TypeOK, PointerUp, MadeInv, Made
<1>2. CASE press' = [press EXCEPT !.up = TRUE]
  BY <1>1, <1>2 DEF MadeInv, Made, Spent
<1>3. CASE /\ press' = [press EXCEPT !.up = TRUE, !.made = TRUE]
           /\ \E at : Finish(p, at)
           /\ didDrag' = [didDrag EXCEPT ![p] = TRUE]
  <2>1. draft' = Nil /\ didDrag'[p] /\ press'.up /\ press'.pane = p
    BY <1>1, <1>3, FinishEmptiesDraft DEF TypeOK
  <2> QED  BY <1>1, <2>1 DEF MadeInv, Made, Spent
<1>4. CASE /\ press' = [press EXCEPT !.up = TRUE, !.made = TRUE]
           /\ \E at : PlaceAndSelect(p, at)
  <2>1. draft' = Nil /\ tool' = "cursor" /\ press'.up
    BY <1>1, <1>4 DEF PlaceAndSelect
  <2> QED  BY <1>1, <2>1 DEF MadeInv, Made, Spent
<1> QED  BY <1>2, <1>3, <1>4 DEF PointerUp

\* A spent click anchors nothing.
LEMMA ClickSpends ==
    ASSUME MadeInv, NEW p \in Panes, Click(p)
    PROVE  MadeInv' /\ Spent
<1>1. press # Nil /\ press.pane = p /\ press' = Nil
  BY DEF Click
<1>2. MadeInv'
  BY <1>1 DEF MadeInv, Made
<1>3. ASSUME press.made PROVE draft' = Nil
  <2>1. draft = Nil /\ (Swallowed(p) \/ tool = "cursor")
    BY <1>1, <1>3 DEF MadeInv, Made, Swallowed
  <2>2. CASE Swallowed(p)
    BY <2>1, <2>2 DEF Click
  <2>3. CASE ~Swallowed(p)
    <3>1. ClickTool(p) /\ tool = "cursor"
      BY <2>1, <2>3 DEF Click
    <3>2. UNCHANGED draft
      BY <3>1 DEF ClickTool, TwoPoint
    <3> QED  BY <2>1, <3>2
  <2> QED  BY <2>2, <2>3
<1> QED  BY <1>2, <1>3 DEF Spent

\* Every step keeps the mark on the click of a finished stroke.
LEMMA NextMade ==
    ASSUME TypeOK, MadeInv, [Next]_vars
    PROVE  MadeInv' /\ [Spent]_vars
<1>1. CASE (press' = press \/ press' = Nil) /\ (press = Nil \/ ~press.up)
  BY <1>1 DEF MadeInv, Made, Spent
<1>2. ASSUME NEW p \in Panes, PointerDown(p) PROVE MadeInv' /\ Spent
  BY <1>2 DEF PointerDown, Free, MadeInv, Made, Spent
<1>3. ASSUME NEW p \in Panes, PointerUp(p) PROVE MadeInv' /\ Spent
  BY <1>3, UpMakes
<1>4. ASSUME NEW p \in Panes, Click(p) PROVE MadeInv' /\ Spent
  BY <1>4, ClickSpends
<1>5. ASSUME NEW p \in Panes, PointerMove(p) \/ ChartClick(p) \/ Badge(p) \/ OpenMenu(p)
      PROVE  press' = press /\ (press = Nil \/ ~press.up)
  BY <1>5 DEF PointerMove, ChartClick, Badge, OpenMenu, Free
<1>6. ASSUME NEW p \in Panes, MenuItem(p) \/ ClearAll(p) \/ \E s \in Symbols : SwitchSymbol(p, s)
      PROVE  press' = press /\ (press = Nil \/ ~press.up)
  BY <1>6 DEF MenuItem, ClearAll, SwitchSymbol, Settled, Free
<1>7. ASSUME DeleteKey \/ Escape \/ ToggleFocus \/ PickTool
      PROVE  (press' = press \/ press' = Nil) /\ (press = Nil \/ ~press.up)
  BY <1>7 DEF DeleteKey, Escape, ToggleFocus, PickTool, Settled, Free
<1>8. ASSUME ToggleLocked \/ ToggleHidden \/ Reload \/ PointerCancel
      PROVE  (press' = press \/ press' = Nil) /\ (press = Nil \/ ~press.up)
  BY <1>8 DEF ToggleLocked, ToggleHidden, Reload, PointerCancel, Settled, Free
<1>9. CASE UNCHANGED vars
  BY <1>9 DEF vars, MadeInv, Made
<1> QED
  BY <1>1, <1>2, <1>3, <1>4, <1>5, <1>6, <1>7, <1>8, <1>9 DEF Next

\* However keys, cut-off presses, other panes and reloads interleave with a stroke, the
\* click that ends the press of a finished drawing never anchors the next one.
THEOREM ClickIsSpent == Spec => NoStrayAnchor
<1>1. Init => MadeInv
  BY DEF Init, MadeInv, Made
<1>2. TypeOK /\ MadeInv /\ [Next]_vars => MadeInv' /\ [Spent]_vars
  BY NextMade
<1>3. Spent <=> (press # Nil /\ press' = Nil => (press.made => draft' = Nil))
  BY DEF Spent
<1> QED  BY <1>1, <1>2, <1>3, TypeCorrect, PTL DEF Spec, NoStrayAnchor
=============================================================================
