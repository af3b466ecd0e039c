---------------------------- MODULE DrawingShelf ----------------------------
(***************************************************************************)
(* What the drawing layer promises a trader, with no overlay, pointer or    *)
(* key in sight: every symbol has a shelf of drawings.  A drawing is put on *)
(* one shelf, with an id nobody had before; while it lies there it may be   *)
(* moved; once discarded it is gone.  While the shelf is sealed nothing on  *)
(* it changes.                                                              *)
(***************************************************************************)
EXTENDS Naturals

CONSTANTS Symbols, Spots, MaxIds

VARIABLES
    shelf,   \* per symbol, the ids on its shelf
    place,   \* where each drawing is
    drawn,   \* ids given out so far
    sealed   \* nothing may change

shelfVars == <<shelf, place, drawn, sealed>>

Init ==
    /\ shelf = [s \in Symbols |-> {}]
    /\ place \in [1 .. MaxIds -> Spots]
    /\ drawn = 0
    /\ sealed = FALSE

Draw(s, at) ==
    /\ drawn < MaxIds
    /\ drawn' = drawn + 1
    /\ shelf' = [shelf EXCEPT ![s] = @ \cup {drawn'}]
    /\ place' = [place EXCEPT ![drawn'] = at]

Move(s, id, at) ==
    /\ id \in shelf[s]
    /\ place' = [place EXCEPT ![id] = at]
    /\ UNCHANGED <<shelf, drawn>>

\* One step may take drawings off several shelves.
Discard(kept) ==
    /\ \A s \in Symbols : kept[s] \subseteq shelf[s]
    /\ shelf' = kept
    /\ UNCHANGED <<place, drawn>>

\* The seal may come or go with any step; a step that starts sealed changes nothing else.
Next ==
    /\ sealed' \in BOOLEAN
    /\ \/ UNCHANGED <<shelf, place, drawn>>
       \/ /\ ~sealed
          /\ \/ \E s \in Symbols, at \in Spots : Draw(s, at)
             \/ \E s \in Symbols, at \in Spots : \E id \in shelf[s] : Move(s, id, at)
             \/ \E kept \in [Symbols -> SUBSET (1 .. MaxIds)] : Discard(kept)

Spec == Init /\ [][Next]_shelfVars
=============================================================================
