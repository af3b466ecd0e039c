----------------------------- MODULE BarsProofs -----------------------------
(***************************************************************************)
(* Theorems about the bars on the screen.  First the Replay Studio, which  *)
(* hides the bars to come, for any number of sessions, bars, setups and    *)
(* handlers under way; then the live chart of a pane, for any prices,      *)
(* trading hours, rows stored and orders of events.                        *)
(***************************************************************************)
EXTENDS ReplayStudio, ChartBoard, FiniteSetTheorems, WellFoundedInduction, TLAPS

-----------------------------------------------------------------------------
(* Least and greatest members.                                             *)

\* A set of numbers has its least.
LEMMA MinIn ==
    ASSUME NEW S \in SUBSET Nat, S # {}
    PROVE  Min(S) \in S /\ \A y \in S : Min(S) <= y
<1> DEFINE R == OpToRel(<, Nat)
<1>1. IsWellFoundedOn(R, Nat)
  BY NatLessThanWellFounded
<1>2. \A x, y \in Nat : x < y => <<x, y>> \in R
  BY DEF OpToRel
<1> HIDE DEF R
<1>3. PICK x \in S : \A y \in S : <<y, x>> \notin R
  BY <1>1, WFMin
<1>4. \A y \in S : x <= y
  <2> SUFFICES ASSUME NEW y \in S PROVE x <= y
    OBVIOUS
  <2>1. x \in Nat /\ y \in Nat
    OBVIOUS
  <2>2. ~(y < x)
    BY <1>2, <1>3, <2>1
  <2> QED  BY <2>1, <2>2
<1> QED  BY <1>4 DEF Min

\* A bounded set of numbers has its greatest.
LEMMA MaxIn ==
    ASSUME NEW n \in Nat, NEW S \in SUBSET (0..n), S # {}
    PROVE  Max(S) \in S /\ \A y \in S : Max(S) >= y
<1> DEFINE T == {n - y : y \in S}
<1>1. T \in SUBSET Nat /\ T # {}
  <2>1. \A y \in S : n - y \in Nat
    OBVIOUS
  <2> QED  BY <2>1
<1>2. PICK t \in T : \A u \in T : t <= u
  BY <1>1, MinIn
<1>3. PICK x \in S : t = n - x
  OBVIOUS
<1>4. \A y \in S : x >= y
  <2> SUFFICES ASSUME NEW y \in S PROVE x >= y
    OBVIOUS
  <2>1. n - x <= n - y
    BY <1>2, <1>3
  <2> QED  BY <2>1
<1> QED  BY <1>4 DEF Max

\* The larger of two bars is one of them.
LEMMA MaxOfTwo ==
    ASSUME NEW a \in Int, NEW b \in Int
    PROVE  Max({a, b}) \in {a, b} /\ Max({a, b}) >= a /\ Max({a, b}) >= b
<1>1. \E x \in {a, b} : \A y \in {a, b} : x >= y
  <2>1. CASE a >= b  BY <2>1
  <2>2. CASE b >= a  BY <2>2
  <2> QED  BY <2>1, <2>2
<1> QED  BY <1>1 DEF Max

\* Every move ends at a bar of the session.
LEMMA MovedInside ==
    ASSUME NEW i \in Indices, NEW move \in Moves, NEW arg,
           move \in {"goto", "jump"} => arg \in Indices
    PROVE  Moved(i, move, arg) \in Indices
<1>1. Bars \in Nat /\ Bars >= 1 /\ EventBars \subseteq Indices /\ i \in Nat /\ i <= Bars - 1
  BY BarsAssumption DEF Indices
<1>2. CASE move = "forward"
  <2> DEFINE S == {i + 1, Bars - 1}
  <2>1. Min(S) \in S /\ \A y \in S : Min(S) <= y
    BY <1>1, MinIn, S \in SUBSET Nat
  <2>2. Moved(i, move, arg) = Min(S)
    BY <1>2 DEF Moved
  <2>3. Min(S) \in Nat /\ Min(S) <= Bars - 1
    BY <1>1, <2>1
  <2> QED  BY <1>1, <2>2, <2>3 DEF Indices
<1>3. CASE move = "back"
  <2>1. Max({i - 1, 0}) \in {i - 1, 0} /\ Max({i - 1, 0}) >= 0
    <3>1. i - 1 \in Int /\ 0 \in Int
      BY <1>1
    <3> HIDE DEF Max
    <3> QED  BY <3>1, MaxOfTwo
  <2>2. Moved(i, move, arg) = Max({i - 1, 0})
    BY <1>3 DEF Moved
  <2> QED  BY <1>1, <2>1, <2>2 DEF Indices
<1>4. CASE move = "next"
  <2>1. EventsAfter(i) \in SUBSET Indices
    BY <1>1 DEF EventsAfter
  <2>2. EventsAfter(i) # {} => Min(EventsAfter(i)) \in EventsAfter(i)
    BY <2>1, MinIn, Indices \in SUBSET Nat DEF Indices
  <2> QED  BY <1>4, <2>1, <2>2 DEF Moved
<1>5. CASE move = "previous"
  <2>1. EventsBefore(i) \in SUBSET Indices
    BY <1>1 DEF EventsBefore
  <2>2. EventsBefore(i) # {} => Max(EventsBefore(i)) \in EventsBefore(i)
    BY <1>1, <2>1, MaxIn, Bars - 1 \in Nat DEF Indices
  <2> QED  BY <1>5, <2>1, <2>2 DEF Moved
<1>6. CASE move \in {"goto", "jump"}
  BY <1>6 DEF Moved
<1> QED  BY <1>2, <1>3, <1>4, <1>5, <1>6 DEF Moves

-----------------------------------------------------------------------------
(* The bag of calls.                                                       *)

\* A call followed by another leaves the other calls alone.
LEMMA ThenBag ==
    ASSUME IsABag(calls), NEW c \in BagToSet(calls), NEW others, c \notin others
    PROVE  LET next == Then(c, others)
           IN  /\ IsABag(next)
               /\ BagToSet(next) \subseteq BagToSet(calls) \cup others
               /\ calls[c] = 1 => c \notin BagToSet(next)
               /\ \A d \in BagToSet(next) : d \notin others /\ d # c => next[d] = calls[d]
               /\ \A d \in others : d \notin BagToSet(calls) => next[d] = 1
<1> DEFINE less == [e \in DOMAIN calls |-> IF e \in {c} THEN calls[e] - 1 ELSE calls[e]]
           left == [e \in {d \in DOMAIN calls : less[d] > 0} |-> less[e]]
           next == [e \in DOMAIN left \cup others |->
                      (IF e \in DOMAIN left THEN left[e] ELSE 0) + (IF e \in others THEN 1 ELSE 0)]
<1>1. Then(c, others) = next
  BY DEF Then, SetToBag, (-), (+)
<1>2. \A e \in DOMAIN calls : calls[e] \in Nat /\ calls[e] > 0
  BY DEF IsABag
<1>3. /\ DOMAIN left \subseteq DOMAIN calls
      /\ \A e \in DOMAIN left : left[e] \in Nat /\ left[e] > 0 /\ (e # c => left[e] = calls[e])
      /\ calls[c] = 1 => c \notin DOMAIN left
  BY <1>2 DEF BagToSet
<1> HIDE DEF left
<1>4. IsABag(next)
  BY <1>3 DEF IsABag
<1>5. /\ BagToSet(next) \subseteq BagToSet(calls) \cup others
      /\ calls[c] = 1 => c \notin BagToSet(next)
  BY <1>3 DEF BagToSet
<1>6. \A d \in BagToSet(next) : d \notin others /\ d # c => next[d] = calls[d]
  BY <1>2, <1>3 DEF BagToSet
<1>7. \A d \in others : d \notin BagToSet(calls) => next[d] = 1
  BY <1>3 DEF BagToSet
<1> HIDE DEF next
<1> QED  BY <1>1, <1>4, <1>5, <1>6, <1>7

\* A call that is started joins the others.
LEMMA StartedBag ==
    ASSUME IsABag(calls), NEW others
    PROVE  LET next == calls (+) SetToBag(others)
           IN  /\ IsABag(next)
               /\ BagToSet(next) \subseteq BagToSet(calls) \cup others
               /\ \A d \in BagToSet(next) : d \notin others => next[d] = calls[d]
               /\ \A d \in others : d \notin BagToSet(calls) => next[d] = 1
<1> DEFINE next == [e \in DOMAIN calls \cup others |->
                      (IF e \in DOMAIN calls THEN calls[e] ELSE 0) + (IF e \in others THEN 1 ELSE 0)]
<1>1. calls (+) SetToBag(others) = next
  BY DEF SetToBag, (+)
<1>2. \A e \in DOMAIN calls : calls[e] \in Nat /\ calls[e] > 0
  BY DEF IsABag
<1>3. IsABag(next)
  BY <1>2 DEF IsABag
<1>4. /\ BagToSet(next) \subseteq BagToSet(calls) \cup others
      /\ \A d \in BagToSet(next) : d \notin others => next[d] = calls[d]
      /\ \A d \in others : d \notin BagToSet(calls) => next[d] = 1
  BY <1>2 DEF BagToSet
<1> HIDE DEF next
<1> QED  BY <1>1, <1>3, <1>4
-----------------------------------------------------------------------------
(* The invariant.                                                          *)

Opening == {"create", "events", "first_frame", "first_inspect"}
Asks == Moves \cup Opening \cup {"frame", "inspect", "play", "pause", "queue", "queue_again", "review"}
Requests == [ask : Asks, id : Sessions \cup {Nil}, arg : Indices \cup Setups \cup {Nil},
             answer : Indices \cup Sessions \cup {Nil}]

\* Some replay has come to the bar of setup s.
Witnessed(s) == \E id \in Sessions : reached[id] >= BarOf[s]

\* What a request may ask for, and what its answer may say: nothing that its session
\* has not reached.
Sound(c) ==
    /\ c.ask # "create" => c.id \in Sessions
    /\ c.ask \in {"goto", "jump"} => c.arg \in Indices
    /\ c.ask \in {"inspect", "first_inspect"} /\ c.arg # Nil
          => c.arg \in Indices /\ c.arg <= reached[c.id]
    /\ c.ask = "review" => c.arg \in Setups /\ Witnessed(c.arg)
    /\ c.answer # Nil =>
         /\ c.ask = "create" => c.answer \in Sessions
         /\ c.ask \notin {"create", "review"} => c.answer \in Indices /\ c.answer <= reached[c.id]
         /\ c.ask = "jump" => c.answer = c.arg

Fit(c) == c \in Requests /\ Sound(c) /\ (c.ask \in Moves => session # Nil)

CallsSound == \A c \in BagToSet(calls) : Fit(c)

\* startSession runs once at a time, so it finds a session that is not taken.
OneOpening ==
    \A c \in BagToSet(calls) :
        c.ask \in Opening =>
            /\ loading /\ calls[c] = 1
            /\ \A d \in BagToSet(calls) : d.ask \in Opening => d = c
            /\ c.ask = "create" /\ c.answer = Nil => Fresh # {}

StoredReached == \A s \in reviewed : Witnessed(s)
SelectedReached == selected # Nil => Witnessed(selected)
Reach == \A s \in Sessions : index[s] # Nil => index[s] <= reached[s]

StudioInv ==
    /\ TypeOK /\ OneOpening /\ CallsSound /\ SelectedReached /\ Reach
    /\ FramesNotAhead /\ StoredReached

\* The highest index of a session never falls.
Growing ==
    /\ reached' \in [Sessions -> {-1} \cup Indices]
    /\ \A s \in Sessions : reached'[s] >= reached[s]

-----------------------------------------------------------------------------
(* What a step that lets the sessions only grow keeps.                     *)

\* Bars, sessions and indices are numbers, and no setup or index is Nil.
LEMMA Numbers ==
    /\ Bars \in Nat /\ Bars >= 1 /\ Indices \subseteq Int /\ Sessions \subseteq Int /\ 0 \in Indices
    /\ Nil \notin Indices /\ Nil \notin Sessions /\ Nil \notin Setups
    /\ \A s \in Setups : BarOf[s] \in Indices
<1>1. Bars \in Nat /\ Bars >= 1 /\ \A s \in Setups : BarOf[s] \in Indices
  BY BarsAssumption
<1>2. Indices \subseteq Int /\ 0 \in Indices
  BY <1>1 DEF Indices
<1>3. Sessions \subseteq Int
  BY SessionsAssumption
<1>4. Nil \notin Indices /\ Nil \notin Sessions /\ Nil \notin Setups
  BY <1>2, <1>3, NilAssumption
<1> QED  BY <1>1, <1>2, <1>3, <1>4

\* Reached bars are numbers and only grow.
LEMMA ReachedInts ==
    /\ TypeOK => \A s \in Sessions : reached[s] \in Int
    /\ Growing => \A s \in Sessions : reached'[s] \in Int /\ reached'[s] >= reached[s]
<1>1. {-1} \cup Indices \subseteq Int
  BY Numbers
<1>2. TypeOK => \A s \in Sessions : reached[s] \in {-1} \cup Indices
  BY DEF TypeOK
<1>3. Growing => \A s \in Sessions : reached'[s] \in {-1} \cup Indices
  BY DEF Growing
<1> QED  BY <1>1, <1>2, <1>3 DEF Growing

\* Steps and jumps end on a bar of the session.
LEMMA PlacesExist ==
    /\ \A id \in Sessions, at \in Indices : At(id, at) \in Places /\ At(id, at) # Nil
    /\ \A p \in Places : p # Nil => p \in [id : Sessions, at : Indices]
<1>1. \A id \in Sessions, at \in Indices : At(id, at) \in [id : Int, at : Int]
  BY Numbers DEF At
<1>2. \A id \in Sessions, at \in Indices : At(id, at) # Nil
  BY <1>1, NilAssumption
<1>3. \A id \in Sessions, at \in Indices : At(id, at) \in Places
  BY DEF At, Places
<1> QED  BY <1>2, <1>3 DEF Places

\* A bar once reached stays reached.
LEMMA WitnessedKept ==
    ASSUME TypeOK, Growing, NEW s \in Setups, Witnessed(s)
    PROVE  Witnessed(s)'
<1>1. PICK id \in Sessions : reached[id] >= BarOf[s]
  BY DEF Witnessed
<1>2. reached[id] \in Int /\ reached'[id] \in Int /\ BarOf[s] \in Int /\ reached'[id] >= reached[id]
  BY Numbers, ReachedInts
<1>3. reached'[id] >= BarOf[s]
  BY <1>1, <1>2
<1> QED  BY <1>3 DEF Witnessed

\* A call that is sound stays so while the reached bars only grow.
LEMMA SoundKept ==
    ASSUME TypeOK, Growing, NEW c \in Requests, Sound(c)
    PROVE  Sound(c)'
<1>1. \A s \in Sessions : reached[s] \in Int /\ reached'[s] \in Int /\ reached'[s] >= reached[s]
  BY ReachedInts
<1>2. c.ask = "review" => c.arg \in Setups /\ Witnessed(c.arg)'
  BY WitnessedKept DEF Sound
<1>3. \A a \in Indices : c.id \in Sessions /\ a <= reached[c.id] => a <= reached'[c.id]
  <2> SUFFICES ASSUME NEW a \in Indices, c.id \in Sessions, a <= reached[c.id]
               PROVE  a <= reached'[c.id]
    OBVIOUS
  <2>1. a \in Int
    BY Numbers
  <2> QED  BY <1>1, <2>1
<1> HIDE DEF Witnessed
<1> QED  BY <1>2, <1>3 DEF Sound

\* What is shown stays behind what is reached.
LEMMA ShownKept ==
    ASSUME TypeOK, Growing, NEW place \in Places, place # Nil, place.at <= reached[place.id]
    PROVE  place.at <= reached'[place.id]
<1>1. place.id \in Sessions /\ place.at \in Int
  BY PlacesExist, Numbers
<1>2. reached[place.id] \in Int /\ reached'[place.id] \in Int /\ reached'[place.id] >= reached[place.id]
  BY <1>1, ReachedInts
<1> QED  BY <1>1, <1>2

\* The setup selected by the effect lies at or before the bar shown.
LEMMA PreselectedSound ==
    ASSUME TypeOK, SelectedReached, NEW loaded \in BOOLEAN, NEW place \in Places,
           place # Nil => place.at <= reached[place.id]
    PROVE  /\ Preselected(loaded, place) \in {Nil} \cup Setups
           /\ Preselected(loaded, place) # Nil => Witnessed(Preselected(loaded, place))
           /\ Preselected(loaded, place) # selected =>
                place # Nil /\ BarOf[Preselected(loaded, place)] <= place.at
<1> DEFINE visible == Visible(loaded, place)
           bars == {BarOf[s] : s \in visible}
<1>1. CASE selected # Nil \/ visible = {}
  <2>1. Preselected(loaded, place) = selected
    BY <1>1 DEF Preselected
  <2> QED  BY <2>1 DEF SelectedReached, TypeOK
<1>2. CASE selected = Nil /\ visible # {}
  <2>1. visible \subseteq Setups /\ place # Nil /\ \A s \in visible : BarOf[s] <= place.at
    BY <1>2 DEF Visible
  <2>2. bars \in SUBSET (0..(Bars - 1)) /\ bars # {} /\ Bars - 1 \in Nat
    BY <1>2, <2>1, Numbers DEF Indices
  <2>3. PICK b \in bars : \A y \in bars : b >= y
    BY <2>2, MaxIn
  <2>4. PICK s \in visible : b = BarOf[s]
    OBVIOUS
  <2>5. \A u \in visible : BarOf[s] >= BarOf[u]
    BY <2>3, <2>4
  <2> DEFINE picked == CHOOSE v \in visible : \A u \in visible : BarOf[v] >= BarOf[u]
  <2>6. picked \in visible
    BY <2>5
  <2>7. Preselected(loaded, place) = picked
    BY <1>2 DEF Preselected
  <2> HIDE DEF picked
  <2>8. BarOf[picked] <= place.at /\ picked \in Setups /\ place.id \in Sessions /\ place.at \in Int
    BY <2>1, <2>6, PlacesExist, Numbers
  <2>9. reached[place.id] >= BarOf[picked]
    <3>1. BarOf[picked] \in Int /\ reached[place.id] \in Int
      BY <2>8, Numbers, ReachedInts
    <3> QED  BY <2>1, <2>8, <3>1
  <2>10. Witnessed(picked)
    BY <2>8, <2>9 DEF Witnessed
  <2> QED  BY <2>1, <2>7, <2>8, <2>10
<1> QED  BY <1>1, <1>2

-----------------------------------------------------------------------------
(* What a step of a handler, or of the user, does to the calls under way.  *)

\* The next request of a handler is sound.
LEMMA CallsThen ==
    ASSUME TypeOK, CallsSound, OneOpening, Growing,
           NEW c \in BagToSet(calls), NEW others, c \notin others, calls' = Then(c, others),
           session # Nil => session' # Nil,
           \A d \in others : Fit(d)',
           c.ask \notin Opening => (loading => loading'),
           c.ask # "create" /\ Fresh # {} => Fresh' # {},
           \A d \in others : d.ask \in Opening =>
               /\ c.ask \in Opening /\ loading'
               /\ ~(d.ask = "create" /\ d.answer = Nil)
               /\ \A e \in others : e.ask \in Opening => e = d
    PROVE  IsABag(calls)' /\ CallsSound' /\ OneOpening'
<1>1. /\ IsABag(calls')
      /\ BagToSet(calls') \subseteq BagToSet(calls) \cup others
      /\ calls[c] = 1 => c \notin BagToSet(calls')
      /\ \A d \in BagToSet(calls') : d \notin others /\ d # c => calls'[d] = calls[d]
      /\ \A d \in others : d \notin BagToSet(calls) => calls'[d] = 1
  BY ThenBag DEF TypeOK
<1>2. CallsSound'
  <2> SUFFICES ASSUME NEW d \in BagToSet(calls') PROVE Fit(d)'
    BY DEF CallsSound
  <2>1. CASE d \in others
    BY <2>1
  <2>2. CASE d \in BagToSet(calls)
    <3>1. d \in Requests /\ Sound(d) /\ (d.ask \in Moves => session' # Nil)
      BY <2>2 DEF CallsSound, Fit
    <3>2. Sound(d)'
      BY <3>1, SoundKept
    <3> QED  BY <3>1, <3>2 DEF Fit
  <2> QED  BY <1>1, <2>1, <2>2
<1>3. OneOpening'
  <2> SUFFICES ASSUME NEW e \in BagToSet(calls'), e.ask \in Opening
               PROVE  /\ loading' /\ calls'[e] = 1
                      /\ \A d \in BagToSet(calls') : d.ask \in Opening => d = e
                      /\ e.ask = "create" /\ e.answer = Nil => Fresh' # {}
    BY DEF OneOpening
  <2>1. CASE c.ask \in Opening
    <3>1. \A d \in BagToSet(calls') : d.ask \in Opening => d \in others
      BY <1>1, <2>1 DEF OneOpening
    <3>2. e \notin BagToSet(calls)
      BY <1>1, <2>1, <3>1 DEF OneOpening
    <3> QED  BY <1>1, <3>1, <3>2
  <2>2. CASE c.ask \notin Opening
    <3>1. \A d \in BagToSet(calls') : d.ask \in Opening => d \in BagToSet(calls) /\ d # c /\ d \notin others
      BY <1>1, <2>2
    <3>2. loading /\ calls[e] = 1 /\ \A d \in BagToSet(calls) : d.ask \in Opening => d = e
      BY <3>1 DEF OneOpening
    <3>3. e.ask = "create" /\ e.answer = Nil => Fresh # {}
      BY <3>1 DEF OneOpening
    <3>4. c.ask # "create"
      BY <2>2 DEF Opening
    <3> QED  BY <1>1, <2>2, <3>1, <3>2, <3>3, <3>4
  <2> QED  BY <2>1, <2>2
<1> QED  BY <1>1, <1>2, <1>3

\* The first request of a handler is sound.
LEMMA CallsStarted ==
    ASSUME TypeOK, CallsSound, OneOpening,
           NEW others, Started(others), reached' = reached, session' = session,
           \A d \in others : Fit(d),
           loading => loading',
           \A d \in others : d.ask \in Opening =>
               ~loading /\ loading' /\ Fresh # {} /\ \A e \in others : e = d
    PROVE  IsABag(calls)' /\ CallsSound' /\ OneOpening'
<1>1. /\ IsABag(calls')
      /\ BagToSet(calls') \subseteq BagToSet(calls) \cup others
      /\ \A d \in BagToSet(calls') : d \notin others => calls'[d] = calls[d]
      /\ \A d \in others : d \notin BagToSet(calls) => calls'[d] = 1
  BY StartedBag DEF TypeOK, Started
<1>2. CallsSound'
  BY <1>1 DEF CallsSound, Fit, Sound, Witnessed
<1>3. OneOpening'
  <2> SUFFICES ASSUME NEW e \in BagToSet(calls'), e.ask \in Opening
               PROVE  /\ loading' /\ calls'[e] = 1
                      /\ \A d \in BagToSet(calls') : d.ask \in Opening => d = e
                      /\ e.ask = "create" /\ e.answer = Nil => Fresh' # {}
    BY DEF OneOpening
  <2>1. Fresh' = Fresh
    BY DEF Fresh
  <2>2. CASE loading
    BY <1>1, <2>1, <2>2 DEF OneOpening
  <2>3. CASE ~loading
    <3>1. \A d \in BagToSet(calls) : d.ask \notin Opening
      BY <2>3 DEF OneOpening
    <3> QED  BY <1>1, <2>1, <3>1
  <2> QED  BY <2>2, <2>3
<1> QED  BY <1>1, <1>2, <1>3

-----------------------------------------------------------------------------
(* The steps of the server.                                                *)

\* The server answers a request.
LEMMA ServeKeeps ==
    ASSUME StudioInv, Serve
    PROVE  StudioInv' /\ Growing
<1> USE DEF StudioInv
<1> DEFINE id(c) == IF c.ask = "create" THEN Min(Fresh) ELSE c.id
           arrival(c) == IF c.ask = "create" THEN 0
                     ELSE IF c.ask \in Moves THEN Moved(index[id(c)], c.ask, c.arg) ELSE index[id(c)]
           answer(c) == CASE c.ask = "create" -> id(c)
                          [] c.ask = "review" -> 0
                          [] c.ask = "inspect" /\ c.arg # Nil -> c.arg
                          [] OTHER -> arrival(c)
           answered(c) == [c EXCEPT !.answer = answer(c)]
<1>1. PICK c \in Served :
         /\ index' = IF c.ask = "review" THEN index ELSE [index EXCEPT ![id(c)] = arrival(c)]
         /\ reached' = IF c.ask = "review" THEN reached
                       ELSE [reached EXCEPT ![id(c)] = Max({@, arrival(c)})]
         /\ reviewed' = IF c.ask = "review" THEN reviewed \cup {c.arg} ELSE reviewed
         /\ calls' = Then(c, {answered(c)})
         /\ UNCHANGED <<page, chosen, clicks, faults>>
  BY DEF Serve
<1>2. /\ c \in BagToSet(calls) /\ c.answer = Nil
      /\ c.ask \in {"create", "review"} \/ index[c.id] # Nil
      /\ c \in Requests /\ Sound(c) /\ Fit(c)
  BY DEF Served, Asked, CallsSound, Fit
<1>3. id(c) \in Sessions \/ c.ask = "review"
  <2>1. CASE c.ask = "create"
    <3>1. Fresh # {} /\ Fresh \subseteq Sessions /\ Fresh \in SUBSET Nat
      BY <1>2, <2>1, SessionsAssumption DEF OneOpening, Opening, Fresh
    <3>2. Min(Fresh) \in Fresh
      BY <3>1, MinIn
    <3> QED  BY <2>1, <3>1, <3>2
  <2>2. CASE c.ask # "create"
    BY <1>2, <2>2 DEF Sound
  <2> QED  BY <2>1, <2>2
<1>4. c.ask # "review" => arrival(c) \in Indices
  <2> SUFFICES ASSUME c.ask \notin {"create", "review"} PROVE arrival(c) \in Indices
    BY Numbers
  <2>1. index[c.id] \in Indices
    BY <1>2, <1>3 DEF TypeOK
  <2>2. c.ask \in Moves => Moved(index[c.id], c.ask, c.arg) \in Indices
    BY <1>2, <2>1, MovedInside DEF Sound
  <2> QED  BY <2>1, <2>2
<1> DEFINE i == id(c)
           n == arrival(c)
           a == answer(c)
<1>5. a = IF c.ask = "create" THEN i
          ELSE IF c.ask = "review" THEN 0
          ELSE IF c.ask = "inspect" /\ c.arg # Nil THEN c.arg ELSE n
  OBVIOUS
<1>6. c.ask = "jump" => n = c.arg
  BY DEF Moved, Moves
<1>7. c.ask # "create" => i = c.id
  OBVIOUS
<1>8. \/ c.ask = "review" /\ index' = index /\ reached' = reached /\ reviewed' = reviewed \cup {c.arg}
      \/ /\ c.ask # "review" /\ i \in Sessions /\ n \in Indices
         /\ index' = [index EXCEPT ![i] = n]
         /\ reached' = [reached EXCEPT ![i] = Max({reached[i], n})]
         /\ reviewed' = reviewed
  BY <1>1, <1>3, <1>4
<1>9. calls' = Then(c, {[c EXCEPT !.answer = a]}) /\ UNCHANGED <<page, chosen, clicks, faults>>
  BY <1>1
<1> HIDE DEF i, n, a
<1>10. PICK d : /\ d = [ask |-> c.ask, id |-> c.id, arg |-> c.arg, answer |-> a]
                /\ calls' = Then(c, {d}) /\ UNCHANGED <<page, chosen, clicks, faults>>
  <2>1. [c EXCEPT !.answer = a] = [ask |-> c.ask, id |-> c.id, arg |-> c.arg, answer |-> a]
    BY <1>2 DEF Requests
  <2> QED  BY <1>9, <2>1
<1>11. /\ Growing
       /\ c.ask # "review" => reached'[i] >= n /\ n \in Int
  <2>1. CASE c.ask = "review"
    BY <1>8, <2>1, ReachedInts DEF TypeOK, Growing
  <2>2. CASE c.ask # "review"
    <3> DEFINE top == Max({reached[i], n})
    <3>1. reached[i] \in Int /\ n \in Int /\ reached[i] \in {-1} \cup Indices /\ n \in Indices
      BY <1>8, <2>2, ReachedInts, Numbers DEF TypeOK
    <3>2. top \in {reached[i], n} /\ top >= reached[i] /\ top >= n
      BY <3>1, MaxOfTwo
    <3>3. reached' = [reached EXCEPT ![i] = top] /\ i \in Sessions
      BY <1>8, <2>2
    <3> HIDE DEF top
    <3>4. top \in {-1} \cup Indices
      BY <3>1, <3>2
    <3>5. \A s \in Sessions : reached[s] \in Int
      BY ReachedInts
    <3>6. reached \in [Sessions -> {-1} \cup Indices]
      BY DEF TypeOK
    <3> QED  BY <3>1, <3>2, <3>3, <3>4, <3>5, <3>6 DEF Growing
  <2> QED  BY <2>1, <2>2
<1>12. Fit(d)'
  <2>1. a \in Indices \cup Sessions
    BY <1>2, <1>5, <1>8, Numbers DEF Sound
  <2>2. d \in Requests
    BY <1>2, <1>10, <2>1 DEF Requests
  <2>3. Sound(c)'
    BY <1>2, <1>11, SoundKept
  <2>4. c.ask = "create" => a \in Sessions
    BY <1>5, <1>8
  <2>5. c.ask \notin {"create", "review"} => a \in Indices /\ a <= reached'[c.id]
    <3> SUFFICES ASSUME c.ask \notin {"create", "review"}
                 PROVE  a \in Indices /\ a <= reached'[c.id]
      OBVIOUS
    <3>1. CASE c.ask = "inspect" /\ c.arg # Nil
      BY <1>5, <2>3, <3>1 DEF Sound
    <3>2. CASE ~(c.ask = "inspect" /\ c.arg # Nil)
      <4>1. a = n /\ i = c.id /\ i \in Sessions /\ n \in Indices /\ reached'[i] >= n /\ n \in Int
        BY <1>5, <1>7, <1>8, <1>11, <3>2
      <4>2. reached'[i] \in Int
        BY <1>11, <4>1, ReachedInts
      <4> QED  BY <4>1, <4>2
    <3> QED  BY <3>1, <3>2
  <2>6. c.ask = "jump" => a = c.arg
    BY <1>5, <1>6
  <2>7. Sound(d)'
    BY <1>10, <2>3, <2>4, <2>5, <2>6 DEF Sound
  <2> QED  BY <1>2, <1>10, <2>2, <2>7 DEF Fit, page
<1>13. c.ask # "create" => Fresh' = Fresh
  <2>1. CASE c.ask = "review"
    BY <1>8, <2>1 DEF Fresh
  <2>2. CASE c.ask \notin {"create", "review"}
    <3>1. i \in Sessions /\ n \in Indices /\ i = c.id /\ index[i] # Nil
      BY <1>2, <1>7, <1>8, <2>2
    <3>2. index[i] \in Indices /\ reached[i] >= index[i] /\ reached[i] \in Int
      BY <3>1, ReachedInts DEF Reach, TypeOK
    <3>3. \A k \in Indices : k >= 0 /\ k \in Int
      BY Numbers DEF Indices
    <3>4. reached[i] # -1 /\ reached'[i] # -1
      BY <1>11, <2>2, <3>1, <3>2, <3>3, ReachedInts
    <3>5. \A s \in Sessions : s # i => reached'[s] = reached[s]
      BY <1>8, <2>2 DEF TypeOK
    <3> QED  BY <3>4, <3>5 DEF Fresh
  <2> QED  BY <2>1, <2>2
<1>14. IsABag(calls)' /\ CallsSound' /\ OneOpening'
  <2>1. d \in {d} /\ c \notin {d}
    <3>1. a # Nil
      BY <1>2, <1>5, <1>8, Numbers DEF Sound
    <3> QED  BY <1>2, <1>10, <3>1
  <2>2. session' = session /\ loading' = loading
    BY <1>10 DEF page
  <2>3. \A e \in {d} : e.ask \in Opening =>
           /\ c.ask \in Opening /\ loading'
           /\ ~(e.ask = "create" /\ e.answer = Nil)
           /\ \A f \in {d} : f.ask \in Opening => f = e
    <3>1. d.ask = c.ask /\ d.answer # Nil
      BY <1>2, <1>5, <1>8, <1>10, Numbers DEF Sound
    <3>2. c.ask \in Opening => loading
      BY <1>2 DEF OneOpening
    <3> QED  BY <2>2, <3>1, <3>2
  <2> QED  BY <1>2, <1>10, <1>11, <1>12, <1>13, <2>1, <2>2, <2>3, CallsThen
<1>15. index' \in [Sessions -> {Nil} \cup Indices] /\ Reach'
  <2>1. index' \in [Sessions -> {Nil} \cup Indices]
    BY <1>8 DEF TypeOK
  <2>2. ASSUME NEW s \in Sessions, index'[s] # Nil PROVE index'[s] <= reached'[s]
    <3>1. CASE c.ask # "review" /\ s = i
      <4>1. index'[s] = n /\ reached'[s] \in Int
        BY <1>8, <1>11, <3>1, ReachedInts DEF TypeOK
      <4> QED  BY <1>11, <3>1, <4>1
    <3>2. CASE ~(c.ask # "review" /\ s = i)
      <4>1. index'[s] = index[s]
        BY <1>8, <3>2 DEF TypeOK
      <4>2. index[s] <= reached[s] /\ index[s] \in Int
        BY <2>2, <4>1, Numbers DEF Reach, TypeOK
      <4> QED  BY <1>11, <4>1, <4>2, ReachedInts
    <3> QED  BY <3>1, <3>2
  <2> QED  BY <2>1, <2>2 DEF Reach
<1>16. reviewed' \subseteq Setups /\ StoredReached'
  <2>1. reviewed' \subseteq Setups /\ \A s \in reviewed' : Witnessed(s)
    BY <1>2, <1>8 DEF Sound, TypeOK, StoredReached, Witnessed
  <2> QED  BY <1>11, <2>1, WitnessedKept DEF StoredReached, Witnessed
<1>17. SelectedReached'
  BY <1>10, <1>11, WitnessedKept DEF SelectedReached, page, TypeOK
<1>18. FramesNotAhead'
  BY <1>10, <1>11, ShownKept DEF FramesNotAhead, page, TypeOK
<1>19. TypeOK'
  BY <1>10, <1>11, <1>14, <1>15, <1>16 DEF TypeOK, page, Growing
<1> QED  BY <1>11, <1>14, <1>15, <1>16, <1>17, <1>18, <1>19

\* The server forgets its sessions.
LEMMA RestartKeeps ==
    ASSUME StudioInv, Restart
    PROVE  StudioInv'
<1> USE DEF StudioInv
<1>1. /\ faults < MaxFaults /\ faults' = faults + 1 /\ index' = [s \in Sessions |-> Nil]
      /\ UNCHANGED <<reviewed, reached, chosen, page, calls, clicks>>
  BY DEF Restart
<1>2. TypeOK'
  BY <1>1, BoundsAssumption DEF TypeOK, page
<1>3. OneOpening' /\ CallsSound'
  BY <1>1 DEF page, OneOpening, CallsSound, Fit, Sound, Witnessed, Fresh
<1> QED
  BY <1>1, <1>2, <1>3 DEF page, SelectedReached, Reach, FramesNotAhead, StoredReached, Witnessed

-----------------------------------------------------------------------------
(* The answers.                                                            *)

\* What holds of the server survives a step of the page.
LEMMA ServerStill ==
    ASSUME StudioInv, UNCHANGED <<index, reviewed, reached>>
    PROVE  /\ Growing /\ Reach' /\ StoredReached' /\ Fresh' = Fresh
           /\ \A s : Witnessed(s) => Witnessed(s)'
<1>1. index' = index /\ reviewed' = reviewed /\ reached' = reached
  OBVIOUS
<1>2. Growing
  BY <1>1, ReachedInts DEF StudioInv, TypeOK, Growing
<1> QED
  BY <1>1, <1>2 DEF StudioInv, Reach, StoredReached, Fresh, Witnessed

\* What an answer says.
LEMMA AnswerSays ==
    ASSUME StudioInv, NEW c \in Answered
    PROVE  /\ c \in BagToSet(calls) /\ c.answer # Nil /\ c \in Requests /\ Fit(c)
           /\ c.ask # "create" => c.id \in Sessions
           /\ c.ask \notin {"create", "review"} => c.answer \in Indices /\ c.answer <= reached[c.id]
           /\ c.ask = "create" => c.answer \in Sessions
           /\ c.ask \in Moves => session # Nil
           /\ c.ask \in Opening => loading
BY DEF StudioInv, CallsSound, Fit, Sound, Answered, OneOpening

\* A request for nothing but its session is sound.
LEMMA PlainFits ==
    ASSUME NEW ask \in Asks \ (Moves \cup {"create", "review"}), NEW id \in Sessions
    PROVE  Fit(Call(ask, id, Nil))' /\ Fit(Call(ask, id, Nil))
BY DEF Fit, Call, Requests, Sound, Moves

\* The answer to a step or jump arrives.
LEMMA MoveAnsweredKeeps ==
    ASSUME StudioInv, MoveAnswered
    PROVE  StudioInv'
<1>1. PICK c \in Answered :
         /\ c.ask \in Moves
         /\ frame' = At(c.id, c.answer)
         /\ session' = MovedTo(c.answer)
         /\ selected' = Preselected(queue, frame') /\ Note(frame')
         /\ calls' = Then(c, {Call("inspect", c.id, IF c.ask = "jump" THEN c.arg ELSE Nil),
                              Call("frame", session.id, Nil)})
         /\ UNCHANGED <<index, reviewed, reached, inspector, playing, loading, enabled, queue, saving,
                        clicks, faults>>
  BY DEF MoveAnswered
<1>2. /\ c \in BagToSet(calls) /\ c.answer # Nil /\ c \in Requests /\ Fit(c) /\ session # Nil
      /\ c.id \in Sessions /\ c.answer \in Indices /\ c.answer <= reached[c.id]
      /\ c.ask \notin Opening
  BY <1>1, AnswerSays DEF Moves, Opening
<1>3. session \in [id : Sessions, at : Indices] /\ session.id \in Sessions
  BY <1>2, PlacesExist DEF StudioInv, TypeOK
<1>4. session' \in Places /\ session' # Nil
  <2>1. session' = At(session.id, c.answer)
    BY <1>1, <1>2, <1>3 DEF MovedTo, At
  <2> QED  BY <1>2, <1>3, <2>1, PlacesExist
<1>5. /\ frame' \in Places /\ frame'.at <= reached[frame'.id] /\ reached' = reached
      /\ queue \in BOOLEAN
  BY <1>1, <1>2, PlacesExist DEF At, StudioInv, TypeOK
<1>6. Growing /\ Reach' /\ StoredReached' /\ Fresh' = Fresh /\ \A s : Witnessed(s) => Witnessed(s)'
  BY <1>1, ServerStill
<1>7. selected' \in {Nil} \cup Setups /\ SelectedReached'
  <2>1. /\ selected' \in {Nil} \cup Setups
        /\ selected' # Nil => Witnessed(selected')
    BY <1>1, <1>5, PreselectedSound DEF StudioInv
  <2> QED  BY <1>5, <2>1 DEF SelectedReached, Witnessed
<1>8. PICK d, e :
         /\ d = Call("inspect", c.id, IF c.ask = "jump" THEN c.arg ELSE Nil)
         /\ e = Call("frame", session.id, Nil)
         /\ calls' = Then(c, {d, e})
  BY <1>1
<1>9. Fit(d)' /\ Fit(e)'
  <2>1. Fit(e)'
    BY <1>3, <1>8, PlainFits DEF Asks, Moves
  <2>2. c.ask = "jump" => c.arg \in Indices /\ c.arg <= reached[c.id]
    BY <1>2 DEF Fit, Sound
  <2>3. d \in Requests
    BY <1>2, <1>8, <2>2 DEF Call, Requests, Asks
  <2>4. Sound(d)'
    BY <1>2, <1>5, <1>8, <2>2 DEF Call, Sound
  <2>5. d.ask \notin Moves
    BY <1>8 DEF Call, Moves
  <2> QED  BY <2>1, <2>3, <2>4, <2>5 DEF Fit
<1>10. IsABag(calls)' /\ CallsSound' /\ OneOpening'
  <2>1. c \notin {d, e} /\ d.ask \notin Opening /\ e.ask \notin Opening
    BY <1>2, <1>8 DEF Call, Opening
  <2>2. loading' = loading /\ c.ask # "create"
    BY <1>1, <1>2 DEF Opening
  <2> QED  BY <1>2, <1>4, <1>6, <1>8, <1>9, <2>1, <2>2, CallsThen DEF StudioInv
<1>11. FramesNotAhead'
  BY <1>1, <1>5 DEF StudioInv, FramesNotAhead
<1>12. TypeOK'
  <2>1. chosen' \in Places
    BY <1>1, <1>5 DEF Note, StudioInv, TypeOK
  <2> QED  BY <1>1, <1>4, <1>5, <1>7, <1>10, <2>1 DEF StudioInv, TypeOK
<1> QED  BY <1>6, <1>7, <1>10, <1>11, <1>12 DEF StudioInv

\* The answer with a frame arrives.
LEMMA FrameAnsweredKeeps ==
    ASSUME StudioInv, FrameAnswered
    PROVE  StudioInv'
<1>1. PICK c \in Answered :
         /\ c.ask \in {"frame", "first_frame"}
         /\ frame' = At(c.id, c.answer)
         /\ selected' = Preselected(queue, frame') /\ Note(frame')
         /\ calls' = Then(c, {Call(IF c.ask = "frame" THEN "inspect" ELSE "first_inspect", c.id, Nil)})
         /\ UNCHANGED <<index, reviewed, reached, session, inspector, playing, loading, enabled, queue,
                        saving, clicks, faults>>
  BY DEF FrameAnswered
<1>2. /\ c \in BagToSet(calls) /\ c.answer # Nil /\ c.id \in Sessions /\ c.answer \in Indices
      /\ c.answer <= reached[c.id] /\ (c.ask \in Opening => loading) /\ c.ask # "create"
  BY <1>1, AnswerSays
<1>3. /\ frame' \in Places /\ frame'.at <= reached[frame'.id] /\ reached' = reached
      /\ queue \in BOOLEAN
  BY <1>1, <1>2, PlacesExist DEF At, StudioInv, TypeOK
<1>4. Growing /\ Reach' /\ StoredReached' /\ Fresh' = Fresh /\ \A s : Witnessed(s) => Witnessed(s)'
  BY <1>1, ServerStill
<1>5. selected' \in {Nil} \cup Setups /\ SelectedReached'
  <2>1. /\ selected' \in {Nil} \cup Setups
        /\ selected' # Nil => Witnessed(selected')
    BY <1>1, <1>3, PreselectedSound DEF StudioInv
  <2> QED  BY <1>3, <2>1 DEF SelectedReached, Witnessed
<1>6. PICK d :
         /\ d = Call(IF c.ask = "frame" THEN "inspect" ELSE "first_inspect", c.id, Nil)
         /\ calls' = Then(c, {d})
  BY <1>1
<1>7. Fit(d)'
  BY <1>2, <1>6, PlainFits DEF Asks, Moves, Opening
<1>8. c # d /\ (d.ask \in Opening => c.ask \in Opening) /\ d.ask # "create"
  BY <1>1, <1>2, <1>6 DEF Call, Opening
<1>9. IsABag(calls)' /\ CallsSound' /\ OneOpening'
  <2>1. loading' = loading /\ session' = session
    BY <1>1
  <2> QED  BY <1>2, <1>4, <1>6, <1>7, <1>8, <2>1, CallsThen DEF StudioInv
<1>10. FramesNotAhead'
  BY <1>1, <1>3 DEF StudioInv, FramesNotAhead
<1>11. TypeOK'
  <2>1. chosen' \in Places
    BY <1>1, <1>3 DEF Note, StudioInv, TypeOK
  <2> QED  BY <1>1, <1>3, <1>5, <1>9, <2>1 DEF StudioInv, TypeOK
<1> QED  BY <1>4, <1>5, <1>9, <1>10, <1>11 DEF StudioInv

\* The answer of the inspector arrives.
LEMMA InspectorAnsweredKeeps ==
    ASSUME StudioInv, InspectorAnswered
    PROVE  StudioInv'
<1>1. PICK c \in Answered :
         /\ c.ask \in {"inspect", "first_inspect"}
         /\ inspector' = At(c.id, c.answer)
         /\ loading' = (loading /\ c.ask = "inspect")
         /\ calls' = Then(c, {})
         /\ UNCHANGED <<index, reviewed, reached, chosen, session, frame, playing, enabled, queue, selected, saving,
                        clicks, faults>>
  BY DEF InspectorAnswered
<1>2. /\ c \in BagToSet(calls) /\ c.id \in Sessions /\ c.answer \in Indices
      /\ c.answer <= reached[c.id] /\ (c.ask \notin Opening => c.ask = "inspect") /\ c.ask # "create"
  BY <1>1, AnswerSays DEF Opening
<1>3. inspector' \in Places /\ inspector'.at <= reached[inspector'.id] /\ reached' = reached
  BY <1>1, <1>2, PlacesExist DEF At
<1>4. Growing /\ Reach' /\ StoredReached' /\ Fresh' = Fresh /\ \A s : Witnessed(s) => Witnessed(s)'
  BY <1>1, ServerStill
<1>5. IsABag(calls)' /\ CallsSound' /\ OneOpening'
  <2>1. c.ask \notin Opening => (loading => loading')
    BY <1>1, <1>2
  <2>2. session' = session
    BY <1>1
  <2> QED  BY <1>1, <1>2, <1>4, <2>1, <2>2, CallsThen DEF StudioInv
<1>6. FramesNotAhead' /\ SelectedReached'
  BY <1>1, <1>3, <1>4 DEF StudioInv, FramesNotAhead, SelectedReached, Witnessed
<1>7. loading' \in BOOLEAN
  BY <1>1
<1>8. TypeOK'
  BY <1>1, <1>3, <1>5, <1>7 DEF StudioInv, TypeOK
<1> QED  BY <1>4, <1>5, <1>6, <1>8 DEF StudioInv

\* The answer with a new session arrives.
LEMMA SessionCreatedKeeps ==
    ASSUME StudioInv, SessionCreated
    PROVE  StudioInv'
<1>1. PICK c \in Answered :
         /\ c.ask = "create"
         /\ session' = At(c.answer, 0)
         /\ calls' = Then(c, {Call("events", c.answer, Nil), Call("frame", c.answer, Nil)}
                             \cup IF enabled THEN {Call("queue", c.answer, Nil)} ELSE {})
         /\ UNCHANGED <<index, reviewed, reached, chosen, frame, inspector, playing, loading, enabled, queue,
                        selected, saving, clicks, faults>>
  BY DEF SessionCreated
<1>2. c \in BagToSet(calls) /\ c.answer # Nil /\ c.answer \in Sessions /\ c.ask \in Opening /\ loading
  BY <1>1, AnswerSays DEF Opening
<1>3. session' \in Places /\ session' # Nil
  BY <1>1, <1>2, PlacesExist, Numbers
<1>4. Growing /\ Reach' /\ StoredReached' /\ Fresh' = Fresh /\ \A s : Witnessed(s) => Witnessed(s)'
  BY <1>1, ServerStill
<1>5. PICK d, more :
         /\ d = Call("events", c.answer, Nil)
         /\ more \subseteq {Call("frame", c.answer, Nil), Call("queue", c.answer, Nil)}
         /\ calls' = Then(c, {d} \cup more)
  <2> DEFINE m == {Call("frame", c.answer, Nil)} \cup IF enabled THEN {Call("queue", c.answer, Nil)} ELSE {}
             o == {Call("events", c.answer, Nil), Call("frame", c.answer, Nil)}
                     \cup IF enabled THEN {Call("queue", c.answer, Nil)} ELSE {}
  <2>1. o = {Call("events", c.answer, Nil)} \cup m
    OBVIOUS
  <2>2. m \subseteq {Call("frame", c.answer, Nil), Call("queue", c.answer, Nil)}
    OBVIOUS
  <2>3. calls' = Then(c, o)
    BY <1>1
  <2> HIDE DEF m, o
  <2> QED  BY <2>1, <2>2, <2>3
<1>6. \A e \in {d} \cup more : Fit(e)' /\ e # c /\ (e.ask \in Opening => e = d) /\ e.ask # "create"
  <2>1. Fit(d)' /\ d # c /\ d.ask # "create"
    BY <1>2, <1>5, PlainFits DEF Call, Asks, Moves, Opening
  <2>2. ASSUME NEW e \in more PROVE Fit(e)' /\ e # c /\ e.ask \notin Opening
    BY <1>2, <1>5, PlainFits DEF Call, Asks, Moves, Opening
  <2> QED  BY <2>1, <2>2 DEF Opening
<1>7. IsABag(calls)' /\ CallsSound' /\ OneOpening'
  <2>1. loading'
    BY <1>1, <1>2
  <2> DEFINE others == {d} \cup more
  <2>2. c \notin others /\ calls' = Then(c, others) /\ \A e \in others : Fit(e)'
    BY <1>5, <1>6
  <2>3. \A f \in others : f.ask \in Opening =>
           /\ c.ask \in Opening /\ loading'
           /\ ~(f.ask = "create" /\ f.answer = Nil)
           /\ \A e \in others : e.ask \in Opening => e = f
    BY <1>2, <1>6, <2>1
  <2> HIDE DEF others
  <2> QED  BY <1>1, <1>2, <1>3, <1>4, <2>2, <2>3, CallsThen DEF StudioInv
<1>8. FramesNotAhead' /\ SelectedReached'
  BY <1>1, <1>4 DEF StudioInv, FramesNotAhead, SelectedReached, Witnessed
<1>9. TypeOK'
  BY <1>1, <1>3, <1>7 DEF StudioInv, TypeOK
<1> QED  BY <1>4, <1>7, <1>8, <1>9 DEF StudioInv

\* A handler that goes on with one plain request, or ends, and leaves the chart alone.
LEMMA HandlerGoesOn ==
    ASSUME StudioInv, NEW c \in BagToSet(calls), NEW others, calls' = Then(c, others),
           \/ others = {}
           \/ /\ c.answer # Nil
              /\ \E ask \in {"first_frame", "queue_again"}, id \in Sessions :
                    others = {Call(ask, id, Nil)} /\ (ask = "first_frame" => c.ask \in Opening /\ loading'),
           c.ask \notin Opening => (loading => loading'),
           UNCHANGED <<index, reviewed, reached, session, frame, inspector>>
    PROVE  /\ IsABag(calls)' /\ CallsSound' /\ OneOpening' /\ Reach' /\ StoredReached' /\ FramesNotAhead'
           /\ selected' = selected => SelectedReached'
<1>1. Growing /\ Reach' /\ StoredReached' /\ Fresh' = Fresh /\ \A s : Witnessed(s) => Witnessed(s)'
  BY ServerStill
<1>2. session' = session /\ frame' = frame /\ inspector' = inspector /\ reached' = reached
  OBVIOUS
<1>3. FramesNotAhead' /\ (selected' = selected => SelectedReached')
  BY <1>2 DEF StudioInv, FramesNotAhead, SelectedReached, Witnessed
<1>4. CASE others = {}
  BY <1>1, <1>2, <1>3, <1>4, CallsThen DEF StudioInv
<1>5. CASE others # {}
  <2>1. PICK ask \in {"first_frame", "queue_again"}, id \in Sessions :
           others = {Call(ask, id, Nil)} /\ (ask = "first_frame" => c.ask \in Opening /\ loading')
    BY <1>5
  <2>2. PICK d : d = Call(ask, id, Nil) /\ others = {d}
    BY <2>1
  <2>3. d.ask = ask /\ d # c /\ (d.ask \in Opening => c.ask \in Opening /\ loading') /\ d.ask # "create"
    BY <1>5, <2>1, <2>2 DEF Call, Opening
  <2>4. Fit(d)'
    BY <2>2, PlainFits DEF Asks, Moves, Opening
  <2> QED  BY <1>1, <1>2, <1>3, <2>2, <2>3, <2>4, CallsThen DEF StudioInv
<1> QED  BY <1>4, <1>5

\* The other answers arrive.
LEMMA OtherAnswersKeep ==
    ASSUME StudioInv, EventsAnswered \/ PlaybackAnswered \/ QueueAnswered \/ ReviewAnswered
    PROVE  StudioInv'
<1>1. CASE EventsAnswered
  <2>1. PICK c \in Answered :
           /\ c.ask = "events" /\ calls' = Then(c, {Call("first_frame", c.id, Nil)})
           /\ UNCHANGED <<index, reviewed, reached, chosen, page, clicks, faults>>
    BY <1>1 DEF EventsAnswered
  <2>2. c \in BagToSet(calls) /\ c.answer # Nil /\ c.id \in Sessions /\ c.ask \in Opening /\ loading
    BY <2>1, AnswerSays DEF Opening
  <2>3. /\ IsABag(calls)' /\ CallsSound' /\ OneOpening' /\ Reach' /\ StoredReached' /\ FramesNotAhead'
        /\ selected' = selected => SelectedReached'
    BY <2>1, <2>2, HandlerGoesOn DEF page
  <2> QED  BY <2>1, <2>3 DEF StudioInv, TypeOK, page
<1>2. CASE PlaybackAnswered
  <2>1. PICK c \in Answered :
           /\ playing' = (c.ask = "play") /\ calls' = Then(c, {})
           /\ UNCHANGED <<index, reviewed, reached, chosen, session, frame, inspector, loading, enabled, queue,
                          selected, saving, clicks, faults>>
    BY <1>2 DEF PlaybackAnswered
  <2>2. playing' \in BOOLEAN
    BY <2>1
  <2>3. /\ IsABag(calls)' /\ CallsSound' /\ OneOpening' /\ Reach' /\ StoredReached' /\ FramesNotAhead'
        /\ selected' = selected => SelectedReached'
    BY <2>1, AnswerSays, HandlerGoesOn
  <2> QED  BY <2>1, <2>2, <2>3 DEF StudioInv, TypeOK
<1>3. CASE QueueAnswered
  <2>1. PICK c \in Answered :
           /\ queue' = TRUE
           /\ selected' = Preselected(TRUE, frame) /\ Note(frame)
           /\ saving' = (saving /\ c.ask = "queue")
           /\ calls' = Then(c, {})
           /\ UNCHANGED <<index, reviewed, reached, session, frame, inspector, playing, loading, enabled,
                          clicks, faults>>
    BY <1>3 DEF QueueAnswered
  <2>2. /\ IsABag(calls)' /\ CallsSound' /\ OneOpening' /\ Reach' /\ StoredReached' /\ FramesNotAhead'
    BY <2>1, AnswerSays, HandlerGoesOn
  <2>3. frame \in Places /\ (frame # Nil => frame.at <= reached[frame.id])
    BY DEF StudioInv, TypeOK, FramesNotAhead
  <2>4. selected' \in {Nil} \cup Setups /\ (selected' # Nil => Witnessed(selected'))
    BY <2>1, <2>3, PreselectedSound DEF StudioInv
  <2>5. SelectedReached' /\ queue' \in BOOLEAN /\ saving' \in BOOLEAN /\ chosen' \in Places
    BY <2>1, <2>3, <2>4 DEF SelectedReached, Witnessed, Note, StudioInv, TypeOK
  <2> QED  BY <2>1, <2>2, <2>4, <2>5 DEF StudioInv, TypeOK
<1>4. CASE ReviewAnswered
  <2>1. PICK c \in Answered :
           /\ c.ask = "review" /\ calls' = Then(c, {Call("queue_again", c.id, Nil)})
           /\ UNCHANGED <<index, reviewed, reached, chosen, page, clicks, faults>>
    BY <1>4 DEF ReviewAnswered
  <2>2. c \in BagToSet(calls) /\ c.answer # Nil /\ c.id \in Sessions
    BY <2>1, AnswerSays
  <2>3. /\ IsABag(calls)' /\ CallsSound' /\ OneOpening' /\ Reach' /\ StoredReached' /\ FramesNotAhead'
        /\ selected' = selected => SelectedReached'
    BY <2>1, <2>2, HandlerGoesOn DEF page
  <2> QED  BY <2>1, <2>3 DEF StudioInv, TypeOK, page
<1> QED  BY <1>1, <1>2, <1>3, <1>4

\* A request fails.
LEMMA FailureKeeps ==
    ASSUME StudioInv, NotFound \/ Lost
    PROVE  StudioInv'
<1>1. PICK c \in BagToSet(calls) : EndsWith(c) /\ faults' \in 0..MaxFaults
  <2>1. CASE NotFound
    BY <2>1 DEF NotFound, Asked, StudioInv, TypeOK
  <2>2. CASE Lost
    BY <2>2, BoundsAssumption DEF Lost, StudioInv, TypeOK
  <2> QED  BY <2>1, <2>2
<1>2. /\ loading' = (loading /\ c.ask \notin Opening)
      /\ saving' = (saving /\ c.ask \notin {"review", "queue_again"})
      /\ calls' = Then(c, {})
      /\ UNCHANGED <<index, reviewed, reached, chosen, session, frame, inspector, playing, enabled, queue, selected,
                     clicks>>
  BY <1>1 DEF EndsWith, Opening
<1>3. loading' \in BOOLEAN /\ saving' \in BOOLEAN
  BY <1>2
<1>4. /\ IsABag(calls)' /\ CallsSound' /\ OneOpening' /\ Reach' /\ StoredReached' /\ FramesNotAhead'
      /\ selected' = selected => SelectedReached'
  BY <1>2, HandlerGoesOn
<1> QED  BY <1>1, <1>2, <1>3, <1>4 DEF StudioInv, TypeOK

-----------------------------------------------------------------------------
(* The user and the timer.                                                 *)

\* A click counts towards its bound.
LEMMA ClicksCounted ==
    ASSUME TypeOK, Clicked
    PROVE  clicks' \in 0..MaxClicks
BY BoundsAssumption DEF TypeOK, Clicked

\* What is on screen belongs to a session and lies behind its reached bar.
LEMMA ToolbarShows ==
    ASSUME StudioInv
    PROVE  /\ session # Nil => session.id \in Sessions
           /\ frame # Nil => frame.at <= reached[frame.id] /\ frame.id \in Sessions
BY PlacesExist DEF StudioInv, TypeOK, FramesNotAhead

\* What the user starts leaves the server and the bars shown alone.
LEMMA HandlerStarts ==
    ASSUME StudioInv, NEW others, Started(others),
           UNCHANGED <<index, reviewed, reached, session, frame, inspector>>,
           \A d \in others : Fit(d),
           loading => loading',
           \A d \in others : d.ask \in Opening =>
               ~loading /\ loading' /\ Fresh # {} /\ \A e \in others : e = d
    PROVE  /\ IsABag(calls)' /\ CallsSound' /\ OneOpening' /\ Reach' /\ StoredReached' /\ FramesNotAhead'
           /\ selected' = selected => SelectedReached'
<1>1. Reach' /\ StoredReached' /\ \A s : Witnessed(s) => Witnessed(s)'
  BY ServerStill
<1>2. FramesNotAhead' /\ (selected' = selected => SelectedReached')
  BY <1>1 DEF StudioInv, FramesNotAhead, SelectedReached
<1>3. IsABag(calls)' /\ CallsSound' /\ OneOpening'
  BY CallsStarted DEF StudioInv
<1> QED  BY <1>1, <1>2, <1>3

\* A single request that does not open a session.
LEMMA OneStarts ==
    ASSUME StudioInv, NEW d, Started({d}), Fit(d), d.ask \notin Opening, loading' = loading,
           UNCHANGED <<index, reviewed, reached, session, frame, inspector>>
    PROVE  /\ IsABag(calls)' /\ CallsSound' /\ OneOpening' /\ Reach' /\ StoredReached' /\ FramesNotAhead'
           /\ selected' = selected => SelectedReached'
BY HandlerStarts

\* The requests a click may start once a session is open.
LEMMA ClickFits ==
    ASSUME NEW id \in Sessions, session # Nil
    PROVE  /\ \A move \in {"forward", "back", "next", "previous"} :
                Fit(Call(move, id, Nil)) /\ Call(move, id, Nil).ask \notin Opening
           /\ \A move \in {"goto", "jump"}, b \in Indices :
                Fit(Call(move, id, b)) /\ Call(move, id, b).ask \notin Opening
           /\ \A ask \in {"play", "pause", "frame", "queue"} :
                Fit(Call(ask, id, Nil)) /\ Call(ask, id, Nil).ask \notin Opening
           /\ \A s \in Setups : Witnessed(s) =>
                Fit(Call("review", id, s)) /\ Call("review", id, s).ask \notin Opening
<1> HIDE DEF Witnessed
<1>1. \A move \in {"forward", "back", "next", "previous"} :
         Fit(Call(move, id, Nil)) /\ Call(move, id, Nil).ask \notin Opening
  BY DEF Fit, Call, Requests, Sound, Moves, Asks, Opening
<1>2. \A move \in {"goto", "jump"}, b \in Indices :
         Fit(Call(move, id, b)) /\ Call(move, id, b).ask \notin Opening
  BY DEF Fit, Call, Requests, Sound, Moves, Asks, Opening
<1>3. \A ask \in {"play", "pause", "frame", "queue"} :
         Fit(Call(ask, id, Nil)) /\ Call(ask, id, Nil).ask \notin Opening
  BY DEF Fit, Call, Requests, Sound, Moves, Asks, Opening
<1>4. \A s \in Setups : Witnessed(s) =>
         Fit(Call("review", id, s)) /\ Call("review", id, s).ask \notin Opening
  BY DEF Fit, Call, Requests, Sound, Moves, Asks, Opening
<1> QED  BY <1>1, <1>2, <1>3, <1>4

\* A session is asked for.
LEMMA StartSessionKeeps ==
    ASSUME StudioInv, StartSession
    PROVE  StudioInv'
<1>1. /\ ~loading /\ Fresh # {} /\ loading' = TRUE /\ Started({Call("create", Nil, Nil)})
      /\ Clicked
      /\ UNCHANGED <<index, reviewed, reached, chosen, session, frame, inspector, playing, enabled, queue, selected,
                     saving, faults>>
  BY DEF StartSession
<1>2. Fit(Call("create", Nil, Nil))
  BY DEF Fit, Call, Requests, Sound, Moves, Asks, Opening
<1>3. /\ IsABag(calls)' /\ CallsSound' /\ OneOpening' /\ Reach' /\ StoredReached' /\ FramesNotAhead'
      /\ selected' = selected => SelectedReached'
  BY <1>1, <1>2, HandlerStarts
<1> QED  BY <1>1, <1>3, ClicksCounted DEF StudioInv, TypeOK

\* The toolbar, where only the calls and the number of clicks change.
LEMMA ToolbarKeeps ==
    ASSUME StudioInv, Move \/ JumpTo \/ TogglePlay \/ Redraw
    PROVE  StudioInv'
<1>1. Toolbar /\ Clicked /\ UNCHANGED <<index, reviewed, reached, chosen, page, faults>>
  BY DEF Move, JumpTo, TogglePlay, Redraw
<1>2. session # Nil /\ session.id \in Sessions
  BY <1>1, ToolbarShows DEF Toolbar
<1>3. PICK d : Started({d}) /\ Fit(d) /\ d.ask \notin Opening
  <2>1. CASE Move
    BY <1>2, <2>1, ClickFits DEF Move
  <2>2. CASE JumpTo
    BY <1>2, <2>2, ClickFits DEF JumpTo, Jump
  <2>3. CASE TogglePlay
    BY <1>2, <2>3, ClickFits DEF TogglePlay
  <2>4. CASE Redraw
    BY <1>2, <2>4, ClickFits DEF Redraw
  <2> QED  BY <2>1, <2>2, <2>3, <2>4
<1>4. /\ IsABag(calls)' /\ CallsSound' /\ OneOpening' /\ Reach' /\ StoredReached' /\ FramesNotAhead'
      /\ SelectedReached'
  BY <1>1, <1>3, OneStarts DEF page
<1> QED  BY <1>1, <1>4, ClicksCounted DEF StudioInv, TypeOK, page

\* The panel opens or closes.
LEMMA ToggleValidationKeeps ==
    ASSUME StudioInv, ToggleValidation
    PROVE  StudioInv'
<1>1. /\ Toolbar /\ Clicked /\ enabled' = ~enabled
      /\ Started(IF enabled THEN {} ELSE {Call("queue", session.id, Nil)})
      /\ UNCHANGED <<index, reviewed, reached, chosen, session, frame, inspector, playing, loading, queue, selected,
                     saving, faults>>
  BY DEF ToggleValidation
<1>2. session # Nil /\ session.id \in Sessions
  BY <1>1, ToolbarShows DEF Toolbar
<1>3. PICK others : /\ Started(others)
                    /\ \A d \in others : Fit(d) /\ d.ask \notin Opening
  BY <1>1, <1>2, ClickFits
<1>4. /\ IsABag(calls)' /\ CallsSound' /\ OneOpening' /\ Reach' /\ StoredReached' /\ FramesNotAhead'
      /\ SelectedReached'
  BY <1>1, <1>3, HandlerStarts
<1>5. enabled' \in BOOLEAN
  BY <1>1
<1> QED  BY <1>1, <1>4, <1>5, ClicksCounted DEF StudioInv, TypeOK

\* A setup is chosen.
LEMMA SelectSetupKeeps ==
    ASSUME StudioInv, SelectSetup
    PROVE  StudioInv'
<1>1. PICK s \in Visible(queue, frame) : selected' = s /\ Started({Call("jump", session.id, BarOf[s])})
  BY DEF SelectSetup, Jump
<1>2. /\ Toolbar /\ Clicked /\ chosen' = frame
      /\ UNCHANGED <<index, reviewed, reached, session, frame, inspector, playing, loading, enabled, queue,
                     saving, faults>>
  BY DEF SelectSetup
<1>3. /\ session # Nil /\ session.id \in Sessions
      /\ frame.at <= reached[frame.id] /\ frame.id \in Sessions
  BY <1>2, ToolbarShows DEF Toolbar
<1>4. s \in Setups /\ BarOf[s] <= frame.at /\ BarOf[s] \in Indices /\ frame.at \in Indices
  BY <1>1, <1>2, PlacesExist, Numbers DEF Visible, Toolbar, StudioInv, TypeOK
<1>5. PICK d : Started({d}) /\ Fit(d) /\ d.ask \notin Opening
  BY <1>1, <1>3, <1>4, ClickFits
<1>6. /\ IsABag(calls)' /\ CallsSound' /\ OneOpening' /\ Reach' /\ StoredReached' /\ FramesNotAhead'
  BY <1>2, <1>5, OneStarts
<1>7. Witnessed(s)
  <2>1. BarOf[s] \in Int /\ frame.at \in Int /\ reached[frame.id] \in Int
    BY <1>3, <1>4, Numbers, ReachedInts DEF StudioInv
  <2>2. reached[frame.id] >= BarOf[s]
    BY <1>3, <1>4, <2>1
  <2> QED  BY <1>3, <2>2 DEF Witnessed
<1>8. selected' \in {Nil} \cup Setups /\ SelectedReached'
  BY <1>1, <1>2, <1>4, <1>7 DEF SelectedReached, Witnessed
<1> QED  BY <1>2, <1>6, <1>8, ClicksCounted DEF StudioInv, TypeOK

\* A review of the chosen setup is saved.
LEMMA SaveReviewKeeps ==
    ASSUME StudioInv, SaveReview
    PROVE  StudioInv'
<1>1. /\ Toolbar /\ selected # Nil /\ Clicked /\ saving' = TRUE
      /\ Started({Call("review", session.id, selected)})
      /\ UNCHANGED <<index, reviewed, reached, chosen, session, frame, inspector, playing, loading, enabled, queue,
                     selected, faults>>
  BY DEF SaveReview
<1>2. session # Nil /\ session.id \in Sessions /\ selected \in Setups /\ Witnessed(selected)
  BY <1>1, ToolbarShows DEF Toolbar, StudioInv, TypeOK, SelectedReached
<1>3. PICK d : Started({d}) /\ Fit(d) /\ d.ask \notin Opening
  BY <1>1, <1>2, ClickFits
<1>4. /\ IsABag(calls)' /\ CallsSound' /\ OneOpening' /\ Reach' /\ StoredReached' /\ FramesNotAhead'
      /\ SelectedReached'
  BY <1>1, <1>3, OneStarts
<1> QED  BY <1>1, <1>4, ClicksCounted DEF StudioInv, TypeOK

\* The play interval sends a step.
LEMMA TickKeeps ==
    ASSUME StudioInv, Tick
    PROVE  StudioInv'
<1>1. /\ session # Nil
      /\ UNCHANGED <<index, reviewed, reached, chosen, session, frame, inspector, loading, enabled, queue, selected,
                     saving, clicks, faults>>
  BY DEF Tick
<1>2. CASE playing' = FALSE /\ UNCHANGED calls
  <2>1. CallsSound' /\ OneOpening' /\ SelectedReached' /\ Reach' /\ FramesNotAhead' /\ StoredReached'
    BY <1>1, <1>2 DEF StudioInv, CallsSound, Fit, Sound, Witnessed, OneOpening, Fresh, SelectedReached, Reach,
                      FramesNotAhead, StoredReached
  <2> QED  BY <1>1, <1>2, <2>1 DEF StudioInv, TypeOK
<1>3. CASE Started({Call("forward", session.id, Nil)}) /\ UNCHANGED playing
  <2>1. session.id \in Sessions
    BY <1>1, ToolbarShows
  <2>2. PICK d : Started({d}) /\ Fit(d) /\ d.ask \notin Opening
    BY <1>1, <1>3, <2>1, ClickFits
  <2>3. /\ IsABag(calls)' /\ CallsSound' /\ OneOpening' /\ Reach' /\ StoredReached' /\ FramesNotAhead'
        /\ SelectedReached'
    BY <1>1, <2>2, OneStarts
  <2> QED  BY <1>1, <1>3, <2>3 DEF StudioInv, TypeOK
<1> QED  BY <1>2, <1>3 DEF Tick

-----------------------------------------------------------------------------
(* The theorems.                                                           *)

\* The invariant holds of the empty page.
LEMMA InitStudio == Init => StudioInv
<1> SUFFICES ASSUME Init PROVE StudioInv
  OBVIOUS
<1>1. IsABag(calls) /\ BagToSet(calls) = {}
  BY DEF Init, EmptyBag, SetToBag, IsABag, BagToSet
<1>2. TypeOK
  <2>1. index \in [Sessions -> {Nil} \cup Indices] /\ reached \in [Sessions -> {-1} \cup Indices]
    BY DEF Init
  <2>2. clicks \in 0..MaxClicks /\ faults \in 0..MaxFaults
    BY BoundsAssumption DEF Init
  <2>3. session \in Places /\ frame \in Places /\ inspector \in Places /\ chosen \in Places
    BY DEF Init, Places
  <2> QED  BY <1>1, <2>1, <2>2, <2>3 DEF Init, TypeOK
<1> QED  BY <1>1, <1>2 DEF StudioInv, Init, OneOpening, CallsSound, SelectedReached, Reach, FramesNotAhead,
                             StoredReached

\* Every step keeps the invariant.
LEMMA NextStudio == StudioInv /\ [Next]_vars => StudioInv'
<1> SUFFICES ASSUME StudioInv, [Next]_vars PROVE StudioInv'
  OBVIOUS
<1>1. CASE UNCHANGED vars
  BY <1>1 DEF vars, page, StudioInv, TypeOK, OneOpening, CallsSound, Fit, Sound, Witnessed, Fresh, SelectedReached,
              Reach, FramesNotAhead, StoredReached
<1>2. CASE Serve  BY <1>2, ServeKeeps
<1>3. CASE Receive
  BY <1>3, MoveAnsweredKeeps, FrameAnsweredKeeps, InspectorAnsweredKeeps, SessionCreatedKeeps,
     OtherAnswersKeep DEF Receive
<1>4. CASE NotFound \/ Lost  BY <1>4, FailureKeeps
<1>5. CASE Restart  BY <1>5, RestartKeeps
<1>6. CASE StartSession  BY <1>6, StartSessionKeeps
<1>7. CASE Move \/ JumpTo \/ TogglePlay \/ Redraw  BY <1>7, ToolbarKeeps
<1>8. CASE ToggleValidation  BY <1>8, ToggleValidationKeeps
<1>9. CASE SelectSetup  BY <1>9, SelectSetupKeeps
<1>10. CASE SaveReview  BY <1>10, SaveReviewKeeps
<1>11. CASE Tick  BY <1>11, TickKeeps
<1> QED
  BY <1>1, <1>2, <1>3, <1>4, <1>5, <1>6, <1>7, <1>8, <1>9, <1>10, <1>11 DEF Next

\* The setup selected was chosen on a frame at or past its bar, which its session had
\* reached.
SelectedSeen ==
    selected # Nil =>
        /\ frame # Nil /\ chosen # Nil
        /\ BarOf[selected] <= chosen.at /\ chosen.at <= reached[chosen.id]

\* It stays so while the choice stays.
LEMMA ChoiceStays ==
    ASSUME StudioInv, StudioInv', SelectedSeen, Growing,
           selected' = selected, chosen' = chosen, frame # Nil => frame' # Nil
    PROVE  SelectedSeen'
<1> SUFFICES ASSUME selected # Nil
             PROVE  /\ frame' # Nil /\ chosen # Nil
                    /\ BarOf[selected] <= chosen.at /\ chosen.at <= reached'[chosen.id]
  BY DEF SelectedSeen
<1>1. chosen \in Places /\ TypeOK
  BY DEF StudioInv, TypeOK
<1> QED  BY <1>1, ShownKept DEF SelectedSeen

\* And when the effect chooses.
LEMMA EffectChooses ==
    ASSUME StudioInv, StudioInv', SelectedSeen, NEW loaded \in BOOLEAN,
           selected' = Preselected(loaded, frame'), Note(frame'), reached' = reached,
           frame # Nil => frame' # Nil
    PROVE  SelectedSeen'
<1>1. CASE selected' = selected
  <2>1. chosen' = chosen
    BY <1>1 DEF Note
  <2>2. Growing
    BY ReachedInts DEF Growing, StudioInv, TypeOK
  <2> QED  BY <1>1, <2>1, <2>2, ChoiceStays
<1>2. CASE selected' # selected
  <2>1. frame' \in Places /\ (frame' # Nil => frame'.at <= reached[frame'.id])
    BY DEF StudioInv, TypeOK, FramesNotAhead
  <2>2. frame' # Nil /\ BarOf[selected'] <= frame'.at
    BY <1>2, <2>1, PreselectedSound DEF StudioInv
  <2>3. chosen' = frame'
    BY <1>2 DEF Note
  <2> QED  BY <2>1, <2>2, <2>3 DEF SelectedSeen
<1> QED  BY <1>1, <1>2

\* Every step keeps it.
LEMMA NextSeen == StudioInv /\ StudioInv' /\ SelectedSeen /\ [Next]_vars => SelectedSeen'
<1> SUFFICES ASSUME StudioInv, StudioInv', SelectedSeen, [Next]_vars PROVE SelectedSeen'
  OBVIOUS
<1>1. CASE UNCHANGED <<selected, chosen, frame, reached>>
  BY <1>1 DEF SelectedSeen
<1>2. CASE Serve
  <2>1. UNCHANGED <<page, chosen>>
    BY <1>2 DEF Serve
  <2>2. Growing
    BY <1>2, ServeKeeps
  <2> QED  BY <2>1, <2>2, ChoiceStays DEF page
<1>3. CASE MoveAnswered \/ FrameAnswered
  <2>1. PICK c \in Answered :
           /\ c.ask \in Moves \cup {"frame", "first_frame"} /\ frame' = At(c.id, c.answer)
           /\ selected' = Preselected(queue, frame') /\ Note(frame') /\ reached' = reached
    BY <1>3 DEF MoveAnswered, FrameAnswered
  <2>2. c.id \in Sessions /\ c.answer \in Indices
    BY <2>1, AnswerSays DEF Moves
  <2>3. frame' # Nil /\ queue \in BOOLEAN
    BY <2>1, <2>2, PlacesExist DEF StudioInv, TypeOK
  <2> QED  BY <2>1, <2>3, EffectChooses
<1>4. CASE QueueAnswered
  <2>1. /\ selected' = Preselected(TRUE, frame') /\ Note(frame')
        /\ frame' = frame /\ reached' = reached
    BY <1>4 DEF QueueAnswered, Note
  <2> QED  BY <2>1, EffectChooses
<1>5. CASE SelectSetup
  <2>1. PICK s \in Visible(queue, frame) : selected' = s
    BY <1>5 DEF SelectSetup
  <2>2. frame # Nil /\ frame' = frame /\ chosen' = frame /\ reached' = reached
    BY <1>5 DEF SelectSetup, Toolbar
  <2>3. BarOf[s] <= frame.at /\ frame.at <= reached[frame.id]
    BY <2>1, <2>2 DEF Visible, StudioInv, FramesNotAhead
  <2> QED  BY <2>1, <2>2, <2>3 DEF SelectedSeen
<1>6. CASE InspectorAnswered \/ SessionCreated \/ PlaybackAnswered
  BY <1>1, <1>6 DEF InspectorAnswered, SessionCreated, PlaybackAnswered
<1>7. CASE EventsAnswered \/ ReviewAnswered \/ Restart
  BY <1>1, <1>7 DEF EventsAnswered, ReviewAnswered, Restart, page
<1>8. CASE NotFound \/ Lost
  BY <1>1, <1>8 DEF NotFound, Lost, EndsWith
<1>9. CASE StartSession \/ ToggleValidation \/ SaveReview \/ Tick
  BY <1>1, <1>9 DEF StartSession, ToggleValidation, SaveReview, Tick
<1>10. CASE Move \/ JumpTo \/ TogglePlay \/ Redraw
  BY <1>1, <1>10 DEF Move, JumpTo, TogglePlay, Redraw, page
<1>11. CASE UNCHANGED vars
  BY <1>1, <1>11 DEF vars, page
<1> QED
  BY <1>2, <1>3, <1>4, <1>5, <1>6, <1>7, <1>8, <1>9, <1>10, <1>11 DEF Next, Receive

\* Every reachable state of the page and of its server is well typed: no step, jump or
\* answer leaves the bars of a session.
THEOREM TypeCorrect == Spec => []TypeOK
<1>1. StudioInv => TypeOK  BY DEF StudioInv
<1> QED  BY <1>1, InitStudio, NextStudio, PTL DEF Spec

\* No future reveal, however the handlers of the page, the play timer and the answers of
\* the server overtake each other: a bar on the chart or in the inspector was the current
\* bar of its session, or lies before one that was.
THEOREM NoFutureReveal == Spec => []FramesNotAhead
<1>1. StudioInv => FramesNotAhead  BY DEF StudioInv
<1> QED  BY <1>1, InitStudio, NextStudio, PTL DEF Spec

\* A review is never stored for a setup that no replay has come to; and a setup ahead of
\* the chart that can be reviewed was once seen, by a session that had reached it, however
\* many steps back, new sessions and restarts of the server its choice outlives.
THEOREM ReviewsLookBack == Spec => []ReviewedWasSeen
<1>1. Init => SelectedSeen  BY DEF Init, SelectedSeen
<1>2. StudioInv /\ SelectedSeen => ReviewedWasSeen
  <2> SUFFICES ASSUME StudioInv, SelectedSeen PROVE ReviewedWasSeen
    OBVIOUS
  <2>1. \A s \in reviewed : \E id \in Sessions : reached[id] >= BarOf[s]
    BY DEF StudioInv, StoredReached, Witnessed
  <2> QED  BY <2>1 DEF SelectedSeen, ReviewedWasSeen
<1> QED  BY <1>1, <1>2, InitStudio, NextStudio, NextSeen, PTL DEF Spec

-----------------------------------------------------------------------------
(* The live chart.  Everything that holds candles, the server's rows, the  *)
(* cache and the series, holds all bars of the exchange's grid from its    *)
(* first to its last one, but for the short bars that end a session.       *)

Placed(s, o) == IsOpen(s, o) \/ Misplaced(s, o)
Whole(s, o) == IsOpen(s, o) /\ ~Short(s, o)

\* D is a run of bars of s, none of them after t.
Grid(s, D, t) ==
    /\ D \subseteq 0..t
    /\ \A o \in D : Placed(s, o)
    /\ \A a, b \in D : \A x \in a..b : Whole(s, x) => x \in D

\* D starts with the first open.
FromStart(s, D) == \A o \in D : \A x \in 0..o : Whole(s, x) => x \in D

Snaps(s, bars) == {Snap(s, x) : x \in DOMAIN bars}

\* The bar that begins at o may be stamped x: while it forms, or at the close of the
\* session that it ends.
StampOf(s, x, o) ==
    /\ IsOpen(s, o) /\ o <= x
    /\ \/ x = o \/ x < CurrentBarClose(s, o)
       \/ s \in Nse /\ CurrentBarClose(s, o) = Closes(o) /\ x = Closes(o)

\* Rows stamped for a run of bars.
Rows(s, bars, t) ==
    /\ bars = [x \in DOMAIN bars |-> bars[x]]
    /\ DOMAIN bars \subseteq 0..t
    /\ \A x \in DOMAIN bars : \E o \in Nat : StampOf(s, x, o)
    /\ Grid(s, Snaps(s, bars), t)

\* A symbol's bars are left on the series only under candles of the same shape.
LeftInShape ==
    painted # shown => SameShape(drawn, View(shown, cache[shown], quote[shown], now))

\* NoHole alone is not inductive: the next repaint takes over what the rows, the
\* cache and the merge of a price hold.
BoardInv ==
    /\ now \in Nat /\ shown \in Symbols /\ painted \in Symbols
    /\ rows = [s \in Symbols |-> rows[s]] /\ cache = [s \in Symbols |-> cache[s]]
    /\ \A s \in Symbols : Rows(s, rows[s], now) /\ FromStart(s, Snaps(s, rows[s]))
    /\ \A s \in Symbols : Rows(s, cache[s], now)
    /\ drawn = [o \in DOMAIN drawn |-> drawn[o]] /\ Grid(painted, DOMAIN drawn, now)
    /\ LeftInShape

-----------------------------------------------------------------------------
(* The exchange's clock. *)

\* Quotients round down.
LEMMA Divided ==
    ASSUME NEW a \in Int, NEW d \in Nat \ {0}
    PROVE  a \div d \in Int /\ (a \div d) * d <= a /\ a < (a \div d) * d + d
  OBVIOUS

\* Multiples are a divisor apart.
LEMMA Steps ==
    ASSUME NEW d \in Nat \ {0}, NEW k \in Int, NEW m \in Int, k < m
    PROVE  k * d + d <= m * d
  OBVIOUS

\* A number between two multiples has the lower one's quotient.
LEMMA DividedBy ==
    ASSUME NEW a \in Int, NEW d \in Nat \ {0}, NEW k \in Int, k * d <= a, a < k * d + d
    PROVE  a \div d = k
<1>1. a \div d \in Int /\ (a \div d) * d <= a /\ a < (a \div d) * d + d
  BY Divided
<1> DEFINE q == a \div d
<1> HIDE DEF q
<1>2. ~(q < k)
  <2> SUFFICES ASSUME q < k PROVE FALSE
    OBVIOUS
  <2>1. q * d + d <= k * d
    BY <1>1, Steps DEF q
  <2> QED  BY <1>1, <2>1 DEF q
<1>3. ~(k < q)
  <2> SUFFICES ASSUME k < q PROVE FALSE
    OBVIOUS
  <2>1. k * d + d <= q * d
    BY <1>1, Steps DEF q
  <2> QED  BY <1>1, <2>1 DEF q
<1> QED  BY <1>1, <1>2, <1>3 DEF q

\* What is assumed of the clock.
LEMMA ClockFacts ==
    /\ Timeframe \in Nat \ {0} /\ DayLength \in Nat \ {0} /\ SessionOpen \in Nat /\ SessionClose \in Nat
    /\ SessionOpen < SessionClose /\ SessionClose < DayLength
    /\ Timeframe = DayLength \/ Timeframe <= DayLength - (SessionClose - SessionOpen)
  BY ClockAssumption, TimeframeAssumption

\* A time lies in its day.
LEMMA DayOf ==
    ASSUME NEW t \in Nat
    PROVE  /\ Day(t) \in Int /\ Day(t) * DayLength \in Int
           /\ Day(t) * DayLength <= t /\ t < Day(t) * DayLength + DayLength
           /\ Opens(t) = Day(t) * DayLength + SessionOpen /\ Closes(t) = Day(t) * DayLength + SessionClose
           /\ Opens(t) \in Nat /\ Closes(t) \in Nat
<1>1. /\ Day(t) \in Int /\ Day(t) * DayLength \in Int
      /\ Day(t) * DayLength <= t /\ t < Day(t) * DayLength + DayLength
  BY ClockFacts, Divided DEF Day
<1>2. Opens(t) = Day(t) * DayLength + SessionOpen /\ Closes(t) = Day(t) * DayLength + SessionClose
  BY DEF Opens, Closes
<1>3. Day(t) >= 0
  <2> SUFFICES ASSUME Day(t) < 0 PROVE FALSE
    BY <1>1
  <2>1. Day(t) * DayLength + DayLength <= 0 * DayLength
    BY <1>1, ClockFacts, Steps
  <2>2. 0 * DayLength = 0
    BY ClockFacts
  <2> QED  BY <1>1, <2>1, <2>2, ClockFacts
<1>4. Day(t) * DayLength \in Nat
  BY <1>1, <1>3, ClockFacts
<1> QED  BY <1>1, <1>2, <1>4, ClockFacts

\* Times of one day share its session.
LEMMA SameDay ==
    ASSUME NEW t \in Nat, NEW u \in Nat,
           Day(t) * DayLength <= u, u < Day(t) * DayLength + DayLength
    PROVE  Day(u) = Day(t) /\ Opens(u) = Opens(t) /\ Closes(u) = Closes(t) /\ Weekday(u) = Weekday(t)
<1>1. Day(u) = Day(t)
  <2>1. Day(t) \in Int
    BY DayOf
  <2>2. u \div DayLength = Day(t)
    BY <2>1, ClockFacts, DividedBy
  <2> QED  BY <2>2 DEF Day
<1> QED  BY <1>1 DEF Opens, Closes, Weekday

\* The opens of the three kinds of bars.
LEMMA OpenIs ==
    ASSUME NEW s, NEW o \in Nat, IsOpen(s, o)
    PROVE  /\ s \notin Nse => o = (o \div Timeframe) * Timeframe
           /\ s \in Nse /\ Timeframe >= DayLength => Weekday(o) /\ o = Opens(o)
           /\ s \in Nse /\ ~(Timeframe >= DayLength) =>
                 /\ Weekday(o) /\ Opens(o) <= o /\ o < Closes(o)
                 /\ o = Opens(o) + ((o - Opens(o)) \div Timeframe) * Timeframe
<1>1. o # Never
  BY DEF Never
<1>2. ASSUME s \notin Nse PROVE o = (o \div Timeframe) * Timeframe
  BY <1>2 DEF IsOpen, CurrentBarOpen, Floor
<1>3. ASSUME s \in Nse, Timeframe >= DayLength PROVE Weekday(o) /\ o = Opens(o)
  <2>1. CurrentBarOpen(s, o) = IF Weekday(o) /\ Opens(o) <= o THEN Opens(o) ELSE Never
    BY <1>3 DEF CurrentBarOpen
  <2> QED  BY <1>1, <2>1 DEF IsOpen
<1>4. ASSUME s \in Nse, ~(Timeframe >= DayLength)
      PROVE  /\ Weekday(o) /\ Opens(o) <= o /\ o < Closes(o)
             /\ o = Opens(o) + ((o - Opens(o)) \div Timeframe) * Timeframe
  <2>1. CurrentBarOpen(s, o) = IF InSession(s, o)
                               THEN Opens(o) + ((o - Opens(o)) \div Timeframe) * Timeframe ELSE Never
    BY <1>4 DEF CurrentBarOpen
  <2>2. InSession(s, o) /\ o = Opens(o) + ((o - Opens(o)) \div Timeframe) * Timeframe
    BY <1>1, <2>1 DEF IsOpen
  <2> QED  BY <1>4, <2>2 DEF InSession
<1> QED  BY <1>2, <1>3, <1>4

\* The bar that is forming opened at an open.
LEMMA OpenOf ==
    ASSUME NEW s, NEW t \in Nat, CurrentBarOpen(s, t) # Never
    PROVE  CurrentBarOpen(s, t) \in 0..t /\ IsOpen(s, CurrentBarOpen(s, t))
<1> DEFINE o == CurrentBarOpen(s, t)
<1>1. CASE s \notin Nse
  <2> DEFINE q == t \div Timeframe
  <2>1. o = q * Timeframe
    BY <1>1 DEF CurrentBarOpen, Floor
  <2>2. q \in Int /\ q * Timeframe <= t /\ t < q * Timeframe + Timeframe /\ q * Timeframe \in Int
    BY ClockFacts, Divided
  <2> HIDE DEF q, o
  <2>3. q >= 0
    <3> SUFFICES ASSUME q < 0 PROVE FALSE
      BY <2>2
    <3>1. q * Timeframe + Timeframe <= 0 * Timeframe
      BY <2>2, ClockFacts, Steps
    <3>2. 0 * Timeframe = 0
      BY ClockFacts
    <3> QED  BY <2>2, <3>1, <3>2, ClockFacts
  <2>4. o \in 0..t
    <3>1. q * Timeframe >= 0
      BY <2>2, <2>3, ClockFacts
    <3> QED  BY <2>1, <2>2, <3>1
  <2>5. o \div Timeframe = q
    BY <2>1, <2>2, <2>4, ClockFacts, DividedBy
  <2>6. CurrentBarOpen(s, o) = o
    BY <1>1, <2>1, <2>5 DEF CurrentBarOpen, Floor
  <2> QED  BY <2>4, <2>6 DEF o, IsOpen
<1>2. CASE s \in Nse /\ Timeframe >= DayLength
  <2>1. o = IF Weekday(t) /\ Opens(t) <= t THEN Opens(t) ELSE Never
    BY <1>2 DEF CurrentBarOpen
  <2>2. o = Opens(t) /\ Weekday(t) /\ Opens(t) <= t
    BY <2>1
  <2>3. o \in 0..t
    BY <2>2, DayOf
  <2> HIDE DEF o
  <2>4. Opens(o) = Opens(t) /\ Weekday(o) = Weekday(t)
    <3>1. o \in Nat /\ Day(t) * DayLength <= o /\ o < Day(t) * DayLength + DayLength
      BY <2>2, <2>3, DayOf, ClockFacts
    <3> QED  BY <3>1, SameDay
  <2>5. CurrentBarOpen(s, o) = o
    <3>1. CurrentBarOpen(s, o) = IF Weekday(o) /\ Opens(o) <= o THEN Opens(o) ELSE Never
      BY <1>2 DEF CurrentBarOpen
    <3>2. Opens(o) <= o
      BY <2>2, <2>3, <2>4
    <3> QED  BY <2>2, <2>4, <3>1, <3>2
  <2> QED  BY <2>3, <2>5 DEF o, IsOpen
<1>3. CASE s \in Nse /\ ~(Timeframe >= DayLength)
  <2> DEFINE q == (t - Opens(t)) \div Timeframe
  <2>1. o = IF InSession(s, t) THEN Opens(t) + q * Timeframe ELSE Never
    BY <1>3 DEF CurrentBarOpen
  <2>2. InSession(s, t) /\ o = Opens(t) + q * Timeframe
    BY <2>1
  <2>3. Weekday(t) /\ Opens(t) <= t /\ t < Closes(t)
    BY <1>3, <2>2 DEF InSession
  <2>4. q \in Int /\ q * Timeframe <= t - Opens(t) /\ t - Opens(t) < q * Timeframe + Timeframe /\ q * Timeframe \in Int
    <3>1. t - Opens(t) \in Int
      BY DayOf
    <3>2. q * Timeframe \in Int
      BY <3>1, ClockFacts, Divided
    <3> QED  BY <3>1, <3>2, ClockFacts, Divided
  <2> HIDE DEF q, o
  <2>5. q >= 0
    <3> SUFFICES ASSUME q < 0 PROVE FALSE
      BY <2>4
    <3>1. q * Timeframe + Timeframe <= 0 * Timeframe
      BY <2>4, ClockFacts, Steps
    <3>2. 0 * Timeframe = 0
      BY ClockFacts
    <3>3. t - Opens(t) >= 0 /\ t - Opens(t) \in Int
      BY <2>3, DayOf
    <3> DEFINE y == t - Opens(t)
    <3> HIDE DEF y
    <3>4. y >= 0 /\ y \in Int /\ y < q * Timeframe + Timeframe /\ q * Timeframe + Timeframe <= 0
      BY <2>4, <3>1, <3>2, <3>3 DEF y
    <3>5. q * Timeframe + Timeframe \in Int
      BY <2>4, ClockFacts
    <3> QED  BY <3>4, <3>5
  <2>6. o \in 0..t /\ Opens(t) <= o
    <3>1. q * Timeframe >= 0
      BY <2>4, <2>5, ClockFacts
    <3> QED  BY <2>2, <2>3, <2>4, <3>1, DayOf
  <2>7. Opens(o) = Opens(t) /\ Closes(o) = Closes(t) /\ Weekday(o) = Weekday(t)
    <3>1. o \in Nat /\ Day(t) * DayLength <= o /\ o < Day(t) * DayLength + DayLength
      BY <2>6, DayOf, ClockFacts
    <3> QED  BY <3>1, SameDay
  <2>8. (o - Opens(o)) \div Timeframe = q
    <3>1. o - Opens(o) = q * Timeframe /\ o - Opens(o) \in Int
      BY <2>2, <2>4, <2>7, DayOf
    <3> QED  BY <2>4, <3>1, ClockFacts, DividedBy
  <2>9. InSession(s, o)
    BY <2>3, <2>6, <2>7, DayOf DEF InSession
  <2>10. CurrentBarOpen(s, o) = Opens(o) + ((o - Opens(o)) \div Timeframe) * Timeframe
    BY <1>3, <2>9 DEF CurrentBarOpen
  <2>11. CurrentBarOpen(s, o) = o
    BY <2>2, <2>7, <2>8, <2>10
  <2> QED  BY <2>6, <2>11 DEF o, IsOpen
<1> QED  BY <1>1, <1>2, <1>3 DEF o

\* A stamp inside a bar is that of its open.
LEMMA SnapOpen ==
    ASSUME NEW s, NEW o \in Nat, IsOpen(s, o), NEW x \in Nat, o <= x,
           x = o \/ x < CurrentBarClose(s, o)
    PROVE  Snap(s, x) = o
<1>1. CurrentBarOpen(s, o) = o
  BY DEF IsOpen
<1>2. CurrentBarClose(s, o) = IF s \in Nse /\ o + Timeframe > Closes(o) THEN Closes(o) ELSE o + Timeframe
  BY <1>1 DEF CurrentBarClose
<1>3. x < o + Timeframe
  BY <1>2, ClockFacts, DayOf
<1>4. CASE s \notin Nse
  <2> DEFINE q == o \div Timeframe
  <2>1. o = q * Timeframe /\ q \in Int
    BY <1>4, OpenIs, ClockFacts, Divided
  <2> HIDE DEF q
  <2>2. x \div Timeframe = q
    BY <1>3, <2>1, ClockFacts, DividedBy
  <2> QED  BY <1>4, <2>1, <2>2 DEF Snap, Floor
<1>5. CASE s \in Nse
  <2>1. Weekday(o) /\ Opens(o) <= o /\ o < Closes(o)
    BY <1>5, OpenIs, DayOf, ClockFacts
  <2>2. x < Closes(o)
    BY <1>2, <1>5, <2>1, ClockFacts, DayOf
  <2>3. Opens(x) = Opens(o) /\ Closes(x) = Closes(o) /\ Weekday(x)
    <3>1. x \in Nat /\ Day(o) * DayLength <= x /\ x < Day(o) * DayLength + DayLength
      BY <2>1, <2>2, DayOf, ClockFacts
    <3> QED  BY <2>1, <3>1, SameDay
  <2>4. ~(x < Opens(x)) /\ ~(x >= Closes(x))
    BY <2>1, <2>2, <2>3, DayOf
  <2>5. CASE Timeframe >= DayLength
    BY <1>5, <2>3, <2>5, OpenIs DEF Snap
  <2>6. CASE ~(Timeframe >= DayLength)
    <3> DEFINE q == (o - Opens(o)) \div Timeframe
    <3>1. o = Opens(o) + q * Timeframe /\ q \in Int /\ q * Timeframe \in Int
      <4>1. o - Opens(o) \in Int
        BY DayOf
      <4>2. q \in Int
        BY <4>1, ClockFacts, Divided
      <4>3. o = Opens(o) + q * Timeframe
        BY <1>5, <2>6, OpenIs
      <4> HIDE DEF q
      <4>4. q * Timeframe \in Int
        BY <4>2, ClockFacts
      <4> QED  BY <4>2, <4>3, <4>4
    <3> HIDE DEF q
    <3>2. q * Timeframe <= x - Opens(x) /\ x - Opens(x) < q * Timeframe + Timeframe /\ x - Opens(x) \in Int
      BY <1>3, <2>3, <3>1, DayOf, ClockFacts
    <3>3. (x - Opens(x)) \div Timeframe = q
      BY <3>1, <3>2, ClockFacts, DividedBy
    <3>4. Snap(s, x) = Opens(x) + ((x - Opens(x)) \div Timeframe) * Timeframe
      BY <1>5, <2>3, <2>4, <2>6 DEF Snap
    <3> QED  BY <2>3, <3>1, <3>3, <3>4
  <2> QED  BY <2>5, <2>6
<1> QED  BY <1>4, <1>5

\* When a bar closes, the next one opens, unless it ends the session.
LEMMA NextOpen ==
    ASSUME NEW s, NEW o \in Nat, IsOpen(s, o), ~(s \in Nse /\ CurrentBarClose(s, o) = Closes(o))
    PROVE  CurrentBarClose(s, o) = o + Timeframe /\ IsOpen(s, o + Timeframe)
<1>1. CurrentBarClose(s, o) = IF s \in Nse /\ o + Timeframe > Closes(o) THEN Closes(o) ELSE o + Timeframe
  BY DEF CurrentBarClose, IsOpen
<1>2. CurrentBarClose(s, o) = o + Timeframe
  BY <1>1
<1> DEFINE p == o + Timeframe
<1>3. p \in Nat
  BY ClockFacts
<1>4. CASE s \notin Nse
  <2> DEFINE q == o \div Timeframe
  <2>1. o = q * Timeframe /\ q \in Int
    BY <1>4, OpenIs, ClockFacts, Divided
  <2> HIDE DEF q
  <2>2. (q + 1) * Timeframe = p
    BY <2>1, ClockFacts
  <2> HIDE DEF p
  <2>3. p \div Timeframe = q + 1
    <3>1. (q + 1) * Timeframe <= p /\ p < (q + 1) * Timeframe + Timeframe
      BY <1>3, <2>2, ClockFacts
    <3>2. q + 1 \in Int
      BY <2>1
    <3> QED  BY <1>3, <3>1, <3>2, ClockFacts, DividedBy
  <2>4. IsOpen(s, p)
    BY <1>4, <2>2, <2>3 DEF IsOpen, CurrentBarOpen, Floor
  <2> QED  BY <1>2, <2>4 DEF p
<1>5. CASE s \in Nse
  <2>1. p < Closes(o)
    <3>1. Closes(o) \in Nat
      BY DayOf
    <3>2. CurrentBarClose(s, o) # Closes(o)
      BY <1>5
    <3>3. ~(p > Closes(o))
      BY <1>1, <1>5, <3>2
    <3>4. p # Closes(o)
      BY <1>2, <3>2
    <3> HIDE DEF p
    <3> QED  BY <1>3, <3>1, <3>3, <3>4
  <2>2. Opens(o) <= o /\ o < p
    BY <1>5, OpenIs, DayOf, ClockFacts
  <2>3. ~(Timeframe >= DayLength)
    BY <2>1, <2>2, ClockFacts, DayOf
  <2>4. Weekday(o)
    BY <1>5, <2>3, OpenIs
  <2>5. Opens(p) = Opens(o) /\ Closes(p) = Closes(o) /\ Weekday(p) = Weekday(o)
    <3>1. Day(o) * DayLength <= p /\ p < Day(o) * DayLength + DayLength
      BY <1>3, <2>1, <2>2, ClockFacts, DayOf
    <3> QED  BY <1>3, <3>1, SameDay
  <2> DEFINE q == (o - Opens(o)) \div Timeframe
  <2>6. o = Opens(o) + q * Timeframe /\ q \in Int /\ q * Timeframe \in Int
    <3>1. o - Opens(o) \in Int
      BY DayOf
    <3>2. q \in Int
      BY <3>1, ClockFacts, Divided
    <3>3. o = Opens(o) + q * Timeframe
      BY <1>5, <2>3, OpenIs
    <3> HIDE DEF q
    <3>4. q * Timeframe \in Int
      BY <3>2, ClockFacts
    <3> QED  BY <3>2, <3>3, <3>4
  <2> HIDE DEF q
  <2>7. (q + 1) * Timeframe = q * Timeframe + Timeframe
    BY <2>6, ClockFacts
  <2>8. p - Opens(p) = (q + 1) * Timeframe /\ p - Opens(p) \in Int /\ (q + 1) * Timeframe \in Int
    BY <2>5, <2>6, <2>7, ClockFacts, DayOf
  <2>9. (p - Opens(p)) \div Timeframe = q + 1
    <3>1. q + 1 \in Int
      BY <2>6
    <3> QED  BY <2>8, <3>1, ClockFacts, DividedBy
  <2>10. InSession(s, p)
    <3>1. Opens(p) <= p
      <4>1. Opens(o) \in Nat
        BY DayOf
      <4> HIDE DEF p
      <4> QED  BY <1>3, <2>2, <2>5, <4>1
    <3>2. p < Closes(p)
      BY <2>1, <2>5
    <3> QED  BY <2>4, <2>5, <3>1, <3>2 DEF InSession
  <2>11. CurrentBarOpen(s, p) = Opens(p) + ((p - Opens(p)) \div Timeframe) * Timeframe
    BY <1>5, <2>3, <2>10 DEF CurrentBarOpen
  <2>12. CurrentBarOpen(s, p) = p
    BY <1>3, <2>8, <2>9, <2>11, DayOf
  <2> QED  BY <1>2, <2>12 DEF p, IsOpen
<1> QED  BY <1>4, <1>5

\* No bar begins inside another one.
LEMMA NoneInside ==
    ASSUME NEW s, NEW o \in Nat, IsOpen(s, o), NEW y \in Nat, IsOpen(s, y), y < CurrentBarClose(s, o)
    PROVE  y <= o
<1> SUFFICES ASSUME o < y PROVE FALSE
  OBVIOUS
<1>1. Snap(s, y) = o
  BY SnapOpen
<1>2. Snap(s, y) = y
  BY SnapOpen
<1> QED  BY <1>1, <1>2

\* Where a stamp is placed: no later than its bar, and with no whole bar in between.
LEMMA SnapStamp ==
    ASSUME NEW s, NEW x \in Nat, NEW o \in Nat, StampOf(s, x, o)
    PROVE  /\ Snap(s, x) \in 0..o
           /\ Placed(s, Snap(s, x))
           /\ \A y \in Nat : Whole(s, y) /\ y <= o => y <= Snap(s, x)
<1>1. IsOpen(s, o) /\ o <= x
  BY DEF StampOf
<1>2. CASE x = o \/ x < CurrentBarClose(s, o)
  <2>1. Snap(s, x) = o
    BY <1>1, <1>2, SnapOpen
  <2> QED  BY <1>1, <2>1 DEF Placed
<1>3. CASE s \in Nse /\ CurrentBarClose(s, o) = Closes(o) /\ x = Closes(o)
  <2>1. Weekday(o) /\ Opens(o) <= o /\ o < Closes(o)
    BY <1>1, <1>3, OpenIs, DayOf, ClockFacts
  <2>2. o + Timeframe >= Closes(o)
    <3>1. CurrentBarClose(s, o) = IF s \in Nse /\ o + Timeframe > Closes(o) THEN Closes(o) ELSE o + Timeframe
      BY <1>1 DEF CurrentBarClose, IsOpen
    <3> QED  BY <1>3, <3>1, ClockFacts, DayOf
  <2>3. Opens(x) = Opens(o) /\ Closes(x) = Closes(o) /\ Weekday(x) /\ Opens(o) < Closes(o)
    <3>1. Day(o) * DayLength <= x /\ x < Day(o) * DayLength + DayLength
      BY <1>3, ClockFacts, DayOf
    <3> QED  BY <2>1, <3>1, SameDay, ClockFacts, DayOf
  <2>4. CASE Timeframe >= DayLength
    <3>1. Snap(s, x) = o
      BY <1>1, <1>3, <2>3, <2>4, OpenIs DEF Snap
    <3> QED  BY <1>1, <3>1 DEF Placed
  <2>5. CASE ~(Timeframe >= DayLength)
    <3> DEFINE L == Closes(o) - Timeframe
    <3>1. L \in Int /\ L <= o /\ Opens(o) \in Nat /\ Closes(o) \in Nat
      BY <2>2, ClockFacts, DayOf
    <3>2. Snap(s, x) = Max({Opens(o), L})
      BY <1>3, <2>3, <2>5, DayOf DEF Snap
    <3>3. ASSUME NEW y \in Nat, Whole(s, y), y <= o PROVE y <= Opens(o) \/ y <= L
      <4>1. CASE Day(o) * DayLength <= y
        <5>1. Opens(y) = Opens(o) /\ Closes(y) = Closes(o)
          <6>1. y < Day(o) * DayLength + DayLength
            <7> Day(o) * DayLength \in Int /\ o < Day(o) * DayLength + DayLength
              BY DayOf
            <7> DayLength \in Int
              BY ClockFacts
            <7> QED  BY <3>3
          <6> QED  BY <4>1, <6>1, SameDay
        <5>2. ~(Opens(y) < y /\ y + Timeframe > Closes(y))
          BY <1>3, <2>5, <3>3, ClockFacts DEF Whole, Short
        <5> QED  BY <3>1, <5>1, <5>2, ClockFacts
      <4>2. CASE ~(Day(o) * DayLength <= y)
        BY <4>2, DayOf, ClockFacts
      <4> QED  BY <4>1, <4>2
    <3>4. CASE L <= Opens(o)
      <4>1. Snap(s, x) = Opens(o)
        BY <3>1, <3>2, <3>4, MaxOfTwo
      <4>2. IsOpen(s, Opens(o))
        <5> DEFINE b == Opens(o)
        <5>1. b \in Nat
          BY DayOf
        <5>2. Opens(b) = b /\ Closes(b) = Closes(o) /\ Weekday(b)
          <6>1. Day(o) * DayLength <= b /\ b < Day(o) * DayLength + DayLength
            BY ClockFacts, DayOf
          <6> QED  BY <2>1, <5>1, <6>1, SameDay
        <5> HIDE DEF b
        <5>3. InSession(s, b)
          BY <2>3, <5>1, <5>2, DayOf DEF InSession, b
        <5>4. CurrentBarOpen(s, b) = Opens(b) + ((b - Opens(b)) \div Timeframe) * Timeframe
          BY <1>3, <2>5, <5>3 DEF CurrentBarOpen
        <5>5. b - Opens(b) = 0
          BY <5>1, <5>2
        <5>6. 0 \div Timeframe = 0
          <6>1. 0 * Timeframe <= 0 /\ 0 < 0 * Timeframe + Timeframe
            BY ClockFacts
          <6> QED  BY <6>1, ClockFacts, DividedBy
        <5>7. 0 * Timeframe = 0
          BY ClockFacts
        <5>8. CurrentBarOpen(s, b) = b
          BY <5>1, <5>2, <5>4, <5>5, <5>6, <5>7
        <5> QED  BY <5>8 DEF IsOpen, b
      <4>3. \A y \in Nat : Whole(s, y) /\ y <= o => y <= Opens(o)
        BY <3>1, <3>3, <3>4
      <4> QED  BY <2>1, <3>1, <4>1, <4>2, <4>3 DEF Placed
    <3>5. CASE ~(L <= Opens(o))
      <4>1. Snap(s, x) = L
        <5> HIDE DEF L
        <5>1. Max({Opens(o), L}) \in {Opens(o), L} /\ Max({Opens(o), L}) >= L
          <6> DEFINE a == Opens(o)
          <6>1. a \in Int /\ L \in Int
            BY <3>1
          <6> HIDE DEF a
          <6>2. Max({a, L}) \in {a, L} /\ Max({a, L}) >= a /\ Max({a, L}) >= L
            BY <6>1, MaxOfTwo
          <6> QED  BY <6>2 DEF a
        <5> QED  BY <3>1, <3>2, <3>5, <5>1
      <4>2. L \in Nat
        BY <3>1, <3>5
      <4>3. Misplaced(s, L)
        <5>1. Opens(L) = Opens(o) /\ Closes(L) = Closes(o)
          <6>1. Day(o) * DayLength <= L /\ L < Day(o) * DayLength + DayLength
            BY <3>1, <3>5, ClockFacts, DayOf
          <6> QED  BY <4>2, <6>1, SameDay
        <5>2. L + Timeframe = Closes(o)
          BY <3>1, ClockFacts
        <5>3. Weekday(L)
          <6>1. Day(o) * DayLength <= L /\ L < Day(o) * DayLength + DayLength
            BY <3>1, <3>5, ClockFacts, DayOf
          <6> QED  BY <2>1, <4>2, <6>1, SameDay
        <5> QED  BY <1>3, <2>5, <3>1, <3>5, <5>1, <5>2, <5>3, ClockFacts DEF Misplaced
      <4>4. \A y \in Nat : Whole(s, y) /\ y <= o => y <= L
        BY <3>1, <3>3, <3>5
      <4> HIDE DEF L
      <4> QED  BY <3>1, <4>1, <4>2, <4>3, <4>4 DEF Placed
    <3> QED  BY <3>4, <3>5
  <2> QED  BY <2>4, <2>5
<1> QED  BY <1>2, <1>3 DEF StampOf

\* A bar at its place is stamped for a bar that begins no later, with no open in between.
LEMMA PlaceIsStamp ==
    ASSUME NEW s, NEW x \in Nat, Placed(s, x)
    PROVE  \E o \in 0..x : StampOf(s, x, o) /\ \A y \in Nat : IsOpen(s, y) /\ y <= x => y <= o
<1>1. CASE IsOpen(s, x)
  BY <1>1 DEF StampOf
<1>2. CASE Misplaced(s, x)
  <2>1. /\ s \in Nse /\ Timeframe < DayLength /\ Weekday(x)
        /\ Opens(x) < x /\ x + Timeframe = Closes(x)
    BY <1>2 DEF Misplaced
  <2> DEFINE q == (x - Opens(x)) \div Timeframe
             o == Opens(x) + q * Timeframe
  <2> QED
    <3>1. InSession(s, x)
      BY <2>1, ClockFacts, DayOf DEF InSession
    <3>2. CurrentBarOpen(s, x) = o
      BY <2>1, <3>1, ClockFacts DEF CurrentBarOpen
    <3>3. x - Opens(x) \in Int
      BY DayOf
    <3>4. q \in Int /\ x - Opens(x) < q * Timeframe + Timeframe /\ q * Timeframe <= x - Opens(x)
      BY <3>3, ClockFacts, Divided
    <3> HIDE DEF q
    <3>5. q * Timeframe \in Int
      BY <3>4, ClockFacts
    <3>6. o \in Int /\ x < o + Timeframe /\ o <= x
      BY <3>4, <3>5, ClockFacts, DayOf
    <3>7. q >= 0
      <4> SUFFICES ASSUME q < 0 PROVE FALSE
        BY <3>4
      <4>1. q * Timeframe + Timeframe <= 0 * Timeframe
        BY <3>4, ClockFacts, Steps
      <4>2. 0 * Timeframe = 0
        BY ClockFacts
      <4>3. Opens(x) \in Nat /\ Timeframe \in Nat
        BY ClockFacts, DayOf
      <4>4. q * Timeframe + Timeframe <= 0
        BY <4>1, <4>2
      <4> QED  BY <2>1, <3>4, <3>5, <4>3, <4>4
    <3>8. q * Timeframe >= 0
      BY <3>4, <3>7, ClockFacts
    <3>9. o # Never
      BY <3>5, <3>8, DayOf DEF Never
    <3> HIDE DEF o
    <3>10. o \in 0..x /\ IsOpen(s, o)
      BY <3>2, <3>9, OpenOf
    <3>11. Closes(o) = Closes(x)
      <4>1. Opens(x) <= o
        BY <3>5, <3>8, DayOf DEF o
      <4>2. Day(x) * DayLength <= o /\ o < Day(x) * DayLength + DayLength
        BY <3>10, <4>1, ClockFacts, DayOf
      <4> QED  BY <3>10, <4>2, SameDay
    <3>12. x < CurrentBarClose(s, o)
      <4>1. CurrentBarClose(s, o) = IF s \in Nse /\ o + Timeframe > Closes(o) THEN Closes(o) ELSE o + Timeframe
        BY <3>10 DEF CurrentBarClose, IsOpen
      <4> QED  BY <2>1, <3>6, <3>11, <4>1, ClockFacts, DayOf
    <3>13. \A y \in Nat : IsOpen(s, y) /\ y <= x => y <= o
      <4> SUFFICES ASSUME NEW y \in Nat, IsOpen(s, y), y <= x PROVE y <= o
        OBVIOUS
      <4>1. CurrentBarClose(s, o) \in Int
        <5>1. CurrentBarClose(s, o) = IF s \in Nse /\ o + Timeframe > Closes(o) THEN Closes(o) ELSE o + Timeframe
          BY <3>10 DEF CurrentBarClose, IsOpen
        <5> QED  BY <3>6, <3>11, <5>1, ClockFacts, DayOf
      <4>2. y < CurrentBarClose(s, o)
        BY <3>12, <4>1
      <4> QED  BY <3>10, <4>2, NoneInside
    <3> QED  BY <3>10, <3>12, <3>13 DEF StampOf
<1> QED  BY <1>1, <1>2 DEF Placed

\* Two opens are a bar apart.
LEMMA BarsApart ==
    ASSUME NEW s, NEW a \in Nat, NEW b \in Nat, IsOpen(s, a), IsOpen(s, b), a < b
    PROVE  b - a >= Timeframe
<1>1. CASE s \notin Nse
  <2> DEFINE i == a \div Timeframe
             j == b \div Timeframe
  <2>1. a = i * Timeframe /\ b = j * Timeframe /\ i \in Int /\ j \in Int
    BY <1>1, OpenIs, ClockFacts, Divided
  <2> HIDE DEF i, j
  <2>2. j < i => b + Timeframe <= a
    BY <2>1, Steps, ClockFacts
  <2>3. i < j => a + Timeframe <= b
    BY <2>1, Steps, ClockFacts
  <2>4. i # j
    BY <2>1
  <2> QED  BY <2>1, <2>2, <2>3, <2>4, ClockFacts
<1>2. CASE s \in Nse
  <2> DEFINE m == Day(a) * DayLength
             n == Day(b) * DayLength
  <2>1. /\ m \in Int /\ n \in Int /\ m <= a /\ a < m + DayLength /\ n <= b /\ b < n + DayLength
        /\ Opens(a) = m + SessionOpen /\ Closes(a) = m + SessionClose
        /\ Opens(b) = n + SessionOpen /\ Closes(b) = n + SessionClose
    BY DayOf
  <2>2. Day(a) < Day(b) => m + DayLength <= n
    BY DayOf, ClockFacts, Steps
  <2>3. Day(b) < Day(a) => n + DayLength <= m
    BY DayOf, ClockFacts, Steps
  <2>4. Day(a) \in Int /\ Day(b) \in Int
    BY DayOf
  <2> HIDE DEF m, n
  <2>5. ~(Day(b) < Day(a))
    BY <2>1, <2>3, ClockFacts
  <2>6. CASE Timeframe >= DayLength
    <3>1. a = m + SessionOpen /\ b = n + SessionOpen
      BY <1>2, <2>1, <2>6, OpenIs
    <3>2. Timeframe = DayLength
      BY <1>2, <2>6, ClockFacts
    <3>3. Day(a) # Day(b)
      BY <3>1 DEF m, n
    <3> QED  BY <2>1, <2>2, <2>4, <2>5, <3>1, <3>2, <3>3, ClockFacts
  <2>7. CASE ~(Timeframe >= DayLength)
    <3>1. Timeframe <= DayLength - (SessionClose - SessionOpen)
      BY <1>2, <2>7, ClockFacts
    <3>2. a < m + SessionClose /\ n + SessionOpen <= b
      BY <1>2, <2>1, <2>7, OpenIs
    <3>3. CASE Day(a) < Day(b)
      BY <2>1, <2>2, <3>1, <3>2, <3>3, ClockFacts
    <3>4. CASE Day(a) = Day(b)
      <4> DEFINE i == (a - Opens(a)) \div Timeframe
                 j == (b - Opens(b)) \div Timeframe
      <4>1. /\ a = Opens(a) + i * Timeframe /\ b = Opens(b) + j * Timeframe /\ i \in Int /\ j \in Int
            /\ i * Timeframe \in Int /\ j * Timeframe \in Int
        <5>1. a - Opens(a) \in Int /\ b - Opens(b) \in Int
          BY DayOf
        <5>2. i \in Int /\ j \in Int
          BY <5>1, ClockFacts, Divided
        <5>3. a = Opens(a) + i * Timeframe /\ b = Opens(b) + j * Timeframe
          BY <1>2, <2>7, OpenIs
        <5> HIDE DEF i, j
        <5>4. i * Timeframe \in Int /\ j * Timeframe \in Int
          BY <5>2, ClockFacts
        <5> QED  BY <5>2, <5>3, <5>4
      <4>2. Opens(a) = Opens(b) /\ Opens(a) \in Int
        BY <3>4, DayOf
      <4> HIDE DEF i, j
      <4>3. j < i => j * Timeframe + Timeframe <= i * Timeframe
        BY <4>1, Steps, ClockFacts
      <4>4. i < j => i * Timeframe + Timeframe <= j * Timeframe
        BY <4>1, Steps, ClockFacts
      <4>5. i # j
        BY <4>1, <4>2
      <4> QED  BY <4>1, <4>2, <4>3, <4>4, <4>5, ClockFacts
    <3> QED  BY <2>4, <2>5, <3>3, <3>4
  <2> QED  BY <2>6, <2>7
<1> QED  BY <1>1, <1>2

\* A whole bar is as far from the place of the bar before it.
LEMMA PlacesApart ==
    ASSUME NEW s, NEW a \in Nat, NEW b \in Nat, Placed(s, a), Whole(s, b), a < b
    PROVE  b - a >= Timeframe
<1>1. CASE IsOpen(s, a)
  BY <1>1, BarsApart DEF Whole
<1>2. CASE Misplaced(s, a)
  <2>1. s \in Nse /\ Timeframe < DayLength /\ Opens(a) < a /\ a + Timeframe = Closes(a)
    BY <1>2 DEF Misplaced
  <2>2. Opens(b) <= b /\ IsOpen(s, b)
    BY <2>1, OpenIs, DayOf DEF Whole
  <2>3. CASE b < Day(a) * DayLength + DayLength
    <3>1. Opens(b) = Opens(a) /\ Closes(b) = Closes(a)
      <4>1. Day(a) * DayLength <= b
        BY DayOf
      <4> QED  BY <2>3, <4>1, SameDay
    <3>2. ~(Opens(b) < b /\ b + Timeframe > Closes(b))
      BY <2>1 DEF Whole, Short
    <3> QED  BY <2>1, <3>1, <3>2, ClockFacts, DayOf
  <2>4. CASE ~(b < Day(a) * DayLength + DayLength)
    <3> DEFINE m == Day(a) * DayLength
               n == Day(b) * DayLength
    <3>1. /\ m \in Int /\ n \in Int /\ b < n + DayLength /\ m + DayLength <= b
          /\ Day(a) \in Int /\ Day(b) \in Int
          /\ Closes(a) = m + SessionClose /\ Opens(b) = n + SessionOpen
      BY <2>4, DayOf, ClockFacts
    <3>2. Day(a) < Day(b) => m + DayLength <= n
      BY <3>1, ClockFacts, Steps
    <3>3. Day(b) < Day(a) => n + DayLength <= m
      BY <3>1, ClockFacts, Steps
    <3>4. Day(a) = Day(b) => m = n
      OBVIOUS
    <3> HIDE DEF m, n
    <3>5. m + DayLength <= n
      BY <3>1, <3>2, <3>3, <3>4, ClockFacts
    <3> QED  BY <2>1, <2>2, <3>1, <3>5, ClockFacts
  <2> QED  BY <2>3, <2>4
<1> QED  BY <1>1, <1>2 DEF Placed

-----------------------------------------------------------------------------
(* What keeps to the grid. *)

\* What starts with the first open is a run.
LEMMA StartsAreRuns ==
    ASSUME NEW s, NEW t \in Nat, NEW D \in SUBSET (0..t), \A o \in D : Placed(s, o), FromStart(s, D)
    PROVE  Grid(s, D, t)
<1> SUFFICES ASSUME NEW a \in D, NEW b \in D, NEW x \in a..b, Whole(s, x) PROVE x \in D
  BY DEF Grid
<1>1. x \in 0..b
  OBVIOUS
<1> QED  BY <1>1 DEF FromStart

\* A grid stays one as time goes on, and so do rows.
LEMMA GridLater ==
    ASSUME NEW s, NEW t \in Nat, NEW u \in Nat, t <= u, NEW D, Grid(s, D, t)
    PROVE  Grid(s, D, u)
  BY DEF Grid

\* Rows stay rows as time goes on.
LEMMA RowsLater ==
    ASSUME NEW s, NEW t \in Nat, NEW u \in Nat, t <= u, NEW bars, Rows(s, bars, t)
    PROVE  Rows(s, bars, u)
<1>1. Grid(s, Snaps(s, bars), u)
  BY GridLater DEF Rows
<1>2. DOMAIN bars \subseteq 0..u
  BY DEF Rows
<1> QED  BY <1>1, <1>2 DEF Rows

\* Bars at their places are rows.
LEMMA GridRows ==
    ASSUME NEW s, NEW t \in Nat, NEW bars, Grid(s, DOMAIN bars, t),
           bars = [x \in DOMAIN bars |-> bars[x]]
    PROVE  Rows(s, bars, t)
<1> DEFINE D == DOMAIN bars
<1>1. D \in SUBSET (0..t) /\ (\A x \in D : Placed(s, x))
      /\ \A a, b \in D : \A x \in a..b : Whole(s, x) => x \in D
  BY DEF Grid
<1>2. \A x \in D : \E o \in Nat : StampOf(s, x, o)
  <2> SUFFICES ASSUME NEW x \in D PROVE \E o \in Nat : StampOf(s, x, o)
    OBVIOUS
  <2>1. x \in Nat /\ Placed(s, x)
    BY <1>1
  <2>2. PICK o \in 0..x : StampOf(s, x, o)
    BY <2>1, PlaceIsStamp
  <2> QED  BY <2>1, <2>2
<1>3. ASSUME NEW x \in D
      PROVE  /\ Snap(s, x) \in 0..t /\ Snap(s, x) <= x /\ Placed(s, Snap(s, x))
             /\ \A y \in Nat : Whole(s, y) /\ y <= x => y <= Snap(s, x)
  <2>1. x \in Nat /\ x <= t /\ Placed(s, x)
    BY <1>1
  <2>2. PICK o \in 0..x : StampOf(s, x, o) /\ \A y \in Nat : IsOpen(s, y) /\ y <= x => y <= o
    BY <2>1, PlaceIsStamp
  <2>3. o \in Nat /\ o <= x
    BY <2>1, <2>2
  <2>4. /\ Snap(s, x) \in 0..o /\ Placed(s, Snap(s, x))
        /\ \A y \in Nat : Whole(s, y) /\ y <= o => y <= Snap(s, x)
    BY <2>1, <2>2, <2>3, SnapStamp
  <2>5. \A y \in Nat : Whole(s, y) /\ y <= x => y <= Snap(s, x)
    BY <2>2, <2>4 DEF Whole
  <2> QED  BY <2>1, <2>3, <2>4, <2>5
<1>4. Snaps(s, bars) \subseteq 0..t /\ \A o \in Snaps(s, bars) : Placed(s, o)
  BY <1>3 DEF Snaps
<1>5. ASSUME NEW a \in Snaps(s, bars), NEW b \in Snaps(s, bars), NEW x \in a..b, Whole(s, x)
      PROVE  x \in Snaps(s, bars)
  <2>1. PICK u \in D : a = Snap(s, u)
    BY DEF Snaps
  <2>2. PICK v \in D : b = Snap(s, v)
    BY DEF Snaps
  <2>3. u \in Nat /\ v \in Nat /\ a \in Nat /\ b \in Nat /\ b <= v /\ x \in Nat /\ a <= x /\ x <= b
    BY <1>1, <1>3, <2>1, <2>2
  <2>4. CASE x <= u
    <3>1. x <= a
      BY <1>3, <1>5, <2>1, <2>3, <2>4
    <3> QED  BY <2>3, <3>1
  <2>5. CASE u < x
    <3>1. x \in u..v
      BY <2>3, <2>5
    <3>2. x \in D
      BY <1>1, <1>5, <3>1
    <3>3. Snap(s, x) = x
      BY <1>5, <2>3, SnapOpen DEF Whole
    <3> QED  BY <3>2, <3>3 DEF Snaps
  <2> QED  BY <2>3, <2>4, <2>5
<1>6. Grid(s, Snaps(s, bars), t)
  BY <1>4, <1>5 DEF Grid
<1> QED  BY <1>1, <1>2, <1>6 DEF Rows

\* No bars are a grid and rows of every symbol.
LEMMA NoRows ==
    ASSUME NEW s, NEW t \in Nat
    PROVE  /\ Rows(s, NoBars, t) /\ FromStart(s, Snaps(s, NoBars))
           /\ Grid(s, DOMAIN NoBars, t) /\ NoBars = [x \in DOMAIN NoBars |-> NoBars[x]]
  BY DEF Rows, Grid, FromStart, Snaps, NoBars

\* A download brings every bar up to its time.
LEMMA BroughtRows ==
    ASSUME NEW s, NEW t \in Nat, NEW late \in BOOLEAN
    PROVE  /\ Rows(s, Brought(s, t, late), t)
           /\ FromStart(s, Snaps(s, Brought(s, t, late)))
<1> DEFINE windows == {o \in 0..t : CurrentBarOpen(s, o) = o}
           Stamp(o) == IF ~late \/ \E x \in windows : x > o THEN o
                       ELSE IF t < CurrentBarClose(s, o) THEN t ELSE CurrentBarClose(s, o)
           bars == Brought(s, t, late)
           Bar(a) == TrueBar(s, CHOOSE o \in windows : Stamp(o) = a, t)
<1>1. bars = [a \in {Stamp(o) : o \in windows} |-> Bar(a)]
  BY DEF Brought
<1>2. DOMAIN bars = {Stamp(o) : o \in windows}
  BY <1>1
<1>3. bars = [x \in DOMAIN bars |-> bars[x]]
  BY <1>1
<1>4. ASSUME NEW o \in windows PROVE Stamp(o) \in 0..t /\ StampOf(s, Stamp(o), o)
  <2>1. o \in Nat /\ o <= t /\ IsOpen(s, o)
    BY DEF IsOpen
  <2>2. CASE Stamp(o) = o
    BY <2>1, <2>2 DEF StampOf
  <2>3. CASE Stamp(o) = t /\ t < CurrentBarClose(s, o)
    BY <2>1, <2>3 DEF StampOf
  <2>4. CASE /\ Stamp(o) = CurrentBarClose(s, o) /\ ~(t < CurrentBarClose(s, o))
             /\ ~\E x \in windows : x > o
    <3>1. CurrentBarClose(s, o) = IF s \in Nse /\ o + Timeframe > Closes(o) THEN Closes(o) ELSE o + Timeframe
      BY <2>1 DEF CurrentBarClose, IsOpen
    <3>2. CurrentBarClose(s, o) \in Int
      BY <2>1, <3>1, ClockFacts, DayOf
    <3>3. ASSUME ~(s \in Nse /\ CurrentBarClose(s, o) = Closes(o)) PROVE FALSE
      <4>1. CurrentBarClose(s, o) = o + Timeframe /\ IsOpen(s, o + Timeframe)
        BY <2>1, <3>3, NextOpen
      <4>2. o + Timeframe \in windows
        BY <2>1, <2>4, <3>2, <4>1, ClockFacts DEF IsOpen
      <4> QED  BY <2>1, <2>4, <4>2, ClockFacts
    <3>4. o <= CurrentBarClose(s, o)
      BY <2>1, <3>1, OpenIs, ClockFacts, DayOf
    <3>5. Stamp(o) \in 0..t
      BY <2>1, <2>4, <3>2, <3>4
    <3> HIDE DEF Stamp
    <3> QED  BY <2>1, <2>4, <3>3, <3>4, <3>5 DEF StampOf
  <2> QED  BY <2>2, <2>3, <2>4
<1> HIDE DEF bars, Stamp
<1>5. ASSUME NEW o \in windows
      PROVE  /\ Snap(s, Stamp(o)) \in 0..o /\ Placed(s, Snap(s, Stamp(o)))
             /\ \A y \in Nat : Whole(s, y) /\ y <= o => y <= Snap(s, Stamp(o))
  <2>1. o \in Nat /\ Stamp(o) \in Nat /\ StampOf(s, Stamp(o), o)
    BY <1>4
  <2> QED  BY <2>1, SnapStamp
<1>6. Snaps(s, bars) = {Snap(s, Stamp(o)) : o \in windows}
  BY <1>2 DEF Snaps
<1>7. Snaps(s, bars) \in SUBSET (0..t) /\ \A o \in Snaps(s, bars) : Placed(s, o)
  BY <1>5, <1>6
<1>8. FromStart(s, Snaps(s, bars))
  <2> SUFFICES ASSUME NEW p \in Snaps(s, bars), NEW x \in 0..p, Whole(s, x) PROVE x \in Snaps(s, bars)
    BY DEF FromStart
  <2>1. x \in windows /\ x \in Nat
    BY <1>7 DEF Whole, IsOpen
  <2>2. Snap(s, Stamp(x)) \in 0..x /\ x <= Snap(s, Stamp(x))
    BY <1>5, <2>1
  <2>3. Snap(s, Stamp(x)) = x
    BY <2>1, <2>2
  <2> QED  BY <1>6, <2>1, <2>3
<1>9. Grid(s, Snaps(s, bars), t)
  BY <1>7, <1>8, StartsAreRuns
<1>10. DOMAIN bars \subseteq 0..t /\ \A x \in DOMAIN bars : \E o \in Nat : StampOf(s, x, o)
  BY <1>2, <1>4
<1> QED  BY <1>3, <1>8, <1>9, <1>10 DEF Rows, bars

\* Rows inserted into rows.
LEMMA UpsertedRows ==
    ASSUME NEW s, NEW t \in Nat, NEW old, Rows(s, old, t), FromStart(s, Snaps(s, old)),
           NEW new, Rows(s, new, t), FromStart(s, Snaps(s, new))
    PROVE  Rows(s, Upserted(old, new), t) /\ FromStart(s, Snaps(s, Upserted(old, new)))
<1> DEFINE bars == Upserted(old, new)
<1>1. DOMAIN bars = DOMAIN old \cup DOMAIN new /\ bars = [x \in DOMAIN bars |-> bars[x]]
  BY DEF Upserted
<1> HIDE DEF bars
<1>2. Snaps(s, bars) = Snaps(s, old) \cup Snaps(s, new)
  BY <1>1 DEF Snaps
<1>3. FromStart(s, Snaps(s, bars))
  BY <1>2 DEF FromStart
<1>4. Snaps(s, bars) \in SUBSET (0..t) /\ \A o \in Snaps(s, bars) : Placed(s, o)
  BY <1>2 DEF Rows, Grid
<1>5. Grid(s, Snaps(s, bars), t)
  BY <1>3, <1>4, StartsAreRuns
<1>6. DOMAIN bars \subseteq 0..t /\ \A x \in DOMAIN bars : \E o \in Nat : StampOf(s, x, o)
  BY <1>1 DEF Rows
<1> QED  BY <1>1, <1>3, <1>5, <1>6 DEF Rows, bars

\* A later stamp belongs to no bar before a whole one.
LEMMA LaterStamp ==
    ASSUME NEW s, NEW w \in Nat, NEW u \in Nat, w < u, NEW v \in Nat, StampOf(s, w, v),
           NEW o \in Nat, StampOf(s, u, o), Whole(s, Snap(s, w))
    PROVE  Snap(s, w) <= Snap(s, u)
<1> DEFINE y == Snap(s, w)
<1>1. y \in 0..v /\ v <= w /\ IsOpen(s, y)
  BY SnapStamp DEF StampOf, Whole
<1>2. /\ Snap(s, u) \in 0..o
      /\ \A z \in Nat : Whole(s, z) /\ z <= o => z <= Snap(s, u)
  BY SnapStamp
<1> HIDE DEF y
<1>3. y <= o
  <2> SUFFICES ASSUME o < y PROVE FALSE
    BY <1>1
  <2>1. y \in Nat /\ y < u
    BY <1>1
  <2>2. CurrentBarClose(s, o) \in Int
    <3>1. CurrentBarClose(s, o) = IF s \in Nse /\ o + Timeframe > Closes(o) THEN Closes(o) ELSE o + Timeframe
      BY DEF CurrentBarClose, IsOpen, StampOf
    <3> QED  BY <3>1, ClockFacts, DayOf
  <2>3. u <= CurrentBarClose(s, o) \/ u = o
    BY <2>2 DEF StampOf
  <2>4. y < CurrentBarClose(s, o)
    BY <2>1, <2>2, <2>3
  <2>5. y <= o
    BY <1>1, <2>1, <2>4, NoneInside DEF StampOf
  <2> QED  BY <2>1, <2>5
<1>4. y \in Nat /\ Whole(s, y)
  BY <1>1 DEF y
<1> QED  BY <1>2, <1>3, <1>4 DEF y

\* The rows stamped last are those of a run of bars.
LEMMA LatestRows ==
    ASSUME NEW s, NEW t \in Nat, NEW bars, Rows(s, bars, t)
    PROVE  Rows(s, Latest(bars), t)
<1> DEFINE new == Latest(bars)
           After(x) == {u \in DOMAIN bars : u > x}
<1>1. /\ DOMAIN bars \in SUBSET (0..t) /\ Snaps(s, bars) \in SUBSET (0..t)
      /\ \A x \in DOMAIN bars : (\E o \in Nat : StampOf(s, x, o)) /\ Snap(s, x) \in Snaps(s, bars)
      /\ \A o \in Snaps(s, bars) : Placed(s, o)
  BY DEF Rows, Grid, Snaps
<1>2. DOMAIN new = {x \in DOMAIN bars : Cardinality(After(x)) < Limit} /\ new = [x \in DOMAIN new |-> new[x]]
  BY DEF Latest
<1> HIDE DEF new
<1>3. ASSUME NEW u \in DOMAIN new, NEW w \in DOMAIN bars, u < w PROVE w \in DOMAIN new
  <2>1. IsFiniteSet(DOMAIN bars)
    <3>1. IsFiniteSet(0..t)
      BY 0 \in Int, t \in Int, FS_Interval
    <3> QED  BY <1>1, <3>1, FS_Subset
  <2>2. After(w) \subseteq After(u)
    BY <1>1, <1>2, <1>3
  <2>3. IsFiniteSet(After(u))
    BY <2>1, FS_Subset
  <2>4. IsFiniteSet(After(w))
    BY <2>1, FS_Subset
  <2> HIDE DEF After
  <2>5. Cardinality(After(w)) <= Cardinality(After(u))
    BY <2>2, <2>3, FS_Subset
  <2>6. Cardinality(After(u)) \in Nat /\ Cardinality(After(w)) \in Nat
    BY <2>3, <2>4, FS_CardinalityType
  <2> QED  BY <1>2, <2>5, <2>6, EventsAssumption
<1>4. Snaps(s, new) \subseteq Snaps(s, bars)
  BY <1>2 DEF Snaps
<1>5. ASSUME NEW a \in Snaps(s, new), NEW b \in Snaps(s, new), NEW x \in a..b, Whole(s, x)
      PROVE  x \in Snaps(s, new)
  <2>1. x \in Snaps(s, bars)
    BY <1>4, <1>5 DEF Rows, Grid
  <2>2. PICK w \in DOMAIN bars : x = Snap(s, w)
    BY <2>1 DEF Snaps
  <2>3. PICK u \in DOMAIN new : a = Snap(s, u)
    BY DEF Snaps
  <2>4. CASE w \in DOMAIN new
    BY <2>2, <2>4 DEF Snaps
  <2>5. CASE w \notin DOMAIN new
    <3>1. u \in DOMAIN bars /\ u \in Nat /\ w \in Nat
      BY <1>1, <1>2
    <3>2. w < u
      BY <1>3, <2>3, <2>5, <3>1
    <3>3. x \in Nat /\ a \in Nat
      BY <1>1, <1>4, <2>1
    <3>4. x <= a
      <4>1. PICK v \in Nat : StampOf(s, w, v)
        BY <1>1
      <4>2. PICK o \in Nat : StampOf(s, u, o)
        BY <1>1, <3>1
      <4> QED  BY <1>5, <2>2, <2>3, <3>1, <3>2, <4>1, <4>2, LaterStamp
    <3>5. x = a
      BY <1>5, <3>3, <3>4
    <3> QED  BY <3>5
  <2> QED  BY <2>4, <2>5
<1>6. Grid(s, Snaps(s, new), t)
  BY <1>1, <1>4, <1>5 DEF Grid
<1>7. DOMAIN new \subseteq 0..t /\ \A x \in DOMAIN new : \E o \in Nat : StampOf(s, x, o)
  BY <1>1, <1>2
<1> QED  BY <1>2, <1>6, <1>7 DEF Rows, new

\* Merging a price leaves consecutive bars.
LEMMA MergeGrid ==
    ASSUME NEW s, NEW t \in Nat, NEW bars, Rows(s, bars, t), NEW price, NEW trading
    PROVE  LET r == Merge(s, bars, price, t, trading)
           IN r = [x \in DOMAIN r |-> r[x]] /\ Grid(s, DOMAIN r, t)
<1> DEFINE r == Merge(s, bars, price, t, trading)
           clean == Coalesced(s, bars)
           C == DOMAIN clean
           last == Max(C)
           cur == CurrentBarOpen(s, t)
           px == IF price = NoPrice THEN clean[last].close ELSE price
           window == {o \in C : cur <= o /\ o < CurrentBarClose(s, t)}
           first == IF cur \in window THEN cur ELSE Min(window)
           T == {o \in C : o < cur} \cup {cur}
           WithTip(open, high, low) ==
             [o \in T |-> IF o = cur THEN Painted(open, high, low, px) ELSE clean[o]]
<1>1. r = IF bars = NoBars THEN bars
          ELSE IF cur = Never \/ (~trading /\ last # cur) THEN clean
          ELSE IF window # {} THEN WithTip(clean[first].open, Max({clean[o].high : o \in window}),
                                           Min({clean[o].low : o \in window}))
          ELSE IF last > cur THEN WithTip(clean[last].open, clean[last].high, clean[last].low)
          ELSE IF FarBehind(last, cur) THEN clean
          ELSE WithTip(clean[last].close, clean[last].close, clean[last].close)
  BY DEF Merge
<1>2. \A a, b, c : LET w == WithTip(a, b, c) IN DOMAIN w = T /\ w = [x \in DOMAIN w |-> w[x]]
  OBVIOUS
<1>3. C = Snaps(s, bars) /\ clean = [x \in C |-> clean[x]]
  BY DEF Coalesced, Snaps
<1> HIDE DEF r, WithTip, first, px, clean
<1>4. \/ bars = NoBars /\ r = bars
      \/ r = clean
      \/ /\ bars # NoBars /\ cur # Never
         /\ window # {} \/ last > cur \/ ~FarBehind(last, cur)
         /\ DOMAIN r = T /\ r = [x \in DOMAIN r |-> r[x]]
  <2> HIDE DEF C, last, cur, window, T
  <2>1. CASE bars = NoBars
    BY <1>1, <2>1
  <2>2. CASE bars # NoBars /\ (cur = Never \/ (~trading /\ last # cur))
    BY <1>1, <2>2
  <2>3. CASE bars # NoBars /\ ~(cur = Never \/ (~trading /\ last # cur)) /\ window # {}
    BY <1>1, <1>2, <2>3
  <2>4. CASE bars # NoBars /\ ~(cur = Never \/ (~trading /\ last # cur)) /\ window = {} /\ last > cur
    BY <1>1, <1>2, <2>4
  <2>5. CASE bars # NoBars /\ ~(cur = Never \/ (~trading /\ last # cur)) /\ window = {} /\ ~(last > cur)
    BY <1>1, <1>2, <2>5
  <2> QED  BY <2>1, <2>2, <2>3, <2>4, <2>5
<1>5. Grid(s, C, t)
  BY <1>3 DEF Rows
<1>6. CASE bars = NoBars /\ r = bars
  BY <1>6, NoRows DEF r
<1>7. CASE r = clean
  BY <1>3, <1>5, <1>7 DEF r
<1>8. CASE /\ bars # NoBars /\ cur # Never
           /\ window # {} \/ last > cur \/ ~FarBehind(last, cur)
           /\ DOMAIN r = T /\ r = [x \in DOMAIN r |-> r[x]]
  <2>1. cur \in 0..t /\ IsOpen(s, cur)
    BY <1>8, OpenOf
  <2>2. C \in SUBSET (0..t) /\ C # {}
    <3>1. DOMAIN bars # {}
      BY <1>8 DEF Rows, NoBars
    <3> HIDE DEF C
    <3> QED  BY <1>3, <1>5, <3>1 DEF Grid, Snaps
  <2>3. last \in C /\ \A x \in C : last >= x
    <3> HIDE DEF C
    <3> QED  BY <2>2, MaxIn
  <2> HIDE DEF C, cur, last
  <2>4. ASSUME NEW x \in 0..t, Whole(s, x), x < cur, NEW before \in C, before < x PROVE x \in C
    <3> SUFFICES ASSUME x \notin C PROVE FALSE
      OBVIOUS
    <3>1. \A o \in C : o < x /\ o \in Nat /\ Placed(s, o)
      <4> SUFFICES ASSUME NEW o \in C PROVE o < x /\ o \in Nat /\ Placed(s, o)
        OBVIOUS
      <4>1. o \in 0..t /\ Placed(s, o) /\ before \in 0..t /\ (x \in before..o => x \in C)
        BY <1>5, <2>4 DEF Grid
      <4>2. x <= o => x \in before..o
        BY <2>4, <4>1
      <4> QED  BY <4>1, <4>2
    <3>2. last < x /\ last \in Nat /\ Placed(s, last)
      BY <2>3, <3>1
    <3>3. window = {}
      BY <2>1, <2>4, <3>1
    <3>4. ~(last > cur)
      BY <2>1, <2>4, <3>2
    <3>5. ~FarBehind(last, cur)
      BY <1>8, <3>3, <3>4
    <3>6. x - last >= Timeframe /\ cur - x >= Timeframe
      <4>1. x \in Nat /\ cur \in Nat /\ IsOpen(s, x)
        BY <2>1, <2>4 DEF Whole
      <4> QED  BY <2>1, <2>4, <3>2, <4>1, BarsApart, PlacesApart
    <3> DEFINE d == cur - last
               q == d \div Timeframe
    <3>7. d \in Int /\ d >= 2 * Timeframe
      BY <2>1, <3>2, <3>6, ClockFacts
    <3> HIDE DEF d
    <3>8. q \in Int /\ d < q * Timeframe + Timeframe
      BY <3>7, ClockFacts, Divided
    <3> HIDE DEF q
    <3>9. q * Timeframe + Timeframe <= 2 * Timeframe
      <4>1. q < 2
        BY <3>5, <3>8 DEF q, d, FarBehind
      <4> QED  BY <3>8, <4>1, Steps, ClockFacts
    <3>10. q * Timeframe \in Int
      BY <3>8, ClockFacts
    <3> QED  BY <3>7, <3>8, <3>9, <3>10, ClockFacts
  <2>5. T \subseteq 0..t
    BY <2>1, <2>2
  <2>6. \A o \in T : Placed(s, o) /\ o <= cur
    BY <1>5, <2>1, <2>2 DEF Grid, Placed
  <2>7. ASSUME NEW a \in T, NEW b \in T, NEW x \in a..b, Whole(s, x) PROVE x \in T
    <3>1. a \in 0..t /\ b \in 0..t /\ a <= cur /\ b <= cur
      BY <2>5, <2>6
    <3>2. x \in 0..t /\ a <= x /\ (x = cur \/ x < cur)
      BY <2>1, <3>1
    <3>3. CASE x = cur \/ x = a
      BY <3>3
    <3>4. CASE x < cur /\ a < x
      <4>1. a \in C
        BY <2>1, <3>1, <3>4
      <4>2. x \in C
        BY <2>4, <2>7, <3>2, <3>4, <4>1
      <4> QED  BY <3>4, <4>2
    <3> QED  BY <3>1, <3>2, <3>3, <3>4
  <2> HIDE DEF T
  <2>8. Grid(s, T, t)
    BY <2>5, <2>6, <2>7 DEF Grid
  <2> QED  BY <1>8, <2>8 DEF r
<1> QED  BY <1>4, <1>6, <1>7, <1>8

\* So a merged cache holds rows.
LEMMA MergeRows ==
    ASSUME NEW s, NEW t \in Nat, NEW bars, Rows(s, bars, t), NEW price, NEW trading
    PROVE  Rows(s, Merge(s, bars, price, t, trading), t)
<1> DEFINE r == Merge(s, bars, price, t, trading)
<1>1. r = [x \in DOMAIN r |-> r[x]] /\ Grid(s, DOMAIN r, t)
  BY MergeGrid
<1> HIDE DEF r
<1>2. Rows(s, r, t)
  BY <1>1, GridRows
<1> QED  BY <1>2 DEF r

\* The repaint: a series of the same shape keeps the places of its bars.
LEMMA RepaintIs ==
    ASSUME NEW old, old = [x \in DOMAIN old |-> old[x]], NEW new, new = [x \in DOMAIN new |-> new[x]]
    PROVE  LET r == Repaint(old, new)
           IN /\ r = [x \in DOMAIN r |-> r[x]]
              /\ SameShape(old, new) => DOMAIN r = DOMAIN old /\ SameShape(r, new)
              /\ ~SameShape(old, new) => r = new
<1> DEFINE m == Max(DOMAIN new)
           tip == [old EXCEPT ![m] = new[m]]
           r == Repaint(old, new)
<1>1. r = IF SameShape(old, new) THEN tip ELSE new
  BY DEF Repaint
<1>2. DOMAIN tip = DOMAIN old /\ tip = [x \in DOMAIN tip |-> tip[x]]
  OBVIOUS
<1> HIDE DEF tip, r, m
<1>3. CASE SameShape(old, new)
  <2>1. DOMAIN old # {}
    BY <1>3 DEF SameShape, NoBars
  <2>2. tip # NoBars
    BY <1>2, <2>1 DEF NoBars
  <2> QED  BY <1>1, <1>2, <1>3, <2>2 DEF SameShape, r
<1>4. CASE ~SameShape(old, new)
  BY <1>1, <1>4 DEF r
<1> QED  BY <1>3, <1>4

\* What every event has to keep, the render included.
LEMMA Rendered ==
    ASSUME BoardInv,
           now' \in Nat, now <= now', shown' \in Symbols,
           rows' = [s \in Symbols |-> rows'[s]], cache' = [s \in Symbols |-> cache'[s]],
           \A s \in Symbols : Rows(s, rows'[s], now') /\ FromStart(s, Snaps(s, rows'[s])) /\ Rows(s, cache'[s], now'),
           NEW series, series = [x \in DOMAIN series |-> series[x]], Grid(painted, DOMAIN series, now),
           NEW pending, NEW state, NEW waits, Commit(series, pending, state, waits)
    PROVE  BoardInv'
<1> DEFINE new == View(shown', cache'[shown'], quote'[shown'], now')
<1>1. drawn' = Repaint(series, new) /\ painted' = IF SameShape(series, new) THEN painted ELSE shown'
  BY DEF Commit
<1>2. Rows(shown', cache'[shown'], now')
  OBVIOUS
<1>3. new = [x \in DOMAIN new |-> new[x]] /\ Grid(shown', DOMAIN new, now')
  BY <1>2, MergeGrid DEF View
<1>4. LeftInShape' = (painted' # shown' => SameShape(drawn', new))
  BY DEF LeftInShape
<1> HIDE DEF new
<1>5. now \in Nat /\ painted \in Symbols
  BY DEF BoardInv
<1>6. Grid(painted, DOMAIN series, now')
  BY <1>5, GridLater
<1>7. /\ drawn' = [x \in DOMAIN drawn' |-> drawn'[x]]
      /\ painted' \in Symbols /\ Grid(painted', DOMAIN drawn', now') /\ LeftInShape'
  <2>1. CASE SameShape(series, new)
    <3>1. drawn' = Repaint(series, new) /\ painted' = painted
      BY <1>1, <2>1
    <3>2. painted' \in Symbols /\ Grid(painted', DOMAIN series, now')
      BY <1>5, <1>6, <3>1
    <3> QED  BY <1>3, <1>4, <2>1, <3>1, <3>2, RepaintIs
  <2>2. CASE ~SameShape(series, new)
    BY <1>1, <1>3, <1>4, <2>2, RepaintIs
  <2> QED  BY <2>1, <2>2
<1> QED  BY <1>7 DEF BoardInv, Rows, Grid, FromStart, Snaps, StampOf, Placed, Whole

\* What is stored after a download.
LEMMA Loaded ==
    ASSUME BoardInv, NEW s \in Symbols, Load(s)
    PROVE  /\ rows' = [x \in Symbols |-> rows'[x]]
           /\ \A x \in Symbols : Rows(x, rows'[x], now) /\ FromStart(x, Snaps(x, rows'[x]))
<1>1. PICK late \in Stamps(s) : rows' = [rows EXCEPT ![s] = Upserted(@, Brought(s, now, late))]
  BY DEF Load
<1>2. late \in BOOLEAN
  BY DEF Stamps
<1>3. now \in Nat /\ rows = [x \in Symbols |-> rows[x]]
      /\ \A x \in Symbols : Rows(x, rows[x], now) /\ FromStart(x, Snaps(x, rows[x]))
  BY DEF BoardInv
<1>4. Rows(s, Brought(s, now, late), now) /\ FromStart(s, Snaps(s, Brought(s, now, late)))
  BY <1>2, <1>3, BroughtRows
<1>5. /\ Rows(s, Upserted(rows[s], Brought(s, now, late)), now)
      /\ FromStart(s, Snaps(s, Upserted(rows[s], Brought(s, now, late))))
  BY <1>3, <1>4, UpsertedRows
<1>6. rows' = [x \in Symbols |-> IF x = s THEN Upserted(rows[s], Brought(s, now, late)) ELSE rows[x]]
  BY <1>1, <1>3
<1>7. \A x \in Symbols : rows'[x] = IF x = s THEN Upserted(rows[s], Brought(s, now, late)) ELSE rows[x]
  BY <1>6
<1>8. rows' = [x \in Symbols |-> rows'[x]]
  BY <1>6
<1> QED  BY <1>3, <1>5, <1>7, <1>8

\* What is cached after an answer or a merge.
LEMMA Cached ==
    ASSUME BoardInv, NEW s \in Symbols, NEW bars, Rows(s, bars, now), cache' = [cache EXCEPT ![s] = bars]
    PROVE  cache' = [x \in Symbols |-> cache'[x]] /\ \A x \in Symbols : Rows(x, cache'[x], now)
<1>1. cache' = [x \in Symbols |-> IF x = s THEN bars ELSE cache[x]]
  BY DEF BoardInv
<1>2. \A x \in Symbols : cache'[x] = IF x = s THEN bars ELSE cache[x]
  BY <1>1
<1>3. cache' = [x \in Symbols |-> cache'[x]]
  BY <1>1
<1> QED  BY <1>2, <1>3 DEF BoardInv

\* A pane that has just been mounted.
LEMMA StartBoard ==
    ASSUME ChartInit
    PROVE  BoardInv
<1>1. now \in Nat /\ shown \in Symbols /\ painted = shown
  BY ClockAssumption, MarketsAssumption DEF ChartInit
<1>2. cache = [s \in Symbols |-> NoBars] /\ drawn = NoBars
  BY DEF ChartInit
<1>3. PICK late \in BOOLEAN :
         rows = [s \in Symbols |-> IF Stored[s] = Never THEN NoBars
                                   ELSE Brought(s, Stored[s], late /\ s \in Misstamped)]
  BY DEF ChartInit
<1>4. ASSUME NEW s \in Symbols PROVE Rows(s, rows[s], now) /\ FromStart(s, Snaps(s, rows[s]))
  <2>1. CASE Stored[s] = Never
    BY <1>1, <1>3, <2>1, NoRows
  <2>2. CASE Stored[s] # Never
    <3>1. Stored[s] \in Nat /\ Stored[s] <= now
      BY <2>2, StoredAssumption, ClockAssumption DEF ChartInit, Never
    <3> DEFINE l == late /\ s \in Misstamped
    <3>2. l \in BOOLEAN /\ rows[s] = Brought(s, Stored[s], l)
      BY <1>3, <2>2
    <3> HIDE DEF l
    <3>3. Rows(s, rows[s], Stored[s]) /\ FromStart(s, Snaps(s, rows[s]))
      BY <3>1, <3>2, BroughtRows
    <3> QED  BY <1>1, <3>1, <3>3, RowsLater
  <2> QED  BY <2>1, <2>2
<1>5. rows = [s \in Symbols |-> rows[s]]
  BY <1>3
<1>6. \A s \in Symbols : Rows(s, cache[s], now)
  BY <1>1, <1>2, NoRows
<1>7. cache = [s \in Symbols |-> cache[s]]
  BY <1>2
<1>8. drawn = [o \in DOMAIN drawn |-> drawn[o]] /\ Grid(painted, DOMAIN drawn, now) /\ LeftInShape
  BY <1>1, <1>2, NoRows DEF LeftInShape
<1> QED  BY <1>1, <1>4, <1>5, <1>6, <1>7, <1>8 DEF BoardInv

\* Every event keeps the grid.
LEMMA StepBoard ==
    ASSUME BoardInv, [ChartNext]_chartVars
    PROVE  BoardInv'
<1>1. /\ now \in Nat /\ now <= now /\ shown \in Symbols /\ painted \in Symbols
      /\ rows = [s \in Symbols |-> rows[s]] /\ cache = [s \in Symbols |-> cache[s]]
      /\ \A s \in Symbols : Rows(s, rows[s], now) /\ FromStart(s, Snaps(s, rows[s])) /\ Rows(s, cache[s], now)
      /\ drawn = [o \in DOMAIN drawn |-> drawn[o]] /\ Grid(painted, DOMAIN drawn, now)
  BY DEF BoardInv
<1>2. CASE Advance
  <2>1. now' = now + 1 /\ rows' = rows /\ cache' = cache /\ shown' = shown
    BY <1>2 DEF Advance, server, queries
  <2>2. Commit(drawn, filling, status, awaited)
    BY <1>2 DEF Advance, Render
  <2>3. now' \in Nat /\ now <= now'
    BY <1>1, <2>1
  <2>4. \A s \in Symbols : Rows(s, rows'[s], now') /\ FromStart(s, Snaps(s, rows'[s])) /\ Rows(s, cache'[s], now')
    BY <1>1, <2>1, <2>3, RowsLater
  <2> QED  BY <1>1, <2>1, <2>2, <2>3, <2>4, Rendered
<1>3. CASE AskDownload
  <2>1. now' = now /\ rows' = rows /\ cache' = cache /\ shown' = shown
    BY <1>3 DEF AskDownload, queries
  <2>2. Commit(drawn, filling, status, awaited)
    BY <1>3 DEF AskDownload, Render
  <2> QED  BY <1>1, <2>1, <2>2, Rendered
<1>4. CASE Restyle
  <2>1. now' = now /\ rows' = rows /\ cache' = cache /\ shown' = shown
    BY <1>4 DEF Restyle, server, queries
  <2>2. Commit(NoBars, filling, status, awaited)
    BY <1>4 DEF Restyle
  <2>3. NoBars = [x \in DOMAIN NoBars |-> NoBars[x]] /\ Grid(painted, DOMAIN NoBars, now)
    BY <1>1, NoRows
  <2> QED  BY <1>1, <2>1, <2>2, <2>3, Rendered
<1>5. ASSUME NEW t, PriceTick(t) PROVE BoardInv'
  <2> DEFINE price == Tape[shown][t]
             bars == Merge(shown, cache[shown], price, now, AllowNewBar(shown, quote[shown], now))
  <2>1. now' = now /\ rows' = rows /\ shown' = shown
    BY <1>5 DEF PriceTick, server
  <2>2. cache' = [cache EXCEPT ![shown] = bars]
    BY <1>5 DEF PriceTick
  <2>3. Rows(shown, bars, now)
    BY <1>1, MergeRows
  <2>4. Commit(TipPainted(price), filling, status, awaited)
    BY <1>5 DEF PriceTick
  <2>5. /\ TipPainted(price) = [x \in DOMAIN TipPainted(price) |-> TipPainted(price)[x]]
        /\ DOMAIN TipPainted(price) = DOMAIN drawn
    BY <1>1 DEF TipPainted
  <2> HIDE DEF bars, price
  <2>6. cache' = [x \in Symbols |-> cache'[x]] /\ \A x \in Symbols : Rows(x, cache'[x], now)
    BY <1>1, <2>2, <2>3, Cached
  <2> QED  BY <1>1, <2>1, <2>4, <2>5, <2>6, Rendered
<1>6. ASSUME NEW s \in Symbols, ShowSymbol(s) PROVE BoardInv'
  <2>1. now' = now /\ rows' = rows /\ cache' = cache /\ shown' \in Symbols
    BY <1>6 DEF ShowSymbol, server
  <2>2. Commit(drawn, filling, status, awaited)
    BY <1>6 DEF ShowSymbol, Render
  <2> QED  BY <1>1, <2>1, <2>2, Rendered
<1>7. ASSUME NEW s \in Symbols, Poll(s) PROVE BoardInv'
  <2>1. now' = now /\ rows' = rows /\ cache' = cache /\ shown' = shown
    BY <1>7 DEF Poll, server
  <2>2. Commit(drawn, filling, status, awaited)
    BY <1>7 DEF Poll, Render
  <2> QED  BY <1>1, <2>1, <2>2, Rendered
<1>8. ASSUME NEW s \in Symbols, Answer(s) PROVE BoardInv'
  <2> DEFINE merged == Merge(s, Latest(rows[s]), remerge[s], now, AllowNewBar(s, quote[s], now))
             bars == IF remerge[s] = NoPrice THEN Latest(rows[s]) ELSE merged
  <2>1. now' = now /\ rows' = rows /\ shown' = shown
    BY <1>8 DEF Answer, server
  <2>2. cache' = [cache EXCEPT ![s] = bars]
    BY <1>8 DEF Answer
  <2>3. Rows(s, bars, now)
    <3>1. Rows(s, Latest(rows[s]), now)
      BY <1>1, LatestRows
    <3>2. Rows(s, merged, now)
      BY <1>1, <3>1, MergeRows
    <3> QED  BY <3>1, <3>2
  <2>4. Commit(drawn, filling, status, awaited)
    BY <1>8 DEF Answer, Render
  <2> HIDE DEF bars
  <2>5. cache' = [x \in Symbols |-> cache'[x]] /\ \A x \in Symbols : Rows(x, cache'[x], now)
    BY <2>2, <2>3, Cached
  <2> QED  BY <1>1, <2>1, <2>4, <2>5, Rendered
<1>9. ASSUME NEW s \in Symbols, QuoteAnswer(s) PROVE BoardInv'
  <2>1. now' = now /\ rows' = rows /\ cache' = cache /\ shown' = shown
    BY <1>9 DEF QuoteAnswer, server
  <2>2. Commit(drawn, filling, status, awaited)
    BY <1>9 DEF QuoteAnswer, Render
  <2> QED  BY <1>1, <2>1, <2>2, Rendered
<1>10. ASSUME NEW s \in Symbols, Downloaded(s) PROVE BoardInv'
  <2> DEFINE bars == Merge(s, cache[s], lastPrice, now, AllowNewBar(s, quote[s], now))
  <2>1. now' = now /\ shown' = shown
    BY <1>10 DEF Downloaded
  <2>2. Load(s)
    BY <1>10 DEF Downloaded
  <2>3. /\ rows' = [x \in Symbols |-> rows'[x]]
        /\ \A x \in Symbols : Rows(x, rows'[x], now) /\ FromStart(x, Snaps(x, rows'[x]))
    BY <2>2, Loaded
  <2>4. cache' = cache \/ cache' = [cache EXCEPT ![s] = bars]
    BY <1>10 DEF Downloaded
  <2>5. Rows(s, bars, now)
    BY <1>1, MergeRows
  <2>6. Commit(drawn, filling, status, awaited)
    BY <1>10 DEF Downloaded, Render
  <2> HIDE DEF bars
  <2>7. cache' = [x \in Symbols |-> cache'[x]] /\ \A x \in Symbols : Rows(x, cache'[x], now)
    <3>1. CASE cache' = cache
      BY <1>1, <3>1
    <3>2. CASE cache' = [cache EXCEPT ![s] = bars]
      BY <2>5, <3>2, Cached
    <3> QED  BY <2>4, <3>1, <3>2
  <2> QED  BY <1>1, <2>1, <2>3, <2>6, <2>7, Rendered
<1>11. ASSUME NEW s \in Symbols, Filled(s) PROVE BoardInv'
  <2>1. now' = now /\ shown' = shown /\ cache' = cache
    BY <1>11 DEF Filled
  <2>2. Load(s)
    BY <1>11 DEF Filled
  <2>3. /\ rows' = [x \in Symbols |-> rows'[x]]
        /\ \A x \in Symbols : Rows(x, rows'[x], now) /\ FromStart(x, Snaps(x, rows'[x]))
    BY <2>2, Loaded
  <2>4. \/ Commit(drawn, filling \ {s}, "ready", NoSymbol)
        \/ Commit(drawn, filling \ {s}, status, awaited)
    BY <1>11 DEF Filled
  <2> QED  BY <1>1, <2>1, <2>3, <2>4, Rendered
<1>12. ASSUME NEW s \in Symbols, FillFails(s) PROVE BoardInv'
  <2>1. now' = now /\ rows' = rows /\ cache' = cache /\ shown' = shown
    BY <1>12 DEF FillFails, server, queries
  <2>2. \/ Commit(drawn, filling \ {s}, "error", NoSymbol)
        \/ Commit(drawn, filling \ {s}, status, awaited)
    BY <1>12 DEF FillFails
  <2> QED  BY <1>1, <2>1, <2>2, Rendered
<1>13. CASE UNCHANGED chartVars
  BY <1>13 DEF chartVars, server, queries, render, BoardInv, Rows, Grid, FromStart, Snaps, LeftInShape
<1> QED  BY <1>2, <1>3, <1>4, <1>5, <1>6, <1>7, <1>8, <1>9, <1>10, <1>11, <1>12, <1>13 DEF ChartNext

\* NoHole: the series of a pane is a run of consecutive bars of one symbol, whatever was
\* late, missing, mis-stamped or merged for another symbol; it is the one shown, but
\* behind a tip that two symbols share.
THEOREM BarsAreConsecutive == ChartSpec => []NoHole
<1>1. ChartInit => BoardInv
  BY StartBoard
<1>2. BoardInv /\ [ChartNext]_chartVars => BoardInv'
  BY StepBoard
<1>3. BoardInv => NoHole
  <2> SUFFICES ASSUME BoardInv, NEW o \in DOMAIN drawn
               PROVE  /\ IsOpen(painted, o) \/ Misplaced(painted, o)
                      /\ \A x \in o + 1 .. Max(DOMAIN drawn) :
                             IsOpen(painted, x) /\ ~Short(painted, x) => x \in DOMAIN drawn
    BY DEF NoHole, BoardInv, LeftInShape
  <2>1. now \in Nat /\ Grid(painted, DOMAIN drawn, now)
    BY DEF BoardInv
  <2>2. DOMAIN drawn \in SUBSET (0..now) /\ o \in Nat
    BY <2>1 DEF Grid
  <2> DEFINE m == Max(DOMAIN drawn)
  <2>3. m \in DOMAIN drawn /\ m \in Nat
    <3>1. DOMAIN drawn # {}
      OBVIOUS
    <3>2. m \in DOMAIN drawn
      BY <2>1, <2>2, <3>1, MaxIn
    <3> QED  BY <2>2, <3>2
  <2> HIDE DEF m
  <2>4. ASSUME NEW x \in o + 1 .. m, IsOpen(painted, x) /\ ~Short(painted, x) PROVE x \in DOMAIN drawn
    <3>1. x \in o..m /\ Whole(painted, x)
      BY <2>2, <2>3, <2>4 DEF Whole
    <3> QED  BY <2>1, <2>3, <3>1 DEF Grid
  <2>5. IsOpen(painted, o) \/ Misplaced(painted, o)
    BY <2>1 DEF Grid, Placed
  <2> QED  BY <2>4, <2>5 DEF m
<1> QED  BY <1>1, <1>2, <1>3, PTL DEF ChartSpec

=============================================================================
