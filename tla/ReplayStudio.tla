---------------------------- MODULE ReplayStudio ----------------------------
(***************************************************************************)
(* The Replay Studio: the browser (studio/src/App.tsx, ValidationPanel.tsx)*)
(* and the sessions it steps through, which live in the server's memory    *)
(* (services/replay_studio.py, engines/replay_studio).  Every handler of   *)
(* the page is a chain of requests with an await between them; nothing     *)
(* stops a second handler, or the play timer, from starting meanwhile, and *)
(* answers may overtake each other.                                        *)
(*                                                                         *)
(* A frame is the bars up to an index, so it is modelled by that index and *)
(* its session.  All sessions replay one symbol and timeframe.             *)
(***************************************************************************)
EXTENDS Integers, FiniteSets, FiniteSetsExt, Bags, TLC

CONSTANTS
    Nil,
    Sessions,     \* the sessions that may be opened, in their order
    Bars,         \* bars of a session
    EventBars,    \* the bars that have an event
    BarOf,        \* BarOf[s]: the bar at which setup s was detected
    MaxClicks,    \* bound: clicks of the user
    MaxCalls,     \* bound: handlers under way when another may start
    MaxFaults     \* bound: lost requests and restarts of the server

Setups == DOMAIN BarOf
Indices == 0..(Bars - 1)

ASSUME SessionsAssumption == Sessions # {} /\ Sessions \subseteq Nat
ASSUME BarsAssumption ==
    /\ Bars \in Nat \ {0} /\ EventBars \subseteq Indices
    /\ \A s \in Setups : BarOf[s] \in Indices
ASSUME NilAssumption == Nil \notin Int \cup Setups \cup [id : Int, at : Int]
ASSUME BoundsAssumption == MaxClicks \in Nat /\ MaxCalls \in Nat /\ MaxFaults \in Nat

VARIABLES
    \* The server.
    index,      \* current_index of every session in the store, Nil without one
    reviewed,   \* setups with a row in setup_validation_reviews
    \* The page.
    session,    \* [id, at]: the state session, whose current_index is at
    frame,      \* [id, at]: the bars on the chart
    inspector,  \* [id, at]: the bar in the inspector
    playing,
    loading,    \* the button "Start Replay" is disabled
    enabled,    \* validationMode
    queue,      \* the validation panel has loaded its setups
    selected,   \* the setup chosen in the panel
    saving,
    \* The handlers under way, and what bounds and observes them.
    calls,      \* a bag of requests
    clicks, faults,
    reached,    \* the highest index each session has had, -1 before it is opened
    chosen      \* the frame that was shown when `selected` was chosen

page == <<session, frame, inspector, playing, loading, enabled, queue, selected, saving>>
vars == <<index, reviewed, reached, chosen, page, calls, clicks, faults>>

At(id, at) == [id |-> id, at |-> at]

\* A request of a handler: what it asks, of which session, about which bar or setup,
\* and the answer once the server has given it.
Call(ask, id, arg) == [ask |-> ask, id |-> id, arg |-> arg, answer |-> Nil]
Moves == {"forward", "back", "next", "previous", "goto", "jump"}
Asked == {c \in BagToSet(calls) : c.answer = Nil}
Answered == {c \in BagToSet(calls) : c.answer # Nil}
\* The bag of calls when c has ended and others have started.
Then(c, others) == (calls (-) SetToBag({c})) (+) SetToBag(others)

-----------------------------------------------------------------------------
(* The validation panel.                                                   *)

\* Mutant: the list of setups is not cut off at the current bar.
VisibleMutant(loaded, shown) == IF ~loaded \/ shown = Nil THEN {} ELSE Setups

\* visibleSetups
Visible(loaded, shown) ==
    IF ~loaded \/ shown = Nil THEN {} ELSE {s \in Setups : BarOf[s] <= shown.at}

\* The effect that selects currentSetup while nothing is selected: a setup of the
\* latest bar that has one.
Preselected(loaded, shown) ==
    LET visible == Visible(loaded, shown)
    IN IF selected # Nil \/ visible = {} THEN selected
       ELSE CHOOSE s \in visible : \A t \in visible : BarOf[s] >= BarOf[t]

\* Notes the frame in which a setup that was not selected before is.
Note(shown) == chosen' = IF selected' = selected THEN chosen ELSE shown

-----------------------------------------------------------------------------
(* The server.                                                             *)

EventsAfter(i) == {b \in EventBars : b > i}
EventsBefore(i) == {b \in EventBars : b < i}

\* step_forward, step_back, next_event, previous_event; jump_to_date and the event
\* clicked on ("goto"), and jump_to_index.
Moved(i, move, arg) ==
    CASE move = "forward" -> Min({i + 1, Bars - 1})
      [] move = "back" -> Max({i - 1, 0})
      [] move = "next" -> IF EventsAfter(i) = {} THEN i ELSE Min(EventsAfter(i))
      [] move = "previous" -> IF EventsBefore(i) = {} THEN i ELSE Max(EventsBefore(i))
      [] move \in {"goto", "jump"} -> arg

Fresh == {s \in Sessions : reached[s] = -1}

\* Requests that the server can answer: it knows the session, or needs none.
Served == {c \in Asked : c.ask \in {"create", "review"} \/ index[c.id] # Nil}

\* The server handles a request, in the order it pleases.  The setups to review are
\* in the database and survive a restart.
Serve ==
    \E c \in Served :
        LET id == IF c.ask = "create" THEN Min(Fresh) ELSE c.id
            now == IF c.ask = "create" THEN 0
                   ELSE IF c.ask \in Moves THEN Moved(index[id], c.ask, c.arg) ELSE index[id]
            answer == CASE c.ask = "create" -> id
                        [] c.ask = "review" -> 0
                        [] c.ask = "inspect" /\ c.arg # Nil -> c.arg
                        [] OTHER -> now
        IN /\ index' = IF c.ask = "review" THEN index ELSE [index EXCEPT ![id] = now]
           /\ reached' = IF c.ask = "review" THEN reached
                         ELSE [reached EXCEPT ![id] = Max({@, now})]
           /\ reviewed' = IF c.ask = "review" THEN reviewed \cup {c.arg} ELSE reviewed
           /\ calls' = Then(c, {[c EXCEPT !.answer = answer]})
           /\ UNCHANGED <<page, chosen, clicks, faults>>

-----------------------------------------------------------------------------
(* Answers.  A state that changes runs its effects: a new session object   *)
(* reads the frame again, and a new session id the setups of the panel.    *)

\* Mutant: the position of the session is not taken from the answer.
MovedToMutant(at) == session

\* setSession(prev => ...), which may find another session than the one it moved.
MovedTo(at) == IF session = Nil THEN Nil ELSE [session EXCEPT !.at = at]

\* Steps and jumps.  The inspector of a jump is asked for the bar jumped to.
MoveAnswered ==
    \E c \in Answered :
        /\ c.ask \in Moves
        /\ frame' = At(c.id, c.answer)
        /\ session' = MovedTo(c.answer)
        /\ selected' = Preselected(queue, frame') /\ Note(frame')
        /\ calls' = Then(c, {Call("inspect", c.id, IF c.ask = "jump" THEN c.arg ELSE Nil),
                             Call("frame", session.id, Nil)})
        /\ UNCHANGED <<index, reviewed, reached, inspector, playing, loading, enabled, queue, saving,
                       clicks, faults>>

\* refreshFrame, on its own or as the end of startSession.
FrameAnswered ==
    \E c \in Answered :
        /\ c.ask \in {"frame", "first_frame"}
        /\ frame' = At(c.id, c.answer)
        /\ selected' = Preselected(queue, frame') /\ Note(frame')
        /\ calls' = Then(c, {Call(IF c.ask = "frame" THEN "inspect" ELSE "first_inspect", c.id, Nil)})
        /\ UNCHANGED <<index, reviewed, reached, session, inspector, playing, loading, enabled, queue,
                       saving, clicks, faults>>

InspectorAnswered ==
    \E c \in Answered :
        /\ c.ask \in {"inspect", "first_inspect"}
        /\ inspector' = At(c.id, c.answer)
        /\ loading' = (loading /\ c.ask = "inspect")
        /\ calls' = Then(c, {})
        /\ UNCHANGED <<index, reviewed, reached, chosen, session, frame, playing, enabled, queue, selected, saving,
                       clicks, faults>>

SessionCreated ==
    \E c \in Answered :
        /\ c.ask = "create"
        /\ session' = At(c.answer, 0)
        /\ calls' = Then(c, {Call("events", c.answer, Nil), Call("frame", c.answer, Nil)}
                            \cup IF enabled THEN {Call("queue", c.answer, Nil)} ELSE {})
        /\ UNCHANGED <<index, reviewed, reached, chosen, frame, inspector, playing, loading, enabled, queue,
                       selected, saving, clicks, faults>>

\* The event log, which lists every event of the session from here on, those of bars not
\* reached too (list_events), and the metrics.
EventsAnswered ==
    \E c \in Answered :
        /\ c.ask = "events"
        /\ calls' = Then(c, {Call("first_frame", c.id, Nil)})
        /\ UNCHANGED <<index, reviewed, reached, chosen, page, clicks, faults>>

PlaybackAnswered ==
    \E c \in Answered :
        /\ c.ask \in {"play", "pause"}
        /\ playing' = (c.ask = "play")
        /\ calls' = Then(c, {})
        /\ UNCHANGED <<index, reviewed, reached, chosen, session, frame, inspector, loading, enabled, queue,
                       selected, saving, clicks, faults>>

QueueAnswered ==
    \E c \in Answered :
        /\ c.ask \in {"queue", "queue_again"}
        /\ queue' = TRUE
        /\ selected' = Preselected(TRUE, frame) /\ Note(frame)
        /\ saving' = (saving /\ c.ask = "queue")
        /\ calls' = Then(c, {})
        /\ UNCHANGED <<index, reviewed, reached, session, frame, inspector, playing, loading, enabled,
                       clicks, faults>>

ReviewAnswered ==
    \E c \in Answered :
        /\ c.ask = "review"
        /\ calls' = Then(c, {Call("queue_again", c.id, Nil)})
        /\ UNCHANGED <<index, reviewed, reached, chosen, page, clicks, faults>>

Receive ==
    \/ MoveAnswered \/ FrameAnswered \/ InspectorAnswered \/ SessionCreated
    \/ EventsAnswered \/ PlaybackAnswered \/ QueueAnswered \/ ReviewAnswered

\* The handler of a request that fails ends there, and its finally clause runs.
EndsWith(c) ==
    /\ loading' = (loading /\ c.ask \notin {"create", "events", "first_frame", "first_inspect"})
    /\ saving' = (saving /\ c.ask \notin {"review", "queue_again"})
    /\ calls' = Then(c, {})
    /\ UNCHANGED <<index, reviewed, reached, chosen, session, frame, inspector, playing, enabled, queue, selected,
                   clicks>>

\* The server does not know the session any more.
NotFound == \E c \in Asked \ Served : EndsWith(c) /\ UNCHANGED faults

\* A request or an answer is lost.
Lost ==
    /\ faults < MaxFaults
    /\ \E c \in BagToSet(calls) : EndsWith(c)
    /\ faults' = faults + 1

\* The server restarts with an empty store.
Restart ==
    /\ faults < MaxFaults
    /\ \E s \in Sessions : index[s] # Nil
    /\ index' = [s \in Sessions |-> Nil]
    /\ faults' = faults + 1
    /\ UNCHANGED <<reviewed, reached, chosen, page, calls, clicks>>

-----------------------------------------------------------------------------
(* The user and the timer.                                                 *)

Room == BagCardinality(calls) < MaxCalls
Clicked == Room /\ clicks < MaxClicks /\ clicks' = clicks + 1
Started(others) == calls' = calls (+) SetToBag(others)
Toolbar == session # Nil /\ frame # Nil

StartSession ==
    /\ ~loading /\ Fresh # {}
    /\ Clicked
    /\ loading' = TRUE
    /\ Started({Call("create", Nil, Nil)})
    /\ UNCHANGED <<index, reviewed, reached, chosen, session, frame, inspector, playing, enabled, queue, selected,
                   saving, faults>>

\* The step buttons, the event buttons, the date and the log (a bar with an event).
Move ==
    /\ Toolbar
    /\ Clicked
    /\ \/ \E move \in {"forward", "back", "next", "previous"} : Started({Call(move, session.id, Nil)})
       \/ \E b \in Indices : Started({Call("goto", session.id, b)})
    /\ UNCHANGED <<index, reviewed, reached, chosen, page, faults>>

\* Mutant: the inspector is asked for the bar while the jump is still under way.
JumpMutant(b) == Started({Call("jump", session.id, b), Call("inspect", session.id, b)})

\* handleJumpIndex
Jump(b) == Started({Call("jump", session.id, b)})

\* The slider, or a click on a candle of the frame.
JumpTo ==
    /\ Toolbar
    /\ Clicked
    /\ \E b \in Indices : Jump(b)
    /\ UNCHANGED <<index, reviewed, reached, chosen, page, faults>>

TogglePlay ==
    /\ Toolbar
    /\ Clicked
    /\ Started({Call(IF playing THEN "pause" ELSE "play", session.id, Nil)})
    /\ UNCHANGED <<index, reviewed, reached, chosen, page, faults>>

\* An overlay or the debug mode: refreshFrame is another function, its effect runs.
Redraw ==
    /\ Toolbar
    /\ Clicked
    /\ Started({Call("frame", session.id, Nil)})
    /\ UNCHANGED <<index, reviewed, reached, chosen, page, faults>>

ToggleValidation ==
    /\ Toolbar
    /\ Clicked
    /\ enabled' = ~enabled
    /\ Started(IF enabled THEN {} ELSE {Call("queue", session.id, Nil)})
    /\ UNCHANGED <<index, reviewed, reached, chosen, session, frame, inspector, playing, loading, queue, selected,
                   saving, faults>>

SelectSetup ==
    /\ Toolbar /\ enabled
    /\ Clicked
    /\ \E s \in Visible(queue, frame) : selected' = s /\ Jump(BarOf[s])
    /\ chosen' = frame
    /\ UNCHANGED <<index, reviewed, reached, session, frame, inspector, playing, loading, enabled, queue,
                   saving, faults>>

SaveReview ==
    /\ Toolbar /\ enabled /\ selected # Nil /\ ~saving
    /\ Clicked
    /\ saving' = TRUE
    /\ Started({Call("review", session.id, selected)})
    /\ UNCHANGED <<index, reviewed, reached, chosen, session, frame, inspector, playing, loading, enabled, queue,
                   selected, faults>>

\* The play interval: it does not wait for the step before.
Tick ==
    /\ playing /\ session # Nil
    /\ \/ /\ session.at >= Bars - 1
          /\ playing' = FALSE
          /\ UNCHANGED calls
       \/ /\ session.at < Bars - 1 /\ Room
          /\ Started({Call("forward", session.id, Nil)})
          /\ UNCHANGED playing
    /\ UNCHANGED <<index, reviewed, reached, chosen, session, frame, inspector, loading, enabled, queue, selected,
                   saving, clicks, faults>>

-----------------------------------------------------------------------------
Init ==
    /\ index = [s \in Sessions |-> Nil] /\ reached = [s \in Sessions |-> -1]
    /\ reviewed = {} /\ chosen = Nil
    /\ session = Nil /\ frame = Nil /\ inspector = Nil
    /\ playing = FALSE /\ loading = FALSE /\ enabled = FALSE
    /\ queue = FALSE /\ selected = Nil /\ saving = FALSE
    /\ calls = EmptyBag /\ clicks = 0 /\ faults = 0

Next ==
    \/ Serve \/ Receive \/ NotFound \/ Lost \/ Restart
    \/ StartSession \/ Move \/ JumpTo \/ TogglePlay \/ Redraw
    \/ ToggleValidation \/ SelectSetup \/ SaveReview \/ Tick

\* While requests are under way one of them is answered or fails, and the interval keeps firing.
Spec ==
    /\ Init /\ [][Next]_vars
    /\ WF_vars(Serve \/ Receive \/ NotFound) /\ WF_vars(Tick)
-----------------------------------------------------------------------------
Places == {Nil} \cup [id : Sessions, at : Indices]

\* Every variable has its type; a place never lies outside its session.
TypeOK ==
    /\ index \in [Sessions -> {Nil} \cup Indices] /\ reached \in [Sessions -> {-1} \cup Indices]
    /\ reviewed \subseteq Setups /\ selected \in {Nil} \cup Setups
    /\ session \in Places /\ frame \in Places /\ inspector \in Places /\ chosen \in Places
    /\ playing \in BOOLEAN /\ loading \in BOOLEAN /\ enabled \in BOOLEAN
    /\ queue \in BOOLEAN /\ saving \in BOOLEAN
    /\ IsABag(calls) /\ clicks \in 0..MaxClicks /\ faults \in 0..MaxFaults

\* Neither the chart nor the inspector is ever ahead of the bar their session had reached,
\* whatever overtakes what.  That is all of "future data never leaves the server until the
\* replay index reaches it" (docs/replay-studio/overview.md:21) that holds: the event log
\* lists the events ahead from the start.
FramesNotAhead == \A shown \in {frame, inspector} : shown # Nil => shown.at <= reached[shown.id]

\* What may be reviewed lies at or before the bar shown (docs/validation/overview.md:19),
\* except that the choice of a setup outlives steps back and new sessions
\* (ValidationPanel.tsx:56): a setup ahead of the chart was chosen on a frame at or past
\* its bar, of a session that had come to it, which the chart has left since.  No review
\* is stored of a bar that no replay reached.
ReviewedWasSeen ==
    /\ \A s \in reviewed : \E id \in Sessions : reached[id] >= BarOf[s]
    /\ selected # Nil /\ BarOf[selected] > frame.at =>
         BarOf[selected] <= chosen.at /\ chosen.at <= reached[chosen.id]

\* Playback comes to an end: the page stops playing, unless the server has forgotten
\* the session or another one has been opened.
PlayEnds ==
    \A s \in Sessions :
        (playing /\ session # Nil /\ session.id = s)
            ~> (~playing \/ index[s] = Nil \/ session.id # s)
=============================================================================
