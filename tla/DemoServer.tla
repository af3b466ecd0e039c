------------------------------ MODULE DemoServer ------------------------------
(* The demonstration server (demo-server/server.mjs, data.mjs): one Node     *)
(* process that stands in for the API. Every endpoint asks analysisFor for   *)
(* the analysis of a symbol and timeframe, which is kept for TTL, loaded     *)
(* once for all who ask while a load is under way, and made of synthetic     *)
(* candles when the provider fails. A replay session works on the analysis   *)
(* it was opened with. One step is one turn of the event loop: a request up  *)
(* to its first wait, or the end of a load with all that was waiting for it. *)
(* The handlers of a session read their body first, but touch the session in *)
(* one turn afterwards.                                                      *)
EXTENDS DemoAnalysis

CONSTANTS
    Clients,    \* who sends requests, one at a time; one replay session is open
    Keys,       \* symbol and timeframe of a request
    Market,     \* the provider's candles of the keys it knows
    Walk,       \* the synthetic candles, the same at every load
    Window,     \* how many candles a load asks for
    MinBars,    \* fewer than this from the provider are not used
    StartBar,   \* the bar a session opens on
    TTL,        \* how long an analysis is kept
    Timeout,    \* when a fetch is given up
    Strides,    \* how many bars a step goes
    Horizon,    \* bound: the last instant
    MaxMoves,   \* bound: how often the session is moved and reviewed
    MaxRuns,    \* bound: backtests
    Nil

ASSUME DemoAssumption ==
    /\ DOMAIN Market \subseteq Keys
    /\ {Window, StartBar, Horizon} \subseteq Nat /\ Strides \subseteq Int
    /\ MinBars <= Window /\ Timeout >= 1 /\ TTL >= 1
    /\ \A k \in DOMAIN Market : Len(Market[k]) >= Window + Horizon
    /\ Len(Walk) = Window
ASSUME CandlesAssumption ==
    \A bars \in {Walk} \cup {Market[k] : k \in DOMAIN Market} :
        /\ bars \in Seq([o : Int, h : Int, l : Int, c : Int])
        /\ \A i \in 1 .. Len(bars) : 0 < bars[i].l /\ bars[i].l <= bars[i].c /\ bars[i].c <= bars[i].h
ASSUME NilAssumption == Nil \notin Clients \cup [key : Keys, began : Nat]

VARIABLES
    now,        \* the server's clock
    silent,     \* the provider has stopped answering
    cache,      \* per key: the analysis kept and since when
    inflight,   \* per key: the client whose request started the load under way
    load,       \* per client: the load its request started
    req,        \* per client: its request, while it is not answered
    session,    \* the replay session
    runs,       \* how many backtests are stored
    moves,      \* of the session, for the bound
    served      \* per key: the instant whose candles were answered last
serverVars == <<now, silent, cache, inflight, load, req, session, runs, moves, served>>

Known == DOMAIN Market
Kinds == {"read", "open", "compare", "backtest"}

\* Candles as of an instant. A bar closes at every instant, which is quicker
\* than on any timeframe: what can change between two loads has changed.
Live(key, at) == SubSeq(Market[key], at + 1, at + Window)
Synthetic == Walk
BarsOf(a) == IF a.src = "live" THEN Live(a.key, a.at) ELSE Synthetic
\* What sessions look up in an analysis, worked out once.
Worked ==
    {LET bars == BarsOf([key |-> k, at |-> at, src |-> src])
     IN [of |-> <<k, at, src>>, events |-> Events(bars), setups |-> Setups(bars),
         takers |-> Takers(bars), labels |-> LastLabels(bars)] :
        k \in Known, at \in 0 .. Horizon, src \in {"live", "synthetic"}}
Analysis(a) == CHOOSE w \in Worked : w.of = <<a.key, a.at, a.src>>

ServerInit ==
    /\ now = 0 /\ silent = FALSE /\ moves = 0
    /\ cache = [k \in Keys |-> Nil] /\ inflight = [k \in Keys |-> Nil]
    /\ load = [c \in Clients |-> Nil] /\ req = [c \in Clients |-> Nil]
    /\ session = Nil /\ runs = 0 /\ served = [k \in Keys |-> 0]

-----------------------------------------------------------------------------
(* Requests that need an analysis.                                          *)

\* invalidateAnalysis, which the comparison with the provider calls first:
\* the analysis kept is dropped.
Kept(kind, key) == IF kind = "compare" THEN [cache EXCEPT ![key] = Nil] ELSE cache

\* Mutant: invalidateAnalysis drops the load under way as well.
UnderWayMutant(kind, key) == IF kind = "compare" THEN Nil ELSE inflight[key]

\* The load under way is joined, also by a request that has just invalidated.
UnderWay(kind, key) == inflight[key]

Asking(kind) == Cardinality({c \in Clients : req[c] # Nil /\ req[c].kind = kind})
Fresh(hit) == hit # Nil /\ now - hit.ts < TTL
OpenedOn(a) ==
    [key |-> a.key, at |-> a.at, src |-> a.src, index |-> Smaller(StartBar, Window),
     verdict |-> Nil]

\* A backtest tests the setups of the past, of which there never are any, and
\* is stored as completed.
Stored(asked, waiting) == Cardinality({c \in waiting : asked[c].kind = "backtest"})

\* All requests of asked that wait for an analysis go on with it: a read is
\* answered, a session is opened on it and a comparison fetches anew.
GoOn(asked, waiting, a) ==
    /\ req' = [c \in Clients |->
                  IF c \notin waiting THEN asked[c]
                  ELSE IF asked[c].kind = "compare" THEN [asked[c] EXCEPT !.on = Nil, !.since = now]
                  ELSE Nil]
    /\ session' = IF \E c \in waiting : asked[c].kind = "open" THEN OpenedOn(a) ELSE session
    /\ runs' = runs + Stored(asked, waiting)
    /\ served' = [served EXCEPT ![a.key] = a.at]

\* A request arrives. Of a symbol the server does not know there is no
\* analysis: 404 or 422, but a backtest of it is stored with no bars.
Ask(c, kind, key) ==
    LET kept    == Kept(kind, key)
        under   == UnderWay(kind, key)
        r(on)   == [req EXCEPT ![c] = [kind |-> kind, key |-> key, on |-> on, since |-> now]]
    IN /\ req[c] = Nil
       /\ kind = "open" => session = Nil /\ Asking("open") = 0
       /\ kind = "backtest" => runs + Asking("backtest") < MaxRuns
       /\ cache' = kept
       /\ \/ /\ Fresh(kept[key])
             /\ GoOn(r(c), {c}, [key |-> key, at |-> kept[key].at, src |-> kept[key].src])
             /\ UNCHANGED <<inflight, load>>
          \/ /\ ~Fresh(kept[key]) /\ under # Nil
             /\ req' = r(under)
             /\ UNCHANGED <<inflight, load, session, runs, served>>
          \/ /\ ~Fresh(kept[key]) /\ under = Nil /\ key \in Known
             /\ req' = r(c)
             /\ load' = [load EXCEPT ![c] = [key |-> key, began |-> now]]
             /\ inflight' = [inflight EXCEPT ![key] = c]
             /\ UNCHANGED <<session, runs, served>>
          \/ /\ key \notin Known
             /\ runs' = IF kind = "backtest" THEN runs + 1 ELSE runs
             /\ UNCHANGED <<inflight, load, req, session, served>>
       /\ UNCHANGED <<now, silent, moves>>

\* Mutant: nothing gives up a fetch that gets no answer.
OverMutant(began) == ~silent

\* A fetch ends with the provider's answer or its error, or is given up.
Over(began) == ~silent \/ now - began >= Timeout \/ now = Horizon

\* The candles are there, the provider's or, if that failed, synthetic ones:
\* the analysis is kept and all who waited for it go on.
LoadEnds(c) ==
    /\ load[c] # Nil
    /\ Over(load[c].began)
    /\ \E src \in {"live", "synthetic"}, at \in load[c].began .. now :
         /\ silent => src = "synthetic"
         /\ src = "live" => Window >= MinBars
         /\ src = "synthetic" => at = now
         /\ LET key == load[c].key
            IN /\ cache' = [cache EXCEPT ![key] = [ts |-> now, at |-> at, src |-> src]]
               /\ inflight' = [inflight EXCEPT ![key] = Nil]
               /\ GoOn(req, {d \in Clients : req[d] # Nil /\ req[d].on = c}, [key |-> key, at |-> at, src |-> src])
    /\ load' = [load EXCEPT ![c] = Nil]
    /\ UNCHANGED <<now, silent, moves>>

\* The candles a comparison fetched for reference: compared, or 502.
Compared(c) ==
    /\ req[c] # Nil /\ req[c].on = Nil
    /\ Over(req[c].since)
    /\ req' = [req EXCEPT ![c] = Nil]
    /\ UNCHANGED <<now, silent, cache, inflight, load, session, runs, moves, served>>

-----------------------------------------------------------------------------
(* Replay sessions.                                                         *)

Change(s) ==
    /\ session # Nil /\ moves < MaxMoves
    /\ session' = s
    /\ moves' = moves + 1
    /\ UNCHANGED <<now, silent, cache, inflight, load, req, runs, served>>
Moved(index) == Change([session EXCEPT !.index = index])

\* A step is held at the end it goes to, and not at the other one.
StepForward == \E n \in Strides : Moved(Smaller(Window, session.index + n))
StepBack == \E n \in Strides : Moved(Larger(1, session.index - n))
\* The next event after the bar, the one before it, or any by its name.
JumpEvent ==
    /\ session # Nil
    /\ LET places == {e.at : e \in Analysis(session).events}
           here   == session.index
           next   == {p \in places : p > here /\ \A q \in places : q > here => p <= q}
           prev   == {p \in places : p < here /\ \A q \in places : q < here => p >= q}
       IN \E p \in next \cup prev \cup places : Moved(p)
\* A verdict on the setup; reviewing again replaces it.
Review ==
    /\ session # Nil
    /\ \E v \in {"correct", "incorrect"} : Change([session EXCEPT !.verdict = v])
\* The reviews of a session go with it.
Delete == Change(Nil)

\* The events of a frame: those the replay has come to.
Visible(s) == {e \in Analysis(s).events : e.at <= s.index}

-----------------------------------------------------------------------------
(* The world around.                                                        *)

Tick ==
    /\ now < Horizon
    /\ \A c \in Clients : /\ load[c] # Nil => now - load[c].began < Timeout
                          /\ req[c] # Nil /\ req[c].on = Nil => now - req[c].since < Timeout
    /\ now' = now + 1
    /\ UNCHANGED <<silent, cache, inflight, load, req, session, runs, moves, served>>
ProviderStops ==
    /\ silent' = ~silent
    /\ UNCHANGED <<now, cache, inflight, load, req, session, runs, moves, served>>

ServerNext ==
    \/ \E c \in Clients, kind \in Kinds, key \in Keys : Ask(c, kind, key)
    \/ \E c \in Clients : LoadEnds(c)
    \/ \E c \in Clients : Compared(c)
    \/ StepForward \/ StepBack \/ JumpEvent \/ Review \/ Delete
    \/ Tick
    \/ ProviderStops

\* Fetches end, since each has an AbortSignal.timeout, and time goes on.
ServerSpec ==
    /\ ServerInit /\ [][ServerNext]_serverVars
    /\ WF_serverVars(Tick)
    /\ \A c \in Clients : WF_serverVars(LoadEnds(c)) /\ WF_serverVars(Compared(c))

-----------------------------------------------------------------------------
(* Properties.                                                              *)

\* Every request is answered, also while the provider keeps silent: nobody is
\* left waiting for a load that nobody finishes.
Answered == \A c \in Clients : req[c] # Nil ~> req[c] = Nil

\* The candles answered for a key never go back in time, whoever asks and
\* whatever was invalidated in between: loads of a key do not overlap.
\* That a request after an invalidation pulls fresh ones (data.mjs:851) is not claimed: it
\* joins a load that began before.
AnswersMoveForward == [][\A k \in Keys : served'[k] >= served[k]]_serverVars

\* A break of structure that a frame shows was known at the frame's bar: it
\* is the first close beyond a bar that stands out among three neighbours on
\* each side, and the replay has passed all of them.
BreaksWereKnown ==
    session # Nil => \A e \in Visible(session) : e.type \in {"bos", "choch"} =>
        LET bars == BarsOf(session)
            i    == e.swing
            Above(j) == IF e.dir = "up" THEN bars[i].h > bars[j].h ELSE bars[i].l < bars[j].l
            Past(j)  == IF e.dir = "up" THEN bars[j].c > bars[i].h ELSE bars[j].c < bars[i].l
        IN /\ i + 3 <= session.index /\ e.at <= session.index
           /\ \A j \in (i - 3 .. i + 3) \ {i} : Above(j)
           /\ Past(e.at) /\ \A j \in i + 1 .. e.at - 1 : ~Past(j)

\* A setup of an analysis can still be traded: its levels are in order, no bar
\* closed through its zone since the bar that made it, the last price has not
\* met the stop, the chart's swing labels go its way and one strategy takes it.
PlansHold ==
    \A k \in Known : cache[k] # Nil =>
        LET a    == [key |-> k, at |-> cache[k].at, src |-> cache[k].src]
            bars == BarsOf(a)
        IN \A s \in Analysis(a).setups :
             LET side == IF s.dir = "bullish" THEN 1 ELSE -1
                 far  == IF s.dir = "bullish" THEN s.low ELSE s.high
             IN /\ side * s.stop < side * 1000 * far
                /\ side * (1000 * bars[Len(bars)].c - s.stop) > 0
                /\ \A j \in s.since + 1 .. Len(bars) : side * (bars[j].c - far) >= 0
                /\ side * (s.target1 - 500 * (s.low + s.high)) > 0 /\ side * (s.target2 - s.target1) > 0
                /\ Analysis(a).labels = IF s.dir = "bullish" THEN {"HH", "HL"} ELSE {"LH", "LL"}
                /\ Cardinality(Analysis(a).takers) = 1
=============================================================================
