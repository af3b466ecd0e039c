------------------------------ MODULE LiveStream ------------------------------
(***************************************************************************)
(* The terminal's live price: terminal/src/hooks/useLiveStream.ts with the *)
(* transports of terminal/src/lib/marketData/transports.ts.                *)
(*                                                                         *)
(* Every chart pane runs the hook; only the active pane streams.  The      *)
(* effect connects a transport, which polls the tick API beside a health   *)
(* probe, or keeps a WebSocket.  Changing the pane's symbol or the active  *)
(* pane runs the cleanups and then the effects of the panes concerned, in  *)
(* the order of the panes; requests that are under way are not cancelled,  *)
(* and their callbacks still write the connection store.                   *)
(*                                                                         *)
(* What a tick and the effect's download and refetch intervals do to the   *)
(* candles is in ChartBoard.  Of time the model keeps nothing.             *)
(***************************************************************************)
EXTENDS Listing, Integers, FiniteSets

CONSTANTS
    NPanes,        \* panes, in the order they are rendered
    Polled,        \* the symbols of the tick API; the others have a WebSocket
    MaxConnects,   \* bound: transports ever connected
    MaxProbes, MaxTimers,  \* bounds: requests, timers of one transport
    MaxOutages     \* bound: times the servers go down

ASSUME PanesAssumption == NPanes \in Nat \ {0}
ASSUME PolledAssumption == Polled \subseteq Symbols
ASSUME BoundsAssumption ==
    /\ MaxConnects \in Nat /\ MaxProbes \in Nat \ {0} /\ MaxTimers \in Nat \ {0}
    /\ MaxOutages \in Nat

Panes == 1..NPanes
Streams == 1..MaxConnects

VARIABLES
    up, outages,   \* the servers answer; outages so far
    active, shown, \* activePaneId; symbolId of each pane
    used,          \* transports connected so far: 1..used
    owner, feed,   \* pane and symbol of a transport
    stopped,       \* its cleanup has run
    pulling,       \* tick API: the request inFlight stands for, none, tick or quote
    probes,        \* tick API: health requests under way
    timers,        \* reconnect timers that are set
    socket,        \* WebSocket: none, opening, open, closed, or closed too early
    status         \* useConnection.status

servers == <<up, outages>>
view == <<active, shown>>
ident == <<used, owner, feed>>
transport == <<pulling, probes, timers, socket>>
vars == <<servers, view, ident, stopped, transport, status>>

Init ==
    /\ up = TRUE /\ outages = 0
    /\ active = 1
    /\ shown = [p \in Panes |-> NoSymbol]
    /\ used = 0
    /\ owner = [t \in Streams |-> 1]
    /\ feed = [t \in Streams |-> NoSymbol]
    /\ stopped = [t \in Streams |-> FALSE]
    /\ pulling = [t \in Streams |-> "none"]
    /\ probes = [t \in Streams |-> 0]
    /\ timers = [t \in Streams |-> 0]
    /\ socket = [t \in Streams |-> "none"]
    /\ status = "connecting"

Running == {t \in 1..used : ~stopped[t]}
IsPolled(t) == feed[t] \in Polled

-----------------------------------------------------------------------------
(* The effect of useLiveStream and its cleanup.                            *)

\* Mutant: the effect returns no cleanup for a pane that stays enabled.
StopStreamsMutant(P) ==
    /\ stopped' = [t \in Streams |->
                     stopped[t] \/ (t \in Running /\ owner[t] \in P /\ owner[t] # active')]
    /\ timers' = timers

\* Cleanup of the panes P: stopped is set, intervals and the socket end.  Only the
\* last reconnect timer is known; it may have fired with older ones still set.
StopStreams(P) ==
    LET gone == {t \in Running : owner[t] \in P} IN
    /\ stopped' = [t \in Streams |-> stopped[t] \/ t \in gone]
    /\ \E cleared \in SUBSET {t \in gone : timers[t] > 0} :
          timers' = [t \in Streams |-> IF t \in cleared THEN timers[t] - 1 ELSE timers[t]]

SocketsLeft(P) ==
    [t \in Streams |-> IF t \in Running /\ owner[t] \in P
                       THEN CASE socket[t] = "opening" -> "aborted"
                              [] socket[t] = "open" -> "closed"
                              [] OTHER -> socket[t]
                       ELSE socket[t]]

\* connect: the first probe and the first tick request leave, or a socket opens.
Connect(p, s, P) ==
    LET t == used + 1 IN
    /\ t <= MaxConnects
    /\ used' = t
    /\ owner' = [owner EXCEPT ![t] = p]
    /\ feed' = [feed EXCEPT ![t] = s]
    /\ pulling' = [pulling EXCEPT ![t] = IF s \in Polled THEN "tick" ELSE "none"]
    /\ probes' = [probes EXCEPT ![t] = IF s \in Polled THEN 1 ELSE 0]
    /\ socket' = [SocketsLeft(P) EXCEPT ![t] = IF s \in Polled THEN "none" ELSE "opening"]

NoConnect(P) ==
    /\ socket' = SocketsLeft(P)
    /\ UNCHANGED <<ident, pulling, probes>>

\* setPaneSymbol or setPaneTimeframe: the effect of this pane runs again.
ShowSymbol(p, s) ==
    /\ shown' = [shown EXCEPT ![p] = s]
    /\ active' = active
    /\ StopStreams({p})
    /\ IF p = active
       THEN Connect(p, s, {p}) /\ status' = "connecting"
       ELSE NoConnect({p}) /\ status' = "disconnected"
    /\ UNCHANGED servers

\* What the effects of the pane that is left and of the new one make of the
\* status: "disconnected" and "connecting", in the order of the panes.
StatusAfterSwitch(p, q) ==
    IF shown[q] # NoSymbol /\ (shown[p] = NoSymbol \/ p < q) THEN "connecting"
    ELSE IF shown[p] # NoSymbol THEN "disconnected"
    ELSE status

ActivatePane(q) ==
    /\ q # active
    /\ active' = q
    /\ StopStreams({active})
    /\ IF shown[q] # NoSymbol THEN Connect(q, shown[q], {active}) ELSE NoConnect({active})
    /\ status' = StatusAfterSwitch(active, q)
    /\ UNCHANGED <<servers, shown>>

-----------------------------------------------------------------------------
(* The tick API transport.                                                 *)

PullTick(t) ==
    /\ t \in Running
    /\ IsPolled(t)
    /\ pulling[t] = "none"
    /\ pulling' = [pulling EXCEPT ![t] = "tick"]
    /\ UNCHANGED <<servers, view, ident, stopped, probes, timers, socket, status>>

\* The tick request is refused: the quote is asked for, without a look at stopped.
TickRefused(t) ==
    /\ pulling[t] = "tick"
    /\ pulling' = [pulling EXCEPT ![t] = "quote"]
    /\ UNCHANGED <<servers, view, ident, stopped, probes, timers, socket, status>>

\* Either request brings a price.
PullPriced(t) ==
    /\ pulling[t] # "none"
    /\ up
    /\ status' = "live"
    /\ pulling' = [pulling EXCEPT ![t] = "none"]
    /\ UNCHANGED <<servers, view, ident, stopped, probes, timers, socket>>

\* No price, an error or a timeout of the tick request; the same or a refusal of the
\* quote.
PullEmpty(t) ==
    /\ pulling[t] # "none"
    /\ pulling' = [pulling EXCEPT ![t] = "none"]
    /\ UNCHANGED <<servers, view, ident, stopped, probes, timers, socket, status>>

\* The health interval.
StartProbe(t) ==
    /\ t \in Running
    /\ IsPolled(t)
    /\ probes[t] < MaxProbes
    /\ probes' = [probes EXCEPT ![t] = @ + 1]
    /\ UNCHANGED <<servers, view, ident, stopped, pulling, timers, socket, status>>

ProbeStatus == IF up THEN "live" ELSE "disconnected"

\* The answer is written to the status even after cleanup; a failure of a running
\* transport sets one more timer, whether or not another is set.
ProbeReturns(t) ==
    /\ probes[t] > 0
    /\ probes' = [probes EXCEPT ![t] = @ - 1]
    /\ status' = ProbeStatus
    /\ IF up \/ stopped[t]
       THEN timers' = timers
       ELSE timers[t] < MaxTimers /\ timers' = [timers EXCEPT ![t] = @ + 1]
    /\ UNCHANGED <<servers, view, ident, stopped, pulling, socket>>

-----------------------------------------------------------------------------
(* The WebSocket transport.                                                *)

SocketOpens(t) ==
    /\ socket[t] = "opening"
    /\ up
    /\ socket' = [socket EXCEPT ![t] = "open"]
    /\ status' = "live"
    /\ UNCHANGED <<servers, view, ident, stopped, pulling, probes, timers>>

\* Mutant: onclose reports the loss and leaves the reconnect to the user.
SocketClosesMutant(t) ==
    /\ socket[t] \in {"opening", "open"}
    /\ ~up
    /\ socket' = [socket EXCEPT ![t] = "closed"]
    /\ status' = "disconnected"
    /\ UNCHANGED <<servers, view, ident, stopped, pulling, probes, timers>>

SocketCloses(t) ==
    /\ socket[t] \in {"opening", "open"}
    /\ ~up
    /\ socket' = [socket EXCEPT ![t] = "closed"]
    /\ status' = "disconnected"
    /\ timers' = [timers EXCEPT ![t] = @ + 1]
    /\ UNCHANGED <<servers, view, ident, stopped, pulling, probes>>

\* close() on a socket that was still opening ends in onerror, which does not look
\* at stopped.
SocketAborts(t) ==
    /\ socket[t] = "aborted"
    /\ socket' = [socket EXCEPT ![t] = "closed"]
    /\ status' = "disconnected"
    /\ UNCHANGED <<servers, view, ident, stopped, pulling, probes, timers>>

Trade(t) ==
    /\ socket[t] = "open"
    /\ up
    /\ status' = "live"
    /\ UNCHANGED <<servers, view, ident, stopped, transport>>

-----------------------------------------------------------------------------
\* Mutant: the timer does not ask whether the transport was stopped.
TimerFiresMutant(t) ==
    /\ timers[t] > 0
    /\ timers' = [timers EXCEPT ![t] = @ - 1]
    /\ IF IsPolled(t)
       THEN /\ probes[t] < MaxProbes
            /\ probes' = [probes EXCEPT ![t] = @ + 1]
            /\ UNCHANGED <<socket, status>>
       ELSE /\ socket' = [socket EXCEPT ![t] = "opening"]
            /\ status' = "connecting"
            /\ probes' = probes
    /\ UNCHANGED <<servers, view, ident, stopped, pulling>>

TimerFires(t) ==
    /\ timers[t] > 0
    /\ timers' = [timers EXCEPT ![t] = @ - 1]
    /\ IF stopped[t] THEN UNCHANGED <<probes, socket, status>>
       ELSE IF IsPolled(t)
       THEN /\ probes[t] < MaxProbes
            /\ probes' = [probes EXCEPT ![t] = @ + 1]
            /\ UNCHANGED <<socket, status>>
       ELSE /\ socket' = [socket EXCEPT ![t] = "opening"]
            /\ status' = "connecting"
            /\ probes' = probes
    /\ UNCHANGED <<servers, view, ident, stopped, pulling>>

-----------------------------------------------------------------------------
Outage ==
    /\ up
    /\ outages < MaxOutages
    /\ up' = FALSE
    /\ outages' = outages + 1
    /\ UNCHANGED <<view, ident, stopped, transport, status>>

Recovery ==
    /\ ~up
    /\ up' = TRUE
    /\ UNCHANGED <<outages, view, ident, stopped, transport, status>>

Next ==
    \/ \E p \in Panes, s \in Symbols : ShowSymbol(p, s)
    \/ \E q \in Panes : ActivatePane(q)
    \/ \E t \in Streams :
          \/ PullTick(t) \/ TickRefused(t) \/ PullPriced(t) \/ PullEmpty(t)
          \/ StartProbe(t) \/ ProbeReturns(t)
          \/ SocketOpens(t) \/ SocketCloses(t) \/ SocketAborts(t)
          \/ Trade(t)
          \/ TimerFires(t)
    \/ Outage
    \/ Recovery

Spec == Init /\ [][Next]_vars

\* Intervals and timers fire, requests end within their timeouts; a feed that answers has a
\* price again and again (strong fairness of PullPriced).  The bounds can hold a timer up
\* now and then, the code cannot: hence its strong fairness.  Nothing is assumed of the user, of outages or of the
\* download interval.
Fairness ==
    /\ \A t \in Streams :
          /\ WF_vars(PullTick(t)) /\ SF_vars(PullPriced(t)) /\ WF_vars(PullEmpty(t))
          /\ WF_vars(StartProbe(t)) /\ WF_vars(ProbeReturns(t))
          /\ WF_vars(SocketOpens(t)) /\ WF_vars(SocketCloses(t))
          /\ WF_vars(SocketAborts(t)) /\ WF_vars(Trade(t))
          /\ SF_vars(TimerFires(t))

FairSpec == Spec /\ Fairness

-----------------------------------------------------------------------------
(* Properties.                                                             *)

TypeOK ==
    /\ up \in BOOLEAN /\ outages \in Nat
    /\ active \in Panes /\ shown \in [Panes -> Symbols \cup {NoSymbol}]
    /\ used \in 0..MaxConnects
    /\ owner \in [Streams -> Panes] /\ feed \in [Streams -> Symbols \cup {NoSymbol}]
    /\ stopped \in [Streams -> BOOLEAN]
    /\ pulling \in [Streams -> {"none", "tick", "quote"}]
    /\ probes \in [Streams -> Nat] /\ timers \in [Streams -> Nat]
    /\ socket \in [Streams -> {"none", "opening", "open", "aborted", "closed"}]
    /\ status \in {"live", "connecting", "disconnected"}

\* At most one transport runs, and it feeds the symbol of the active pane.
OneStream ==
    /\ \A t \in Running : owner[t] = active /\ feed[t] = shown[active]
    /\ \A t, u \in Running : t = u

\* After its cleanup a transport winds down: it starts no health probe, tick request or
\* socket and sets no timer, whatever timers and requests are left.  It may still start
\* one request: the quote that follows a refused tick.
StoppedStaysQuiet ==
    [][\A t \in Streams :
          stopped[t] =>
             /\ probes'[t] <= probes[t]
             /\ timers'[t] <= timers[t]
             /\ pulling'[t] # pulling[t] =>
                   \/ pulling'[t] = "none"
                   \/ pulling[t] = "tick" /\ pulling'[t] = "quote"
             /\ socket'[t] # socket[t] => socket'[t] = "closed"]_vars

UserActs == (\E p \in Panes, s \in Symbols : ShowSymbol(p, s))
            \/ (\E q \in Panes : ActivatePane(q))

\* The servers stay up and the panes are left as they are.
Calm == <>[]up /\ <>[][~UserActs]_vars

\* When all is calm the status ends at "live" while a symbol is on the active pane,
\* whatever late callbacks and idle panes wrote into it, and the retries that failing
\* probes have piled up come to an end.
CalmSettles ==
    Calm => <>[](/\ shown[active] # NoSymbol => status = "live"
                 /\ \A t \in Streams : timers[t] = 0)
=============================================================================
