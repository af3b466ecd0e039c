--------------------------- MODULE TerminalProofs ---------------------------
(***************************************************************************)
(* Theorems about the terminal and the server that feeds it: first the     *)
(* live stream, for any number of panes and any set of symbols and feeds;  *)
(* then the desk, for any layouts and watchlists; last the demonstration   *)
(* server, for any candles, keys and clients.                              *)
(***************************************************************************)
EXTENDS LiveStream, Desk, DemoServer, FiniteSums, SequenceTheorems

-----------------------------------------------------------------------------
(* The inductive invariant: OneStream needs nothing else, but a stopped    *)
(* transport is quiet only because it is an old one whose socket was left. *)

StoppedIsLeft ==
    \A t \in Streams : stopped[t] => t <= used /\ socket[t] \notin {"opening", "open"}

IInv == TypeOK /\ OneStream /\ StoppedIsLeft

\* The invariant holds before the first transport.
LEMMA InitIInv == Init => IInv
  BY PanesAssumption, PolledAssumption, SymbolsAssumption, BoundsAssumption
  DEF Init, IInv, TypeOK, OneStream, StoppedIsLeft, Running, Panes, Streams

-----------------------------------------------------------------------------
(* Steps that leave the identity of the transports and the view alone.     *)

\* A step that connects and stops nothing.
LEMMA QuietStep ==
    ASSUME IInv, UNCHANGED <<view, ident, stopped>>,
           \A t \in Streams : stopped[t] => socket'[t] \notin {"opening", "open"}
    PROVE  OneStream' /\ StoppedIsLeft'
  BY DEF IInv, OneStream, StoppedIsLeft, Running, view, ident

\* What StopStreams and SocketsLeft do together to the transports of the panes P.
LEMMA StopFacts ==
    ASSUME IInv, NEW P, StopStreams(P)
    PROVE  /\ stopped' = [t \in Streams |-> stopped[t] \/ (t \in Running /\ owner[t] \in P)]
           /\ stopped' \in [Streams -> BOOLEAN]
           /\ timers' \in [Streams -> Nat]
           /\ SocketsLeft(P) \in
                [Streams -> {"none", "opening", "open", "aborted", "closed"}]
           /\ \A t \in Streams :
                 /\ stopped[t] => SocketsLeft(P)[t] = socket[t]
                 /\ stopped'[t] => SocketsLeft(P)[t] \notin {"opening", "open"}
                 /\ stopped'[t] => t \in 1..used
<1> DEFINE gone == {t \in Running : owner[t] \in P}
<1>1. stopped' = [t \in Streams |-> stopped[t] \/ (t \in Running /\ owner[t] \in P)]
  BY DEF StopStreams
<1>2. stopped' \in [Streams -> BOOLEAN]
  BY <1>1
<1>3. timers' \in [Streams -> Nat]
  <2>1. PICK cleared \in SUBSET {t \in gone : timers[t] > 0} :
           timers' = [t \in Streams |-> IF t \in cleared THEN timers[t] - 1 ELSE timers[t]]
    BY DEF StopStreams
  <2>2. ASSUME NEW t \in Streams
        PROVE  (IF t \in cleared THEN timers[t] - 1 ELSE timers[t]) \in Nat
    <3>1. timers[t] \in Nat
      BY DEF IInv, TypeOK
    <3>2. t \in cleared => timers[t] > 0
      OBVIOUS
    <3> QED  BY <3>1, <3>2
  <2> QED  BY <2>1, <2>2
<1>4. SocketsLeft(P) \in [Streams -> {"none", "opening", "open", "aborted", "closed"}]
  BY DEF SocketsLeft, IInv, TypeOK
<1>5. ASSUME NEW t \in Streams
      PROVE  /\ stopped[t] => SocketsLeft(P)[t] = socket[t]
             /\ stopped'[t] => SocketsLeft(P)[t] \notin {"opening", "open"}
             /\ stopped'[t] => t \in 1..used
  <2>1. stopped[t] => SocketsLeft(P)[t] = socket[t]
    BY DEF SocketsLeft, Running
  <2>2. stopped'[t] => stopped[t] \/ (t \in Running /\ owner[t] \in P)
    BY <1>1
  <2>3. t \in Running /\ owner[t] \in P => SocketsLeft(P)[t] \notin {"opening", "open"}
    BY DEF SocketsLeft
  <2>4. stopped[t] => t \in 1..used
    BY BoundsAssumption DEF IInv, StoppedIsLeft, TypeOK, Streams
  <2> QED  BY <2>1, <2>2, <2>3, <2>4 DEF IInv, StoppedIsLeft, Running
<1> QED  BY <1>1, <1>2, <1>3, <1>4, <1>5

\* The variables Connect writes keep their types.
LEMMA ConnectTypes ==
    ASSUME IInv, NEW p \in Panes, NEW s \in Symbols, NEW P,
           StopStreams(P), Connect(p, s, P)
    PROVE  /\ used' \in 0..MaxConnects /\ used' = used + 1
           /\ owner' \in [Streams -> Panes] /\ feed' \in [Streams -> Symbols \cup {NoSymbol}]
           /\ pulling' \in [Streams -> {"none", "tick", "quote"}]
           /\ probes' \in [Streams -> Nat]
           /\ socket' \in [Streams -> {"none", "opening", "open", "aborted", "closed"}]
<1>1. used \in 0..MaxConnects /\ used + 1 <= MaxConnects /\ used' = used + 1
  BY DEF Connect, IInv, TypeOK
<1>2. used' \in 0..MaxConnects
  BY <1>1, BoundsAssumption
<1>3. owner' \in [Streams -> Panes] /\ feed' \in [Streams -> Symbols \cup {NoSymbol}]
  BY DEF Connect, IInv, TypeOK
<1>4. pulling' \in [Streams -> {"none", "tick", "quote"}]
  BY DEF Connect, IInv, TypeOK
<1>5. probes' \in [Streams -> Nat]
  BY DEF Connect, IInv, TypeOK
<1>6. socket' \in [Streams -> {"none", "opening", "open", "aborted", "closed"}]
  BY StopFacts DEF Connect
<1> QED  BY <1>1, <1>2, <1>3, <1>4, <1>5, <1>6

\* When all running transports are stopped and one is connected for the active
\* pane, that one is alone.
LEMMA ConnectIsAlone ==
    ASSUME IInv, NEW s \in Symbols, StopStreams({active}), NEW p \in Panes,
           active' = p, shown'[p] = s, Connect(p, s, {active})
    PROVE  OneStream' /\ StoppedIsLeft'
<1>1. used \in Nat /\ MaxConnects \in Nat /\ used' = used + 1 /\ used + 1 \in Streams
  BY BoundsAssumption DEF Connect, IInv, TypeOK, Streams
<1>2. ASSUME NEW t \in 1..used PROVE stopped'[t] /\ t \in Streams
  <2>1. t \in Streams
    BY <1>1, BoundsAssumption DEF Connect, Streams
  <2>2. ~stopped[t] => t \in Running /\ owner[t] = active
    BY DEF Running, IInv, OneStream
  <2>3. stopped'[t] = (stopped[t] \/ (t \in Running /\ owner[t] \in {active}))
    BY <2>1, StopFacts
  <2> QED  BY <2>1, <2>2, <2>3
<1>3. \A t \in Streams : stopped'[t] => t \in 1..used
  BY StopFacts
<1>4. Running' \subseteq {used + 1}
  BY <1>1, <1>2 DEF Running
<1>5. owner'[used + 1] = p /\ feed'[used + 1] = s
  BY <1>1 DEF Connect, IInv, TypeOK
<1>6. OneStream'
  BY <1>4, <1>5 DEF OneStream
<1>7. ASSUME NEW t \in Streams, stopped'[t]
      PROVE  t <= used' /\ socket'[t] \notin {"opening", "open"}
  <2>1. t \in 1..used
    BY <1>3, <1>7
  <2>2. socket'[t] = SocketsLeft({active})[t]
    BY <1>1, <2>1 DEF Connect, SocketsLeft
  <2> QED  BY <1>1, <1>7, <2>1, <2>2, StopFacts
<1>8. StoppedIsLeft'
  BY <1>7 DEF StoppedIsLeft
<1> QED  BY <1>6, <1>8

\* When the transports of P are stopped and none is connected, those of the others
\* are left as they were.
LEMMA NoConnectFacts ==
    ASSUME IInv, NEW P, StopStreams(P), NoConnect(P)
    PROVE  /\ Running' = {t \in Running : owner[t] \notin P}
           /\ StoppedIsLeft'
           /\ socket' \in [Streams -> {"none", "opening", "open", "aborted", "closed"}]
<1>1. UNCHANGED <<used, owner, feed>> /\ socket' = SocketsLeft(P)
  BY DEF NoConnect, ident
<1>2. \A t \in 1..used : t \in Streams
  BY BoundsAssumption DEF IInv, TypeOK, Streams
<1>3. \A t \in Streams :
         stopped'[t] = (stopped[t] \/ (t \in Running /\ owner[t] \in P))
  BY StopFacts
<1>4. Running' = {t \in Running : owner[t] \notin P}
  BY <1>1, <1>2, <1>3 DEF Running
<1>5. StoppedIsLeft'
  BY <1>1, StopFacts, BoundsAssumption DEF StoppedIsLeft, IInv, TypeOK
<1> QED  BY <1>1, <1>4, <1>5, StopFacts

-----------------------------------------------------------------------------
(* The actions of the user.                                                *)

\* A pane shows another symbol: cleanup, then connect.
LEMMA ShowSymbolStep ==
    ASSUME IInv, NEW p \in Panes, NEW s \in Symbols, ShowSymbol(p, s)
    PROVE  IInv'
<1>1. StopStreams({p}) /\ active' = active /\ shown' = [shown EXCEPT ![p] = s]
  BY DEF ShowSymbol
<1>2. active' \in Panes /\ shown' \in [Panes -> Symbols \cup {NoSymbol}]
  BY <1>1 DEF IInv, TypeOK
<1>3. UNCHANGED <<up, outages>>
  BY DEF ShowSymbol, servers
<1>4. CASE p = active
  <2>1. Connect(p, s, {p}) /\ status' = "connecting"
    BY <1>4 DEF ShowSymbol
  <2>2. shown'[p] = s
    BY <1>1 DEF IInv, TypeOK
  <2>3. OneStream' /\ StoppedIsLeft'
    BY <1>1, <1>4, <2>1, <2>2, ConnectIsAlone
  <2>4. TypeOK'
    BY <1>1, <1>2, <1>3, <2>1, StopFacts, ConnectTypes DEF IInv, TypeOK
  <2> QED  BY <2>3, <2>4 DEF IInv
<1>5. CASE p # active
  <2>1. NoConnect({p}) /\ status' = "disconnected"
    BY <1>5 DEF ShowSymbol
  <2>2. UNCHANGED <<used, owner, feed, pulling, probes>>
    BY <2>1 DEF NoConnect, ident
  <2>3. Running' \subseteq Running
    BY <1>1, <2>1, NoConnectFacts
  <2>4. shown'[active] = shown[active]
    BY <1>1, <1>5 DEF IInv, TypeOK
  <2>5. OneStream'
    BY <1>1, <2>2, <2>3, <2>4 DEF IInv, OneStream
  <2>6. TypeOK'
    BY <1>1, <1>2, <1>3, <2>1, <2>2, StopFacts, NoConnectFacts DEF IInv, TypeOK
  <2> QED  BY <1>1, <2>1, <2>5, <2>6, NoConnectFacts DEF IInv
<1> QED  BY <1>4, <1>5

\* Another pane becomes active: cleanups, then effects.
LEMMA ActivatePaneStep ==
    ASSUME IInv, NEW q \in Panes, ActivatePane(q)
    PROVE  IInv'
<1>1. StopStreams({active}) /\ active' = q /\ shown' = shown
  BY DEF ActivatePane
<1>2. UNCHANGED <<up, outages>>
  BY DEF ActivatePane, servers
<1>3. status' \in {"live", "connecting", "disconnected"}
  BY DEF ActivatePane, StatusAfterSwitch, IInv, TypeOK
<1>4. CASE shown[q] # NoSymbol
  <2>1. shown[q] \in Symbols
    BY <1>4 DEF IInv, TypeOK
  <2>2. Connect(q, shown[q], {active})
    BY <1>4 DEF ActivatePane
  <2>3. OneStream' /\ StoppedIsLeft'
    BY <1>1, <2>1, <2>2, ConnectIsAlone
  <2>4. TypeOK'
    BY <1>1, <1>2, <1>3, <2>1, <2>2, StopFacts, ConnectTypes DEF IInv, TypeOK
  <2> QED  BY <2>3, <2>4 DEF IInv
<1>5. CASE shown[q] = NoSymbol
  <2>1. NoConnect({active})
    BY <1>5 DEF ActivatePane
  <2>2. UNCHANGED <<used, owner, feed, pulling, probes>>
    BY <2>1 DEF NoConnect, ident
  <2>3. Running' = {}
    BY <1>1, <2>1, NoConnectFacts DEF IInv, OneStream
  <2>4. OneStream'
    BY <2>3 DEF OneStream
  <2>5. TypeOK'
    BY <1>1, <1>2, <1>3, <2>1, <2>2, StopFacts, NoConnectFacts DEF IInv, TypeOK
  <2> QED  BY <1>1, <2>1, <2>4, <2>5, NoConnectFacts DEF IInv
<1> QED  BY <1>4, <1>5

-----------------------------------------------------------------------------
(* The other actions: each keeps the types and opens no stopped socket.    *)

\* Counters that go up or down by one stay natural.
LEMMA Counters ==
    ASSUME NEW f \in [Streams -> Nat], NEW t \in Streams
    PROVE  /\ [f EXCEPT ![t] = @ + 1] \in [Streams -> Nat]
           /\ f[t] > 0 => [f EXCEPT ![t] = @ - 1] \in [Streams -> Nat]
  OBVIOUS

\* Polls, probes and their answers.
LEMMA FeedStep ==
    ASSUME IInv, NEW t \in Streams,
           \/ PullTick(t) \/ TickRefused(t) \/ PullPriced(t) \/ PullEmpty(t)
           \/ StartProbe(t) \/ ProbeReturns(t)
    PROVE  IInv'
<1> USE DEF servers, view, ident, transport
<1>1. TypeOK'
  <2>1. CASE PullTick(t)  BY <2>1 DEF PullTick, IInv, TypeOK
  <2>2. CASE PullPriced(t)  BY <2>2 DEF PullPriced, IInv, TypeOK
  <2>3. CASE PullEmpty(t)  BY <2>3 DEF PullEmpty, IInv, TypeOK
  <2>4. CASE StartProbe(t)
    <3>1. probes' \in [Streams -> Nat]
      BY <2>4, Counters DEF StartProbe, IInv, TypeOK
    <3> QED  BY <2>4, <3>1 DEF StartProbe, IInv, TypeOK
  <2>6. CASE TickRefused(t)  BY <2>6 DEF TickRefused, IInv, TypeOK
  <2>5. CASE ProbeReturns(t)
    <3>1. probes' \in [Streams -> Nat] /\ timers' \in [Streams -> Nat]
      BY <2>5, Counters DEF ProbeReturns, IInv, TypeOK
    <3> QED  BY <2>5, <3>1 DEF ProbeReturns, ProbeStatus, IInv, TypeOK
  <2> QED  BY <2>1, <2>2, <2>3, <2>4, <2>5, <2>6
<1>2. UNCHANGED <<view, ident, stopped, socket>>
  BY DEF PullTick, TickRefused, PullPriced, PullEmpty, StartProbe, ProbeReturns
<1>3. \A u \in Streams : stopped[u] => socket'[u] \notin {"opening", "open"}
  BY <1>2 DEF IInv, StoppedIsLeft
<1>4. OneStream' /\ StoppedIsLeft'
  BY <1>2, <1>3, QuietStep
<1> QED  BY <1>1, <1>4 DEF IInv

\* Events of a socket and its timers.
LEMMA SocketStep ==
    ASSUME IInv, NEW t \in Streams,
           \/ SocketOpens(t) \/ SocketCloses(t) \/ SocketAborts(t)
           \/ Trade(t) \/ TimerFires(t)
    PROVE  IInv'
<1> USE DEF servers, view, ident, transport
<1>1. TypeOK'
  <2>1. CASE SocketOpens(t)  BY <2>1 DEF SocketOpens, IInv, TypeOK
  <2>2. CASE SocketCloses(t)
    <3>1. timers' \in [Streams -> Nat]
      BY <2>2, Counters DEF SocketCloses, IInv, TypeOK
    <3> QED  BY <2>2, <3>1 DEF SocketCloses, IInv, TypeOK
  <2>3. CASE SocketAborts(t)  BY <2>3 DEF SocketAborts, IInv, TypeOK
  <2>4. CASE Trade(t)  BY <2>4 DEF Trade, IInv, TypeOK
  <2>5. CASE TimerFires(t)
    <3>1. timers' \in [Streams -> Nat] /\ probes' \in [Streams -> Nat]
      BY <2>5, Counters DEF TimerFires, IInv, TypeOK
    <3>2. /\ socket' \in [Streams -> {"none", "opening", "open", "aborted", "closed"}]
          /\ status' \in {"live", "connecting", "disconnected"}
      BY <2>5 DEF TimerFires, IInv, TypeOK
    <3> QED  BY <2>5, <3>1, <3>2 DEF TimerFires, IInv, TypeOK
  <2> QED  BY <2>1, <2>2, <2>3, <2>4, <2>5
<1>2. UNCHANGED <<view, ident, stopped>>
  BY DEF SocketOpens, SocketCloses, SocketAborts, Trade, TimerFires
<1>3. ASSUME NEW u \in Streams, stopped[u]
      PROVE  socket'[u] \notin {"opening", "open"}
  <2>1. socket[u] \notin {"opening", "open"}
    BY <1>3 DEF IInv, StoppedIsLeft
  <2>2. CASE SocketOpens(t)  BY <1>3, <2>1, <2>2 DEF SocketOpens, IInv, TypeOK
  <2>3. CASE SocketCloses(t)  BY <2>1, <2>3 DEF SocketCloses, IInv, TypeOK
  <2>4. CASE SocketAborts(t)  BY <2>1, <2>4 DEF SocketAborts, IInv, TypeOK
  <2>5. CASE Trade(t)  BY <2>1, <2>5 DEF Trade
  <2>6. CASE TimerFires(t)  BY <1>3, <2>1, <2>6 DEF TimerFires, IInv, TypeOK
  <2> QED  BY <2>2, <2>3, <2>4, <2>5, <2>6
<1>4. OneStream' /\ StoppedIsLeft'
  BY <1>2, <1>3, QuietStep
<1> QED  BY <1>1, <1>4 DEF IInv

\* The servers fail or recover.
LEMMA ServerStep ==
    ASSUME IInv, Outage \/ Recovery
    PROVE  IInv'
<1> USE DEF servers, view, ident, transport
<1>1. UNCHANGED <<view, ident, stopped, socket>>
  BY DEF Outage, Recovery
<1>2. TypeOK'
  <2>1. CASE Outage
    <3>1. outages' \in Nat
      BY <2>1 DEF Outage, IInv, TypeOK
    <3>2. up' \in BOOLEAN
      BY <2>1 DEF Outage
    <3> QED  BY <2>1, <3>1, <3>2 DEF Outage, IInv, TypeOK
  <2>2. CASE Recovery  BY <2>2 DEF Recovery, IInv, TypeOK
  <2> QED  BY <2>1, <2>2
<1>3. \A u \in Streams : stopped[u] => socket'[u] \notin {"opening", "open"}
  BY <1>1 DEF IInv, StoppedIsLeft
<1>4. OneStream' /\ StoppedIsLeft'
  BY <1>1, <1>3, QuietStep
<1> QED  BY <1>2, <1>4 DEF IInv

-----------------------------------------------------------------------------
(* The invariants.                                                         *)

\* Every step keeps the invariant.
LEMMA StepIInv == IInv /\ [Next]_vars => IInv'
<1> SUFFICES ASSUME IInv, [Next]_vars PROVE IInv'
  OBVIOUS
<1>1. CASE UNCHANGED vars
  BY <1>1 DEF vars, servers, view, ident, transport, IInv, TypeOK, OneStream,
     StoppedIsLeft, Running
<1>2. CASE Next
  BY <1>2, ShowSymbolStep, ActivatePaneStep, FeedStep, SocketStep, ServerStep DEF Next
<1> QED  BY <1>1, <1>2

\* The invariant holds in every reachable state.
LEMMA Inductive == Spec => []IInv
<1> QED  BY InitIInv, StepIInv, PTL DEF Spec

\* Every reachable state is well typed: in particular no counter of probes or
\* timers is ever taken below zero by a late callback.
THEOREM TypeCorrect == Spec => []TypeOK
<1>1. IInv => TypeOK
  BY DEF IInv
<1> QED  BY Inductive, <1>1, PTL

\* However panes and symbols are switched, at most one transport runs, and it is
\* the one of the active pane's symbol.
THEOREM OnlyOneStream == Spec => []OneStream
<1>1. IInv => OneStream
  BY DEF IInv
<1> QED  BY Inductive, <1>1, PTL

-----------------------------------------------------------------------------
(* What a stopped transport may still do.                                  *)

\* A step that starts nothing for a stopped transport.
LEMMA QuietStepOfStopped ==
    ASSUME IInv, [Next]_vars, NEW t \in Streams, stopped[t]
    PROVE  /\ probes'[t] <= probes[t]
           /\ timers'[t] <= timers[t]
           /\ pulling'[t] # pulling[t] =>
                 \/ pulling'[t] = "none"
                 \/ pulling[t] = "tick" /\ pulling'[t] = "quote"
           /\ socket'[t] # socket[t] => socket'[t] = "closed"
<1> DEFINE Quiet == /\ probes'[t] <= probes[t]
                    /\ timers'[t] <= timers[t]
                    /\ pulling'[t] # pulling[t] =>
                          \/ pulling'[t] = "none"
                          \/ pulling[t] = "tick" /\ pulling'[t] = "quote"
                    /\ socket'[t] # socket[t] => socket'[t] = "closed"
<1> SUFFICES Quiet
  OBVIOUS
<1> USE DEF transport
<1>1. probes[t] \in Nat /\ timers[t] \in Nat
  BY DEF IInv, TypeOK
<1>2. socket[t] \notin {"opening", "open"} /\ t <= used /\ t \notin Running
  BY DEF IInv, StoppedIsLeft, Running
<1>3. t # used + 1
  BY <1>2 DEF IInv, TypeOK
<1>4. CASE UNCHANGED vars  BY <1>1, <1>4 DEF vars
\* Effects touch the old transport's socket only if it still ran.
<1>5. ASSUME NEW P, NEW p \in Panes, NEW s \in Symbols, Connect(p, s, P),
             StopStreams(P)
      PROVE Quiet
  <2>1. probes'[t] = probes[t] /\ pulling'[t] = pulling[t]
    BY <1>3, <1>5 DEF Connect, IInv, TypeOK
  <2>2. socket'[t] = socket[t]
    BY <1>2, <1>3, <1>5 DEF Connect, SocketsLeft
  <2>3. timers'[t] = timers[t]
    BY <1>2, <1>5 DEF StopStreams
  <2> QED  BY <1>1, <1>5, <2>1, <2>2, <2>3
<1>6. ASSUME NEW P, NoConnect(P), StopStreams(P) PROVE Quiet
  <2>1. probes' = probes /\ pulling' = pulling
    BY <1>6 DEF NoConnect
  <2>2. socket'[t] = socket[t]
    BY <1>6, StopFacts DEF NoConnect
  <2>3. timers'[t] = timers[t]
    BY <1>2, <1>6 DEF StopStreams
  <2> QED  BY <1>1, <1>6, <2>1, <2>2, <2>3
<1> HIDE DEF Quiet
<1>7. ASSUME NEW p \in Panes, NEW s \in Symbols, ShowSymbol(p, s) PROVE Quiet
  <2>1. StopStreams({p}) /\ (Connect(p, s, {p}) \/ NoConnect({p}))
    BY <1>7 DEF ShowSymbol
  <2> QED  BY <1>5, <1>6, <2>1
<1>8. ASSUME NEW q \in Panes, ActivatePane(q) PROVE Quiet
  <2>1. shown[q] \in Symbols \/ shown[q] = NoSymbol
    BY DEF IInv, TypeOK
  <2>2. StopStreams({active})
    BY <1>8 DEF ActivatePane
  <2>3. (shown[q] \in Symbols /\ Connect(q, shown[q], {active})) \/ NoConnect({active})
    BY <1>8, <2>1 DEF ActivatePane
  <2> QED  BY <1>5, <1>6, <2>2, <2>3
<1> USE DEF Quiet
<1>9. ASSUME NEW u \in Streams,
             \/ PullTick(u) \/ TickRefused(u) \/ PullPriced(u) \/ PullEmpty(u)
             \/ StartProbe(u) \/ ProbeReturns(u)
      PROVE Quiet
  <2>1. CASE PullTick(u)  BY <1>1, <1>2, <2>1 DEF PullTick, IInv, TypeOK
  <2>2. CASE PullPriced(u)  BY <1>1, <2>2 DEF PullPriced, IInv, TypeOK
  <2>3. CASE PullEmpty(u)  BY <1>1, <2>3 DEF PullEmpty, IInv, TypeOK
  <2>6. CASE TickRefused(u)  BY <1>1, <2>6 DEF TickRefused, IInv, TypeOK
  <2>4. CASE StartProbe(u)  BY <1>1, <1>2, <2>4 DEF StartProbe, IInv, TypeOK
  <2>5. CASE ProbeReturns(u)  BY <1>1, <2>5 DEF ProbeReturns, IInv, TypeOK
  <2> QED  BY <1>9, <2>1, <2>2, <2>3, <2>4, <2>5, <2>6
<1>10. ASSUME NEW u \in Streams,
              \/ SocketOpens(u) \/ SocketCloses(u) \/ SocketAborts(u)
              \/ Trade(u) \/ TimerFires(u)
       PROVE Quiet
  <2>1. CASE SocketOpens(u)  BY <1>1, <1>2, <2>1 DEF SocketOpens, IInv, TypeOK
  <2>2. CASE SocketCloses(u)  BY <1>1, <1>2, <2>2 DEF SocketCloses, IInv, TypeOK
  <2>3. CASE SocketAborts(u)  BY <1>1, <1>2, <2>3 DEF SocketAborts, IInv, TypeOK
  <2>4. CASE Trade(u)  BY <1>1, <2>4 DEF Trade
  <2>5. CASE TimerFires(u) /\ u = t
    BY <1>1, <2>5 DEF TimerFires
  <2>6. CASE TimerFires(u) /\ u # t
    BY <1>1, <2>6 DEF TimerFires, IInv, TypeOK
  <2> QED  BY <1>10, <2>1, <2>2, <2>3, <2>4, <2>5, <2>6
<1>11. CASE Outage \/ Recovery
  BY <1>1, <1>11 DEF Outage, Recovery
<1> HIDE DEF Quiet
<1>12. CASE \E u \in Streams :
               \/ PullTick(u) \/ TickRefused(u) \/ PullPriced(u) \/ PullEmpty(u)
               \/ StartProbe(u) \/ ProbeReturns(u)
               \/ SocketOpens(u) \/ SocketCloses(u) \/ SocketAborts(u)
               \/ Trade(u)
               \/ TimerFires(u)
  BY <1>9, <1>10, <1>12
<1>13. CASE \/ \E p \in Panes, s \in Symbols : ShowSymbol(p, s)
            \/ \E q \in Panes : ActivatePane(q)
  BY <1>7, <1>8, <1>13
<1>14. CASE Next
  BY <1>11, <1>12, <1>13, <1>14 DEF Next
<1> QED  BY <1>4, <1>14

\* A transport that was stopped starts no probe, tick request or socket and sets no timer
\* at any later time: timers that outlive the cleanup find it stopped.  Only the quote
\* that follows a refused tick still leaves.
THEOREM StoppedIsQuiet == Spec => StoppedStaysQuiet
<1> DEFINE A == \A t \in Streams :
                  stopped[t] => /\ probes'[t] <= probes[t]
                                /\ timers'[t] <= timers[t]
                                /\ pulling'[t] # pulling[t] =>
                                      \/ pulling'[t] = "none"
                                      \/ pulling[t] = "tick" /\ pulling'[t] = "quote"
                                /\ socket'[t] # socket[t] => socket'[t] = "closed"
<1>1. IInv /\ [Next]_vars => [A]_vars
  BY QuietStepOfStopped
<1>2. Spec => [][A]_vars
  <2> HIDE DEF A
  <2> QED  BY Inductive, <1>1, PTL DEF Spec
<1> QED  BY <1>2 DEF StoppedStaysQuiet

-----------------------------------------------------------------------------
(* The desk.  Its lists need no strengthening: ListsAgree is inductive.    *)

\* Whatever a handler did to the books, after the effect of the watchlist panels the
\* lists agree, if the catalog already held all that was listed.
LEMMA SettledKeeps ==
    ASSUME NEW bs, NEW b \in DOMAIN bs, NEW cat, NEW k, NEW m,
           \A x \in DOMAIN bs : bs[x] \subseteq cat,
           favorites' \subseteq cat,
           Settled(bs, b, cat, k, m)
    PROVE  ListsAgree'
<1> DEFINE seeds == {w \in m \ seeded : bs[Mine] = {} /\ k # {}}
           filled == IF seeds = {} THEN bs ELSE [bs EXCEPT ![b] = @ \cup k]
           stocked == IF seeds = {} THEN cat ELSE cat \cup k
<1>1. open' = b /\ books' = filled /\ catalog' = stocked /\ flat' = filled[b] \cap stocked
  BY DEF Settled, SyncFlat, WithSymbol
<1>2. DOMAIN filled = DOMAIN bs /\ \A x \in DOMAIN bs : filled[x] \subseteq stocked
  OBVIOUS
<1>3. favorites' \subseteq stocked
  OBVIOUS
<1> HIDE DEF filled, stocked
<1> QED  BY <1>1, <1>2, <1>3 DEF ListsAgree

\* The books are only settled, with a catalog that has not shrunk.
LEMMA SameBooksKeeps ==
    ASSUME ListsAgree, NEW cat, catalog \subseteq cat, favorites' \subseteq cat,
           SameBooks(cat)
    PROVE  ListsAgree'
<1>1. open \in DOMAIN books /\ \A x \in DOMAIN books : books[x] \subseteq cat
  BY DEF ListsAgree
<1>2. Settled(books, open, cat, known', Mounted(page', panel', mobile'))
  BY DEF SameBooks
<1> QED  BY <1>1, <1>2, SettledKeeps

\* Choosing a symbol, whatever happens to the panels.
LEMMA SelectKeeps ==
    ASSUME ListsAgree, NEW s, NEW p, Select(s, p)
    PROVE  ListsAgree'
<1>1. favorites' = favorites /\ SameBooks(catalog \cup {s})
  BY DEF Select
<1> QED  BY <1>1, SameBooksKeeps DEF ListsAgree

\* Opening, closing or resizing panels.
LEMMA PanelsKeep ==
    ASSUME ListsAgree, NEW p, NEW m, SetPanels(p, m)
    PROVE  ListsAgree'
<1>1. favorites' = favorites /\ SameBooks(catalog)
  BY DEF SetPanels
<1> QED  BY <1>1, SameBooksKeeps DEF ListsAgree

\* The three handlers that change the books themselves.
LEMMA BooksKeep ==
    ASSUME ListsAgree, SetActiveWatchlist \/ CreateWatchlist \/ RemoveWatch
    PROVE  ListsAgree'
<1>1. favorites \subseteq catalog /\ open \in DOMAIN books
      /\ \A x \in DOMAIN books : books[x] \subseteq catalog
  BY DEF ListsAgree
<1>2. CASE SetActiveWatchlist
  BY <1>1, <1>2, SettledKeeps DEF SetActiveWatchlist
<1>3. CASE CreateWatchlist
  <2>1. PICK b \in Books \ DOMAIN books :
           /\ favorites' = favorites
           /\ Settled(Started(b), b, catalog, known, Mounted(page, panel, mobile))
    BY <1>3 DEF CreateWatchlist
  <2>2. b \in DOMAIN Started(b)
        /\ \A x \in DOMAIN Started(b) : Started(b)[x] \subseteq catalog
    BY <1>1 DEF Started
  <2> QED  BY <1>1, <2>1, <2>2, SettledKeeps
<1>4. CASE RemoveWatch
  <2>1. PICK s : /\ favorites' = favorites
                 /\ Settled([books EXCEPT ![open] = @ \ {s}], open, catalog, known,
                              Mounted(page, panel, mobile))
    BY <1>4 DEF RemoveWatch
  <2> DEFINE bs == [books EXCEPT ![open] = @ \ {s}]
  <2>2. open \in DOMAIN bs /\ \A x \in DOMAIN bs : bs[x] \subseteq catalog
    BY <1>1
  <2> HIDE DEF bs
  <2>3. Settled(bs, open, catalog, known, Mounted(page, panel, mobile))
    BY <2>1 DEF bs
  <2> QED  BY <1>1, <2>1, <2>2, <2>3, SettledKeeps
<1> QED  BY <1>2, <1>3, <1>4

\* Every step keeps the lists in agreement.
LEMMA StepLists == ListsAgree /\ [DeskNext]_deskVars => ListsAgree'
<1> SUFFICES ASSUME ListsAgree, [DeskNext]_deskVars PROVE ListsAgree'
  OBVIOUS
<1> DEFINE Untouched == UNCHANGED <<books, open, flat, catalog, favorites>>
           Same(cat) == catalog \subseteq cat /\ favorites' \subseteq cat /\ SameBooks(cat)
<1>1. favorites \subseteq catalog
  BY DEF ListsAgree
<1>2. Untouched => ListsAgree'
  BY DEF ListsAgree
<1>3. ASSUME NEW cat, Same(cat) PROVE ListsAgree'
  BY <1>3, SameBooksKeeps
<1>4. CASE Choose
  BY <1>4, SelectKeeps DEF Choose, PickRow, PickMarket, PickChip, SearchPick
<1>5. CASE ToggleFavorite
  <2>1. PICK s : Same(catalog \cup {s})
    BY <1>1, <1>5 DEF ToggleFavorite
  <2> QED  BY <1>3, <2>1
<1>6. CASE OpenChart \/ LeaveTerminal
  <2>1. Same(catalog)
    BY <1>1, <1>6 DEF OpenChart, LeaveTerminal
  <2> QED  BY <1>3, <2>1
<1>7. CASE PickLayout \/ SetActivePane \/ SetPaneTimeframe \/ Reload
  <2>1. Untouched
    BY <1>7 DEF PickLayout, SetActivePane, SetPaneTimeframe, Reload, lists
  <2> QED  BY <1>2, <2>1
<1>8. CASE \/ RailButton \/ HeaderButton \/ RightButton \/ BottomButton
           \/ SheetButton \/ FloatingAiButton
           \/ ToggleAnalysisMode \/ ToggleSearch \/ ResizeWindow
  <2>1. \E p, m : SetPanels(p, m)
    BY <1>8 DEF RailButton, HeaderButton, RightButton, BottomButton, SheetButton,
       FloatingAiButton, ToggleAnalysisMode, ToggleSearch, ResizeWindow
  <2> QED  BY <2>1, PanelsKeep
<1>9. CASE SetActiveWatchlist \/ CreateWatchlist \/ RemoveWatch
  BY <1>9, BooksKeep
<1>10. CASE (\E s \in Universe : UniverseAnswer(s)) \/ HomeRedirect \/ RedirectMissing
  <2>1. Same(catalog)
    BY <1>1, <1>10 DEF UniverseAnswer, HomeRedirect, RedirectMissing
  <2> QED  BY <1>3, <2>1
<1>11. CASE UNCHANGED deskVars
  BY <1>2, <1>11 DEF deskVars, lists
<1> QED
  BY <1>4, <1>5, <1>6, <1>7, <1>8, <1>9, <1>10, <1>11 DEF DeskNext, UserClicks

\* What the panels list is the open book in every reachable state.
THEOREM ListsStayEqual == DeskSpec => []ListsAgree
<1>1. DeskInit => ListsAgree
  <2> SUFFICES ASSUME DeskInit PROVE ListsAgree
    OBVIOUS
  <2>1. /\ open = Mine /\ favorites = {} /\ flat = books[Mine] \cap catalog
        /\ books[Mine] \subseteq catalog
        /\ DOMAIN books = {Mine}
    BY DEF DeskInit, StoredLists, SyncFlat
  <2> QED  BY <2>1 DEF ListsAgree
<1> QED  BY <1>1, StepLists, PTL DEF DeskSpec

-----------------------------------------------------------------------------
(* Charts.  With several panes one of them is the active one; with a       *)
(* single pane the stored active id may name none, and is not asked.       *)

ChartsOK ==
    /\ layout \in Layouts
    /\ panes = [i \in 1..PaneCount[layout] |->
                  Pane(panes[i].id, panes[i].sym, panes[i].tf)]
    /\ layout # Single => \E i \in 1..PaneCount[layout] : panes[i].id = activePane

\* What a choice does to the charts, and what any step may: the body of OneChartMoves.
Shows ==
    IF OnTerminal /\ route' = route THEN panes' = panes ELSE panes'[Shown'].sym = route'
Moves ==
    /\ \A i \in DOMAIN panes \cap DOMAIN panes' :
          /\ panes'[i].id = panes[i].id
          /\ panes'[i].sym # panes[i].sym
          => panes'[i].id = activePane' /\ panes'[i].sym = route'
    /\ route' \notin {route, NoSymbol} => panes'[Shown'].sym = route'

\* A function on 1..n is a sequence of length n.
LEMMA FunctionIsSequence ==
    ASSUME NEW n \in Nat, NEW f, DOMAIN f = 1..n, f = [i \in 1..n |-> f[i]]
    PROVE  Len(f) = n
<1> DEFINE S == {f[i] : i \in 1..n}
<1>1. f \in [1..n -> S]
  OBVIOUS
<1>2. f \in Seq(S)
  BY <1>1, IsASeq
<1> QED  BY <1>2, LenProperties

\* A step that leaves the charts alone and does not choose a symbol.
LEMMA ChartsKept ==
    ASSUME ChartsOK, UNCHANGED charts, route' \in {route, NoSymbol}
    PROVE  ChartsOK' /\ Moves
  BY DEF ChartsOK, Moves, charts

\* The symbol s goes to the one pane, or to the active one.
LEMMA SyncStep ==
    ASSUME ChartsOK, NEW s, route' = s, SyncPrimarySymbol(s),
           PaneCount \in [Layouts -> Nat \ {0}], PaneCount[Single] = 1
    PROVE  ChartsOK' /\ Moves /\ panes'[Shown'].sym = s
<1> DEFINE n == PaneCount[layout]
           Takes(i) == IF layout = Single THEN i = 1 ELSE panes[i].id = activePane
<1>1. n \in Nat \ {0} /\ DOMAIN panes = 1..n /\ layout' = layout
  BY DEF ChartsOK, SyncPrimarySymbol
<1>2. \A i \in 1..n : panes[i] = [id |-> panes[i].id, sym |-> panes[i].sym, tf |-> panes[i].tf]
  BY DEF ChartsOK, Pane
<1>3. /\ panes' = [i \in 1..n |-> IF Takes(i) THEN [panes[i] EXCEPT !.sym = s] ELSE panes[i]]
      /\ activePane' = IF layout = Single THEN panes[1].id ELSE activePane
  BY <1>1 DEF SyncPrimarySymbol
<1>4. ASSUME NEW i \in 1..n
      PROVE  /\ panes'[i].id = panes[i].id
             /\ panes'[i].sym = IF Takes(i) THEN s ELSE panes[i].sym
             /\ panes'[i] = [id |-> panes'[i].id, sym |-> panes'[i].sym, tf |-> panes'[i].tf]
  <2>1. panes[i] = [id |-> panes[i].id, sym |-> panes[i].sym, tf |-> panes[i].tf]
    BY <1>2
  <2>2. panes'[i] = IF Takes(i) THEN [panes[i] EXCEPT !.sym = s] ELSE panes[i]
    BY <1>3
  <2> HIDE DEF Takes
  <2>3. CASE Takes(i)  BY <2>1, <2>2, <2>3
  <2>4. CASE ~Takes(i)  BY <2>1, <2>2, <2>4
  <2> QED  BY <2>3, <2>4
<1>5. \A i \in 1..n : Takes(i) => panes[i].id = activePane'
  BY <1>3
<1>6. \E i \in 1..n : panes[i].id = activePane'
  BY <1>1, <1>3 DEF ChartsOK
<1>7. \A i \in 1..n : panes[i].id = activePane' => Takes(i)
  BY <1>1, <1>3 DEF ChartsOK
<1> HIDE DEF Takes
<1>8. ChartsOK'
  <2>1. panes' = [i \in 1..n |-> Pane(panes'[i].id, panes'[i].sym, panes'[i].tf)]
    BY <1>3, <1>4 DEF Pane
  <2> QED  BY <1>1, <1>4, <1>6, <2>1 DEF ChartsOK
<1>9. Shown' \in 1..n /\ panes'[Shown'].id = activePane'
  <2>1. DOMAIN panes' = 1..n
    BY <1>3
  <2>2. \E i \in DOMAIN panes' : panes'[i].id = activePane'
    BY <1>4, <1>6, <2>1
  <2>3. Shown' = CHOOSE i \in DOMAIN panes' : panes'[i].id = activePane'
    BY <2>2 DEF Shown
  <2> QED  BY <2>1, <2>2, <2>3
<1>10. panes'[Shown'].sym = s
  BY <1>4, <1>7, <1>9
<1>11. Moves
  BY <1>1, <1>3, <1>4, <1>5, <1>7, <1>10 DEF Moves
<1> QED  BY <1>8, <1>10, <1>11

\* Going to a symbol's page.
LEMMA GoToStep ==
    ASSUME ChartsOK, NEW s, GoTo(s),
           PaneCount \in [Layouts -> Nat \ {0}], PaneCount[Single] = 1
    PROVE  ChartsOK' /\ Moves
<1>1. CASE OnTerminal /\ route = s
  BY <1>1, ChartsKept DEF GoTo
<1>2. CASE ~(OnTerminal /\ route = s)
  BY <1>2, SyncStep DEF GoTo
<1> QED  BY <1>1, <1>2

\* Another layout keeps the panes it has room for and copies the first one.
LEMMA LayoutStep ==
    ASSUME ChartsOK, PickLayout,
           PaneCount \in [Layouts -> Nat \ {0}], PaneCount[Single] = 1
    PROVE  ChartsOK' /\ Moves
<1>1. PICK l \in Layouts : SetLayout(l) /\ route' = route
  BY DEF PickLayout, place
<1> DEFINE n == PaneCount[layout]
           k == PaneCount[l]
<1>2. n \in Nat \ {0} /\ k \in Nat \ {0} /\ DOMAIN panes = 1..n
  BY DEF ChartsOK
<1>3. Len(panes) = n
  BY <1>2, FunctionIsSequence DEF ChartsOK
<1>4. \A i \in 1..n : panes[i] = Pane(panes[i].id, panes[i].sym, panes[i].tf)
  BY DEF ChartsOK
<1>5. /\ layout' = l
      /\ panes' = [i \in 1..k |-> IF i <= n THEN panes[i]
                                  ELSE Pane(<<i, clicks>>, panes[1].sym, panes[1].tf)]
      /\ activePane' = IF \E i \in 1..k : panes'[i].id = activePane
                       THEN activePane ELSE panes'[1].id
  BY <1>1, <1>3 DEF SetLayout, Resized
<1>6. ASSUME NEW i \in 1..k
      PROVE  panes'[i] = Pane(panes'[i].id, panes'[i].sym, panes'[i].tf)
  <2>1. CASE i <= n
    <3>1. i \in 1..n /\ panes'[i] = panes[i]
      BY <1>2, <1>5, <2>1
    <3> QED  BY <1>4, <3>1
  <2>2. CASE ~(i <= n)
    BY <1>5, <2>2 DEF Pane
  <2> QED  BY <2>1, <2>2
<1>7. \E i \in 1..k : panes'[i].id = activePane'
  <2>1. 1 \in 1..k
    BY <1>2
  <2> DEFINE Named(a) == \E i \in 1..k : panes'[i].id = a
  <2>2. Named(panes'[1].id)
    BY <2>1
  <2>3. activePane' = IF Named(activePane) THEN activePane ELSE panes'[1].id
    BY <1>5
  <2> HIDE DEF Named
  <2>4. Named(activePane')
    BY <2>2, <2>3
  <2> QED  BY <2>4 DEF Named
<1>8. ChartsOK'
  <2>1. DOMAIN panes' = 1..k /\ panes' = [i \in 1..k |-> panes'[i]]
    BY <1>5
  <2>2. panes' = [i \in 1..k |-> Pane(panes'[i].id, panes'[i].sym, panes'[i].tf)]
    BY <1>6, <2>1
  <2> QED  BY <1>5, <1>7, <2>2 DEF ChartsOK
<1>9. Moves
  BY <1>1, <1>2, <1>5 DEF Moves
<1> QED  BY <1>8, <1>9

\* The toolbar changes a timeframe, a click the active pane.
LEMMA PaneStep ==
    ASSUME ChartsOK, SetActivePane \/ SetPaneTimeframe,
           PaneCount \in [Layouts -> Nat \ {0}]
    PROVE  ChartsOK' /\ Moves
<1>1. CASE SetActivePane
  BY <1>1 DEF SetActivePane, place, ChartsOK, Moves
<1>2. CASE SetPaneTimeframe
  <2>1. PICK f : panes' = [panes EXCEPT ![Shown].tf = f]
    BY <1>2 DEF SetPaneTimeframe
  <2>2. UNCHANGED <<layout, activePane, route>>
    BY <1>2 DEF SetPaneTimeframe, place
  <2> DEFINE n == PaneCount[layout]
  <2>3. DOMAIN panes = 1..n /\ DOMAIN panes' = 1..n /\ panes' = [i \in 1..n |-> panes'[i]]
    BY <2>1 DEF ChartsOK
  <2>4. ASSUME NEW i \in 1..n
        PROVE  /\ panes'[i].id = panes[i].id /\ panes'[i].sym = panes[i].sym
               /\ panes'[i] = Pane(panes'[i].id, panes'[i].sym, panes'[i].tf)
    <3>1. panes[i] = [id |-> panes[i].id, sym |-> panes[i].sym, tf |-> panes[i].tf]
      BY DEF ChartsOK, Pane
    <3>2. panes'[i] = panes[i] \/ panes'[i] = [panes[i] EXCEPT !.tf = f]
      BY <2>1, <2>3
    <3> QED  BY <3>1, <3>2 DEF Pane
  <2>5. panes' = [i \in 1..n |-> Pane(panes'[i].id, panes'[i].sym, panes'[i].tf)]
    BY <2>3, <2>4
  <2> QED  BY <2>2, <2>3, <2>4, <2>5 DEF ChartsOK, Moves
<1> QED  BY <1>1, <1>2

\* A choice is a way to a symbol's page.
LEMMA ChoiceGoes ==
    ASSUME Choose
    PROVE  \E s : GoTo(s)
<1>1. \E s, p : Select(s, p)
  BY DEF Choose, PickRow, PickMarket, PickChip, SearchPick
<1> QED  BY <1>1 DEF Select

\* The chart in view shows the symbol chosen, or the URL named it.
LEMMA ChoiceShows ==
    ASSUME ChartsOK, Choose,
           PaneCount \in [Layouts -> Nat \ {0}], PaneCount[Single] = 1
    PROVE  Shows
<1>1. PICK s : GoTo(s)
  BY ChoiceGoes
<1>2. route' = s
  BY <1>1 DEF GoTo
<1>3. CASE OnTerminal /\ route = s
  BY <1>1, <1>2, <1>3 DEF GoTo, charts, Shows
<1>4. CASE ~(OnTerminal /\ route = s)
  <2>1. SyncPrimarySymbol(s)
    BY <1>1, <1>4 DEF GoTo
  <2> QED  BY <1>2, <1>4, <2>1, SyncStep DEF Shows
<1> QED  BY <1>3, <1>4

\* Every step keeps the charts sound and moves one of them at most.
LEMMA StepCharts ==
    ASSUME PaneCount \in [Layouts -> Nat \ {0}], PaneCount[Single] = 1,
           ChartsOK, [DeskNext]_deskVars
    PROVE  ChartsOK' /\ Moves
<1> DEFINE Untouched == UNCHANGED charts /\ route' \in {route, NoSymbol}
<1>1. Untouched => ChartsOK' /\ Moves
  BY ChartsKept
<1>2. CASE \E s : GoTo(s)
  BY <1>2, GoToStep
<1>3. CASE Choose
  BY <1>2, <1>3, ChoiceGoes
<1>4. CASE OpenChart \/ HomeRedirect \/ RedirectMissing
  <2>1. \E s : GoTo(s)
    BY <1>4 DEF OpenChart, HomeRedirect, RedirectMissing
  <2> QED  BY <1>2, <2>1
<1>5. CASE LeaveTerminal
  BY <1>1, <1>5 DEF LeaveTerminal
<1>6. CASE \/ RailButton \/ HeaderButton \/ RightButton \/ BottomButton
           \/ SheetButton \/ FloatingAiButton
           \/ ToggleAnalysisMode \/ ToggleSearch \/ ResizeWindow
  <2>1. \E p, m : SetPanels(p, m)
    BY <1>6 DEF RailButton, HeaderButton, RightButton, BottomButton, SheetButton,
       FloatingAiButton, ToggleAnalysisMode, ToggleSearch, ResizeWindow
  <2>2. Untouched
    BY <2>1 DEF SetPanels, place
  <2> QED  BY <1>1, <2>2
<1>7. CASE \/ ToggleFavorite \/ SetActiveWatchlist \/ CreateWatchlist \/ RemoveWatch
           \/ \E s \in Universe : UniverseAnswer(s)
  <2>1. Untouched
    BY <1>7 DEF ToggleFavorite, SetActiveWatchlist, CreateWatchlist, RemoveWatch,
       UniverseAnswer, place
  <2> QED  BY <1>1, <2>1
<1>8. CASE PickLayout
  BY <1>8, LayoutStep
<1>9. CASE SetActivePane \/ SetPaneTimeframe
  BY <1>9, PaneStep
<1>10. CASE Reload
  <2>1. route' = route
    BY <1>10 DEF Reload, place
  <2>2. CASE OnTerminal
    BY <1>10, <2>1, <2>2, SyncStep DEF Reload
  <2>3. CASE ~OnTerminal
    BY <1>1, <1>10, <2>1, <2>3 DEF Reload
  <2> QED  BY <2>2, <2>3
<1>11. CASE UNCHANGED deskVars
  BY <1>1, <1>11 DEF deskVars, place
<1> QED
  BY <1>3, <1>4, <1>5, <1>6, <1>7, <1>8, <1>9, <1>10, <1>11 DEF DeskNext, UserClicks

\* Choosing a symbol makes the chart in view show it, or moves no chart when the URL names
\* it already; no step moves another chart, in any layout and whatever was stored.
THEOREM ChoiceMovesOneChart == DeskSpec => OneChartMoves
<1>1. DeskInit => ChartsOK
  <2> SUFFICES ASSUME DeskInit PROVE ChartsOK
    OBVIOUS
  <2>1. PICK f, s : panes = <<Pane(<<1, 0>>, s, f)>>
    BY DEF DeskInit, StoredPanes
  <2>2. layout = Single
    BY DEF DeskInit
  <2> QED  BY <2>1, <2>2, LayoutsAssumption DEF ChartsOK, Pane
<1>2. ChartsOK /\ [DeskNext]_deskVars => ChartsOK' /\ Moves /\ (Choose => Shows)
  BY StepCharts, ChoiceShows, LayoutsAssumption
<1>3. Moves /\ (Choose => Shows) =>
        [/\ Choose => IF OnTerminal /\ route' = route
                      THEN panes' = panes ELSE panes'[Shown'].sym = route'
         /\ \A i \in DOMAIN panes \cap DOMAIN panes' :
               /\ panes'[i].id = panes[i].id
               /\ panes'[i].sym # panes[i].sym
               => panes'[i].id = activePane' /\ panes'[i].sym = route'
         /\ route' \notin {route, NoSymbol} => panes'[Shown'].sym = route']_deskVars
  BY DEF Moves, Shows
<1> QED  BY <1>1, <1>2, <1>3, PTL DEF DeskSpec, OneChartMoves

-----------------------------------------------------------------------------
(* The demonstration server.  No step makes an answer older: a key has one *)
(* load at a time, and what is kept of a key is what was answered last.    *)

\* What is assumed of the server's constants.
LEMMA ServerFacts ==
    /\ Known \subseteq Keys
    /\ {Window, StartBar, Horizon} \subseteq Nat /\ Strides \subseteq Int
    /\ \A k \in Known : Len(Market[k]) >= Window + Horizon
    /\ Len(Walk) = Window
    /\ Nil \notin Clients \cup [key : Keys, began : Nat]
  BY DemoAssumption, NilAssumption DEF Known

Sources == {"live", "synthetic"}

DemoTypes ==
    /\ now \in 0..Horizon
    /\ cache \in [Keys -> {Nil} \cup [ts : 0..Horizon, at : 0..Horizon, src : Sources]]
    /\ inflight \in [Keys -> {Nil} \cup Clients]
    /\ load \in [Clients -> {Nil} \cup [key : Known, began : 0..Horizon]]
    /\ served \in [Keys -> 0..Horizon]

\* A load under way is the one its key knows of, so that no key has two; and it began
\* after the candles of its key that were answered last.
OneLoad ==
    \A c \in Clients : load[c] # Nil =>
        /\ inflight[load[c].key] = c
        /\ served[load[c].key] <= load[c].began /\ load[c].began <= now

\* What is kept is what was answered last.
KeptIsServed ==
    \A k \in Keys : /\ served[k] <= now
                    /\ cache[k] # Nil => k \in Known /\ cache[k].at = served[k]

DemoInv == DemoTypes /\ OneLoad /\ KeptIsServed

Forward == \A k \in Keys : served'[k] >= served[k]

\* An analysis that is kept is answered again.
LEMMA HitStep ==
    ASSUME DemoInv, NEW kind, NEW key \in Keys, NEW asked, NEW W,
           Kept(kind, key)[key] # Nil, cache' = Kept(kind, key),
           GoOn(asked, W, [key |-> key, at |-> Kept(kind, key)[key].at,
                                src |-> Kept(kind, key)[key].src]),
           UNCHANGED <<inflight, load, now>>
    PROVE  DemoInv' /\ Forward
<1>1. Kept(kind, key) = cache
  BY DEF Kept, DemoInv, DemoTypes
<1>2. served' = [served EXCEPT ![key] = cache[key].at]
  BY <1>1 DEF GoOn
<1>3. served' = served
  BY <1>1, <1>2 DEF DemoInv, KeptIsServed, DemoTypes
<1> QED
  BY <1>1, <1>3, ServerFacts DEF DemoInv, DemoTypes, OneLoad, KeptIsServed, Forward

\* A request arrives.
LEMMA AskStep ==
    ASSUME DemoInv, NEW c \in Clients, NEW kind, NEW key \in Keys,
           Ask(c, kind, key)
    PROVE  DemoInv' /\ Forward
<1> DEFINE kept == Kept(kind, key)
<1>1. now' = now /\ cache' = kept
  BY DEF Ask
<1>2. /\ kept \in [Keys -> {Nil} \cup [ts : 0..Horizon, at : 0..Horizon, src : Sources]]
      /\ \A k \in Keys : kept[k] # Nil => kept[k] = cache[k]
  BY DEF Kept, DemoInv, DemoTypes
<1>3. CASE UNCHANGED <<inflight, load, served>>
  BY <1>1, <1>2, <1>3, ServerFacts DEF DemoInv, DemoTypes, OneLoad, KeptIsServed, Forward
<1>4. CASE /\ inflight[key] = Nil /\ key \in Known
           /\ load' = [load EXCEPT ![c] = [key |-> key, began |-> now]]
           /\ inflight' = [inflight EXCEPT ![key] = c]
           /\ served' = served
  <2>1. DemoTypes'
    BY <1>1, <1>2, <1>4 DEF DemoInv, DemoTypes
  <2>2. OneLoad'
    <3> SUFFICES ASSUME NEW d \in Clients, load'[d] # Nil
                 PROVE  /\ inflight'[load'[d].key] = d
                        /\ served'[load'[d].key] <= load'[d].began /\ load'[d].began <= now'
      BY DEF OneLoad
    <3>1. CASE d = c
      BY <1>1, <1>4, <3>1, ServerFacts DEF DemoInv, DemoTypes, KeptIsServed
    <3>2. CASE d # c
      <4>1. load'[d] = load[d] /\ load[d] # Nil /\ inflight[load[d].key] = d
        BY <1>4, <3>2 DEF DemoInv, DemoTypes, OneLoad
      <4>2. load[d].key # key /\ load[d].key \in Keys
        BY <1>4, <4>1, ServerFacts DEF DemoInv, DemoTypes
      <4> QED  BY <1>1, <1>4, <4>1, <4>2 DEF DemoInv, DemoTypes, OneLoad
    <3> QED  BY <3>1, <3>2
  <2>3. KeptIsServed' /\ Forward
    BY <1>1, <1>2, <1>4 DEF DemoInv, DemoTypes, KeptIsServed, Forward
  <2> QED  BY <2>1, <2>2, <2>3 DEF DemoInv
<1>5. CASE \E asked, W : /\ kept[key] # Nil
                         /\ GoOn(asked, W, [key |-> key, at |-> kept[key].at,
                                                 src |-> kept[key].src])
                         /\ UNCHANGED <<inflight, load>>
  BY <1>1, <1>5, HitStep
<1>6. \/ UNCHANGED <<inflight, load, served>>
      \/ /\ inflight[key] = Nil /\ key \in Known
         /\ load' = [load EXCEPT ![c] = [key |-> key, began |-> now]]
         /\ inflight' = [inflight EXCEPT ![key] = c]
         /\ served' = served
      \/ \E asked, W : /\ kept[key] # Nil
                       /\ GoOn(asked, W, [key |-> key, at |-> kept[key].at,
                                               src |-> kept[key].src])
                       /\ UNCHANGED <<inflight, load>>
  BY DEF Ask, Fresh, UnderWay, Known, Known
<1> QED  BY <1>3, <1>4, <1>5, <1>6

\* A load ends.
LEMMA LoadStep ==
    ASSUME DemoInv, NEW c \in Clients, LoadEnds(c)
    PROVE  DemoInv' /\ Forward
<1> DEFINE key == load[c].key
<1>1. load[c] # Nil /\ key \in Known /\ key \in Keys /\ load[c].began \in 0..Horizon
  BY ServerFacts DEF LoadEnds, DemoInv, DemoTypes
<1>2. PICK src \in Sources, at \in load[c].began .. now :
         /\ cache' = [cache EXCEPT ![key] = [ts |-> now, at |-> at, src |-> src]]
         /\ inflight' = [inflight EXCEPT ![key] = Nil]
         /\ served' = [served EXCEPT ![key] = at]
  BY DEF LoadEnds, GoOn, Sources
<1>3. load' = [load EXCEPT ![c] = Nil] /\ now' = now
  BY DEF LoadEnds
<1>4. now \in 0..Horizon /\ at \in 0..Horizon /\ at <= now /\ Horizon \in Nat
  BY <1>1, ServerFacts DEF DemoInv, DemoTypes
<1>5. served[key] \in 0..Horizon /\ served[key] <= at
  BY <1>1, <1>4, ServerFacts DEF DemoInv, DemoTypes, OneLoad
<1>6. DemoTypes'
  <2>1. [ts |-> now, at |-> at, src |-> src]
          \in {Nil} \cup [ts : 0..Horizon, at : 0..Horizon, src : Sources]
    BY <1>4
  <2> HIDE DEF key
  <2> QED  BY <1>1, <1>2, <1>3, <1>4, <2>1 DEF DemoInv, DemoTypes
<1>7. OneLoad'
  <2> SUFFICES ASSUME NEW d \in Clients, load'[d] # Nil
               PROVE  /\ inflight'[load'[d].key] = d
                      /\ served'[load'[d].key] <= load'[d].began /\ load'[d].began <= now'
    BY DEF OneLoad
  <2>1. d # c /\ load'[d] = load[d]
    BY <1>3 DEF DemoInv, DemoTypes
  <2>2. inflight[load[d].key] = d /\ inflight[key] = c
    BY <1>1, <2>1 DEF DemoInv, OneLoad
  <2>3. load[d].key # key /\ load[d].key \in Keys
    BY <2>1, <2>2, ServerFacts DEF DemoInv, DemoTypes
  <2> QED  BY <1>2, <1>3, <2>1, <2>3 DEF DemoInv, DemoTypes, OneLoad
<1>8. KeptIsServed' /\ Forward
  <2> HIDE DEF key
  <2>1. ASSUME NEW k \in Keys
        PROVE  /\ served'[k] >= served[k] /\ served'[k] <= now'
               /\ cache'[k] # Nil => k \in Known /\ cache'[k].at = served'[k]
    <3>1. CASE k = key
      BY <1>1, <1>2, <1>3, <1>4, <1>5, <3>1 DEF DemoInv, DemoTypes
    <3>2. CASE k # key
      BY <1>2, <1>3, <1>4, <3>2 DEF DemoInv, DemoTypes, KeptIsServed
    <3> QED  BY <3>1, <3>2
  <2> QED  BY <2>1 DEF KeptIsServed, Forward
<1> QED  BY <1>6, <1>7, <1>8 DEF DemoInv

\* Every step keeps the invariant and answers with no older candles.
LEMMA StepDemo ==
    ASSUME DemoInv, [ServerNext]_serverVars
    PROVE  DemoInv' /\ Forward
<1>1. CASE /\ UNCHANGED <<cache, inflight, load, served>>
           /\ now' = now \/ (now < Horizon /\ now' = now + 1)
  <2>1. now' \in 0..Horizon /\ now <= now'
    BY <1>1, ServerFacts DEF DemoInv, DemoTypes
  <2>2. \A k \in Keys : served[k] \in 0..Horizon
    BY DEF DemoInv, DemoTypes
  <2>3. DemoTypes' /\ KeptIsServed' /\ Forward
    BY <1>1, <2>1, <2>2, ServerFacts DEF DemoInv, DemoTypes, KeptIsServed, Forward
  <2>4. OneLoad'
    <3> SUFFICES ASSUME NEW c \in Clients, load[c] # Nil PROVE load[c].began <= now'
      BY <1>1 DEF DemoInv, OneLoad
    <3>1. load[c].began \in 0..Horizon /\ load[c].began <= now
      BY DEF DemoInv, DemoTypes, OneLoad
    <3> QED  BY <2>1, <3>1, ServerFacts DEF DemoInv, DemoTypes
  <2> QED  BY <2>3, <2>4 DEF DemoInv
<1>2. CASE \E c \in Clients, kind \in Kinds, key \in Keys : Ask(c, kind, key)
  BY <1>2, AskStep
<1>3. CASE \E c \in Clients : LoadEnds(c)
  BY <1>3, LoadStep
<1>4. CASE \/ \E c \in Clients : Compared(c)
           \/ StepForward \/ StepBack \/ JumpEvent \/ Review \/ Delete
  BY <1>1, <1>4 DEF Compared, StepForward, StepBack, JumpEvent,
     Review, Delete, Moved, Change
<1>5. CASE Tick \/ ProviderStops \/ UNCHANGED serverVars
  BY <1>1, <1>5 DEF Tick, ProviderStops, serverVars
<1> QED  BY <1>2, <1>3, <1>4, <1>5 DEF ServerNext

\* Loads of a key do not overlap and answers never go back in time.
THEOREM AnswersNeverGoBack == ServerSpec => AnswersMoveForward
<1>1. ServerInit => DemoInv
  BY ServerFacts DEF ServerInit, DemoInv, DemoTypes, OneLoad, KeptIsServed
<1>2. DemoInv /\ [ServerNext]_serverVars => DemoInv' /\ Forward
  BY StepDemo
<1>3. Forward => [\A k \in Keys : served'[k] >= served[k]]_serverVars
  BY DEF Forward
<1> QED  BY <1>1, <1>2, <1>3, PTL DEF ServerSpec, AnswersMoveForward

-----------------------------------------------------------------------------
(* What a replay shows: candles, breaks of structure, and when they were   *)
(* known.                                                                  *)

\* A list of candles whose closes lie between low and high.
IsTape(bars) ==
    /\ bars \in Seq([o : Int, h : Int, l : Int, c : Int])
    /\ \A i \in 1 .. Len(bars) : 0 < bars[i].l /\ bars[i].l <= bars[i].c /\ bars[i].c <= bars[i].h

Above(bars, i, j, dir) == IF dir = "up" THEN bars[i].h > bars[j].h ELSE bars[i].l < bars[j].l
Past(bars, i, j, dir) == IF dir = "up" THEN bars[j].c > bars[i].h ELSE bars[j].c < bars[i].l

\* e is the first close beyond a swing, and comes after the bars that make it one.
IsBreak(bars, e) ==
    /\ e.dir \in {"up", "down"}
    /\ e.swing \in 4 .. Len(bars) - 3 /\ e.at \in e.swing + 4 .. Len(bars)
    /\ \A j \in (e.swing - 3 .. e.swing + 3) \ {e.swing} : Above(bars, e.swing, j, e.dir)
    /\ Past(bars, e.swing, e.at, e.dir)
    /\ \A j \in e.swing + 1 .. e.at - 1 : ~Past(bars, e.swing, j, e.dir)

\* The breaks that the code finds are such.
LEMMA BreaksAre ==
    ASSUME NEW bars, IsTape(bars), NEW dir \in {"up", "down"}, NEW e \in Breaks(bars, dir)
    PROVE  IsBreak(bars, e)
<1> DEFINE pivots == IF dir = "up" THEN Highs(bars) ELSE Lows(bars)
           First(i) == CHOOSE j \in Beyond(bars, i, dir) :
                          \A k \in Beyond(bars, i, dir) : j <= k
<1>1. PICK i \in pivots : /\ e = [dir |-> dir, swing |-> i, at |-> First(i)]
                          /\ Beyond(bars, i, dir) # {}
  BY DEF Breaks, Newest
<1>2. Len(bars) \in Nat /\ i \in 4 .. Len(bars) - 3
  <2>1. Len(bars) \in Nat
    BY LenProperties DEF IsTape
  <2> QED  BY <2>1 DEF Highs, Lows, Middle, Reach
<1>3. \A j \in (i - 3 .. i + 3) \ {i} : Above(bars, i, j, dir)
  BY <1>2 DEF Highs, Lows, Around, Reach, Above
<1>4. Beyond(bars, i, dir) = {j \in i + 1 .. Len(bars) : Past(bars, i, j, dir)}
  BY DEF Beyond, Past
<1>5. First(i) \in Beyond(bars, i, dir)
      /\ \A k \in Beyond(bars, i, dir) : First(i) <= k
  <2>1. Beyond(bars, i, dir) \in SUBSET Nat
    BY <1>2, <1>4
  <2>2. \E j \in Beyond(bars, i, dir) : \A k \in Beyond(bars, i, dir) : j <= k
    BY <1>1, <2>1, LeastIn
  <2> QED  BY <2>2
<1> DEFINE at == First(i)
<1>6. at \in i + 1 .. Len(bars) /\ Past(bars, i, at, dir)
      /\ \A j \in i + 1 .. at - 1 : ~Past(bars, i, j, dir)
  <2> HIDE DEF First
  <2>1. at \in i + 1 .. Len(bars) /\ Past(bars, i, at, dir)
    BY <1>4, <1>5
  <2>2. ASSUME NEW j \in i + 1 .. at - 1 PROVE ~Past(bars, i, j, dir)
    <3>1. j \in i + 1 .. Len(bars) /\ ~(at <= j)
      BY <1>2, <2>1
    <3> QED  BY <1>4, <1>5, <3>1
  <2> QED  BY <2>1, <2>2
<1> HIDE DEF First, at
\* No bar next to the swing closes beyond it.
<1>7. at >= i + 4
  <2> SUFFICES ASSUME at <= i + 3 PROVE FALSE
    BY <1>2, <1>6
  <2>1. at \in (i - 3 .. i + 3) \ {i} /\ at \in 1 .. Len(bars) /\ i \in 1 .. Len(bars)
    BY <1>2, <1>6
  <2>2. bars[at] \in [o : Int, h : Int, l : Int, c : Int]
        /\ bars[i] \in [o : Int, h : Int, l : Int, c : Int]
    BY <2>1, ElementOfSeq DEF IsTape
  <2>3. bars[at].l <= bars[at].c /\ bars[at].c <= bars[at].h
    BY <2>1 DEF IsTape
  <2>4. Above(bars, i, at, dir) /\ Past(bars, i, at, dir)
    BY <1>3, <1>6, <2>1
  <2>5. CASE dir = "up"
    <3>1. bars[i].h > bars[at].h /\ bars[at].c > bars[i].h
      BY <2>4, <2>5 DEF Above, Past
    <3> QED  BY <2>2, <2>3, <3>1
  <2>6. CASE dir # "up"
    <3>1. bars[i].l < bars[at].l /\ bars[at].c < bars[i].l
      BY <2>4, <2>6 DEF Above, Past
    <3> QED  BY <2>2, <2>3, <3>1
  <2> QED  BY <2>5, <2>6
<1>8. e.dir = dir /\ e.swing = i /\ e.at = at
  BY <1>1 DEF at
<1> QED  BY <1>2, <1>3, <1>6, <1>7, <1>8 DEF IsBreak

\* The events of a tape: breaks, and a setup which is dated at its end.
LEMMA EventsAre ==
    ASSUME NEW bars, IsTape(bars), NEW e \in Events(bars)
    PROVE  /\ e.at \in Int
           /\ e.type \in {"bos", "choch"} => IsBreak(bars, e)
<1>1. Len(bars) \in Nat
  BY LenProperties DEF IsTape
<1>2. CASE \E s \in Setups(bars) :
              e = [type |-> "setup", dir |-> s.dir, swing |-> s.since, at |-> s.at]
  <2>1. PICK s \in Setups(bars) :
           e = [type |-> "setup", dir |-> s.dir, swing |-> s.since, at |-> s.at]
    BY <1>2
  <2>2. s.at = Len(bars)
    BY DEF Setups
  <2> QED  BY <1>1, <2>1, <2>2
<1>3. CASE \E s \in StructureEvents(bars) :
              e = [type |-> s.type, dir |-> s.dir, swing |-> s.swing, at |-> s.at]
  <2>1. PICK s \in StructureEvents(bars) :
           e = [type |-> s.type, dir |-> s.dir, swing |-> s.swing, at |-> s.at]
    BY <1>3
  <2>2. \E f \in Breaks(bars, "up") \cup Breaks(bars, "down") :
           s.dir = f.dir /\ s.swing = f.swing /\ s.at = f.at
    BY DEF StructureEvents, FirstBy, Bos, Choch
  <2>3. PICK f : IsBreak(bars, f) /\ s.dir = f.dir /\ s.swing = f.swing /\ s.at = f.at
    BY <2>2, BreaksAre
  <2>4. e.dir = f.dir /\ e.swing = f.swing /\ e.at = f.at
    BY <2>1, <2>3
  <2>5. IsBreak(bars, e)
    BY <2>3, <2>4 DEF IsBreak
  <2>6. e.at \in Int
    BY <1>1, <2>5 DEF IsBreak
  <2> QED  BY <2>5, <2>6
<1> QED  BY <1>2, <1>3 DEF Events

\* What is kept of a load and what a session replays are candles.
LEMMA BarsAreTape ==
    ASSUME NEW k \in Known, NEW at \in 0..Horizon, NEW src,
           NEW a, a.key = k, a.at = at, a.src = src
    PROVE  IsTape(BarsOf(a))
<1>1. CASE src = "live"
  <2> DEFINE all == Market[k]
  <2>1. /\ all \in Seq([o : Int, h : Int, l : Int, c : Int])
        /\ \A i \in 1 .. Len(all) : 0 < all[i].l /\ all[i].l <= all[i].c /\ all[i].c <= all[i].h
    BY CandlesAssumption DEF Known
  <2>2. Window \in Nat /\ Horizon \in Nat /\ Len(all) >= Window + Horizon /\ Len(all) \in Nat
    BY <2>1, LenProperties, ServerFacts
  <2> DEFINE bars == SubSeq(all, at + 1, at + Window)
  <2>3. BarsOf(a) = bars
    BY <1>1 DEF BarsOf, Live
  <2> HIDE DEF all
  <2>4. ASSUME NEW i \in at + 1 .. at + Window
        PROVE  i \in 1 .. Len(all) /\ all[i] \in [o : Int, h : Int, l : Int, c : Int]
    <3>1. i \in 1 .. Len(all)
      BY <2>2
    <3> QED  BY <2>1, <3>1, ElementOfSeq
  <2>5. /\ bars \in Seq([o : Int, h : Int, l : Int, c : Int])
        /\ Len(bars) = IF at + 1 <= at + Window THEN (at + Window) - (at + 1) + 1 ELSE 0
        /\ \A i \in 1 .. (at + Window) - (at + 1) + 1 : bars[i] = all[at + 1 + i - 1]
    BY <2>2, <2>4, SubSeqProperties
  <2> HIDE DEF bars
  <2>6. Len(bars) = Window
    BY <2>2, <2>5
  <2>7. \A i \in 1 .. Window : bars[i] = all[at + i] /\ at + i \in 1 .. Len(all)
    BY <2>2, <2>5
  <2> QED  BY <2>1, <2>3, <2>5, <2>6, <2>7 DEF IsTape
<1>2. CASE src # "live"
  BY <1>2, CandlesAssumption DEF BarsOf, Synthetic, IsTape
<1> QED  BY <1>1, <1>2

Replays ==
    [key : Known, at : 0..Horizon, src : Sources, index : Int,
     verdict : {Nil, "correct", "incorrect"}]

\* What is kept of an analysis is read off its candles.
LEMMA AnalysisIs ==
    ASSUME NEW a, a.key \in Known, a.at \in 0..Horizon, a.src \in Sources
    PROVE  LET w == Analysis(a)
               bars == BarsOf(a)
           IN /\ w.events = Events(bars) /\ w.setups = Setups(bars)
              /\ w.takers = Takers(bars) /\ w.labels = LastLabels(bars)
<1> DEFINE Work(k, at, src) ==
             LET bars == BarsOf([key |-> k, at |-> at, src |-> src])
             IN [of |-> <<k, at, src>>, events |-> Events(bars),
                 setups |-> Setups(bars), takers |-> Takers(bars),
                 labels |-> LastLabels(bars)]
           Tape(k, at, src) == BarsOf([key |-> k, at |-> at, src |-> src])
           this == <<a.key, a.at, a.src>>
<1>1. Tape(a.key, a.at, a.src) = BarsOf(a)
  BY DEF BarsOf
<1>2. Worked = {Work(k, at, src) : k \in Known, at \in 0 .. Horizon, src \in Sources}
  BY DEF Worked, Known, Sources
<1>3. \A k, at, src :
         LET w == Work(k, at, src)
             bars == Tape(k, at, src)
         IN /\ w.of = <<k, at, src>>
            /\ w.events = Events(bars) /\ w.setups = Setups(bars)
            /\ w.takers = Takers(bars) /\ w.labels = LastLabels(bars)
  OBVIOUS
<1> HIDE DEF Work, Tape
<1>4. Work(a.key, a.at, a.src) \in Worked
  BY <1>2
<1>5. Analysis(a) \in Worked /\ Analysis(a).of = this
  <2>1. \E w \in Worked : w.of = this
    BY <1>3, <1>4
  <2> QED  BY <2>1 DEF Analysis
<1>6. PICK k \in Known, at \in 0 .. Horizon, src \in Sources : Analysis(a) = Work(k, at, src)
  BY <1>2, <1>5
<1>7. k = a.key /\ at = a.at /\ src = a.src
  BY <1>3, <1>5, <1>6
<1> QED  BY <1>1, <1>3, <1>6, <1>7

\* A session replays an analysis of a known key, and stands on a bar.
SessionOK == session \in {Nil} \cup Replays

\* A session that is opened, or is not.
LEMMA OpenStep ==
    ASSUME SessionOK, NEW key \in Known, NEW at \in 0..Horizon,
           NEW src \in Sources, NEW asked, NEW W,
           GoOn(asked, W, [key |-> key, at |-> at, src |-> src])
    PROVE  SessionOK'
<1>1. Smaller(StartBar, Window) \in Int
  BY ServerFacts DEF Smaller
<1>2. OpenedOn([key |-> key, at |-> at, src |-> src]) \in Replays
  BY <1>1 DEF OpenedOn, Replays
<1>3. session' = session \/ session' = OpenedOn([key |-> key, at |-> at, src |-> src])
  BY DEF GoOn
<1> QED  BY <1>2, <1>3 DEF SessionOK

\* A session that is moved.
LEMMA MoveStep ==
    ASSUME SessionOK, NEW i \in Int, Moved(i)
    PROVE  SessionOK'
<1>1. session \in Replays /\ session' = [session EXCEPT !.index = i]
  BY DEF Moved, Change, SessionOK
<1> QED  BY <1>1 DEF Replays, SessionOK

\* Every step leaves a session on a bar of its candles.
LEMMA StepSession ==
    ASSUME DemoInv, SessionOK, [ServerNext]_serverVars
    PROVE  SessionOK'
<1>1. CASE \E c \in Clients, kind \in Kinds, key \in Keys : Ask(c, kind, key)
  <2>1. PICK c \in Clients, kind \in Kinds, key \in Keys : Ask(c, kind, key)
    BY <1>1
  <2> DEFINE kept == Kept(kind, key)[key]
  <2>2. CASE session' = session
    BY <2>2 DEF SessionOK
  <2>3. CASE /\ kept # Nil
             /\ \E asked, W : GoOn(asked, W, [key |-> key, at |-> kept.at, src |-> kept.src])
    <3>1. kept = cache[key]
      BY <2>3 DEF Kept, DemoInv, DemoTypes
    <3>2. key \in Known /\ kept.at \in 0..Horizon /\ kept.src \in Sources
      BY <2>3, <3>1 DEF DemoInv, DemoTypes, KeptIsServed
    <3> QED  BY <2>3, <3>2, OpenStep
  <2> QED  BY <2>1, <2>2, <2>3 DEF Ask, Fresh
<1>2. CASE \E c \in Clients : LoadEnds(c)
  <2>1. PICK c \in Clients : LoadEnds(c)
    BY <1>2
  <2> DEFINE key == load[c].key
  <2>2. key \in Known /\ load[c].began \in 0..Horizon /\ now \in 0..Horizon
    BY <2>1 DEF LoadEnds, DemoInv, DemoTypes
  <2>3. PICK src \in Sources, at \in load[c].began .. now :
           \E W : GoOn(req, W, [key |-> key, at |-> at, src |-> src])
    BY <2>1 DEF LoadEnds, Sources
  <2>4. at \in 0..Horizon
    BY <2>2, ServerFacts
  <2> HIDE DEF key
  <2> QED  BY <2>2, <2>3, <2>4, OpenStep
<1>3. CASE StepForward \/ StepBack
  <2>1. \A n \in Strides : n \in Int
    BY ServerFacts
  <2>2. session # Nil
    BY <1>3 DEF StepForward, StepBack, Moved, Change
  <2>3. session.index \in Int
    BY <2>2 DEF SessionOK, Replays
  <2>4. \A n \in Strides : {Smaller(Window, session.index + n), Larger(1, session.index - n)} \subseteq Int
    BY <2>1, <2>3, ServerFacts DEF Smaller, Larger
  <2>5. PICK i \in Int : Moved(i)
    BY <1>3, <2>4 DEF StepForward, StepBack
  <2> QED  BY <2>5, MoveStep
<1>4. CASE JumpEvent
  <2>1. session \in Replays
    BY <1>4 DEF JumpEvent, SessionOK
  <2>2. IsTape(BarsOf(session))
    BY <2>1, BarsAreTape DEF Replays
  <2>3. \A e \in Analysis(session).events : e.at \in Int
    BY <2>1, <2>2, AnalysisIs, EventsAre DEF Replays
  <2>4. PICK p : p \in {e.at : e \in Analysis(session).events} /\ Moved(p)
    BY <1>4 DEF JumpEvent
  <2> QED  BY <2>3, <2>4, MoveStep
<1>5. CASE Review
  <2>1. session \in Replays
    BY <1>5 DEF Review, SessionOK
  <2>2. PICK v \in {"correct", "incorrect"} : session' = [session EXCEPT !.verdict = v]
    BY <1>5 DEF Review, Change
  <2> QED  BY <2>1, <2>2 DEF SessionOK, Replays
<1>6. CASE Delete
  BY <1>6 DEF Delete, Change, SessionOK
<1>7. CASE \/ \E c \in Clients : Compared(c)
           \/ Tick \/ ProviderStops \/ UNCHANGED serverVars
  BY <1>7 DEF Compared, Tick, ProviderStops, serverVars, SessionOK
<1> QED  BY <1>1, <1>2, <1>3, <1>4, <1>5, <1>6, <1>7 DEF ServerNext

\* A replay never shows a break of structure before the bars that make it one, whatever
\* the candles, the analysis the session was opened on and the way it was moved.
THEOREM BreaksAreNeverAhead == ServerSpec => []BreaksWereKnown
<1>1. ServerInit => DemoInv /\ SessionOK
  BY ServerFacts DEF ServerInit, DemoInv, DemoTypes, OneLoad, KeptIsServed, SessionOK
<1>2. DemoInv /\ SessionOK /\ [ServerNext]_serverVars => DemoInv' /\ SessionOK'
  BY StepDemo, StepSession
<1>3. SessionOK => BreaksWereKnown
  <2> SUFFICES ASSUME SessionOK, session # Nil, NEW e \in Visible(session),
                      e.type \in {"bos", "choch"}
               PROVE  LET bars == BarsOf(session)
                          i == e.swing
                      IN /\ i + 3 <= session.index /\ e.at <= session.index
                         /\ \A j \in (i - 3 .. i + 3) \ {i} : Above(bars, i, j, e.dir)
                         /\ Past(bars, i, e.at, e.dir)
                         /\ \A j \in i + 1 .. e.at - 1 : ~Past(bars, i, j, e.dir)
    BY DEF BreaksWereKnown, Above, Past
  <2>1. session \in Replays /\ session.index \in Int
    BY DEF SessionOK, Replays
  <2> DEFINE bars == BarsOf(session)
  <2>2. IsTape(bars)
    BY <2>1, BarsAreTape DEF Replays
  <2>3. e \in Events(bars) /\ e.at <= session.index
    BY <2>1, AnalysisIs DEF Visible, Replays
  <2>4. IsBreak(bars, e)
    BY <2>2, <2>3, EventsAre
  <2>5. e.swing + 3 <= session.index
    <3>1. Len(bars) \in Nat
      BY <2>2, LenProperties DEF IsTape
    <3> HIDE DEF bars
    <3>2. e.swing \in Int /\ e.at \in Int /\ e.swing + 4 <= e.at
      BY <2>4, <3>1 DEF IsBreak
    <3> QED  BY <2>1, <2>3, <3>2
  <2> HIDE DEF bars
  <2>6. /\ \A j \in (e.swing - 3 .. e.swing + 3) \ {e.swing} : Above(bars, e.swing, j, e.dir)
        /\ Past(bars, e.swing, e.at, e.dir)
        /\ \A j \in e.swing + 1 .. e.at - 1 : ~Past(bars, e.swing, j, e.dir)
    BY <2>4 DEF IsBreak
  <2> QED  BY <2>3, <2>5, <2>6 DEF bars
<1> QED  BY <1>1, <1>2, <1>3, PTL DEF ServerSpec

-----------------------------------------------------------------------------
(* The setups of a tape.  A zone has held since it was made, a setup has   *)
(* its levels in order and one strategy, and a clear trend its labels.     *)

Side(dir) == IF dir = "bullish" THEN 1 ELSE -1
Far(z) == IF z.dir = "bullish" THEN z.low ELSE z.high

\* No bar has closed through the zone since the bar that made it.
Holds(bars, z) ==
    /\ z.dir \in {"bullish", "bearish"} /\ z.low \in Int /\ z.high \in Int /\ z.low <= z.high
    /\ z.at \in 2 .. Len(bars) - 3
    /\ \A j \in z.at + 1 .. Len(bars) : Side(z.dir) * (bars[j].c - Far(z)) >= 0

LEMMA BarOf ==
    ASSUME NEW bars, IsTape(bars), NEW i \in 1 .. Len(bars)
    PROVE  /\ bars[i].h \in Int /\ bars[i].l \in Int /\ bars[i].c \in Int /\ bars[i].o \in Int
           /\ 0 < bars[i].l /\ bars[i].l <= bars[i].c /\ bars[i].c <= bars[i].h
<1>1. bars[i] \in [o : Int, h : Int, l : Int, c : Int]
  BY ElementOfSeq DEF IsTape
<1> QED  BY <1>1 DEF IsTape

LEMMA BlockHolds ==
    ASSUME NEW bars, IsTape(bars), NEW z \in OrderBlock(bars)
    PROVE  Holds(bars, z)
<1> DEFINE kept == {i \in Larger(9, Len(bars) - 79) + 1 .. Len(bars) - 3 : ~Mitigated(bars, i)}
           Block(i) == [dir |-> IF bars[i].c > bars[i].o THEN "bullish" ELSE "bearish", at |-> i,
                        low |-> bars[i - 1].l, high |-> bars[i - 1].h, confidence |-> BlockConfidence(bars, i)]
<1>1. PICK i \in kept : z = Block(i)
  BY DEF OrderBlock, Best, FirstBy
<1>2. Len(bars) \in Nat
  BY LenProperties DEF IsTape
<1>3. i \in 10 .. Len(bars) - 3 /\ ~Mitigated(bars, i)
  BY <1>2 DEF Larger
<1>4. /\ bars[i - 1].h \in Int /\ bars[i - 1].l \in Int /\ bars[i - 1].l <= bars[i - 1].h
  <2>1. i - 1 \in 1 .. Len(bars)
    BY <1>2, <1>3
  <2> QED  BY <2>1, BarOf
<1>5. /\ z.dir = IF bars[i].c > bars[i].o THEN "bullish" ELSE "bearish"
      /\ z.at = i /\ z.low = bars[i - 1].l /\ z.high = bars[i - 1].h
  BY <1>1
<1> HIDE DEF kept, Block
<1>6. ASSUME NEW j \in i + 1 .. Len(bars) PROVE Side(z.dir) * (bars[j].c - Far(z)) >= 0
  <2>1. bars[j].c \in Int
    <3>1. j \in 1 .. Len(bars)
      BY <1>2, <1>3
    <3> QED  BY <3>1, BarOf
  <2>2. CASE bars[i].c > bars[i].o
    <3>1. ~(bars[j].c < bars[i - 1].l)
      BY <1>3, <2>2 DEF Mitigated
    <3>2. Side(z.dir) = 1 /\ Far(z) = bars[i - 1].l
      BY <1>5, <2>2 DEF Side, Far
    <3> QED  BY <1>4, <2>1, <3>1, <3>2
  <2>3. CASE ~(bars[i].c > bars[i].o)
    <3>1. ~(bars[j].c > bars[i - 1].h)
      BY <1>3, <2>3 DEF Mitigated
    <3>2. Side(z.dir) = -1 /\ Far(z) = bars[i - 1].h
      BY <1>5, <2>3 DEF Side, Far
    <3> QED  BY <1>4, <2>1, <3>1, <3>2
  <2> QED  BY <2>2, <2>3
<1>7. z.at \in 2 .. Len(bars) - 3
  BY <1>2, <1>3, <1>5
<1> QED  BY <1>4, <1>5, <1>6, <1>7 DEF Holds

\* What is less than half filled of a gap is not closed through.
LEMMA HalfFilled ==
    ASSUME NEW x \in Int, NEW y \in Int, NEW far \in Int, NEW c \in Int
    PROVE  /\ (x < y /\ 2 * (y - far) < y - x /\ far <= c) => c >= x
           /\ (y < x /\ 2 * (far - y) < x - y /\ c <= far) => c <= x
  OBVIOUS

LEMMA GapHolds ==
    ASSUME NEW bars, IsTape(bars), NEW z \in FairValueGap(bars)
    PROVE  Holds(bars, z)
<1> DEFINE Open(i) == {h \in Gap(bars, i) : GapOpen(bars, i, h)}
           Zone(i, g) == [dir |-> g.dir, at |-> i, low |-> g.low, high |-> g.high,
                          confidence |-> GapConfidence(bars, i, g)]
<1>1. PICK i \in Larger(4, Len(bars) - 59) + 1 .. Len(bars) - 3 : \E g \in Open(i) : z = Zone(i, g)
  BY DEF FairValueGap, Best, FirstBy
<1>2. PICK g \in Open(i) : z = Zone(i, g)
  BY <1>1
<1>3. Len(bars) \in Nat
  BY LenProperties DEF IsTape
<1>4. i \in 5 .. Len(bars) - 3 /\ g \in Gap(bars, i) /\ GapOpen(bars, i, g)
  BY <1>3 DEF Larger
<1>5. z.dir = g.dir /\ z.at = i /\ z.low = g.low /\ z.high = g.high
  BY <1>2
<1> HIDE DEF Open, Zone
<1> DEFINE a == bars[i - 1]
           b == bars[i + 1]
<1>6. \/ b.l > a.h /\ g = [dir |-> "bullish", low |-> a.h, high |-> b.l]
      \/ b.h < a.l /\ g = [dir |-> "bearish", low |-> b.h, high |-> a.l]
  BY <1>4 DEF Gap
<1>7. /\ a.h \in Int /\ a.l \in Int /\ b.h \in Int /\ b.l \in Int /\ b.c \in Int
      /\ b.l <= b.c /\ b.c <= b.h
  <2>1. i - 1 \in 1 .. Len(bars) /\ i + 1 \in 1 .. Len(bars)
    BY <1>3, <1>4
  <2> QED  BY <2>1, BarOf
<1>8. ASSUME NEW j \in i + 1 .. Len(bars) PROVE Side(z.dir) * (bars[j].c - Far(z)) >= 0
  <2>1. /\ bars[j].c \in Int /\ bars[j].h \in Int /\ bars[j].l \in Int
        /\ bars[j].l <= bars[j].c /\ bars[j].c <= bars[j].h
    <3>1. j \in 1 .. Len(bars)
      BY <1>3, <1>4
    <3> QED  BY <3>1, BarOf
  <2>2. j = i + 1 \/ j \in i + 2 .. Len(bars)
    BY <1>3, <1>4
  <2>3. CASE b.l > a.h /\ g = [dir |-> "bullish", low |-> a.h, high |-> b.l]
    <3>1. j # i + 1 => 2 * (b.l - bars[j].l) < b.l - a.h
      BY <1>4, <2>2, <2>3 DEF GapOpen
    <3>2. Side(z.dir) = 1 /\ Far(z) = a.h
      BY <1>5, <2>3 DEF Side, Far
    <3> HIDE DEF a
    <3>3. bars[j].c >= a.h
      <4>1. CASE j = i + 1
        <5>1. bars[j].c = b.c
          BY <4>1
        <5> HIDE DEF b
        <5> QED  BY <1>7, <2>3, <5>1
      <4>2. CASE j # i + 1
        <5> HIDE DEF b
        <5> QED  BY <1>7, <2>1, <2>3, <3>1, <4>2, HalfFilled
      <4> QED  BY <4>1, <4>2
    <3> QED  BY <1>7, <2>1, <3>2, <3>3
  <2>4. CASE b.h < a.l /\ g = [dir |-> "bearish", low |-> b.h, high |-> a.l]
    <3>1. j # i + 1 => 2 * (bars[j].h - b.h) < a.l - b.h
      BY <1>4, <2>2, <2>4 DEF GapOpen
    <3>2. Side(z.dir) = -1 /\ Far(z) = a.l
      BY <1>5, <2>4 DEF Side, Far
    <3> HIDE DEF a
    <3>3. bars[j].c <= a.l
      <4>1. CASE j = i + 1
        <5>1. bars[j].c = b.c
          BY <4>1
        <5> HIDE DEF b
        <5> QED  BY <1>7, <2>4, <5>1
      <4>2. CASE j # i + 1
        <5> HIDE DEF b
        <5> QED  BY <1>7, <2>1, <2>4, <3>1, <4>2, HalfFilled
      <4> QED  BY <4>1, <4>2
    <3> QED  BY <1>7, <2>1, <3>2, <3>3, SMTT(30)
  <2> QED  BY <1>6, <2>3, <2>4
<1>9. /\ z.dir \in {"bullish", "bearish"} /\ z.low \in Int /\ z.high \in Int /\ z.low <= z.high
  <2> HIDE DEF a, b
  <2> QED  BY <1>5, <1>6, <1>7
<1>10. z.at \in 2 .. Len(bars) - 3
  BY <1>3, <1>4, <1>5
<1> QED  BY <1>5, <1>8, <1>9, <1>10 DEF Holds

\* The levels of a setup.
LEMMA LevelsHold ==
    ASSUME NEW bars, IsTape(bars), NEW z, Holds(bars, z), NEW s,
           LET last == bars[Len(bars)].c
               risk == Larger(1000 * (z.high - z.low), 6 * last)
           IN /\ s.dir = z.dir /\ s.low = z.low /\ s.high = z.high /\ s.since = z.at
              /\ s.stop = 1000 * Far(z) - Side(z.dir) * Rounded(15 * risk, 100)
              /\ s.target1 = 500 * (z.low + z.high) + Side(z.dir) * risk
              /\ s.target2 = 500 * (z.low + z.high) + Side(z.dir) * 2 * risk
    PROVE  LET side == Side(s.dir)
               far == Far(s)
           IN /\ side * s.stop < side * 1000 * far
              /\ side * (1000 * bars[Len(bars)].c - s.stop) > 0
              /\ \A j \in s.since + 1 .. Len(bars) : side * (bars[j].c - far) >= 0
              /\ side * (s.target1 - 500 * (s.low + s.high)) > 0 /\ side * (s.target2 - s.target1) > 0
<1> DEFINE last == bars[Len(bars)].c
           risk == Larger(1000 * (z.high - z.low), 6 * last)
           margin == Rounded(15 * risk, 100)
           far == Far(z)
           side == Side(z.dir)
<1>1. Len(bars) \in Nat /\ Len(bars) \in z.at + 1 .. Len(bars) /\ Len(bars) \in 1 .. Len(bars)
  <2>1. Len(bars) \in Nat
    BY LenProperties DEF IsTape
  <2> QED  BY <2>1 DEF Holds
<1>2. last \in Int /\ last > 0
  BY <1>1, BarOf
<1>3. side * (last - far) >= 0
  BY <1>1 DEF Holds
<1>4. z.low \in Int /\ z.high \in Int /\ far \in Int /\ (side = 1 \/ side = -1)
  BY DEF Holds, Far, Side
<1>5. Far(s) = far /\ Side(s.dir) = side
  BY DEF Far, Side
<1> HIDE DEF last, far, side
<1>6. risk \in Int /\ risk >= 6
  BY <1>2, <1>4 DEF Larger
<1> HIDE DEF risk
<1>7. margin \in Int /\ margin >= 1
  BY <1>6 DEF Rounded
<1> HIDE DEF margin
<1> DEFINE mid == 500 * (z.low + z.high)
<1>8. mid \in Int
  BY <1>4
<1>9. /\ s.stop = 1000 * far - side * margin /\ s.target1 = mid + side * risk
      /\ s.target2 = mid + side * 2 * risk /\ 500 * (s.low + s.high) = mid
  BY DEF far, side, margin, risk, last
<1> HIDE DEF mid
<1>10. CASE side = 1
  <2>1. side * s.stop < side * 1000 * far /\ side * (1000 * last - s.stop) > 0
    BY <1>2, <1>3, <1>4, <1>7, <1>9, <1>10, SMTT(30)
  <2>2. side * (s.target1 - mid) > 0 /\ side * (s.target2 - s.target1) > 0
    BY <1>6, <1>8, <1>9, <1>10
  <2> QED  BY <1>5, <1>9, <2>1, <2>2 DEF Holds, last, far, side
<1>11. CASE side = -1
  <2>1. side * s.stop < side * 1000 * far /\ side * (1000 * last - s.stop) > 0
    BY <1>2, <1>3, <1>4, <1>7, <1>9, <1>11, SMTT(30)
  <2>2. side * (s.target1 - mid) > 0 /\ side * (s.target2 - s.target1) > 0
    BY <1>6, <1>8, <1>9, <1>11
  <2> QED  BY <1>5, <1>9, <2>1, <2>2 DEF Holds, last, far, side
<1> QED  BY <1>4, <1>10, <1>11

\* The two newest members of a set of places.
LEMMA NewestTwo ==
    ASSUME NEW n \in Nat, NEW S \in SUBSET (1..n), ~(Cardinality(Newest(S, 2)) < 2)
    PROVE  \E new, old \in S :
              /\ old < new /\ \A j \in S : j <= new
              /\ \A j \in S \ {new} : j <= old
              /\ Newest(S, 2) = {new, old} /\ Newest(S, 1) = {new}
<1> DEFINE Above1(i) == {j \in S : j > i}
<1>1. IsFiniteSet(S)
  <2>1. IsFiniteSet(1..n)
    BY 1 \in Int, n \in Int, FS_Interval
  <2> QED  BY <2>1, FS_Subset
<1>2. \A T \in SUBSET S : T # {} => \E m \in T : \A j \in T : j <= m
  <2> SUFFICES ASSUME NEW T \in SUBSET S, T # {} PROVE \E m \in T : \A j \in T : j <= m
    OBVIOUS
  <2> DEFINE D == {n - y : y \in T}
  <2>1. D \in SUBSET Nat /\ D # {}
    <3>1. \A y \in T : n - y \in Nat
      <4>1. \A y \in T : y \in 1..n
        OBVIOUS
      <4> HIDE DEF Above1
      <4> QED  BY <4>1
    <3> QED  BY <3>1
  <2>2. \E x \in D : \A y \in D : x <= y
    <3> HIDE DEF D
    <3> QED  BY <2>1, LeastIn
  <2>3. PICK m \in T : \A y \in T : n - m <= n - y
    BY <2>2
  <2>4. \A y \in T : y <= m
    BY <2>3
  <2> QED  BY <2>4
<1>3. \A a, b : Cardinality({}) = 0 /\ Cardinality({a}) = 1 /\ (a # b => Cardinality({a, b}) = 2)
  <2> SUFFICES ASSUME NEW a, NEW b
               PROVE  Cardinality({}) = 0 /\ Cardinality({a}) = 1 /\ (a # b => Cardinality({a, b}) = 2)
    OBVIOUS
  <2>1. Cardinality({}) = 0
    BY FS_EmptySet
  <2>2. IsFiniteSet({a}) /\ Cardinality({a}) = 1
    BY FS_Singleton
  <2>3. ASSUME a # b PROVE Cardinality({a, b}) = 2
    <3>1. Cardinality({a} \cup {b}) = Cardinality({a}) + 1
      BY <2>2, <2>3, FS_AddElement
    <3>2. {a} \cup {b} = {a, b}
      OBVIOUS
    <3> QED  BY <2>2, <3>1, <3>2
  <2> QED  BY <2>1, <2>2, <2>3
<1>4. \A k : Newest(S, k) = {i \in S : Cardinality(Above1(i)) < k}
  BY DEF Newest
<1> HIDE DEF Above1
<1>5. S # {}
  <2>1. S = {} => Newest(S, 2) = {}
    BY <1>4
  <2> QED  BY <1>3, <2>1
<1>6. PICK new \in S : \A j \in S : j <= new
  BY <1>2, <1>5
<1>7. S \ {new} # {}
  <2> SUFFICES ASSUME S \ {new} = {} PROVE FALSE
    OBVIOUS
  <2>1. Newest(S, 2) \subseteq {new}
    BY <1>4
  <2>2. Newest(S, 2) = {} \/ Newest(S, 2) = {new}
    BY <2>1
  <2>3. Cardinality({}) = 0 /\ Cardinality({new}) = 1
    BY <1>3
  <2> QED  BY <2>2, <2>3
<1>8. PICK old \in S \ {new} : \A j \in S \ {new} : j <= old
  BY <1>2, <1>7
<1>9. \A j \in S : j \in Int
  OBVIOUS
<1>10. old < new
  BY <1>6, <1>8, <1>9
<1>11. Above1(new) = {} /\ Above1(old) = {new}
  <2>1. new \in S /\ old \in S /\ new \in Int /\ old \in Int
    BY <1>6, <1>8, <1>9
  <2>2. ASSUME NEW j \in S PROVE ~(j > new)
    BY <1>6, <1>9, <2>1, <2>2
  <2>3. ASSUME NEW j \in S PROVE j > old <=> j = new
    <3>1. CASE j = new
      BY <1>10, <2>1, <3>1
    <3>2. CASE j # new
      BY <1>8, <1>9, <2>1, <2>3, <3>2
    <3> QED  BY <3>1, <3>2
  <2>4. Above1(new) = {}
    BY <2>2 DEF Above1
  <2>5. Above1(old) = {new}
    BY <2>1, <2>3 DEF Above1
  <2> QED  BY <2>4, <2>5
<1>12. \A i \in S \ {new, old} : ~(Cardinality(Above1(i)) < 2)
  <2> SUFFICES ASSUME NEW i \in S \ {new, old} PROVE ~(Cardinality(Above1(i)) < 2)
    OBVIOUS
  <2>1. {new, old} \subseteq Above1(i)
    BY <1>6, <1>8, <1>9 DEF Above1
  <2>2. IsFiniteSet(Above1(i))
    BY <1>1, FS_Subset DEF Above1
  <2>3. Cardinality({new, old}) <= Cardinality(Above1(i)) /\ Cardinality(Above1(i)) \in Nat
    BY <2>1, <2>2, FS_Subset, FS_CardinalityType
  <2>4. Cardinality({new, old}) = 2
    BY <1>3, <1>8
  <2> QED  BY <2>3, <2>4
<1>13. Newest(S, 2) = {new, old}
  <2>1. Cardinality(Above1(new)) < 2 /\ Cardinality(Above1(old)) < 2
    BY <1>3, <1>11
  <2> QED  BY <1>4, <1>12, <2>1
<1>14. Newest(S, 1) = {new}
  <2>1. Cardinality(Above1(new)) < 1 /\ ~(Cardinality(Above1(old)) < 1)
    BY <1>3, <1>11
  <2>2. \A i \in S \ {new, old} : ~(Cardinality(Above1(i)) < 1)
    <3> SUFFICES ASSUME NEW i \in S \ {new, old} PROVE ~(Cardinality(Above1(i)) < 1)
      OBVIOUS
    <3>1. Cardinality(Above1(i)) \in Nat
      BY <1>1, FS_Subset, FS_CardinalityType DEF Above1
    <3> QED  BY <1>12, <3>1
  <2> QED  BY <1>4, <2>1, <2>2
<1> QED  BY <1>6, <1>8, <1>10, <1>13, <1>14

\* In a clear trend the newest swings carry its labels.
LEMMA TrendLabels ==
    ASSUME NEW bars, IsTape(bars), Trend(bars) \in {"bullish", "bearish"}
    PROVE  LastLabels(bars) = IF Trend(bars) = "bullish" THEN {"HH", "HL"} ELSE {"LH", "LL"}
<1>1. Len(bars) \in Nat
  BY LenProperties DEF IsTape
<1>2. Highs(bars) \in SUBSET (1..Len(bars)) /\ Lows(bars) \in SUBSET (1..Len(bars))
  BY <1>1 DEF Highs, Lows, Middle, Reach
<1> DEFINE NewOf(T) == CHOOSE i \in T : \A j \in T : j <= i
           OldOf(T) == CHOOSE i \in T : \A j \in T : j >= i
           H2 == Newest(Highs(bars), 2)
           L2 == Newest(Lows(bars), 2)
           hn == bars[NewOf(H2)].h
           ho == bars[OldOf(H2)].h
           ln == bars[NewOf(L2)].l
           lo == bars[OldOf(L2)].l
           High == IF Cardinality(H2) < 2 THEN 0 ELSE IF hn > ho THEN 1 ELSE IF hn < ho THEN -1 ELSE 0
           Low == IF Cardinality(L2) < 2 THEN 0 ELSE IF ln > lo THEN 1 ELSE IF ln < lo THEN -1 ELSE 0
<1>3. Trend(bars) = IF High = 1 /\ Low = 1 THEN "bullish"
                    ELSE IF High = -1 /\ Low = -1 THEN "bearish" ELSE "sideways"
  BY DEF Trend, Drift
<1> HIDE DEF hn, ho, ln, lo
<1>4. /\ ~(Cardinality(H2) < 2) /\ ~(Cardinality(L2) < 2)
      /\ IF Trend(bars) = "bullish" THEN hn > ho /\ ln > lo ELSE hn < ho /\ ln < lo
  <2> HIDE DEF H2, L2
  <2> QED  BY <1>3
<1> HIDE DEF High, Low
<1>5. PICK hi, hj \in Highs(bars) :
              /\ hj < hi /\ \A j \in Highs(bars) : j <= hi
              /\ \A j \in Highs(bars) \ {hi} : j <= hj
              /\ H2 = {hi, hj} /\ Newest(Highs(bars), 1) = {hi}
  BY <1>1, <1>2, <1>4, NewestTwo
<1>6. PICK li, lj \in Lows(bars) :
              /\ lj < li /\ \A j \in Lows(bars) : j <= li
              /\ \A j \in Lows(bars) \ {li} : j <= lj
              /\ L2 = {li, lj} /\ Newest(Lows(bars), 1) = {li}
  BY <1>1, <1>2, <1>4, NewestTwo
<1> HIDE DEF H2, L2
<1>7. hi \in Int /\ hj \in Int /\ li \in Int /\ lj \in Int
  BY <1>2, <1>5, <1>6
<1>8. hn = bars[hi].h /\ ho = bars[hj].h
  <2>1. NewOf(H2) = hi /\ OldOf(H2) = hj
    BY <1>5, <1>7
  <2> QED  BY <2>1 DEF hn, ho
<1>9. ln = bars[li].l /\ lo = bars[lj].l
  <2>1. NewOf(L2) = li /\ OldOf(L2) = lj
    BY <1>6, <1>7
  <2> QED  BY <2>1 DEF ln, lo
<1>10. Label(bars, hi, "high") = IF bars[hi].h >= bars[hj].h THEN "HH" ELSE "LH"
  <2> DEFINE S == {j \in Highs(bars) : j < hi}
             last == CHOOSE j \in S : \A k \in S : k <= j
  <2>1. S = Highs(bars) \ {hi}
    BY <1>2, <1>5, <1>7
  <2>2. hj \in S /\ \A j \in S : j <= hj /\ j \in Int
    BY <1>2, <1>5, <1>7, <2>1
  <2>3. Label(bars, hi, "high") = IF S = {} \/ bars[hi].h >= bars[last].h THEN "HH" ELSE "LH"
    BY DEF Label
  <2> HIDE DEF S
  <2> DEFINE Newest1(j) == \A k \in S : k <= j
  <2>4. last = hj
    <3>1. Newest1(hj) /\ hj \in S
      BY <2>2
    <3>2. \A j \in S : Newest1(j) => j = hj
      BY <1>7, <2>2
    <3>3. last = CHOOSE j \in S : Newest1(j)
      OBVIOUS
    <3> HIDE DEF Newest1, last
    <3> QED  BY <3>1, <3>2, <3>3
  <2> HIDE DEF last
  <2> QED  BY <2>2, <2>3, <2>4
<1>11. Label(bars, li, "low") = IF bars[li].l >= bars[lj].l THEN "HL" ELSE "LL"
  <2> DEFINE S == {j \in Lows(bars) : j < li}
             last == CHOOSE j \in S : \A k \in S : k <= j
  <2>1. S = Lows(bars) \ {li}
    BY <1>2, <1>6, <1>7
  <2>2. lj \in S /\ \A j \in S : j <= lj /\ j \in Int
    BY <1>2, <1>6, <1>7, <2>1
  <2>3. Label(bars, li, "low") = IF S = {} \/ bars[li].l >= bars[last].l THEN "HL" ELSE "LL"
    BY DEF Label
  <2> HIDE DEF S
  <2> DEFINE Newest1(j) == \A k \in S : k <= j
  <2>4. last = lj
    <3>1. Newest1(lj) /\ lj \in S
      BY <2>2
    <3>2. \A j \in S : Newest1(j) => j = lj
      BY <1>7, <2>2
    <3>3. last = CHOOSE j \in S : Newest1(j)
      OBVIOUS
    <3> HIDE DEF Newest1, last
    <3> QED  BY <3>1, <3>2, <3>3
  <2> HIDE DEF last
  <2> QED  BY <2>2, <2>3, <2>4
<1>12. /\ bars[hi].h \in Int /\ bars[hj].h \in Int /\ bars[li].l \in Int /\ bars[lj].l \in Int
  BY <1>2, BarOf
<1>13. LastLabels(bars) = {Label(bars, hi, "high"), Label(bars, li, "low")}
  BY <1>5, <1>6 DEF LastLabels
<1> QED  BY <1>4, <1>8, <1>9, <1>10, <1>11, <1>12, <1>13

\* Every setup of a tape can be traded.
LEMMA SetupsHold ==
    ASSUME NEW bars, IsTape(bars), NEW s \in Setups(bars)
    PROVE  LET side == Side(s.dir)
               far == Far(s)
           IN /\ side * s.stop < side * 1000 * far
              /\ side * (1000 * bars[Len(bars)].c - s.stop) > 0
              /\ \A j \in s.since + 1 .. Len(bars) : side * (bars[j].c - far) >= 0
              /\ side * (s.target1 - 500 * (s.low + s.high)) > 0 /\ side * (s.target2 - s.target1) > 0
              /\ LastLabels(bars) = IF s.dir = "bullish" THEN {"HH", "HL"} ELSE {"LH", "LL"}
<1> DEFINE Risk(z) == Larger(1000 * (z.high - z.low), 6 * bars[Len(bars)].c)
           Built(a) ==
             [type |-> a.type, dir |-> a.zone.dir, low |-> a.zone.low, high |-> a.zone.high, since |-> a.zone.at,
              stop |-> 1000 * Far(a.zone) - Side(a.zone.dir) * Rounded(15 * Risk(a.zone), 100),
              target1 |-> 500 * (a.zone.low + a.zone.high) + Side(a.zone.dir) * Risk(a.zone),
              target2 |-> 500 * (a.zone.low + a.zone.high) + Side(a.zone.dir) * 2 * Risk(a.zone),
              confidence |-> SetupConfidence(bars, a.zone), at |-> Len(bars)]
<1>1. PICK a \in Anchor(bars) : WithTrend(bars, a.zone.dir) /\ s = Built(a)
  BY DEF Setups, Side, Far
<1>2. a.zone \in OrderBlock(bars) \/ a.zone \in FairValueGap(bars)
  BY DEF Anchor
<1> DEFINE z == a.zone
<1>3. Holds(bars, z)
  BY <1>2, BlockHolds, GapHolds
<1>4. /\ s.dir = z.dir /\ s.low = z.low /\ s.high = z.high /\ s.since = z.at
      /\ s.stop = 1000 * Far(z) - Side(z.dir) * Rounded(15 * Risk(z), 100)
      /\ s.target1 = 500 * (z.low + z.high) + Side(z.dir) * Risk(z)
      /\ s.target2 = 500 * (z.low + z.high) + Side(z.dir) * 2 * Risk(z)
  BY <1>1
<1>5. Trend(bars) = z.dir /\ z.dir \in {"bullish", "bearish"}
  BY <1>1, <1>3 DEF WithTrend, Holds
<1> HIDE DEF z, Built
<1>6. LastLabels(bars) = IF s.dir = "bullish" THEN {"HH", "HL"} ELSE {"LH", "LL"}
  BY <1>4, <1>5, TrendLabels
<1> QED  BY <1>3, <1>4, <1>6, LevelsHold

\* All setups of a tape are of one type, which one strategy takes.
LEMMA OneTaker ==
    ASSUME NEW bars, NEW s \in Setups(bars)
    PROVE  Cardinality(Takers(bars)) = 1
<1> DEFINE type == IF OrderBlock(bars) # {} THEN "order_block_reversal" ELSE "fvg_continuation"
           taker == IF OrderBlock(bars) # {} THEN "ob_reversal" ELSE "fvg_continuation"
<1>1. \A t \in Setups(bars) : t.type = type
  BY DEF Setups, Anchor
<1>2. \A k \in DOMAIN Required : type \in Required[k] <=> k = taker
  BY DEF Required
<1>3. taker \in DOMAIN Required
  BY DEF Required
<1> HIDE DEF type, taker
<1>4. Takers(bars) = {taker}
  BY <1>1, <1>2, <1>3 DEF Takers, Plans
<1> QED  BY <1>4, FS_Singleton

\* A setup that is kept can still be traded.
THEOREM KeptPlansHold == ServerSpec => []PlansHold
<1>1. ServerInit => DemoInv
  BY ServerFacts DEF ServerInit, DemoInv, DemoTypes, OneLoad, KeptIsServed
<1>2. DemoInv /\ [ServerNext]_serverVars => DemoInv'
  BY StepDemo
<1>3. DemoInv => PlansHold
  <2> SUFFICES ASSUME DemoInv, NEW k \in Known, cache[k] # Nil,
                      NEW s \in Analysis([key |-> k, at |-> cache[k].at, src |-> cache[k].src]).setups
               PROVE  LET a == [key |-> k, at |-> cache[k].at, src |-> cache[k].src]
                          bars == BarsOf(a)
                          side == Side(s.dir)
                          far == Far(s)
                      IN /\ side * s.stop < side * 1000 * far
                         /\ side * (1000 * bars[Len(bars)].c - s.stop) > 0
                         /\ \A j \in s.since + 1 .. Len(bars) : side * (bars[j].c - far) >= 0
                         /\ side * (s.target1 - 500 * (s.low + s.high)) > 0 /\ side * (s.target2 - s.target1) > 0
                         /\ Analysis(a).labels = IF s.dir = "bullish" THEN {"HH", "HL"} ELSE {"LH", "LL"}
                         /\ Cardinality(Analysis(a).takers) = 1
    BY DEF PlansHold, Side, Far
  <2> DEFINE a == [key |-> k, at |-> cache[k].at, src |-> cache[k].src]
             bars == BarsOf(a)
  <2>1. k \in Keys /\ cache[k].at \in 0..Horizon /\ cache[k].src \in Sources
    BY ServerFacts DEF DemoInv, DemoTypes
  <2>2. IsTape(bars)
    BY <2>1, BarsAreTape
  <2>3. /\ Analysis(a).setups = Setups(bars) /\ Analysis(a).takers = Takers(bars)
        /\ Analysis(a).labels = LastLabels(bars)
    BY <2>1, AnalysisIs
  <2>4. s \in Analysis(a).setups
    OBVIOUS
  <2> SUFFICES LET side == Side(s.dir)
                   far == Far(s)
               IN /\ side * s.stop < side * 1000 * far
                  /\ side * (1000 * bars[Len(bars)].c - s.stop) > 0
                  /\ \A j \in s.since + 1 .. Len(bars) : side * (bars[j].c - far) >= 0
                  /\ side * (s.target1 - 500 * (s.low + s.high)) > 0 /\ side * (s.target2 - s.target1) > 0
                  /\ Analysis(a).labels = IF s.dir = "bullish" THEN {"HH", "HL"} ELSE {"LH", "LL"}
                  /\ Cardinality(Analysis(a).takers) = 1
    OBVIOUS
  <2> HIDE DEF bars, a
  <2>5. s \in Setups(bars)
    BY <2>3, <2>4
  <2>6. Cardinality(Analysis(a).takers) = 1
    BY <2>3, <2>5, OneTaker
  <2> QED  BY <2>2, <2>3, <2>5, <2>6, SetupsHold
<1> QED  BY <1>1, <1>2, <1>3, PTL DEF ServerSpec

=============================================================================
