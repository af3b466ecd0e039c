------------------------- MODULE SignalAlertsProofs -------------------------
(***************************************************************************)
(* Theorems about SignalAlerts, for any sets of setups, markets and        *)
(* prices, any levels, and any number of process deaths.                   *)
(***************************************************************************)
EXTENDS SignalAlerts, SequenceTheorems, TLAPS

-----------------------------------------------------------------------------
(* What _evaluate_lifecycle may decide.                                    *)

\* A nonempty set of target numbers has a least element.
LEMMA LeastTarget ==
    ASSUME NEW K \in SUBSET (1..3), K # {}
    PROVE  (CHOOSE k \in K : \A j \in K : k <= j) \in K
<1>1. \E k \in K : \A j \in K : k <= j
  <2>1. CASE 1 \in K  BY <2>1
  <2>2. CASE 1 \notin K /\ 2 \in K  BY <2>2
  <2>3. CASE 1 \notin K /\ 2 \notin K
    <3>1. \A j \in K : j = 3
      BY <2>3
    <3>2. PICK k \in K : TRUE
      OBVIOUS
    <3>3. \A j \in K : k <= j
      BY <3>1, <3>2
    <3> QED  BY <3>2, <3>3
  <2> QED  BY <2>1, <2>2, <2>3
<1> QED  BY <1>1

\* An event that is due is a lifecycle event, has not been recorded yet, and is
\* compatible with the status: ENTRY for a watching alert, STOP_LOSS for an open
\* one, a target for an open one or for one this evaluation just sent a target of.
LEMMA DueFacts ==
    ASSUME NEW i \in SetupIds, NEW last, NEW p, Due(i, last, p) # "none"
    PROVE  /\ Due(i, last, p) \in {"ENTRY", "STOP_LOSS"} \cup TargetEvents
           /\ Due(i, last, p) \notin sent[i]
           /\ Due(i, last, p) = "ENTRY" => status[i] = "watching"
           /\ Due(i, last, p) = "STOP_LOSS" => status[i] \in OpenStatus
           /\ Due(i, last, p) \in TargetEvents =>
                 status[i] \in OpenStatus \/ last \in TargetEvents
<1> DEFINE ks == TargetsDue(i, last, p)
           k == CHOOSE n \in ks : \A j \in ks : n <= j
<1>1. CASE EntryDue(i, last, p)
  BY <1>1 DEF Due, EntryDue, TargetEvents
<1>2. CASE ~EntryDue(i, last, p) /\ StopDue(i, last, p)
  BY <1>2 DEF Due, StopDue, ExitsReached, TargetEvents
<1>3. CASE ~EntryDue(i, last, p) /\ ~StopDue(i, last, p)
  <2>1. ks # {} /\ Due(i, last, p) = TargetLabel[k]
    BY <1>3 DEF Due
  <2>2. ks \in SUBSET (1..3)
    <3>1. Len(Levels[i].targets) \in 1..3
      BY SetupsAssumption
    <3>2. ASSUME NEW n \in ks PROVE n \in 1..3
      <4> DEFINE len == Len(Levels[i].targets)
      <4>1. n \in 1..len
        BY <3>2 DEF TargetsDue
      <4>2. len \in 1..3
        BY <3>1
      <4> HIDE DEF len
      <4> QED
        BY <4>1, <4>2
    <3> QED
      BY <3>2
  <2>3. k \in ks
    BY <2>1, <2>2, LeastTarget
  <2>4. k \in 1..3 /\ TargetLabel[k] \notin sent[i]
    BY <2>2, <2>3 DEF TargetsDue
  <2> HIDE DEF k
  <2>5. TargetLabel[1] \in TargetEvents /\ TargetLabel[2] \in TargetEvents
            /\ TargetLabel[3] \in TargetEvents
    BY DEF TargetLabel, TargetEvents
  <2>6. status[i] \in OpenStatus \/ \E j \in 1..(k - 1) : last = TargetLabel[j]
    BY <2>3 DEF TargetsDue, ExitsReached
  <2>7. status[i] \in OpenStatus \/ last \in TargetEvents
    <3>1. CASE \E j \in 1..(k - 1) : last = TargetLabel[j]
      <4>1. PICK j \in 1..(k - 1) : last = TargetLabel[j]
        BY <3>1
      <4>2. j = 1 \/ j = 2
        BY <2>4, <4>1
      <4> QED  BY <4>1, <4>2, <2>5
    <3> QED  BY <2>6, <3>1
  <2>8. TargetLabel[k] \in TargetEvents
    BY <2>4, <2>5
  <2>9. Due(i, last, p) \notin {"ENTRY", "STOP_LOSS"}
    BY <2>1, <2>8 DEF TargetEvents
  <2> QED
    BY <2>1, <2>4, <2>7, <2>8, <2>9
<1> QED  BY <1>1, <1>2, <1>3

-----------------------------------------------------------------------------
(* Type correctness.  A scan between two markets has some market left; this *)
(* is what makes Tail applicable in NextMarket.                             *)

InMarket ==
    \A a \in Scanners :
        pc[a] \in {"signal", "lifecycle", "sending"} => todo[a] # <<>>

TypeInv == TypeOK /\ InMarket

\* The scanner starts well typed.
LEMMA InitType == Init => TypeInv
<1> SUFFICES ASSUME Init PROVE TypeInv
  OBVIOUS
<1>1. <<>> \in Seq(Markets) /\ <<>> \in Seq(Scanners)
  OBVIOUS
<1> QED
  BY <1>1 DEF Init, TypeInv, TypeOK, InMarket, NoAlerts, Statuses

\* Giving the lock back.
LEMMA ReleaseType ==
    ASSUME TypeInv, NEW a \in Scanners, Release(a)
    PROVE  /\ holder' \in Scanners \cup {NoOne}
           /\ waiters' \in Seq(Scanners)
           /\ pc' \in [Scanners -> {"idle", "waiting", "granted", "market",
                                    "signal", "lifecycle", "sending"}]
           /\ \A b \in Scanners :
                 pc'[b] \in {"idle", "granted"} \/ pc'[b] = pc[b]
<1>1. CASE waiters = <<>>
  BY <1>1 DEF Release, TypeInv, TypeOK
<1>2. CASE waiters # <<>>
  <2>1. Head(waiters) \in Scanners /\ Tail(waiters) \in Seq(Scanners)
    BY <1>2, HeadTailProperties DEF TypeInv, TypeOK
  <2> QED
    BY <1>2, <2>1 DEF Release, TypeInv, TypeOK
<1> QED  BY <1>1, <1>2

\* Every step keeps the types and a market for every scanner at work.
LEMMA NextType == TypeInv /\ [Next]_vars => TypeInv'
<1> SUFFICES ASSUME TypeInv, [Next]_vars PROVE TypeInv'
  OBVIOUS
<1> USE DEF TypeInv, TypeOK, InMarket, store, lock
<1>1. ASSUME NEW a \in Scanners, RequestScan(a) PROVE TypeInv'
  <2>1. Append(waiters, a) \in Seq(Scanners)
    BY AppendProperties
  <2>2. waiters' \in Seq(Scanners) /\ holder' \in Scanners \cup {NoOne}
    BY <1>1, <2>1 DEF RequestScan
  <2>3. CASE LockFree
    BY <1>1, <2>2, <2>3, ZenonT(30) DEF RequestScan
  <2>4. CASE ~LockFree
    BY <1>1, <2>2, <2>4 DEF RequestScan
  <2> QED  BY <2>3, <2>4
<1>2. ASSUME NEW a \in Scanners, StartScan(a) PROVE TypeInv'
  BY <1>2, WatchlistAssumption DEF StartScan
<1>3. ASSUME NEW a \in Scanners, SkipScan(a) PROVE TypeInv'
  BY <1>3, ReleaseType DEF SkipScan
<1>4. ASSUME NEW a \in Scanners, ScanMarket(a) PROVE TypeInv'
  BY <1>4 DEF ScanMarket, Detections
<1>5. ASSUME NEW a \in Scanners, MarketFails(a) PROVE TypeInv'
  <2>1. Tail(todo[a]) \in Seq(Markets)
    BY <1>5, HeadTailProperties DEF MarketFails
  <2> QED
    BY <1>5, <2>1 DEF MarketFails, Detections
<1>6. ASSUME NEW a \in Scanners, NEW i \in SetupIds, SignalNew(a, i) PROVE TypeInv'
  BY <1>6 DEF SignalNew, Statuses, OpenStatus, Events
<1>7. ASSUME NEW a \in Scanners, StartLifecycle(a) PROVE TypeInv'
  BY <1>7 DEF StartLifecycle
<1>8. ASSUME NEW a \in Scanners, NEW i \in SetupIds, Emit(a, i) PROVE TypeInv'
  <2> DEFINE e == Due(i, event[a], price[a])
  <2>1. e \in Events /\ e # "none"
    BY <1>8, DueFacts DEF Emit, Events
  <2> QED
    BY <1>8, <2>1 DEF Emit, Visiting
<1>9. ASSUME NEW a \in Scanners, SendReturns(a) PROVE TypeInv'
  <2>1. status' \in [SetupIds -> Statuses \cup {"untracked"}]
    BY <1>9 DEF SendReturns, StatusAfter, Statuses, OpenStatus
  <2>2. delivered' \in [SetupIds -> [Events -> Nat]]
    <3> DEFINE i == cur[a]
               n == [delivered[i] EXCEPT ![event[a]] = @ + 1]
    <3>1. CASE i \in SetupIds
      <4>0. delivered[i] \in [Events -> Nat]
        BY <3>1
      <4>1. n \in [Events -> Nat]
        <5>1. CASE event[a] \in Events
          BY <4>0, <5>1
        <5>2. CASE event[a] \notin Events
          BY <4>0, <5>2
        <5> QED  BY <5>1, <5>2
      <4>2. [delivered EXCEPT ![i] = n] \in [SetupIds -> [Events -> Nat]]
        BY <4>1
      <4> QED
        BY <1>9, <4>2 DEF SendReturns
    <3>2. CASE i \notin SetupIds
      BY <1>9, <3>2 DEF SendReturns
    <3> QED  BY <3>1, <3>2
  <2>3. /\ pc' \in [Scanners -> {"idle", "waiting", "granted", "market",
                                "signal", "lifecycle", "sending"}]
        /\ cur' \in [Scanners -> SetupIds \cup {NoId}]
        /\ event' \in [Scanners -> Events \cup {"none"}]
        /\ InMarket'
    <3>1. CASE event[a] = "NEW_SIGNAL"
      <4>1. /\ pc[a] = "sending"
            /\ pc' = [pc EXCEPT ![a] = "signal"]
            /\ cur' = [cur EXCEPT ![a] = NoId]
            /\ event' = [event EXCEPT ![a] = "none"]
            /\ todo' = todo
        BY <1>9, <3>1 DEF SendReturns
      <4> QED
        BY <4>1
    <3>2. CASE event[a] # "NEW_SIGNAL"
      BY <1>9, <3>2 DEF SendReturns
    <3> QED  BY <3>1, <3>2
  <2> QED
    BY <1>9, <2>1, <2>2, <2>3 DEF SendReturns
<1>10. ASSUME NEW a \in Scanners, NEW i \in SetupIds, CloseAlert(a, i) PROVE TypeInv'
  BY <1>10 DEF CloseAlert
<1>11. ASSUME NEW a \in Scanners, NextMarket(a) PROVE TypeInv'
  <2>1. Tail(todo[a]) \in Seq(Markets)
    BY <1>11, HeadTailProperties DEF NextMarket, MarketDone
  <2> QED
    BY <1>11, <2>1 DEF NextMarket
<1>12. ASSUME NEW a \in Scanners, Save(a) PROVE TypeInv'
  BY <1>12, ReleaseType DEF Save
<1>13. ASSUME NEW a \in Scanners, SaveFails(a) PROVE TypeInv'
  <2>1. disk' \in [status : [SetupIds -> Statuses \cup {"untracked"}],
                   sent : [SetupIds -> SUBSET Events]]
    BY <1>13 DEF SaveFails, NoAlerts
  <2> QED
    BY <1>13, <2>1, ReleaseType DEF SaveFails
<1>14. CASE Crash
  <2>1. <<>> \in Seq(Markets) /\ <<>> \in Seq(Scanners)
    OBVIOUS
  <2>2. disk' \in [status : [SetupIds -> Statuses \cup {"untracked"}],
                   sent : [SetupIds -> SUBSET Events]]
    BY <1>14 DEF Crash, NoAlerts
  <2> QED
    BY <1>14, <2>1, <2>2 DEF Crash
<1>15. CASE UNCHANGED vars
  BY <1>15 DEF vars, local
<1> QED
  BY <1>1, <1>2, <1>3, <1>4, <1>5, <1>6, <1>7, <1>8, <1>9, <1>10, <1>11, <1>12,
     <1>13, <1>14, <1>15 DEF Next, ScanStep

\* The scanner's variables keep their types: a status is always one of those the
\* code assigns and a scan walks a suffix of the watchlist.
THEOREM TypeCorrect == Spec => []TypeOK
<1>1. Init => TypeInv  BY InitType
<1>2. TypeInv /\ [Next]_vars => TypeInv'  BY NextType
<1>3. TypeInv => TypeOK  BY DEF TypeInv
<1> QED  BY <1>1, <1>2, <1>3, PTL DEF Spec

-----------------------------------------------------------------------------
(* Mails per process life.  The event a scanner is mailing about is already *)
(* in events_sent, no mail of this life has delivered it yet, and no other  *)
(* scanner is mailing it: the test and the append of _emit are one step.    *)

Recorded ==
    \A a \in Scanners :
        event[a] # "none" => cur[a] \in SetupIds /\ event[a] \in sent[cur[a]]

FirstInLife ==
    \A a \in Scanners :
        pc[a] = "sending" => event[a] # "none" /\ delivered[cur[a]][event[a]] <= crashes

DistinctSends ==
    \A a, b \in Scanners :
        (pc[a] = "sending" /\ pc[b] = "sending" /\ a # b)
        => ~(cur[a] = cur[b] /\ event[a] = event[b])

NothingUntracked ==
    \A i \in SetupIds :
        /\ status[i] = "untracked" => sent[i] = {}
        /\ disk.status[i] = "untracked" => disk.sent[i] = {}

MailInv == TypeInv /\ Recorded /\ FirstInLife /\ DistinctSends /\ NothingUntracked /\ MailBound

\* No mail has been sent at first.
LEMMA InitMail == Init => MailInv
<1> SUFFICES ASSUME Init PROVE MailInv
  OBVIOUS
<1>1. TypeInv  BY InitType
<1>2. Recorded /\ FirstInLife /\ DistinctSends
  BY DEF Init, Recorded, FirstInLife, DistinctSends
<1>3. NothingUntracked
  BY DEF Init, NothingUntracked, NoAlerts
<1>4. MailBound
  BY DEF Init, MailBound
<1> QED  BY <1>1, <1>2, <1>3, <1>4 DEF MailInv

\* Steps that leave the mails, the events and the alert under evaluation alone.
LEMMA QuietMail ==
    ASSUME MailInv, TypeInv',
           UNCHANGED <<status, sent, delivered, cur, event, crashes>>,
           \A a \in Scanners : pc'[a] = "sending" => pc[a] = "sending",
           disk' = disk \/ disk' = NoAlerts \/ disk' = [status |-> status, sent |-> sent]
    PROVE  MailInv'
<1> USE DEF MailInv
<1>1. Recorded' /\ MailBound'
  BY DEF Recorded, MailBound
<1>2. FirstInLife' /\ DistinctSends'
  BY DEF FirstInLife, DistinctSends
<1>3. NothingUntracked'
  BY DEF NothingUntracked, NoAlerts
<1> QED  BY <1>1, <1>2, <1>3

\* An event is recorded before its mail is under way.
LEMMA EmitMail ==
    ASSUME MailInv, TypeInv', NEW a \in Scanners, NEW i \in SetupIds, Emit(a, i)
    PROVE  MailInv'
<1> DEFINE e == Due(i, event[a], price[a])
<1>1. /\ e \in Events /\ e # "none" /\ e \notin sent[i]
      /\ e = "ENTRY" => status[i] = "watching"
      /\ e = "STOP_LOSS" => status[i] \in OpenStatus
      /\ e \in TargetEvents => status[i] \in OpenStatus \/ event[a] \in TargetEvents
      /\ e \in {"ENTRY", "STOP_LOSS"} \cup TargetEvents
  BY DueFacts DEF Emit, Events
<1>2. status[i] # "untracked"
  <2>1. CASE status[i] \in OpenStatus \/ status[i] = "watching"
    BY <2>1 DEF OpenStatus
  <2>2. CASE event[a] \in TargetEvents
    <3>1. event[a] # "none" /\ cur[a] \in SetupIds /\ event[a] \in sent[cur[a]]
      BY <2>2 DEF MailInv, Recorded, TargetEvents
    <3>2. cur[a] = i
      BY <3>1, SetupsAssumption DEF Emit, Visiting
    <3> QED
      BY <3>1, <3>2 DEF MailInv, NothingUntracked
  <2> QED  BY <1>1, <2>1, <2>2
<1>3. delivered[i][e] <= crashes
  <2>1. delivered[i][e] <= crashes + (IF e \in sent[i] THEN 1 ELSE 0)
    BY <1>1 DEF MailInv, MailBound
  <2> QED
    BY <1>1, <2>1 DEF MailInv, TypeInv, TypeOK
<1> HIDE DEF e
<1>4. /\ sent' = [sent EXCEPT ![i] = @ \cup {e}]
      /\ pc' = [pc EXCEPT ![a] = "sending"]
      /\ cur' = [cur EXCEPT ![a] = i]
      /\ event' = [event EXCEPT ![a] = e]
      /\ UNCHANGED <<status, disk, delivered, crashes>>
  BY DEF Emit, e
<1>5. /\ sent \in [SetupIds -> SUBSET Events]
      /\ pc \in [Scanners -> {"idle", "waiting", "granted", "market",
                              "signal", "lifecycle", "sending"}]
      /\ cur \in [Scanners -> SetupIds \cup {NoId}]
      /\ event \in [Scanners -> Events \cup {"none"}]
      /\ delivered \in [SetupIds -> [Events -> Nat]] /\ crashes \in Nat
  BY DEF MailInv, TypeInv, TypeOK
<1>6. Recorded'
  BY <1>1, <1>4, <1>5 DEF MailInv, Recorded
<1>7. FirstInLife'
  BY <1>1, <1>3, <1>4, <1>5 DEF MailInv, FirstInLife
<1>8. DistinctSends'
  BY <1>1, <1>4, <1>5 DEF MailInv, DistinctSends, Recorded, FirstInLife
<1>9. NothingUntracked'
  BY <1>2, <1>4, <1>5 DEF MailInv, NothingUntracked
<1>10. MailBound'
  <2> SUFFICES ASSUME NEW j \in SetupIds, NEW f \in Events
               PROVE  delivered[j][f] <= crashes + (IF f \in sent'[j] THEN 1 ELSE 0)
    BY <1>4 DEF MailBound
  <2>1. delivered[j][f] \in Nat /\ crashes \in Nat
    BY <1>5
  <2>2. delivered[j][f] <= crashes + (IF f \in sent[j] THEN 1 ELSE 0)
    BY DEF MailInv, MailBound
  <2>3. f \in sent[j] => f \in sent'[j]
    BY <1>4, <1>5
  <2> QED  BY <2>1, <2>2, <2>3
<1> QED  BY <1>6, <1>7, <1>8, <1>9, <1>10 DEF MailInv

\* A signal is recorded before its mail is under way.
LEMMA SignalMail ==
    ASSUME MailInv, TypeInv', NEW a \in Scanners, NEW i \in SetupIds, SignalNew(a, i)
    PROVE  MailInv'
<1>1. status[i] = "untracked" /\ sent[i] = {}
  BY DEF SignalNew, FreshListed, MailInv, NothingUntracked
<1>2. delivered[i]["NEW_SIGNAL"] <= crashes
  <2>1. delivered[i]["NEW_SIGNAL"] <= crashes + (IF "NEW_SIGNAL" \in sent[i] THEN 1 ELSE 0)
    BY DEF MailInv, MailBound, Events
  <2> QED
    BY <1>1, <2>1 DEF MailInv, TypeInv, TypeOK
<1>3. /\ status' = [status EXCEPT ![i] = "watching"]
      /\ sent' = [sent EXCEPT ![i] = {"NEW_SIGNAL"}]
      /\ pc' = [pc EXCEPT ![a] = "sending"]
      /\ cur' = [cur EXCEPT ![a] = i]
      /\ event' = [event EXCEPT ![a] = "NEW_SIGNAL"]
      /\ UNCHANGED <<disk, delivered, crashes>>
  BY DEF SignalNew
<1>4. /\ sent \in [SetupIds -> SUBSET Events]
      /\ status \in [SetupIds -> Statuses \cup {"untracked"}]
      /\ pc \in [Scanners -> {"idle", "waiting", "granted", "market",
                              "signal", "lifecycle", "sending"}]
      /\ cur \in [Scanners -> SetupIds \cup {NoId}]
      /\ event \in [Scanners -> Events \cup {"none"}]
      /\ delivered \in [SetupIds -> [Events -> Nat]] /\ crashes \in Nat
  BY DEF MailInv, TypeInv, TypeOK
<1>5. Recorded'
  BY <1>1, <1>3, <1>4 DEF MailInv, Recorded
<1>6. FirstInLife'
  BY <1>2, <1>3, <1>4 DEF MailInv, FirstInLife
<1>7. DistinctSends'
  BY <1>1, <1>3, <1>4 DEF MailInv, DistinctSends, Recorded, FirstInLife
<1>8. NothingUntracked'
  BY <1>3, <1>4 DEF MailInv, NothingUntracked
<1>9. MailBound'
  <2> SUFFICES ASSUME NEW j \in SetupIds, NEW f \in Events
               PROVE  delivered[j][f] <= crashes + (IF f \in sent'[j] THEN 1 ELSE 0)
    BY <1>3 DEF MailBound
  <2>1. delivered[j][f] \in Nat /\ crashes \in Nat
    BY <1>4
  <2>2. delivered[j][f] <= crashes + (IF f \in sent[j] THEN 1 ELSE 0)
    BY DEF MailInv, MailBound
  <2>3. f \in sent[j] => f \in sent'[j]
    BY <1>1, <1>3, <1>4
  <2> QED  BY <2>1, <2>2, <2>3
<1> QED  BY <1>5, <1>6, <1>7, <1>8, <1>9 DEF MailInv

\* A delivered mail is the first of its event in this life.
LEMMA ReturnMail ==
    ASSUME MailInv, TypeInv', NEW a \in Scanners, SendReturns(a)
    PROVE  MailInv'
<1> DEFINE i == cur[a]
           e == event[a]
<1>1. /\ pc[a] = "sending" /\ e # "none" /\ i \in SetupIds /\ e \in sent[i]
      /\ delivered[i][e] <= crashes
  BY DEF SendReturns, MailInv, Recorded, FirstInLife
<1>2. /\ sent \in [SetupIds -> SUBSET Events]
      /\ status \in [SetupIds -> Statuses \cup {"untracked"}]
      /\ pc \in [Scanners -> {"idle", "waiting", "granted", "market",
                              "signal", "lifecycle", "sending"}]
      /\ cur \in [Scanners -> SetupIds \cup {NoId}]
      /\ event \in [Scanners -> Events \cup {"none"}]
      /\ delivered \in [SetupIds -> [Events -> Nat]] /\ crashes \in Nat
  BY DEF MailInv, TypeInv, TypeOK
<1>3. e \in Events
  BY <1>1, <1>2
<1>4. /\ delivered' \in {delivered, [delivered EXCEPT ![i][e] = @ + 1]}
      /\ status' = [status EXCEPT ![i] = StatusAfter(e, @)]
      /\ UNCHANGED <<sent, disk, crashes>>
  BY DEF SendReturns
<1>5. /\ pc'[a] # "sending"
      /\ \A b \in Scanners \ {a} : pc'[b] = pc[b] /\ cur'[b] = cur[b] /\ event'[b] = event[b]
      /\ event'[a] # "none" => event'[a] = e /\ cur'[a] = i
  <2>1. CASE e = "NEW_SIGNAL"
    BY <1>2, <2>1 DEF SendReturns
  <2>2. CASE e # "NEW_SIGNAL"
    BY <1>2, <2>2 DEF SendReturns
  <2> QED  BY <2>1, <2>2
<1>6. \A j \in SetupIds, f \in Events :
         /\ delivered'[j][f] \in Nat
         /\ delivered'[j][f] = delivered[j][f] \/ (j = i /\ f = e /\ delivered'[j][f] = delivered[j][f] + 1)
  BY <1>1, <1>2, <1>3, <1>4
<1>7. Recorded'
  BY <1>1, <1>4, <1>5 DEF MailInv, Recorded
<1>8. FirstInLife'
  <2> SUFFICES ASSUME NEW b \in Scanners, pc'[b] = "sending"
               PROVE  event'[b] # "none" /\ delivered'[cur'[b]][event'[b]] <= crashes
    BY <1>4 DEF FirstInLife
  <2>1. b # a /\ pc[b] = "sending" /\ cur'[b] = cur[b] /\ event'[b] = event[b]
    BY <1>5
  <2>2. event[b] # "none" /\ cur[b] \in SetupIds /\ event[b] \in Events
        /\ delivered[cur[b]][event[b]] <= crashes
    BY <1>2, <2>1 DEF MailInv, FirstInLife, Recorded
  <2>3. ~(cur[b] = i /\ event[b] = e)
    BY <1>1, <2>1 DEF MailInv, DistinctSends
  <2>4. delivered'[cur[b]][event[b]] = delivered[cur[b]][event[b]]
    BY <1>6, <2>2, <2>3
  <2> QED  BY <2>1, <2>2, <2>4
<1>9. DistinctSends'
  <2> SUFFICES ASSUME NEW b \in Scanners, NEW c \in Scanners,
                      pc'[b] = "sending", pc'[c] = "sending", b # c
               PROVE  ~(cur'[b] = cur'[c] /\ event'[b] = event'[c])
    BY DEF DistinctSends
  <2>1. b # a /\ c # a
    BY <1>5
  <2> QED
    BY <1>5, <2>1 DEF MailInv, DistinctSends
<1>10. NothingUntracked'
  <2>1. status[i] # "untracked"
    BY <1>1 DEF MailInv, NothingUntracked
  <2>2. status'[i] # "untracked"
    BY <1>1, <1>2, <1>4, <2>1 DEF StatusAfter
  <2> QED
    BY <1>2, <1>4, <2>2 DEF MailInv, NothingUntracked
<1>11. MailBound'
  <2> SUFFICES ASSUME NEW j \in SetupIds, NEW f \in Events
               PROVE  delivered'[j][f] <= crashes + (IF f \in sent[j] THEN 1 ELSE 0)
    BY <1>4 DEF MailBound
  <2>1. delivered[j][f] \in Nat /\ crashes \in Nat
    BY <1>2
  <2>2. delivered[j][f] <= crashes + (IF f \in sent[j] THEN 1 ELSE 0)
    BY DEF MailInv, MailBound
  <2>3. CASE j = i /\ f = e
    BY <1>1, <1>6, <2>1, <2>3
  <2>4. CASE ~(j = i /\ f = e)
    BY <1>6, <2>1, <2>2, <2>4
  <2> QED  BY <2>3, <2>4
<1> QED  BY <1>7, <1>8, <1>9, <1>10, <1>11 DEF MailInv

\* A death ends the mails under way.
LEMMA CrashMail == ASSUME MailInv, TypeInv', Crash PROVE MailInv'
<1>1. Recorded' /\ FirstInLife' /\ DistinctSends'
  BY DEF Crash, Recorded, FirstInLife, DistinctSends
<1>2. disk' = disk \/ disk' = NoAlerts
  BY DEF Crash
<1>3. status' = disk'.status /\ sent' = disk'.sent
  BY DEF Crash
<1>4. NothingUntracked'
  BY <1>2, <1>3 DEF MailInv, NothingUntracked, NoAlerts
<1>5. MailBound'
  <2> SUFFICES ASSUME NEW j \in SetupIds, NEW f \in Events
               PROVE  delivered[j][f] <= crashes' + (IF f \in sent'[j] THEN 1 ELSE 0)
    BY DEF MailBound, Crash
  <2>1. delivered[j][f] \in Nat /\ crashes \in Nat /\ crashes' = crashes + 1
    BY DEF MailInv, TypeInv, TypeOK, Crash
  <2>2. delivered[j][f] <= crashes + (IF f \in sent[j] THEN 1 ELSE 0)
    BY DEF MailInv, MailBound
  <2>3. delivered[j][f] <= crashes + 1
    BY <2>1, <2>2
  <2> QED  BY <2>1, <2>3
<1> QED  BY <1>1, <1>4, <1>5 DEF MailInv

\* Every step keeps the invariant of the mails.
LEMMA NextMail == MailInv /\ [Next]_vars => MailInv'
<1> SUFFICES ASSUME MailInv, [Next]_vars PROVE MailInv'
  OBVIOUS
<1>0. TypeInv'
  BY NextType DEF MailInv
<1>t. pc \in [Scanners -> {"idle", "waiting", "granted", "market",
                           "signal", "lifecycle", "sending"}]
  BY DEF MailInv, TypeInv, TypeOK
<1> USE DEF store
<1>1. ASSUME NEW a \in Scanners, RequestScan(a) PROVE MailInv'
  <2>1. \A b \in Scanners : pc'[b] = "sending" => pc[b] = "sending"
    BY <1>1, <1>t DEF RequestScan
  <2> QED  BY <1>0, <1>1, <2>1, QuietMail DEF RequestScan
<1>2. ASSUME NEW a \in Scanners, StartScan(a) PROVE MailInv'
  BY <1>0, <1>2, <1>t, QuietMail DEF StartScan
<1>3. ASSUME NEW a \in Scanners, SkipScan(a) PROVE MailInv'
  <2>1. \A b \in Scanners : pc'[b] = "sending" => pc[b] = "sending"
    BY <1>3, ReleaseType DEF SkipScan, MailInv
  <2> QED  BY <1>0, <1>3, <2>1, QuietMail DEF SkipScan
<1>4. ASSUME NEW a \in Scanners, ScanMarket(a) PROVE MailInv'
  BY <1>0, <1>4, <1>t, QuietMail DEF ScanMarket
<1>5. ASSUME NEW a \in Scanners, MarketFails(a) PROVE MailInv'
  BY <1>0, <1>5, QuietMail DEF MarketFails
<1>6. ASSUME NEW a \in Scanners, NEW i \in SetupIds, SignalNew(a, i) PROVE MailInv'
  BY <1>0, <1>6, SignalMail
<1>7. ASSUME NEW a \in Scanners, StartLifecycle(a) PROVE MailInv'
  BY <1>0, <1>7, <1>t, QuietMail DEF StartLifecycle
<1>8. ASSUME NEW a \in Scanners, NEW i \in SetupIds, Emit(a, i) PROVE MailInv'
  BY <1>0, <1>8, EmitMail
<1>9. ASSUME NEW a \in Scanners, SendReturns(a) PROVE MailInv'
  BY <1>0, <1>9, ReturnMail
<1>10. ASSUME NEW a \in Scanners, NEW i \in SetupIds, CloseAlert(a, i) PROVE MailInv'
  <2>1. /\ cur' = [cur EXCEPT ![a] = NoId]
        /\ event' = [event EXCEPT ![a] = "none"]
        /\ pc[a] = "lifecycle"
        /\ UNCHANGED <<status, sent, disk, delivered, pc, crashes>>
    BY <1>10 DEF CloseAlert, Visiting
  <2>2. cur \in [Scanners -> SetupIds \cup {NoId}]
        /\ event \in [Scanners -> Events \cup {"none"}]
    BY DEF MailInv, TypeInv, TypeOK
  <2>3. Recorded' /\ FirstInLife' /\ DistinctSends'
    BY <2>1, <2>2 DEF MailInv, Recorded, FirstInLife, DistinctSends
  <2>4. NothingUntracked' /\ MailBound'
    BY <2>1 DEF MailInv, NothingUntracked, MailBound
  <2> QED  BY <1>0, <2>3, <2>4 DEF MailInv
<1>11. ASSUME NEW a \in Scanners, NextMarket(a) PROVE MailInv'
  BY <1>0, <1>11, <1>t, QuietMail DEF NextMarket
<1>12. ASSUME NEW a \in Scanners, Save(a) PROVE MailInv'
  <2>1. \A b \in Scanners : pc'[b] = "sending" => pc[b] = "sending"
    BY <1>12, ReleaseType DEF Save, MailInv
  <2> QED  BY <1>0, <1>12, <2>1, QuietMail DEF Save
<1>13. ASSUME NEW a \in Scanners, SaveFails(a) PROVE MailInv'
  <2>1. \A b \in Scanners : pc'[b] = "sending" => pc[b] = "sending"
    BY <1>13, ReleaseType DEF SaveFails, MailInv
  <2> QED  BY <1>0, <1>13, <2>1, QuietMail DEF SaveFails
<1>14. CASE Crash
  BY <1>0, <1>14, CrashMail
<1>15. CASE UNCHANGED vars
  BY <1>0, <1>15, QuietMail DEF vars, local
<1> QED
  BY <1>1, <1>2, <1>3, <1>4, <1>5, <1>6, <1>7, <1>8, <1>9, <1>10, <1>11, <1>12,
     <1>13, <1>14, <1>15 DEF Next, ScanStep

\* However the two callers interleave and whatever the sends do, an event of a
\* setup is delivered at most once more than the process has died.
THEOREM MailsPerLife == Spec => []MailBound
<1>1. Init => MailInv  BY InitMail
<1>2. MailInv /\ [Next]_vars => MailInv'  BY NextMail
<1>3. MailInv => MailBound  BY DEF MailInv
<1> QED  BY <1>1, <1>2, <1>3, PTL DEF Spec

-----------------------------------------------------------------------------
(* Status against events.  Only the holder of the lock is inside a scan, so *)
(* at most one alert has an event recorded whose mail is still under way;   *)
(* with the status that event leads to, every alert tells one story.        *)

InScan(a) == pc[a] \in {"granted", "market", "signal", "lifecycle", "sending"}

Exclusive == \A a \in Scanners : InScan(a) => holder = a

Mailing(a, i) == pc[a] = "sending" /\ cur[a] = i

OneStory ==
    \A i \in SetupIds :
        /\ (\A a \in Scanners : ~Mailing(a, i)) => AtRest(status[i], sent[i])
        /\ \A a \in Scanners :
              Mailing(a, i) => AtRest(StatusAfter(event[a], status[i]), sent[i])

StoryInv == MailInv /\ Exclusive /\ OneStory /\ DiskAtRest

\* No alert has a story at first.
LEMMA InitStory == Init => StoryInv
<1> SUFFICES ASSUME Init PROVE StoryInv
  OBVIOUS
<1>1. MailInv  BY InitMail
<1>2. Exclusive  BY DEF Init, Exclusive, InScan
<1>3. OneStory  BY DEF Init, OneStory, Mailing, AtRest, NoAlerts
<1>4. DiskAtRest  BY DEF Init, DiskAtRest, AtRest, NoAlerts
<1> QED  BY <1>1, <1>2, <1>3, <1>4 DEF StoryInv

\* Giving the lock back leaves at most the first waiter inside.
LEMMA ReleaseExclusive ==
    ASSUME TypeInv, Exclusive, NEW a \in Scanners, Release(a), holder = a
    PROVE  Exclusive'
<1> SUFFICES ASSUME NEW b \in Scanners, InScan(b)' PROVE holder' = b
  BY DEF Exclusive
<1>1. CASE waiters = <<>>
  <2>1. pc' = [pc EXCEPT ![a] = "idle"]
    BY <1>1 DEF Release
  <2>2. b # a /\ InScan(b)
    BY <2>1 DEF InScan, TypeInv, TypeOK
  <2> QED  BY <2>2 DEF Exclusive
<1>2. CASE waiters # <<>>
  <2>1. /\ holder' = Head(waiters)
        /\ pc' = [pc EXCEPT ![a] = "idle", ![Head(waiters)] = "granted"]
    BY <1>2 DEF Release
  <2>2. CASE b # Head(waiters)
    <3>1. b # a /\ InScan(b)
      BY <2>1, <2>2 DEF InScan, TypeInv, TypeOK
    <3> QED  BY <3>1 DEF Exclusive
  <2> QED  BY <2>1, <2>2
<1> QED  BY <1>1, <1>2

\* Who is not inside is not mailing, and who mails is the only one inside.
LEMMA MailerHolds ==
    ASSUME Exclusive, NEW a \in Scanners, InScan(a), pc[a] # "sending",
           NEW b \in Scanners, NEW i
    PROVE  ~Mailing(b, i)
BY DEF Exclusive, InScan, Mailing

\* Steps that leave the alerts and the mail under way alone keep the story.
LEMMA QuietStory ==
    ASSUME OneStory, UNCHANGED <<status, sent, cur, event>>,
           \A a \in Scanners : pc'[a] = "sending" <=> pc[a] = "sending"
    PROVE  OneStory'
BY DEF OneStory, Mailing

\* ... and so do steps outside of which nobody mails, before and after.
LEMMA RestingStory ==
    ASSUME OneStory, UNCHANGED <<status, sent>>,
           \A a \in Scanners : pc[a] # "sending" /\ pc'[a] # "sending"
    PROVE  OneStory'
BY DEF OneStory, Mailing

\* The event that is due leads the alert to a status that agrees with it.
LEMMA EmitStory ==
    ASSUME StoryInv, NEW a \in Scanners, NEW i \in SetupIds, Emit(a, i)
    PROVE  OneStory'
<1> DEFINE e == Due(i, event[a], price[a])
<1>1. /\ e # "none" /\ e \in {"ENTRY", "STOP_LOSS"} \cup TargetEvents
      /\ e = "ENTRY" => status[i] = "watching"
      /\ e = "STOP_LOSS" => status[i] \in OpenStatus
      /\ e \in TargetEvents => status[i] \in OpenStatus \/ event[a] \in TargetEvents
  BY DueFacts DEF Emit
<1>2. /\ sent \in [SetupIds -> SUBSET Events]
      /\ pc \in [Scanners -> {"idle", "waiting", "granted", "market",
                              "signal", "lifecycle", "sending"}]
      /\ cur \in [Scanners -> SetupIds \cup {NoId}]
      /\ event \in [Scanners -> Events \cup {"none"}]
  BY DEF StoryInv, MailInv, TypeInv, TypeOK
<1> HIDE DEF e
<1>3. /\ sent' = [sent EXCEPT ![i] = @ \cup {e}]
      /\ pc' = [pc EXCEPT ![a] = "sending"]
      /\ cur' = [cur EXCEPT ![a] = i]
      /\ event' = [event EXCEPT ![a] = e]
      /\ status' = status
      /\ pc[a] = "lifecycle"
      /\ i = cur[a] \/ cur[a] = NoId
  BY DEF Emit, Visiting, e
<1>4. \A b \in Scanners, j \in SetupIds : ~Mailing(b, j)
  BY <1>3, MailerHolds DEF InScan, StoryInv
<1>5. \A j \in SetupIds : AtRest(status[j], sent[j])
  BY <1>4 DEF StoryInv, OneStory
<1>6. event[a] \in TargetEvents => sent[i] \cap TargetEvents # {}
  <2> SUFFICES ASSUME event[a] \in TargetEvents PROVE sent[i] \cap TargetEvents # {}
    OBVIOUS
  <2>1. cur[a] \in SetupIds /\ event[a] \in sent[cur[a]]
    BY DEF StoryInv, MailInv, Recorded, TargetEvents
  <2>2. cur[a] = i
    BY <1>3, <2>1, SetupsAssumption
  <2> QED  BY <2>1, <2>2
<1>7. AtRest(StatusAfter(e, status[i]), sent[i] \cup {e})
  <2>1. AtRest(status[i], sent[i])
    BY <1>5
  <2>2. CASE e = "ENTRY"
    BY <1>1, <2>1, <2>2 DEF AtRest, StatusAfter, TargetEvents
  <2>3. CASE e = "STOP_LOSS"
    BY <1>1, <2>1, <2>3 DEF AtRest, StatusAfter, TargetEvents, OpenStatus
  <2>4. CASE e \in TargetEvents
    <3>1. "STOP_LOSS" \notin sent[i] /\ status[i] # "untracked"
      BY <1>1, <1>6, <2>1, <2>4 DEF AtRest, OpenStatus
    <3>2. e # "STOP_LOSS" /\ e # "ENTRY"
      BY <2>4 DEF TargetEvents
    <3>3. StatusAfter(e, status[i]) = "target"
      BY <2>4, <3>2 DEF StatusAfter
    <3>4. "NEW_SIGNAL" \in sent[i]
      BY <2>1, <3>1 DEF AtRest
    <3>5. (sent[i] \cup {e}) \cap TargetEvents # {}
      BY <2>4
    <3> QED  BY <3>1, <3>2, <3>3, <3>4, <3>5 DEF AtRest
  <2> QED  BY <1>1, <2>2, <2>3, <2>4
<1>8. SUFFICES ASSUME NEW j \in SetupIds
               PROVE  /\ (\A b \in Scanners : ~Mailing(b, j)') => AtRest(status'[j], sent'[j])
                      /\ \A b \in Scanners : Mailing(b, j)' =>
                            AtRest(StatusAfter(event'[b], status'[j]), sent'[j])
  BY DEF OneStory
<1>9. CASE j = i
  <2>1. Mailing(a, i)' /\ event'[a] = e /\ sent'[i] = sent[i] \cup {e}
    BY <1>2, <1>3 DEF Mailing
  <2>2. \A b \in Scanners : Mailing(b, i)' => b = a
    BY <1>2, <1>3, <1>4 DEF Mailing
  <2> QED  BY <1>3, <1>7, <1>9, <2>1, <2>2
<1>10. CASE j # i
  <2>1. \A b \in Scanners : ~Mailing(b, j)'
    BY <1>2, <1>3, <1>4, <1>10 DEF Mailing
  <2>2. sent'[j] = sent[j] /\ status'[j] = status[j]
    BY <1>2, <1>3, <1>10
  <2> QED  BY <1>5, <2>1, <2>2
<1> QED  BY <1>9, <1>10

\* A signal starts a story.
LEMMA SignalStory ==
    ASSUME StoryInv, NEW a \in Scanners, NEW i \in SetupIds, SignalNew(a, i)
    PROVE  OneStory'
<1>1. /\ status' = [status EXCEPT ![i] = "watching"]
      /\ sent' = [sent EXCEPT ![i] = {"NEW_SIGNAL"}]
      /\ pc' = [pc EXCEPT ![a] = "sending"]
      /\ cur' = [cur EXCEPT ![a] = i]
      /\ event' = [event EXCEPT ![a] = "NEW_SIGNAL"]
      /\ pc[a] = "signal"
  BY DEF SignalNew
<1>2. /\ sent \in [SetupIds -> SUBSET Events]
      /\ status \in [SetupIds -> Statuses \cup {"untracked"}]
      /\ pc \in [Scanners -> {"idle", "waiting", "granted", "market",
                              "signal", "lifecycle", "sending"}]
      /\ cur \in [Scanners -> SetupIds \cup {NoId}]
      /\ event \in [Scanners -> Events \cup {"none"}]
  BY DEF StoryInv, MailInv, TypeInv, TypeOK
<1>3. \A b \in Scanners, j \in SetupIds : ~Mailing(b, j)
  BY <1>1, MailerHolds DEF InScan, StoryInv
<1>4. \A j \in SetupIds : AtRest(status[j], sent[j])
  BY <1>3 DEF StoryInv, OneStory
<1>5. AtRest("watching", {"NEW_SIGNAL"}) /\ StatusAfter("NEW_SIGNAL", "watching") = "watching"
  BY DEF AtRest, StatusAfter, TargetEvents
<1>6. SUFFICES ASSUME NEW j \in SetupIds
               PROVE  /\ (\A b \in Scanners : ~Mailing(b, j)') => AtRest(status'[j], sent'[j])
                      /\ \A b \in Scanners : Mailing(b, j)' =>
                            AtRest(StatusAfter(event'[b], status'[j]), sent'[j])
  BY DEF OneStory
<1>7. CASE j = i
  <2>1. \A b \in Scanners : Mailing(b, i)' => b = a
    BY <1>1, <1>2, <1>3 DEF Mailing
  <2>2. status'[i] = "watching" /\ sent'[i] = {"NEW_SIGNAL"} /\ event'[a] = "NEW_SIGNAL"
    BY <1>1, <1>2
  <2> QED  BY <1>5, <1>7, <2>1, <2>2
<1>8. CASE j # i
  <2>1. \A b \in Scanners : ~Mailing(b, j)'
    BY <1>1, <1>2, <1>3, <1>8 DEF Mailing
  <2>2. sent'[j] = sent[j] /\ status'[j] = status[j]
    BY <1>1, <1>2, <1>8
  <2> QED  BY <1>4, <2>1, <2>2
<1> QED  BY <1>7, <1>8

\* A mail that returns ends one event of the story.
LEMMA ReturnStory ==
    ASSUME StoryInv, NEW a \in Scanners, SendReturns(a)
    PROVE  OneStory'
<1>1. /\ pc[a] = "sending" /\ cur[a] \in SetupIds
      /\ status' = [status EXCEPT ![cur[a]] = StatusAfter(event[a], @)]
      /\ sent' = sent
      /\ pc' = [pc EXCEPT ![a] = "signal"] \/ pc' = [pc EXCEPT ![a] = "lifecycle"]
  BY DEF SendReturns, StoryInv, MailInv, Recorded, FirstInLife
<1>2. /\ status \in [SetupIds -> Statuses \cup {"untracked"}]
      /\ pc \in [Scanners -> {"idle", "waiting", "granted", "market",
                              "signal", "lifecycle", "sending"}]
  BY DEF StoryInv, MailInv, TypeInv, TypeOK
<1>3. \A b \in Scanners : pc[b] = "sending" => b = a
  BY <1>1 DEF StoryInv, Exclusive, InScan
<1>4. \A b \in Scanners : pc'[b] # "sending"
  BY <1>1, <1>2, <1>3
<1>5. SUFFICES ASSUME NEW j \in SetupIds PROVE AtRest(status'[j], sent'[j])
  BY <1>4 DEF OneStory, Mailing
<1>6. CASE j = cur[a]
  <2>1. AtRest(StatusAfter(event[a], status[j]), sent[j])
    BY <1>1, <1>6 DEF StoryInv, OneStory, Mailing
  <2> QED  BY <1>1, <1>2, <1>6, <2>1
<1>7. CASE j # cur[a]
  <2>1. AtRest(status[j], sent[j])
    BY <1>3, <1>7 DEF StoryInv, OneStory, Mailing
  <2> QED  BY <1>1, <1>2, <1>7, <2>1
<1> QED  BY <1>6, <1>7

\* Every step keeps the stories and the file.
LEMMA NextStory == StoryInv /\ [Next]_vars => StoryInv'
<1> SUFFICES ASSUME StoryInv, [Next]_vars PROVE StoryInv'
  OBVIOUS
<1>0. MailInv' /\ TypeInv
  BY NextMail DEF StoryInv, MailInv
<1>t. pc \in [Scanners -> {"idle", "waiting", "granted", "market",
                           "signal", "lifecycle", "sending"}]
  BY <1>0 DEF TypeInv, TypeOK
<1>s. Exclusive /\ OneStory /\ DiskAtRest
  BY DEF StoryInv
<1>q. SUFFICES Exclusive' /\ OneStory' /\ DiskAtRest'
  BY <1>0 DEF StoryInv
<1> USE DEF store, lock
<1>d. disk' = disk => DiskAtRest'
  BY <1>s DEF DiskAtRest
<1>1. ASSUME NEW a \in Scanners, RequestScan(a) PROVE Exclusive' /\ OneStory' /\ DiskAtRest'
  <2>1. CASE LockFree
    <3>1. \A b \in Scanners : ~InScan(b)
      BY <1>s, <2>1, ScannersDiffer DEF LockFree, Exclusive
    <3>2. pc' = [pc EXCEPT ![a] = "granted"] /\ holder' = a
      BY <1>1, <2>1 DEF RequestScan
    <3>3. Exclusive'
      BY <1>t, <3>1, <3>2 DEF Exclusive, InScan
    <3>4. OneStory'
      BY <1>1, <1>s, <1>t, <3>1, <3>2, QuietStory DEF RequestScan, InScan
    <3> QED  BY <1>1, <1>d, <3>3, <3>4 DEF RequestScan
  <2>2. CASE ~LockFree
    <3>1. pc' = [pc EXCEPT ![a] = "waiting"] /\ holder' = holder /\ pc[a] = "idle"
      BY <1>1, <2>2 DEF RequestScan
    <3>2. Exclusive'
      BY <1>s, <1>t, <3>1 DEF Exclusive, InScan
    <3>3. OneStory'
      BY <1>1, <1>s, <1>t, <3>1, QuietStory DEF RequestScan
    <3> QED  BY <1>1, <1>d, <3>2, <3>3 DEF RequestScan
  <2> QED  BY <2>1, <2>2
\* Steps of the scanner inside that go on to another place inside.
<1>m. ASSUME NEW a \in Scanners, InScan(a), NEW where \in {"market", "signal", "lifecycle", "sending"},
             pc' = [pc EXCEPT ![a] = where], holder' = holder
      PROVE  Exclusive'
  BY <1>s, <1>t, <1>m DEF Exclusive, InScan
<1>2. ASSUME NEW a \in Scanners, StartScan(a) PROVE Exclusive' /\ OneStory' /\ DiskAtRest'
  <2>1. pc[a] = "granted" /\ pc' = [pc EXCEPT ![a] = "market"]
        /\ UNCHANGED <<status, sent, disk, holder, cur, event>>
    BY <1>2 DEF StartScan
  <2>2. OneStory'
    BY <1>s, <1>t, <2>1, QuietStory
  <2> QED  BY <1>d, <1>m, <2>1, <2>2 DEF InScan
<1>r. ASSUME NEW a \in Scanners, pc[a] \in {"granted", "market"}, Release(a),
             UNCHANGED <<status, sent>>
      PROVE  Exclusive' /\ OneStory'
  <2>1. InScan(a) /\ pc[a] # "sending"
    BY <1>r DEF InScan
  <2>2. holder = a
    BY <1>s, <2>1 DEF Exclusive
  <2>3. \A b \in Scanners : pc[b] # "sending"
    BY <1>s, <2>1, <2>2 DEF Exclusive, InScan
  <2>4. \A b \in Scanners : pc'[b] # "sending"
    BY <1>0, <1>r, <2>3, ReleaseType
  <2>5. OneStory'
    BY <1>r, <1>s, <2>3, <2>4, RestingStory
  <2> QED  BY <1>0, <1>r, <1>s, <2>2, <2>5, ReleaseExclusive
<1>3. ASSUME NEW a \in Scanners, SkipScan(a) PROVE Exclusive' /\ OneStory' /\ DiskAtRest'
  BY <1>3, <1>d, <1>r DEF SkipScan
<1>4. ASSUME NEW a \in Scanners, ScanMarket(a) PROVE Exclusive' /\ OneStory' /\ DiskAtRest'
  <2>1. pc[a] = "market" /\ pc' = [pc EXCEPT ![a] = "signal"]
        /\ UNCHANGED <<status, sent, disk, holder, cur, event>>
    BY <1>4 DEF ScanMarket
  <2>2. OneStory'
    BY <1>s, <1>t, <2>1, QuietStory
  <2> QED  BY <1>d, <1>m, <2>1, <2>2 DEF InScan
<1>5. ASSUME NEW a \in Scanners, MarketFails(a) PROVE Exclusive' /\ OneStory' /\ DiskAtRest'
  <2>1. UNCHANGED <<status, sent, disk, holder, cur, event, pc>>
    BY <1>5 DEF MarketFails
  <2>2. OneStory'
    BY <1>s, <2>1, QuietStory
  <2> QED  BY <1>d, <1>s, <2>1, <2>2 DEF Exclusive, InScan
<1>6. ASSUME NEW a \in Scanners, NEW i \in SetupIds, SignalNew(a, i)
      PROVE  Exclusive' /\ OneStory' /\ DiskAtRest'
  <2>1. pc[a] = "signal" /\ pc' = [pc EXCEPT ![a] = "sending"] /\ UNCHANGED <<disk, holder>>
    BY <1>6 DEF SignalNew
  <2> QED  BY <1>6, <1>d, <1>m, <2>1, SignalStory DEF InScan
<1>7. ASSUME NEW a \in Scanners, StartLifecycle(a) PROVE Exclusive' /\ OneStory' /\ DiskAtRest'
  <2>1. pc[a] = "signal" /\ pc' = [pc EXCEPT ![a] = "lifecycle"]
        /\ UNCHANGED <<status, sent, disk, holder, cur, event>>
    BY <1>7 DEF StartLifecycle
  <2>2. OneStory'
    BY <1>s, <1>t, <2>1, QuietStory
  <2> QED  BY <1>d, <1>m, <2>1, <2>2 DEF InScan
<1>8. ASSUME NEW a \in Scanners, NEW i \in SetupIds, Emit(a, i)
      PROVE  Exclusive' /\ OneStory' /\ DiskAtRest'
  <2>1. pc[a] = "lifecycle" /\ pc' = [pc EXCEPT ![a] = "sending"] /\ UNCHANGED <<disk, holder>>
    BY <1>8 DEF Emit, Visiting
  <2> QED  BY <1>8, <1>d, <1>m, <2>1, EmitStory DEF InScan
<1>9. ASSUME NEW a \in Scanners, SendReturns(a) PROVE Exclusive' /\ OneStory' /\ DiskAtRest'
  <2>1. /\ pc[a] = "sending"
        /\ pc' = [pc EXCEPT ![a] = "signal"] \/ pc' = [pc EXCEPT ![a] = "lifecycle"]
        /\ UNCHANGED <<disk, holder>>
    BY <1>9 DEF SendReturns
  <2> QED  BY <1>9, <1>d, <1>m, <2>1, ReturnStory DEF InScan
<1>10. ASSUME NEW a \in Scanners, NEW i \in SetupIds, CloseAlert(a, i)
       PROVE  Exclusive' /\ OneStory' /\ DiskAtRest'
  <2>1. pc[a] = "lifecycle" /\ UNCHANGED <<status, sent, disk, holder, pc>>
    BY <1>10 DEF CloseAlert, Visiting
  <2>2. \A b \in Scanners : pc[b] # "sending"
    BY <1>s, <2>1 DEF Exclusive, InScan
  <2>3. OneStory'
    BY <1>s, <2>1, <2>2, RestingStory
  <2> QED  BY <1>d, <1>s, <2>1, <2>3 DEF Exclusive, InScan
<1>11. ASSUME NEW a \in Scanners, NextMarket(a) PROVE Exclusive' /\ OneStory' /\ DiskAtRest'
  <2>1. pc[a] = "lifecycle" /\ pc' = [pc EXCEPT ![a] = "market"]
        /\ UNCHANGED <<status, sent, disk, holder, cur, event>>
    BY <1>11 DEF NextMarket, MarketDone
  <2>2. OneStory'
    BY <1>s, <1>t, <2>1, QuietStory
  <2> QED  BY <1>d, <1>m, <2>1, <2>2 DEF InScan
<1>12. ASSUME NEW a \in Scanners, Save(a) PROVE Exclusive' /\ OneStory' /\ DiskAtRest'
  <2>1. pc[a] = "market" /\ Release(a) /\ UNCHANGED <<status, sent>>
        /\ disk' = [status |-> status, sent |-> sent]
    BY <1>12 DEF Save, Saving
  <2>2. \A b \in Scanners : pc[b] # "sending"
    BY <1>s, <2>1 DEF Exclusive, InScan
  <2>3. \A i \in SetupIds : AtRest(status[i], sent[i])
    BY <1>s, <2>2 DEF OneStory, Mailing
  <2>4. DiskAtRest'
    BY <2>1, <2>3 DEF DiskAtRest
  <2> QED  BY <1>r, <2>1, <2>4
<1>e. \A i \in SetupIds : AtRest(NoAlerts.status[i], NoAlerts.sent[i])
  BY DEF NoAlerts, AtRest
<1>13. ASSUME NEW a \in Scanners, SaveFails(a) PROVE Exclusive' /\ OneStory' /\ DiskAtRest'
  <2>1. pc[a] = "market" /\ Release(a) /\ UNCHANGED <<status, sent>>
        /\ (disk' = disk \/ disk' = NoAlerts)
    BY <1>13 DEF SaveFails, Saving
  <2>2. DiskAtRest'
    BY <1>d, <1>e, <2>1 DEF DiskAtRest
  <2> QED  BY <1>r, <2>1, <2>2
<1>14. CASE Crash
  <2>1. /\ disk' = disk \/ disk' = NoAlerts
        /\ status' = disk'.status /\ sent' = disk'.sent
        /\ pc' = [a \in Scanners |-> "idle"]
    BY <1>14 DEF Crash
  <2>2. DiskAtRest'
    BY <1>d, <1>e, <2>1 DEF DiskAtRest
  <2>3. Exclusive'
    BY <2>1 DEF Exclusive, InScan
  <2>4. OneStory'
    BY <2>1, <2>2 DEF OneStory, Mailing, DiskAtRest
  <2> QED  BY <2>2, <2>3, <2>4
<1>15. CASE UNCHANGED vars
  <2>1. UNCHANGED <<status, sent, disk, holder, cur, event, pc>>
    BY <1>15 DEF vars, local
  <2>2. OneStory'
    BY <1>s, <2>1, QuietStory
  <2> QED  BY <1>d, <1>s, <2>1, <2>2 DEF Exclusive, InScan
<1> QED
  BY <1>1, <1>2, <1>3, <1>4, <1>5, <1>6, <1>7, <1>8, <1>9, <1>10, <1>11, <1>12,
     <1>13, <1>14, <1>15 DEF Next, ScanStep

\* With the status its last event leads to, an alert is never both.
LEMMA StoryExcludes == ASSUME OneStory PROVE StopOrTarget
<1> SUFFICES ASSUME NEW i \in SetupIds, "STOP_LOSS" \in sent[i]
             PROVE  sent[i] \cap TargetEvents = {}
  BY DEF StopOrTarget
<1>1. PICK st : AtRest(st, sent[i])
  BY DEF OneStory
<1> QED  BY <1>1 DEF AtRest

\* Whatever the mails do and wherever the process dies, no alert is reported both
\* stopped out and at a target.
THEOREM NeverBoth == Spec => []StopOrTarget
<1>1. Init => StoryInv  BY InitStory
<1>2. StoryInv /\ [Next]_vars => StoryInv'  BY NextStory
<1>3. StoryInv => StopOrTarget  BY StoryExcludes DEF StoryInv
<1> QED  BY <1>1, <1>2, <1>3, PTL DEF Spec

\* The state file only ever holds alerts at rest: the lock is held from the first mail of
\* a scan to its save, so no other caller saves an alert in the middle of an evaluation.
THEOREM FileAtRest == Spec => []DiskAtRest
<1>1. Init => StoryInv  BY InitStory
<1>2. StoryInv /\ [Next]_vars => StoryInv'  BY NextStory
<1>3. StoryInv => DiskAtRest  BY DEF StoryInv
<1> QED  BY <1>1, <1>2, <1>3, PTL DEF Spec

-----------------------------------------------------------------------------
(* The book.  A scanner that evaluates an alert goes up its targets, so the *)
(* ones above the last it sent are still to come; with the lock, by which   *)
(* at most one mail is under way, every step is one of the book.            *)

InTurn ==
    \A a \in Scanners :
        /\ pc[a] \notin {"lifecycle", "sending"} => event[a] = "none"
        /\ \A j \in 1..3 : event[a] = TargetLabel[j] =>
              \A k \in 1..3 : j < k => TargetLabel[k] \notin sent[cur[a]]

BookInv == StoryInv /\ InTurn

\* The book and the scanner mean the same events.
LEMMA SameEvents ==
    /\ Book!Target = TargetLabel
    /\ TargetEvents = {TargetLabel[k] : k \in 1..3}
    /\ Book!Exits = {"STOP_LOSS"} \cup TargetEvents
    /\ Book!Events = Events
    /\ \A j, k \in 1..3 : TargetLabel[j] = TargetLabel[k] => j = k
    /\ "none" \notin TargetEvents /\ "NEW_SIGNAL" \notin TargetEvents /\ "ENTRY" \notin TargetEvents
<1>1. Book!Target = TargetLabel
  BY DEF Book!Target, TargetLabel
<1>2. TargetLabel[1] = "TARGET_1" /\ TargetLabel[2] = "TARGET_2" /\ TargetLabel[3] = "TARGET_3"
  BY DEF TargetLabel
<1>3. \A k \in 1..3 : k = 1 \/ k = 2 \/ k = 3
  OBVIOUS
<1>4. TargetEvents = {TargetLabel[k] : k \in 1..3}
  <2>1. 1 \in 1..3 /\ 2 \in 1..3 /\ 3 \in 1..3
    OBVIOUS
  <2> QED  BY <1>2, <1>3, <2>1 DEF TargetEvents
<1>5. Book!Exits = {"STOP_LOSS"} \cup TargetEvents
  BY <1>1, <1>4 DEF Book!Exits
<1>6. Book!Events = Events
  BY <1>5 DEF Book!Events, Events
<1>7. \A j, k \in 1..3 : TargetLabel[j] = TargetLabel[k] => j = k
  BY <1>2, <1>3
<1> QED  BY <1>1, <1>4, <1>5, <1>6, <1>7 DEF TargetEvents

\* A target that is due was not sent, and it comes in an evaluation that found the alert
\* open or that has just sent a lower one.
LEMMA DueTarget ==
    ASSUME NEW i \in SetupIds, NEW last, NEW p, Due(i, last, p) \in TargetEvents
    PROVE  \E k \in 1..3 :
              /\ Due(i, last, p) = TargetLabel[k] /\ TargetLabel[k] \notin sent[i]
              /\ status[i] \in OpenStatus \/ \E j \in 1..3 : j < k /\ last = TargetLabel[j]
<1> DEFINE ks == TargetsDue(i, last, p)
           k == CHOOSE n \in ks : \A j \in ks : n <= j
<1>1. ks # {} /\ Due(i, last, p) = TargetLabel[k]
  <2>1. ~EntryDue(i, last, p) /\ ~StopDue(i, last, p)
    BY DEF Due, TargetEvents
  <2>2. ks # {}
    BY <2>1 DEF Due, TargetEvents
  <2> QED  BY <2>1, <2>2 DEF Due
<1>2. ks \in SUBSET (1..3)
  <2> DEFINE len == Len(Levels[i].targets)
  <2>1. len \in 1..3
    BY SetupsAssumption
  <2>2. ks \subseteq 1..len
    BY DEF TargetsDue
  <2> HIDE DEF len, ks
  <2>3. \A n \in 1..len : n \in 1..3
    BY <2>1
  <2> QED  BY <2>2, <2>3
<1>3. k \in ks
  BY <1>1, <1>2, LeastTarget
<1>4. k \in 1..3 /\ TargetLabel[k] \notin sent[i]
  BY <1>2, <1>3 DEF TargetsDue
<1>5. status[i] \in OpenStatus \/ \E j \in 1..(k - 1) : last = TargetLabel[j]
  BY <1>3 DEF TargetsDue, ExitsReached
<1> HIDE DEF k, ks
<1>6. \A n \in 1..3 : \A j \in 1..(n - 1) : j \in 1..3 /\ j < n
  OBVIOUS
<1>7. status[i] \in OpenStatus \/ \E j \in 1..3 : j < k /\ last = TargetLabel[j]
  BY <1>4, <1>5, <1>6
<1> QED  BY <1>1, <1>4, <1>7

\* While the holder of the lock is not mailing, nobody is, and all alerts are at rest.
LEMMA AllAtRest ==
    ASSUME StoryInv, NEW a \in Scanners, InScan(a), pc[a] # "sending"
    PROVE  Flying = {} /\ \A i \in SetupIds : AtRest(status[i], sent[i])
<1>1. \A b \in Scanners : pc[b] # "sending"
  BY DEF StoryInv, Exclusive, InScan
<1> QED  BY <1>1 DEF StoryInv, OneStory, Mailing, Flying

\* What is due follows on the page of its alert, with the targets above it still to come.
LEMMA EmitFollows ==
    ASSUME BookInv, NEW a \in Scanners, NEW i \in SetupIds, Emit(a, i)
    PROVE  /\ Book!Follows(sent[i], Due(i, event[a], price[a]))
           /\ \A j \in 1..3 : Due(i, event[a], price[a]) = TargetLabel[j] =>
                 \A k \in 1..3 : j < k => TargetLabel[k] \notin sent[i]
<1> DEFINE e == Due(i, event[a], price[a])
<1>1. /\ e # "none" /\ e \in {"ENTRY", "STOP_LOSS"} \cup TargetEvents /\ e \notin sent[i]
      /\ e = "ENTRY" => status[i] = "watching"
      /\ e = "STOP_LOSS" => status[i] \in OpenStatus
  BY DueFacts DEF Emit
<1>2. pc[a] = "lifecycle" /\ (i = cur[a] \/ cur[a] = NoId)
  BY DEF Emit, Visiting
<1>3. AtRest(status[i], sent[i])
  BY <1>2, AllAtRest DEF BookInv, InScan
<1>4. event[a] # "none" => cur[a] = i /\ event[a] \in sent[i]
  BY <1>2, SetupsAssumption DEF BookInv, StoryInv, MailInv, Recorded
<1>5. status[i] \in OpenStatus =>
         "NEW_SIGNAL" \in sent[i] /\ "STOP_LOSS" \notin sent[i] /\ sent[i] \cap TargetEvents = {}
  BY <1>3 DEF AtRest, OpenStatus
<1>6. CASE e \in {"ENTRY", "STOP_LOSS"}
  <2>1. status[i] \in OpenStatus
    BY <1>1, <1>6 DEF OpenStatus
  <2>2. sent[i] \cap Book!Exits = {}
    BY <1>5, <2>1, SameEvents
  <2>3. Book!Follows(sent[i], e)
    BY <1>1, <1>5, <1>6, <2>1, <2>2 DEF Book!Follows
  <2>4. \A j \in 1..3 : e # TargetLabel[j]
    BY <1>6, SameEvents DEF TargetEvents
  <2> QED  BY <2>3, <2>4
<1>7. CASE e \in TargetEvents
  <2>1. PICK k \in 1..3 :
           /\ e = TargetLabel[k] /\ TargetLabel[k] \notin sent[i]
           /\ status[i] \in OpenStatus \/ \E j \in 1..3 : j < k /\ event[a] = TargetLabel[j]
    BY <1>7, DueTarget
  <2> HIDE DEF e
  <2>2. /\ "NEW_SIGNAL" \in sent[i] /\ "STOP_LOSS" \notin sent[i]
        /\ \A n \in 1..3 : k < n => TargetLabel[n] \notin sent[i]
    <3>1. CASE status[i] \in OpenStatus
      BY <1>5, <3>1, SameEvents
    <3>2. CASE \E j \in 1..3 : j < k /\ event[a] = TargetLabel[j]
      <4>1. PICK j \in 1..3 : j < k /\ event[a] = TargetLabel[j]
        BY <3>2
      <4>2. event[a] \in TargetEvents /\ event[a] \in sent[i] /\ cur[a] = i
        BY <1>4, <4>1, SameEvents
      <4>3. status[i] = "target"
        BY <1>3, <4>2 DEF AtRest
      <4>4. "NEW_SIGNAL" \in sent[i] /\ "STOP_LOSS" \notin sent[i]
        BY <1>3, <4>3 DEF AtRest
      <4>5. \A n \in 1..3 : j < n => TargetLabel[n] \notin sent[i]
        BY <4>1, <4>2 DEF BookInv, InTurn
      <4>6. \A n \in 1..3 : k < n => j < n
        BY <4>1
      <4> QED  BY <4>4, <4>5, <4>6
    <3> QED  BY <2>1, <3>1, <3>2
  <2>3. \A n \in k..3 : n \in 1..3 /\ (n = k \/ k < n)
    OBVIOUS
  <2>4. \A n \in k..3 : TargetLabel[n] \notin sent[i]
    BY <2>1, <2>2, <2>3
  <2>5. Book!Follows(sent[i], e)
    BY <2>1, <2>2, <2>4, SameEvents DEF Book!Follows
  <2>6. \A j \in 1..3 : e = TargetLabel[j] => j = k
    BY <2>1, SameEvents
  <2> QED  BY <2>2, <2>5, <2>6 DEF e
<1> QED  BY <1>1, <1>6, <1>7

\* Steps that leave the events and the evaluation alone keep the order.
LEMMA QuietTurn ==
    ASSUME InTurn, UNCHANGED <<sent, cur, event>>,
           \A a \in Scanners : pc'[a] \notin {"lifecycle", "sending"} =>
               pc[a] \notin {"lifecycle", "sending"} \/ event[a] = "none"
    PROVE  InTurn'
BY DEF InTurn

\* ... and leave the book alone, if no mail comes or goes.
LEMMA QuietBook ==
    ASSUME UNCHANGED <<sent, disk, delivered, cur, event>>,
           \A a \in Scanners : pc'[a] = "sending" <=> pc[a] = "sending"
    PROVE  UNCHANGED Book!bookVars
<1>1. UNCHANGED Flying
  BY DEF Flying
<1> QED  BY <1>1 DEF Book!bookVars

\* A scanner that gives the lock back has no evaluation under way, nor has another.
LEMMA ReleaseTurn ==
    ASSUME BookInv, NEW a \in Scanners, pc[a] \in {"granted", "market"}, Release(a),
           UNCHANGED <<sent, cur, event>>
    PROVE  /\ InTurn'
           /\ \A b \in Scanners : pc[b] # "sending" /\ pc'[b] # "sending"
<1>1. \A b \in Scanners : pc[b] \notin {"lifecycle", "sending"}
  BY DEF BookInv, StoryInv, Exclusive, InScan
<1>2. \A b \in Scanners : pc'[b] \in {"idle", "granted"} \/ pc'[b] = pc[b]
  BY ReleaseType DEF BookInv, StoryInv, MailInv
<1>3. InTurn'
  BY <1>1, QuietTurn DEF BookInv
<1> QED  BY <1>1, <1>2, <1>3

\* A scanner that tells an alert its next event tells it to the book.
LEMMA TellStep ==
    ASSUME BookInv, NEW a \in Scanners, NEW i \in SetupIds, NEW e \in Events,
           InScan(a), pc[a] # "sending", Book!Follows(sent[i], e),
           \A j \in 1..3 : e = TargetLabel[j] =>
               \A k \in 1..3 : j < k => TargetLabel[k] \notin sent[i],
           sent' = [sent EXCEPT ![i] = @ \cup {e}], pc' = [pc EXCEPT ![a] = "sending"],
           cur' = [cur EXCEPT ![a] = i], event' = [event EXCEPT ![a] = e],
           UNCHANGED <<disk, delivered>>
    PROVE  InTurn' /\ Book!Next
<1>1. /\ sent \in [SetupIds -> SUBSET Events]
      /\ pc \in [Scanners -> {"idle", "waiting", "granted", "market",
                              "signal", "lifecycle", "sending"}]
      /\ cur \in [Scanners -> SetupIds \cup {NoId}]
      /\ event \in [Scanners -> Events \cup {"none"}]
  BY DEF BookInv, StoryInv, MailInv, TypeInv, TypeOK
<1>2. /\ pc'[a] = "sending" /\ cur'[a] = i /\ event'[a] = e /\ sent'[i] = sent[i] \cup {e}
      /\ \A b \in Scanners \ {a} : pc'[b] = pc[b] /\ cur'[b] = cur[b] /\ event'[b] = event[b]
  BY <1>1
<1>3. \A b \in Scanners \ {a} : pc[b] \notin {"lifecycle", "sending"} /\ event[b] = "none"
  BY DEF BookInv, InTurn, StoryInv, Exclusive, InScan
<1>4. Flying = {}
  BY AllAtRest DEF BookInv
<1>5. Flying' = {<<i, e>>}
  <2>1. {b \in Scanners : pc'[b] = "sending"} = {a}
    BY <1>2, <1>3
  <2> QED  BY <1>2, <2>1 DEF Flying
<1>6. Book!Tell(i, e)
  BY <1>4, <1>5 DEF Book!Tell
<1>7. Book!Next
  BY <1>6, SameEvents DEF Book!Next
<1>8. ASSUME NEW b \in Scanners
      PROVE  /\ pc'[b] \notin {"lifecycle", "sending"} => event'[b] = "none"
             /\ \A j \in 1..3 : event'[b] = TargetLabel[j] =>
                   \A k \in 1..3 : j < k => TargetLabel[k] \notin sent'[cur'[b]]
  <2>1. CASE b = a
    <3>1. \A j, k \in 1..3 : e = TargetLabel[j] /\ j < k => TargetLabel[k] # e
      BY SameEvents
    <3> QED  BY <1>2, <2>1, <3>1
  <2>2. CASE b # a
    <3>1. event'[b] = "none"
      BY <1>2, <1>3, <2>2
    <3>2. \A j \in 1..3 : TargetLabel[j] # "none"
      BY SameEvents
    <3> QED  BY <3>1, <3>2
  <2> QED  BY <2>1, <2>2
<1>9. InTurn'
  BY <1>8 DEF InTurn
<1> QED  BY <1>7, <1>9

\* A signal opens the page of its alert.
LEMMA SignalStep ==
    ASSUME BookInv, NEW a \in Scanners, NEW i \in SetupIds, SignalNew(a, i)
    PROVE  InTurn' /\ Book!Next
<1>1. pc[a] = "signal" /\ status[i] = "untracked"
  BY DEF SignalNew, FreshListed
<1>2. sent[i] = {}
  BY <1>1 DEF BookInv, StoryInv, MailInv, NothingUntracked
<1>3. Book!Follows(sent[i], "NEW_SIGNAL")
  BY <1>2 DEF Book!Follows
<1>4. sent' = [sent EXCEPT ![i] = sent[i] \cup {"NEW_SIGNAL"}]
  BY <1>2 DEF SignalNew
<1>5. \A j \in 1..3 : "NEW_SIGNAL" # TargetLabel[j]
  BY SameEvents
<1>6. "NEW_SIGNAL" \in Events /\ InScan(a) /\ pc[a] # "sending"
  BY <1>1 DEF Events, InScan
<1> QED  BY <1>3, <1>4, <1>5, <1>6, TellStep DEF SignalNew

\* An event of the trade goes on its page.
LEMMA EmitStep ==
    ASSUME BookInv, NEW a \in Scanners, NEW i \in SetupIds, Emit(a, i)
    PROVE  InTurn' /\ Book!Next
<1> DEFINE e == Due(i, event[a], price[a])
<1>1. /\ sent' = [sent EXCEPT ![i] = sent[i] \cup {e}] /\ pc' = [pc EXCEPT ![a] = "sending"]
      /\ cur' = [cur EXCEPT ![a] = i] /\ event' = [event EXCEPT ![a] = e]
      /\ UNCHANGED <<disk, delivered>> /\ pc[a] = "lifecycle"
  BY DEF Emit, Visiting
<1>2. e \in Events
  BY DueFacts DEF Emit, Events
<1>3. /\ Book!Follows(sent[i], e)
      /\ \A j \in 1..3 : e = TargetLabel[j] => \A k \in 1..3 : j < k => TargetLabel[k] \notin sent[i]
  BY EmitFollows
<1>4. InScan(a) /\ pc[a] # "sending"
  BY <1>1 DEF InScan
<1> HIDE DEF e
<1> QED  BY <1>1, <1>2, <1>3, <1>4, TellStep

\* A mail that returns has landed or is lost.
LEMMA ReturnStep ==
    ASSUME BookInv, NEW a \in Scanners, SendReturns(a)
    PROVE  InTurn' /\ Book!Next
<1>1. /\ pc[a] = "sending" /\ UNCHANGED <<sent, disk>>
      /\ delivered' \in {delivered, [delivered EXCEPT ![cur[a]][event[a]] = @ + 1]}
      /\ \/ /\ pc' = [pc EXCEPT ![a] = "signal"]
            /\ cur' = [cur EXCEPT ![a] = NoId] /\ event' = [event EXCEPT ![a] = "none"]
         \/ /\ pc' = [pc EXCEPT ![a] = "lifecycle"]
            /\ UNCHANGED <<cur, event>>
  BY DEF SendReturns
<1>2. /\ pc \in [Scanners -> {"idle", "waiting", "granted", "market",
                              "signal", "lifecycle", "sending"}]
      /\ event \in [Scanners -> Events \cup {"none"}]
      /\ cur \in [Scanners -> SetupIds \cup {NoId}]
  BY DEF BookInv, StoryInv, MailInv, TypeInv, TypeOK
<1>3. \A b \in Scanners \ {a} : pc[b] \notin {"lifecycle", "sending"} /\ event[b] = "none"
  BY <1>1 DEF BookInv, InTurn, StoryInv, Exclusive, InScan
<1>4. event[a] \in Events /\ cur[a] \in SetupIds
  <2>1. event[a] # "none"
    BY <1>1 DEF BookInv, StoryInv, MailInv, FirstInLife
  <2> QED  BY <1>2, <2>1 DEF BookInv, StoryInv, MailInv, Recorded
<1>5. Flying = {<<cur[a], event[a]>>}
  <2>1. {b \in Scanners : pc[b] = "sending"} = {a}
    BY <1>1, <1>3
  <2> QED  BY <2>1 DEF Flying
<1>6. Flying' = {}
  <2>1. \A b \in Scanners : pc'[b] # "sending"
    BY <1>1, <1>2, <1>3
  <2> QED  BY <2>1 DEF Flying
<1>7. Book!Land(cur[a], event[a])
  BY <1>1, <1>5, <1>6 DEF Book!Land
<1>8. Book!Next
  BY <1>4, <1>7, SameEvents DEF Book!Next
<1>9. InTurn'
  <2>1. CASE pc' = [pc EXCEPT ![a] = "lifecycle"] /\ UNCHANGED <<cur, event>>
    BY <1>1, <1>2, <1>3, <2>1, QuietTurn DEF BookInv
  <2>2. CASE /\ pc' = [pc EXCEPT ![a] = "signal"]
             /\ cur' = [cur EXCEPT ![a] = NoId] /\ event' = [event EXCEPT ![a] = "none"]
    <3>1. \A b \in Scanners : event'[b] = "none"
      BY <1>2, <1>3, <2>2
    <3>2. \A j \in 1..3 : TargetLabel[j] # "none"
      BY SameEvents
    <3> QED  BY <3>1, <3>2 DEF InTurn
  <2> QED  BY <1>1, <2>1, <2>2
<1> QED  BY <1>8, <1>9

\* A process that dies turns the book back to the file, or to nothing if it died writing.
LEMMA CrashStep == ASSUME BookInv, Crash PROVE InTurn' /\ Book!Next
<1>1. /\ disk' = disk \/ ((\E a \in Scanners : Saving(a)) /\ disk' = NoAlerts)
      /\ sent' = disk'.sent /\ delivered' = delivered
      /\ pc' = [a \in Scanners |-> "idle"] /\ event' = [a \in Scanners |-> "none"]
  BY DEF Crash
<1>2. Flying' = {}
  BY <1>1 DEF Flying
<1>3. ASSUME NEW a \in Scanners, Saving(a) PROVE Flying = {}
  BY <1>3, AllAtRest DEF BookInv, Saving, InScan
<1>4. NoAlerts.sent = Book!Blank
  BY DEF NoAlerts, Book!Blank
<1>5. disk'.sent = disk.sent \/ (Flying = {} /\ disk'.sent = Book!Blank)
  BY <1>1, <1>3, <1>4
<1>6. Book!Die
  BY <1>1, <1>2, <1>5 DEF Book!Die
<1>7. \A j \in 1..3 : TargetLabel[j] # "none"
  BY SameEvents
<1>8. InTurn'
  BY <1>1, <1>7 DEF InTurn
<1> QED  BY <1>6, <1>8 DEF Book!Next

\* Every step of the scanner is a step of the book or leaves it alone.
LEMMA NextBook == BookInv /\ [Next]_vars => InTurn' /\ [Book!Next]_(Book!bookVars)
<1> SUFFICES ASSUME BookInv, [Next]_vars PROVE InTurn' /\ [Book!Next]_(Book!bookVars)
  OBVIOUS
<1> DEFINE Goal == InTurn' /\ [Book!Next]_(Book!bookVars)
<1>t. /\ pc \in [Scanners -> {"idle", "waiting", "granted", "market",
                              "signal", "lifecycle", "sending"}]
      /\ event \in [Scanners -> Events \cup {"none"}]
  BY DEF BookInv, StoryInv, MailInv, TypeInv, TypeOK
\* Steps of a scanner that neither start nor end an evaluation.
<1>q. ASSUME NEW a \in Scanners, NEW where \in {"idle", "waiting", "granted", "market", "signal", "lifecycle"},
             pc[a] # "sending", pc' = [pc EXCEPT ![a] = where],
             pc[a] = "lifecycle" => event[a] = "none",
             UNCHANGED <<sent, disk, delivered, cur, event>>
      PROVE  Goal
  <2>1. InTurn'
    BY <1>q, <1>t, QuietTurn DEF BookInv
  <2>2. UNCHANGED Book!bookVars
    BY <1>q, <1>t, QuietBook
  <2> QED  BY <2>1, <2>2
<1>1. ASSUME NEW a \in Scanners, RequestScan(a) PROVE Goal
  <2>1. /\ pc[a] = "idle" /\ UNCHANGED <<sent, disk, delivered, cur, event>>
        /\ pc' = [pc EXCEPT ![a] = "granted"] \/ pc' = [pc EXCEPT ![a] = "waiting"]
    BY <1>1 DEF RequestScan, store
  <2> QED  BY <1>q, <2>1
<1>2. ASSUME NEW a \in Scanners, StartScan(a) PROVE Goal
  <2>1. pc[a] = "granted" /\ pc' = [pc EXCEPT ![a] = "market"]
        /\ UNCHANGED <<sent, disk, delivered, cur, event>>
    BY <1>2 DEF StartScan, store
  <2> QED  BY <1>q, <2>1
<1>3. ASSUME NEW a \in Scanners, SkipScan(a) PROVE Goal
  <2>1. pc[a] = "granted" /\ Release(a) /\ UNCHANGED <<sent, disk, delivered, cur, event>>
    BY <1>3 DEF SkipScan, store
  <2>2. InTurn' /\ \A b \in Scanners : pc[b] # "sending" /\ pc'[b] # "sending"
    BY <2>1, ReleaseTurn
  <2> QED  BY <2>1, <2>2, QuietBook
<1>4. ASSUME NEW a \in Scanners, ScanMarket(a) PROVE Goal
  <2>1. pc[a] = "market" /\ pc' = [pc EXCEPT ![a] = "signal"]
        /\ UNCHANGED <<sent, disk, delivered, cur, event>>
    BY <1>4 DEF ScanMarket, store
  <2> QED  BY <1>q, <2>1
<1>5. ASSUME NEW a \in Scanners, MarketFails(a) PROVE Goal
  <2>1. UNCHANGED <<sent, disk, delivered, cur, event, pc>>
    BY <1>5 DEF MarketFails, store
  <2>2. InTurn'
    BY <2>1, QuietTurn DEF BookInv
  <2> QED  BY <2>1, <2>2, QuietBook
<1>6. ASSUME NEW a \in Scanners, NEW i \in SetupIds, SignalNew(a, i) PROVE Goal
  BY <1>6, SignalStep
<1>7. ASSUME NEW a \in Scanners, StartLifecycle(a) PROVE Goal
  <2>1. pc[a] = "signal" /\ pc' = [pc EXCEPT ![a] = "lifecycle"]
        /\ UNCHANGED <<sent, disk, delivered, cur, event>>
    BY <1>7 DEF StartLifecycle, store
  <2> QED  BY <1>q, <2>1
<1>8. ASSUME NEW a \in Scanners, NEW i \in SetupIds, Emit(a, i) PROVE Goal
  BY <1>8, EmitStep
<1>9. ASSUME NEW a \in Scanners, SendReturns(a) PROVE Goal
  BY <1>9, ReturnStep
<1>10. ASSUME NEW a \in Scanners, NEW i \in SetupIds, CloseAlert(a, i) PROVE Goal
  <2>1. /\ pc[a] = "lifecycle" /\ UNCHANGED <<sent, disk, delivered, pc>>
        /\ event' = [event EXCEPT ![a] = "none"]
    BY <1>10 DEF CloseAlert, Visiting, store
  <2>2. \A b \in Scanners \ {a} : pc[b] \notin {"lifecycle", "sending"} /\ event[b] = "none"
    BY <2>1 DEF BookInv, InTurn, StoryInv, Exclusive, InScan
  <2>3. \A b \in Scanners : event'[b] = "none"
    BY <1>t, <2>1, <2>2
  <2>4. \A j \in 1..3 : TargetLabel[j] # "none"
    BY SameEvents
  <2>5. InTurn'
    BY <2>3, <2>4 DEF InTurn
  <2>6. {b \in Scanners : pc[b] = "sending"} = {} /\ {b \in Scanners : pc'[b] = "sending"} = {}
    BY <2>1, <2>2
  <2>7. Flying = {} /\ Flying' = {}
    BY <2>6 DEF Flying
  <2>8. UNCHANGED Book!bookVars
    BY <2>1, <2>7 DEF Book!bookVars
  <2> QED  BY <2>5, <2>8
<1>11. ASSUME NEW a \in Scanners, NextMarket(a) PROVE Goal
  <2>1. pc[a] = "lifecycle" /\ cur[a] = NoId /\ pc' = [pc EXCEPT ![a] = "market"]
        /\ UNCHANGED <<sent, disk, delivered, cur, event>>
    BY <1>11 DEF NextMarket, MarketDone, store
  <2>2. event[a] = "none"
    BY <2>1, SetupsAssumption DEF BookInv, StoryInv, MailInv, Recorded
  <2> QED  BY <1>q, <2>1, <2>2
<1>12. ASSUME NEW a \in Scanners, Save(a) PROVE Goal
  <2>1. pc[a] = "market" /\ Release(a) /\ UNCHANGED <<sent, delivered, cur, event>>
        /\ disk'.sent = sent
    BY <1>12 DEF Save, Saving, store
  <2>2. InTurn' /\ \A b \in Scanners : pc[b] # "sending" /\ pc'[b] # "sending"
    BY <2>1, ReleaseTurn
  <2>3. Flying = {} /\ Flying' = {}
    BY <2>2 DEF Flying
  <2>4. Book!Keep
    BY <2>1, <2>3 DEF Book!Keep
  <2> QED  BY <2>2, <2>4 DEF Book!Next
<1>13. ASSUME NEW a \in Scanners, SaveFails(a) PROVE Goal
  <2>1. pc[a] = "market" /\ Release(a) /\ UNCHANGED <<sent, delivered, cur, event>>
        /\ (disk' = disk \/ disk' = NoAlerts)
    BY <1>13 DEF SaveFails, Saving, store
  <2>2. InTurn' /\ \A b \in Scanners : pc[b] # "sending" /\ pc'[b] # "sending"
    BY <2>1, ReleaseTurn
  <2>3. CASE disk' = disk
    BY <2>1, <2>2, <2>3, QuietBook
  <2>4. CASE disk' = NoAlerts
    <3>1. disk'.sent = Book!Blank
      BY <2>4 DEF NoAlerts, Book!Blank
    <3>2. Flying = {} /\ Flying' = {}
      BY <2>2 DEF Flying
    <3>3. Book!Keep
      BY <2>1, <3>1, <3>2 DEF Book!Keep
    <3> QED  BY <2>2, <3>3 DEF Book!Next
  <2> QED  BY <2>1, <2>3, <2>4
<1>14. ASSUME Crash PROVE Goal
  BY <1>14, CrashStep
<1>15. ASSUME UNCHANGED vars PROVE Goal
  <2>1. UNCHANGED <<sent, disk, delivered, cur, event, pc>>
    BY <1>15 DEF vars, local, store
  <2>2. InTurn'
    BY <2>1, QuietTurn DEF BookInv
  <2> QED  BY <2>1, <2>2, QuietBook
<1> HIDE DEF Goal
<1>16. Goal
  BY <1>1, <1>2, <1>3, <1>4, <1>5, <1>6, <1>7, <1>8, <1>9, <1>10, <1>11, <1>12,
     <1>13, <1>14, <1>15 DEF Next, ScanStep
<1> QED  BY <1>16 DEF Goal

\* The loop, the endpoint, the lock, lost mails, failed saves and deaths together behave as
\* the book says: events come in the order of a trade, one mail at a time, none twice in a
\* life, and a restart goes on from a copy made at rest (KeepsTheBook).
THEOREM BookIsKept == Spec => KeepsTheBook
<1>1. Init => Book!Init
  <2> SUFFICES ASSUME Init PROVE Book!Init
    OBVIOUS
  <2>1. sent = Book!Blank /\ disk.sent = Book!Blank
    BY DEF Init, NoAlerts, Book!Blank
  <2>2. delivered = [i \in SetupIds |-> [e \in Book!Events |-> 0]]
    BY SameEvents DEF Init
  <2>3. Flying = {}
    BY DEF Init, Flying
  <2> QED  BY <2>1, <2>2, <2>3 DEF Book!Init
<1>2. Init => BookInv
  <2>1. Init => InTurn
    <3>1. \A j \in 1..3 : TargetLabel[j] # "none"
      BY SameEvents
    <3> QED  BY <3>1 DEF Init, InTurn
  <2> QED  BY <2>1, InitStory DEF BookInv
<1>3. BookInv /\ [Next]_vars => BookInv'
  BY NextBook, NextStory DEF BookInv
<1> QED  BY <1>1, <1>2, <1>3, NextBook, PTL DEF Spec, KeepsTheBook, Book!Spec

=============================================================================
