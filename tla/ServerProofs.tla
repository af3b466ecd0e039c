---------------------------- MODULE ServerProofs ----------------------------
(***************************************************************************)
(* Theorems about the server's shared state: order placement, for any      *)
(* finite set of requests, any limits and any settings; and the candle and *)
(* analysis tables, for any set of concurrent requests, any number of      *)
(* bars, any closes, parameters and candle_limit.                          *)
(***************************************************************************)
EXTENDS OrderExecution, CandleStore, SequenceTheorems, FiniteSetTheorems, TLAPS

PC == {"idle", "queued", "login", "post"}

-----------------------------------------------------------------------------
(* The parts of the state that every order goes through.                   *)

\* The risk state stays well typed when the day rolls.
LEMMA RiskTypes ==
    ASSUME TypeOK
    PROVE  RolledOrders \in Nat /\ today \in Days /\ day \in Days
BY DEF TypeOK, RolledOrders

\* What ensure_session may do to the lock, its queue and the request.
LEMMA EnsureSessionType ==
    ASSUME TypeOK, NEW r \in Requests, NEW force, EnsureSession(r, force)
    PROVE  /\ lock' \in Requests \cup {NoOne}
           /\ queue' \in Seq(Requests)
           /\ pc' \in [Requests -> PC]
           /\ pc'[r] # "idle"
           /\ \A s \in Requests \ {r} : pc'[s] = pc[s]
<1>1. CASE LockFree
  BY <1>1 DEF EnsureSession, InsideLock, TypeOK, PC
<1>2. CASE ~LockFree
  <2>1. Append(queue, r) \in Seq(Requests)
    BY AppendProperties DEF TypeOK
  <2> QED  BY <1>2, <2>1 DEF EnsureSession, TypeOK, PC
<1> QED  BY <1>1, <1>2

\* The exchange counts orders.
LEMMA ExchangeType ==
    ASSUME TypeOK, NEW r \in Requests, NEW n \in {0, 1}, ExchangeTakes(r, n)
    PROVE  placed' \in [Days -> Nat] /\ placedBy' \in [Requests -> Nat]
<1>1. /\ placed \in [Days -> Nat] /\ placedBy \in [Requests -> Nat] /\ today \in Days
  BY DEF TypeOK
<1>2. placed[today] + n \in Nat /\ placedBy[r] + n \in Nat
  BY <1>1
<1> QED  BY <1>1, <1>2 DEF ExchangeTakes

\* Every step keeps the types.
LEMMA NextType == TypeOK /\ [Next]_vars => TypeOK'
<1> SUFFICES ASSUME TypeOK, [Next]_vars PROVE TypeOK'
  OBVIOUS
<1>0. RolledOrders \in Nat /\ RolledOrders + 1 \in Nat
  BY RiskTypes
<1> USE DEF TypeOK, risk, client, exchange
<1>1. ASSUME NEW on \in BOOLEAN, SetKillSwitch(on) PROVE TypeOK'
  BY <1>0, <1>1 DEF SetKillSwitch, RollDay
<1>2. CASE Status
  BY <1>0, <1>2 DEF Status, RollDay
<1>3. ASSUME NEW r \in Requests, NEW q \in Quantities, RefuseOrder(r, q) PROVE TypeOK'
  BY <1>0, <1>3 DEF RefuseOrder, RollDay
<1>4. ASSUME NEW r \in Requests, NEW q \in Quantities, PaperOrder(r, q) PROVE TypeOK'
  <2>1. paper' \in [Days -> Nat]
    BY <1>4 DEF PaperOrder
  <2> QED  BY <1>0, <1>4, <2>1 DEF PaperOrder, RecordOrder
<1>5. ASSUME NEW r \in Requests, NEW q \in Quantities, LiveOrder(r, q) PROVE TypeOK'
  <2>1. lock' \in Requests \cup {NoOne} /\ queue' \in Seq(Requests) /\ pc' \in [Requests -> PC]
    BY <1>5, EnsureSessionType DEF LiveOrder
  <2> QED  BY <1>0, <1>5, <2>1 DEF LiveOrder, RollDay, PC
<1>6. ASSUME NEW r \in Requests, TakeLock(r) PROVE TypeOK'
  <2>1. Tail(queue) \in Seq(Requests)
    BY <1>6, HeadTailProperties DEF TakeLock
  <2> QED  BY <1>6, <2>1 DEF TakeLock, InsideLock
<1>7. ASSUME NEW r \in Requests, LoginFails(r) PROVE TypeOK'
  BY <1>7 DEF LoginFails
<1>8. ASSUME NEW r \in Requests, LoginSucceeds(r) PROVE TypeOK'
  BY <1>8 DEF LoginSucceeds
<1>9. ASSUME NEW r \in Requests, PostConfirmed(r) PROVE TypeOK'
  <2>1. placed' \in [Days -> Nat] /\ placedBy' \in [Requests -> Nat]
    BY <1>9, ExchangeType DEF PostConfirmed
  <2> QED  BY <1>0, <1>9, <2>1 DEF PostConfirmed, RecordOrder
<1>10. ASSUME NEW r \in Requests, PostUnauthorised(r) PROVE TypeOK'
  <2>1. lock' \in Requests \cup {NoOne} /\ queue' \in Seq(Requests) /\ pc' \in [Requests -> PC]
    BY <1>10, EnsureSessionType DEF PostUnauthorised
  <2> QED  BY <1>10, <2>1 DEF PostUnauthorised, PC
<1>11. ASSUME NEW r \in Requests, PostFails(r) PROVE TypeOK'
  <2>1. placed' \in [Days -> Nat] /\ placedBy' \in [Requests -> Nat]
    BY <1>11, ExchangeType DEF PostFails
  <2> QED  BY <1>11, <2>1 DEF PostFails
<1>12. CASE Midnight
  BY <1>12, BoundsAssumption DEF Midnight, Days
<1>13. CASE Restart
  <2>1. PICK late \in SUBSET {r \in Requests : pc[r] = "post"} :
            placed' = [placed EXCEPT ![today] = @ + Cardinality(late)]
    BY <1>13 DEF Restart
  <2>2. Cardinality(late) \in Nat
    BY <2>1, RequestsAssumption, FS_Subset, FS_CardinalityType
  <2>3. placed' \in [Days -> Nat]
    BY <2>1, <2>2
  <2>4. <<>> \in Seq(Requests)
    OBVIOUS
  <2>5. settings' \in SettingsChoices /\ kill' \in BOOLEAN
    BY <1>13, SettingsAssumption DEF Restart
  <2>6. orders' \in Nat /\ day' \in Days /\ restarts' \in Nat /\ today' \in Days
    BY <1>13 DEF Restart
  <2>7. /\ paper' = [d \in Days |-> 0] /\ retry' = [r \in Requests |-> FALSE]
        /\ pc' = [r \in Requests |-> "idle"] /\ placedBy' = [r \in Requests |-> 0]
        /\ session' = FALSE /\ lock' = NoOne /\ queue' = <<>>
    BY <1>13 DEF Restart
  <2> QED  BY <2>3, <2>4, <2>5, <2>6, <2>7
<1>14. CASE UNCHANGED vars
  BY <1>14 DEF vars
<1> QED
  BY <1>1, <1>2, <1>3, <1>4, <1>5, <1>6, <1>7, <1>8, <1>9, <1>10, <1>11, <1>12,
     <1>13, <1>14 DEF Next, Progress

\* The path starts well typed.
LEMMA InitType == Init => TypeOK
<1> SUFFICES ASSUME Init PROVE TypeOK
  OBVIOUS
<1>1. <<>> \in Seq(Requests) /\ 0 \in Days
  BY BoundsAssumption DEF Days
<1>2. settings \in SettingsChoices /\ kill \in BOOLEAN
  BY SettingsAssumption DEF Init
<1> QED  BY <1>1, <1>2 DEF Init, TypeOK

\* Every reachable state of the order path is well typed.
THEOREM TypeCorrect == Spec => []TypeOK
BY InitType, NextType, PTL DEF Spec

-----------------------------------------------------------------------------
(* The daily cap.                                                          *)

\* There are only finitely many admitted requests to count.
LEMMA AdmittedFinite ==
    /\ IsFiniteSet(Admitted)
    /\ Cardinality(Admitted) \in Nat
    /\ Cardinality(Admitted) <= Cardinality(Requests)
    /\ Cardinality(Requests) \in Nat \ {0}
<1>1. Admitted \subseteq Requests
  BY DEF Admitted
<1>2. Cardinality(Requests) \in Nat /\ Cardinality(Requests) # 0
  BY RequestsAssumption, FS_CardinalityType, FS_EmptySet
<1> QED
  BY <1>1, <1>2, RequestsAssumption, FS_Subset, FS_CardinalityType

\* A request is settled: the admitted ones are one fewer.
LEMMA SettledCount ==
    ASSUME NEW r \in Requests, pc[r] # "idle", Admitted' = Admitted \ {r}
    PROVE  Cardinality(Admitted') = Cardinality(Admitted) - 1
BY AdmittedFinite, FS_RemoveElement DEF Admitted

\* A request is admitted: one more, and all of them still fit.
LEMMA AdmittedCount ==
    ASSUME NEW r \in Requests, pc[r] = "idle", Admitted' = Admitted \cup {r}
    PROVE  /\ Cardinality(Admitted') = Cardinality(Admitted) + 1
           /\ Cardinality(Admitted') <= Cardinality(Requests)
<1>1. r \notin Admitted
  BY DEF Admitted
<1>2. Cardinality(Admitted \cup {r}) = Cardinality(Admitted) + 1
  BY <1>1, AdmittedFinite, FS_AddElement
<1>3. Admitted \cup {r} \subseteq Requests
  BY DEF Admitted
<1> QED
  BY <1>2, <1>3, RequestsAssumption, FS_Subset

\* Nothing is admitted under a cap of zero, which is what makes the bound survive
\* a roll of the day: the counter restarts while old requests are in progress.
CapInv == TypeOK /\ Overshoot /\ (Admitted # {} => MaxOrders >= 1)

\* The bound survives a day that rolls.
LEMMA RollCap ==
    ASSUME CapInv
    PROVE  RolledOrders + Cardinality(Admitted) < MaxOrders + Cardinality(Requests)
<1>1. orders \in Nat /\ MaxOrders \in Nat
  BY LimitsAssumption DEF CapInv, TypeOK
<1>2. CASE today = day
  BY <1>2 DEF CapInv, Overshoot, RolledOrders
<1>3. CASE today # day /\ Admitted = {}
  BY <1>1, <1>3, AdmittedFinite, FS_EmptySet DEF RolledOrders
<1>4. CASE today # day /\ Admitted # {}
  BY <1>1, <1>4, AdmittedFinite DEF RolledOrders, CapInv
<1> QED  BY <1>2, <1>3, <1>4

\* Every step keeps the bound on the counter.
LEMMA NextCap == CapInv /\ [Next]_vars => CapInv'
<1> SUFFICES ASSUME CapInv, [Next]_vars PROVE CapInv'
  OBVIOUS
<1>0. TypeOK /\ TypeOK'
  BY NextType DEF CapInv
<1>t. /\ orders \in Nat /\ RolledOrders \in Nat /\ MaxOrders \in Nat
      /\ pc \in [Requests -> PC]
  BY <1>0, RiskTypes, LimitsAssumption DEF TypeOK, PC
<1>c. RolledOrders + Cardinality(Admitted) < MaxOrders + Cardinality(Requests)
  BY RollCap
<1> USE DEF risk, client, exchange
\* Steps after which the counter is as it was or rolled, and nobody is admitted.
<1>q. ASSUME pc' = pc, orders' = orders \/ orders' = RolledOrders PROVE CapInv'
  <2>1. Admitted' = Admitted
    BY <1>q DEF Admitted
  <2> QED  BY <1>0, <1>c, <1>q, <2>1 DEF CapInv, Overshoot
\* Steps that settle or keep a request and leave the counter alone.
<1>s. ASSUME NEW r \in Requests, pc[r] # "idle", orders' = orders,
             \A s \in Requests \ {r} : pc'[s] = pc[s]
      PROVE CapInv'
  <2>1. CASE pc'[r] # "idle"
    <3>1. Admitted' = Admitted
      BY <1>s, <2>1 DEF Admitted
    <3> QED  BY <1>0, <1>s, <3>1 DEF CapInv, Overshoot
  <2>2. CASE pc'[r] = "idle"
    <3>1. Admitted' = Admitted \ {r}
      BY <1>s, <2>2 DEF Admitted
    <3>2. Cardinality(Admitted') = Cardinality(Admitted) - 1
      BY <1>s, <3>1, SettledCount
    <3> QED  BY <1>0, <1>s, <1>t, <3>1, <3>2, AdmittedFinite DEF CapInv, Overshoot
  <2> QED  BY <2>1, <2>2
<1>1. ASSUME NEW on \in BOOLEAN, SetKillSwitch(on) PROVE CapInv'
  BY <1>1, <1>q DEF SetKillSwitch, RollDay
<1>2. CASE Status
  BY <1>2, <1>q DEF Status, RollDay
<1>3. ASSUME NEW r \in Requests, NEW q \in Quantities, RefuseOrder(r, q) PROVE CapInv'
  BY <1>3, <1>q DEF RefuseOrder, RollDay
<1>4. ASSUME NEW r \in Requests, NEW q \in Quantities, PaperOrder(r, q) PROVE CapInv'
  <2>1. Admitted' = Admitted /\ r \notin Admitted
    BY <1>4 DEF PaperOrder, Admitted
  <2>2. orders' = RolledOrders + 1 /\ RolledOrders < MaxOrders
    BY <1>4 DEF PaperOrder, RecordOrder, Admits
  <2>3. Cardinality(Admitted) + 1 <= Cardinality(Requests)
    <3>1. Cardinality(Admitted \cup {r}) = Cardinality(Admitted) + 1
      BY <2>1, AdmittedFinite, FS_AddElement
    <3>2. Admitted \cup {r} \subseteq Requests
      BY DEF Admitted
    <3> QED  BY <3>1, <3>2, RequestsAssumption, FS_Subset
  <2> QED
    BY <1>0, <1>t, <2>1, <2>2, <2>3, AdmittedFinite DEF CapInv, Overshoot
<1>5. ASSUME NEW r \in Requests, NEW q \in Quantities, LiveOrder(r, q) PROVE CapInv'
  <2>1. /\ pc[r] = "idle" /\ pc'[r] # "idle"
        /\ \A s \in Requests \ {r} : pc'[s] = pc[s]
        /\ orders' = RolledOrders /\ RolledOrders < MaxOrders
    BY <1>0, <1>5, EnsureSessionType DEF LiveOrder, RollDay, Admits
  <2>2. Admitted' = Admitted \cup {r}
    BY <2>1 DEF Admitted
  <2>3. Cardinality(Admitted') <= Cardinality(Requests)
    BY <2>1, <2>2, AdmittedCount
  <2>4. Cardinality(Admitted') \in Nat
    <3>1. Cardinality(Admitted') = Cardinality(Admitted) + 1
      BY <2>1, <2>2, AdmittedCount
    <3>2. Cardinality(Admitted) \in Nat
      BY AdmittedFinite
    <3> QED  BY <3>1, <3>2
  <2> QED
    BY <1>0, <1>t, <2>1, <2>3, <2>4, AdmittedFinite DEF CapInv, Overshoot
<1>6. ASSUME NEW r \in Requests, TakeLock(r) PROVE CapInv'
  BY <1>6, <1>s, <1>t DEF TakeLock, InsideLock
<1>7. ASSUME NEW r \in Requests, LoginFails(r) PROVE CapInv'
  BY <1>7, <1>s, <1>t DEF LoginFails
<1>8. ASSUME NEW r \in Requests, LoginSucceeds(r) PROVE CapInv'
  BY <1>8, <1>s, <1>t DEF LoginSucceeds
<1>9. ASSUME NEW r \in Requests, PostConfirmed(r) PROVE CapInv'
  <2>1. Admitted' = Admitted \ {r} /\ pc[r] # "idle"
    BY <1>9, <1>t DEF PostConfirmed, Admitted
  <2>2. Cardinality(Admitted') = Cardinality(Admitted) - 1
    BY <2>1, SettledCount
  <2>3. orders' = RolledOrders + 1
    BY <1>9 DEF PostConfirmed, RecordOrder
  <2> QED
    BY <1>0, <1>c, <1>t, <2>1, <2>2, <2>3, AdmittedFinite DEF CapInv, Overshoot
<1>10. ASSUME NEW r \in Requests, PostUnauthorised(r) PROVE CapInv'
  BY <1>0, <1>10, <1>s, EnsureSessionType DEF PostUnauthorised
<1>11. ASSUME NEW r \in Requests, PostFails(r) PROVE CapInv'
  BY <1>11, <1>s, <1>t DEF PostFails
<1>12. CASE Midnight
  BY <1>12, <1>q DEF Midnight
<1>13. CASE Restart
  <2>1. Admitted' = {} /\ orders' = 0
    BY <1>13 DEF Restart, Admitted
  <2>2. Cardinality(Admitted') = 0
    BY <2>1, FS_EmptySet
  <2> QED  BY <1>0, <1>t, <2>1, <2>2, AdmittedFinite DEF CapInv, Overshoot
<1>14. CASE UNCHANGED vars
  BY <1>14, <1>q DEF vars
<1> QED
  BY <1>1, <1>2, <1>3, <1>4, <1>5, <1>6, <1>7, <1>8, <1>9, <1>10, <1>11, <1>12,
     <1>13, <1>14 DEF Next, Progress

\* No order has been counted at first.
LEMMA InitCap == Init => CapInv
<1> SUFFICES ASSUME Init PROVE CapInv
  OBVIOUS
<1>1. Admitted = {} /\ Cardinality(Admitted) = 0
  BY FS_EmptySet DEF Init, Admitted
<1> QED
  BY <1>1, InitType, AdmittedFinite, LimitsAssumption DEF Init, CapInv, Overshoot

\* However requests interleave with logins, answers, midnights and restarts, the
\* counted orders exceed the cap by less than the number of concurrent requests.
THEOREM CapOvershoot == Spec => []Overshoot
<1>1. CapInv => Overshoot  BY DEF CapInv
<1> QED  BY InitCap, NextCap, <1>1, PTL DEF Spec

-----------------------------------------------------------------------------
(* One request, one order.                                                 *)

\* Until the last answer of a request, the exchange has no order of it.
OnceInv ==
    /\ TypeOK
    /\ OneOrderPerRequest
    /\ \A r \in Requests : pc[r] # "idle" => placedBy[r] = 0

\* Every step keeps an unsettled request without an order.
LEMMA NextOnce == OnceInv /\ [Next]_vars => OnceInv'
<1> SUFFICES ASSUME OnceInv, [Next]_vars PROVE OnceInv'
  OBVIOUS
<1>0. TypeOK /\ TypeOK'
  BY NextType DEF OnceInv
<1>t. pc \in [Requests -> PC] /\ placedBy \in [Requests -> Nat]
  BY <1>0 DEF TypeOK, PC
<1> USE DEF risk, client, exchange
\* Steps that keep the orders of every request and admit nobody.
<1>q. ASSUME placedBy' = placedBy,
             \A s \in Requests : pc'[s] # "idle" => pc[s] # "idle"
      PROVE OnceInv'
  BY <1>0, <1>q DEF OnceInv, OneOrderPerRequest
\* The last answer of a request.
<1>a. ASSUME NEW r \in Requests, NEW n \in {0, 1}, pc[r] = "post",
             ExchangeTakes(r, n), pc' = [pc EXCEPT ![r] = "idle"]
      PROVE OnceInv'
  <2>1. placedBy' = [placedBy EXCEPT ![r] = @ + n] /\ placedBy[r] = 0
    BY <1>a DEF ExchangeTakes, OnceInv
  <2>2. placedBy'[r] <= 1 /\ \A s \in Requests \ {r} : placedBy'[s] = placedBy[s]
    BY <1>t, <2>1
  <2>3. pc'[r] = "idle" /\ \A s \in Requests \ {r} : pc'[s] = pc[s]
    BY <1>t, <1>a
  <2> QED  BY <1>0, <2>2, <2>3 DEF OnceInv, OneOrderPerRequest
<1>1. ASSUME NEW on \in BOOLEAN, SetKillSwitch(on) PROVE OnceInv'
  BY <1>1, <1>q DEF SetKillSwitch
<1>2. CASE Status
  BY <1>2, <1>q DEF Status
<1>3. ASSUME NEW r \in Requests, NEW q \in Quantities, RefuseOrder(r, q) PROVE OnceInv'
  BY <1>3, <1>q DEF RefuseOrder
<1>4. ASSUME NEW r \in Requests, NEW q \in Quantities, PaperOrder(r, q) PROVE OnceInv'
  BY <1>4, <1>q DEF PaperOrder
<1>5. ASSUME NEW r \in Requests, NEW q \in Quantities, LiveOrder(r, q) PROVE OnceInv'
  <2>1. placedBy' = [placedBy EXCEPT ![r] = 0]
    BY <1>5 DEF LiveOrder
  <2>2. \A s \in Requests \ {r} : pc'[s] = pc[s] /\ placedBy'[s] = placedBy[s]
    BY <1>0, <1>5, <1>t, <2>1, EnsureSessionType DEF LiveOrder
  <2>3. placedBy'[r] = 0
    BY <1>t, <2>1
  <2> QED  BY <1>0, <2>2, <2>3 DEF OnceInv, OneOrderPerRequest
<1>6. ASSUME NEW r \in Requests, TakeLock(r) PROVE OnceInv'
  <2>1. \A s \in Requests : pc'[s] # "idle" => pc[s] # "idle"
    BY <1>6, <1>t DEF TakeLock, InsideLock
  <2> QED  BY <1>6, <1>q, <2>1 DEF TakeLock
<1>7. ASSUME NEW r \in Requests, LoginFails(r) PROVE OnceInv'
  BY <1>7, <1>q, <1>t DEF LoginFails
<1>8. ASSUME NEW r \in Requests, LoginSucceeds(r) PROVE OnceInv'
  BY <1>8, <1>q, <1>t DEF LoginSucceeds
<1>9. ASSUME NEW r \in Requests, PostConfirmed(r) PROVE OnceInv'
  BY <1>9, <1>a DEF PostConfirmed
<1>10. ASSUME NEW r \in Requests, PostUnauthorised(r) PROVE OnceInv'
  <2>1. pc[r] # "idle" /\ \A s \in Requests \ {r} : pc'[s] = pc[s]
    BY <1>0, <1>10, EnsureSessionType DEF PostUnauthorised
  <2> QED  BY <1>10, <1>q, <2>1 DEF PostUnauthorised
<1>11. ASSUME NEW r \in Requests, PostFails(r) PROVE OnceInv'
  BY <1>11, <1>a DEF PostFails
<1>12. CASE Midnight
  BY <1>12, <1>q DEF Midnight
<1>13. CASE Restart
  BY <1>0, <1>13 DEF Restart, OnceInv, OneOrderPerRequest
<1>14. CASE UNCHANGED vars
  BY <1>14, <1>q DEF vars
<1> QED
  BY <1>1, <1>2, <1>3, <1>4, <1>5, <1>6, <1>7, <1>8, <1>9, <1>10, <1>11, <1>12,
     <1>13, <1>14 DEF Next, Progress

\* The second attempt of _secure_post follows only an answer that took no order,
\* so a request never leaves two orders at the exchange.
THEOREM OneOrder == Spec => []OneOrderPerRequest
<1>1. Init => OnceInv
  BY InitType DEF Init, OnceInv, OneOrderPerRequest
<1>2. OnceInv => OneOrderPerRequest  BY DEF OnceInv
<1> QED  BY <1>1, <1>2, NextOnce, PTL DEF Spec

-----------------------------------------------------------------------------
(* The paper book.                                                         *)

\* In paper mode nothing waits for the broker, the book has no future orders and
\* the counter is the book's count of its day.
PaperInv ==
    /\ TypeOK
    /\ day <= today
    /\ (~settings.live =>
          /\ \A r \in Requests : pc[r] = "idle"
          /\ paper[day] = orders
          /\ orders <= MaxOrders
          /\ \A d \in Days : paper[d] <= MaxOrders
          /\ \A d \in Days : d > day => paper[d] = 0)

\* Every step keeps book and counter equal in paper mode.
LEMMA NextPaper == PaperInv /\ [Next]_vars => PaperInv'
<1> SUFFICES ASSUME PaperInv, [Next]_vars PROVE PaperInv'
  OBVIOUS
<1>0. TypeOK /\ TypeOK'
  BY NextType DEF PaperInv
<1>t. /\ orders \in Nat /\ MaxOrders \in Nat /\ today \in Int /\ day \in Int
      /\ today \in Days /\ day \in Days /\ paper \in [Days -> Nat]
  <2>1. today \in Days /\ day \in Days /\ orders \in Nat /\ paper \in [Days -> Nat]
    BY <1>0 DEF TypeOK
  <2>2. \A d \in Days : d \in Int
    BY BoundsAssumption DEF Days
  <2> QED  BY <2>1, <2>2, LimitsAssumption
<1> USE DEF risk, client, exchange
\* The counter may roll; the book, the mode and the date stay.
<1>q. ASSUME UNCHANGED <<settings, today, paper>>,
             settings.live \/ pc' = pc,
             UNCHANGED <<day, orders>> \/ RollDay
      PROVE PaperInv'
  <2>1. CASE UNCHANGED <<day, orders>>
    BY <1>0, <1>q, <2>1 DEF PaperInv
  <2>2. CASE RollDay
    <3>1. day' <= today'
      BY <1>q, <1>t, <2>2 DEF RollDay
    <3>2. ASSUME ~settings.live
          PROVE  /\ \A r \in Requests : pc'[r] = "idle"
                 /\ paper[today] = RolledOrders /\ RolledOrders <= MaxOrders
                 /\ \A d \in Days : paper[d] <= MaxOrders
                 /\ \A d \in Days : d > today => paper[d] = 0
      <4>1. CASE today = day
        BY <1>q, <3>2, <4>1 DEF PaperInv, RolledOrders
      <4>2. CASE today # day
        <5>1. today > day
          BY <1>t, <4>2 DEF PaperInv
        <5>2. \A d \in Days : d > today => d > day
          BY <1>t, <5>1, BoundsAssumption DEF Days
        <5> QED
          BY <1>q, <1>t, <3>2, <4>2, <5>1, <5>2 DEF PaperInv, RolledOrders
      <4> QED  BY <4>1, <4>2
    <3> QED  BY <1>0, <1>q, <2>2, <3>1, <3>2 DEF PaperInv, RollDay
  <2> QED  BY <1>q, <2>1, <2>2
\* A step of a live request: the mode is live before and after.
<1>l. ASSUME settings.live, UNCHANGED <<settings, today>>,
             day' = day \/ day' = today
      PROVE PaperInv'
  BY <1>0, <1>l, <1>t DEF PaperInv
<1>b. \A r \in Requests : pc[r] # "idle" => settings.live
  <2>1. settings.live \in BOOLEAN
    BY <1>0, SettingsAssumption DEF TypeOK
  <2> QED  BY <2>1 DEF PaperInv
<1>1. ASSUME NEW on \in BOOLEAN, SetKillSwitch(on) PROVE PaperInv'
  BY <1>1, <1>q DEF SetKillSwitch
<1>2. CASE Status
  BY <1>2, <1>q DEF Status
<1>3. ASSUME NEW r \in Requests, NEW q \in Quantities, RefuseOrder(r, q) PROVE PaperInv'
  BY <1>3, <1>q DEF RefuseOrder
<1>4. ASSUME NEW r \in Requests, NEW q \in Quantities, PaperOrder(r, q) PROVE PaperInv'
  <2>1. /\ ~settings.live /\ RolledOrders < MaxOrders /\ RolledOrders \in Nat
        /\ paper' = [paper EXCEPT ![today] = @ + 1]
        /\ day' = today /\ orders' = RolledOrders + 1
        /\ UNCHANGED <<settings, today, pc>>
    BY <1>0, <1>4, RiskTypes DEF PaperOrder, RecordOrder, Admits
  <2>2. paper[today] = RolledOrders
    <3>1. CASE today = day
      BY <2>1, <3>1 DEF PaperInv, RolledOrders
    <3>2. CASE today # day
      <4>1. today > day
        BY <1>t, <3>2 DEF PaperInv
      <4> QED  BY <1>t, <2>1, <3>2, <4>1 DEF PaperInv, RolledOrders
    <3> QED  BY <3>1, <3>2
  <2>3. /\ paper'[today] = RolledOrders + 1
        /\ \A d \in Days \ {today} : paper'[d] = paper[d]
    BY <1>t, <2>1, <2>2
  <2>4. \A d \in Days : paper'[d] <= MaxOrders
    BY <1>t, <2>1, <2>3 DEF PaperInv
  <2>5. \A d \in Days : d > today => paper'[d] = 0
    <3>1. \A d \in Days : d > today => d > day /\ d # today
      BY <1>t, BoundsAssumption DEF PaperInv, Days
    <3> QED  BY <2>1, <2>3, <3>1 DEF PaperInv
  <2>6. RolledOrders + 1 <= MaxOrders /\ today <= today
    BY <1>t, <2>1
  <2> QED  BY <1>0, <2>1, <2>3, <2>4, <2>5, <2>6 DEF PaperInv
<1>5. ASSUME NEW r \in Requests, NEW q \in Quantities, LiveOrder(r, q) PROVE PaperInv'
  BY <1>5, <1>l DEF LiveOrder, RollDay
<1>6. ASSUME NEW r \in Requests, TakeLock(r) PROVE PaperInv'
  BY <1>6, <1>b, <1>l DEF TakeLock
<1>7. ASSUME NEW r \in Requests, LoginFails(r) PROVE PaperInv'
  BY <1>7, <1>b, <1>l DEF LoginFails
<1>8. ASSUME NEW r \in Requests, LoginSucceeds(r) PROVE PaperInv'
  BY <1>8, <1>b, <1>l DEF LoginSucceeds
<1>9. ASSUME NEW r \in Requests, PostConfirmed(r) PROVE PaperInv'
  BY <1>9, <1>b, <1>l DEF PostConfirmed, RecordOrder
<1>10. ASSUME NEW r \in Requests, PostUnauthorised(r) PROVE PaperInv'
  BY <1>10, <1>b, <1>l DEF PostUnauthorised
<1>11. ASSUME NEW r \in Requests, PostFails(r) PROVE PaperInv'
  BY <1>11, <1>b, <1>l DEF PostFails
<1>12. CASE Midnight
  BY <1>0, <1>12, <1>t DEF Midnight, PaperInv
<1>13. CASE Restart
  <2>1. /\ paper' = [d \in Days |-> 0] /\ orders' = 0 /\ day' = today /\ today' = today
        /\ pc' = [r \in Requests |-> "idle"]
    BY <1>13 DEF Restart
  <2> QED  BY <1>0, <1>t, <2>1 DEF PaperInv
<1>14. CASE UNCHANGED vars
  BY <1>14, <1>q DEF vars
<1> QED
  BY <1>1, <1>2, <1>3, <1>4, <1>5, <1>6, <1>7, <1>8, <1>9, <1>10, <1>11, <1>12,
     <1>13, <1>14 DEF Next, Progress

\* In paper mode the gate, the book and the counter move together, so the daily
\* cap is exact there, across midnights and restarts.
THEOREM PaperCap == Spec => []PaperBookCounted
<1>1. Init => PaperInv
  <2> SUFFICES ASSUME Init PROVE PaperInv
    OBVIOUS
  <2>1. 0 \in Days /\ MaxOrders \in Nat
    BY BoundsAssumption, LimitsAssumption DEF Days
  <2> QED  BY <2>1, InitType DEF Init, PaperInv
<1>2. PaperInv => PaperBookCounted  BY DEF PaperInv, PaperBookCounted
<1> QED  BY <1>1, <1>2, NextPaper, PTL DEF Spec

-----------------------------------------------------------------------------
(* The candle and analysis tables.                                         *)

-----------------------------------------------------------------------------
(* The inductive invariant.                                                *)

\* A download that asks or writes started at bar 1 or one bar before a stored one.
StartBehindStored ==
    \A w \in Workers :
        stage[w] \in {"asking", "writing"} =>
            since[w] = 1 \/ (since[w] + 1 \in Bars /\ candle[since[w] + 1] # Missing)

\* An answer has no holes after its start, and only its last bar may be forming.
AnswerWhole ==
    \A w \in Workers :
        stage[w] = "writing" =>
            \A c \in Fetched(w) :
                /\ since[w] <= c
                /\ \A b \in Bars : since[w] <= b /\ b < c => batch[w][b] = Final

\* A run that is saving alone has marked all rows of other parameters.
SavingAlone ==
    ~crossed => /\ \A v, w \in Saving : v = w
                /\ \A w \in Saving : StaleRows(params[w]) \subseteq changed[w]

IInv == StoreTypeOK /\ StartBehindStored /\ AnswerWhole /\ HistoryFinal /\ SavingAlone /\ OneParams

\* The invariant holds of the empty tables.
LEMMA InitIInv == StoreInit => IInv
<1> SUFFICES ASSUME StoreInit PROVE IInv
  OBVIOUS
<1> USE BarsAssumption DEF StoreInit, NoCandles, Bars, States, Missing, Forming, Final
<1>1. StoreTypeOK
  <2>1. last \in Bars /\ closed \in BOOLEAN
    <3>1. 1 \in Bars  OBVIOUS
    <3> QED  BY <3>1, Zenon
  <2>2. candle \in [Bars -> States] /\ row \in [Params -> [Bars -> States]]  OBVIOUS
  <2>3. stage \in [Workers -> {"idle", "asking", "writing", "computing", "saving"}]  OBVIOUS
  <2>4. since \in [Workers -> Bars] /\ batch \in [Workers -> [Bars -> States]]  OBVIOUS
  <2>5. /\ params \in [Workers -> Params \cup {NoParams}]
        /\ changed \in [Workers -> SUBSET ((Params \cup {NoParams}) \X Bars)]
    OBVIOUS
  <2>6. regressed \subseteq Bars /\ crossed \in BOOLEAN  OBVIOUS
  <2> QED  BY <2>1, <2>2, <2>3, <2>4, <2>5, <2>6 DEF StoreTypeOK
<1>2. StartBehindStored  BY DEF StartBehindStored
<1>3. AnswerWhole  BY DEF AnswerWhole
<1>4. HistoryFinal  BY DEF HistoryFinal, Stored
<1>5. SavingAlone  BY DEF SavingAlone, Saving
<1>6. OneParams  BY DEF OneParams
<1> QED  BY <1>1, <1>2, <1>3, <1>4, <1>5, <1>6 DEF IInv

-----------------------------------------------------------------------------
(* Steps that leave a table, or the requests that use it, alone.           *)

\* The candle table is unchanged and no request starts to download.
LEMMA CandlesQuiet ==
    ASSUME IInv, candle' = candle, regressed' = regressed,
           \A w \in Workers : stage'[w] \in {"asking", "writing"} =>
              stage'[w] = stage[w] /\ since'[w] = since[w] /\ batch'[w] = batch[w]
    PROVE  StartBehindStored' /\ AnswerWhole' /\ HistoryFinal'
<1>1. StartBehindStored'
  BY DEF IInv, StartBehindStored
<1>2. AnswerWhole'
  BY DEF IInv, AnswerWhole, Fetched
<1>3. HistoryFinal'
  BY DEF IInv, HistoryFinal, Stored
<1> QED  BY <1>1, <1>2, <1>3

\* The analysis rows are unchanged and no run starts to save.
LEMMA RowsQuiet ==
    ASSUME IInv, row' = row, crossed' = crossed,
           \A w \in Workers : stage'[w] = "saving" =>
              stage[w] = "saving" /\ params'[w] = params[w] /\ changed'[w] = changed[w]
    PROVE  SavingAlone' /\ OneParams'
<1>1. Saving' \subseteq Saving
  BY DEF Saving
<1>2. \A w \in Saving' : params'[w] = params[w] /\ changed'[w] = changed[w]
  BY DEF Saving
<1>3. SavingAlone'
  BY <1>1, <1>2 DEF IInv, SavingAlone, StaleRows
<1>4. OneParams'
  BY DEF IInv, OneParams
<1> QED  BY <1>3, <1>4

\* Finish: the request is idle and its other fields keep their types.
LEMMA FinishFacts ==
    ASSUME StoreTypeOK, NEW w \in Workers, Finish(w)
    PROVE  /\ stage' \in [Workers -> {"idle", "asking", "writing", "computing", "saving"}]
           /\ since' \in [Workers -> Bars]
           /\ batch' \in [Workers -> [Bars -> States]]
           /\ params' \in [Workers -> Params \cup {NoParams}]
           /\ changed' \in [Workers -> SUBSET ((Params \cup {NoParams}) \X Bars)]
           /\ stage'[w] = "idle"
           /\ \A v \in Workers \ {w} :
                 /\ stage'[v] = stage[v] /\ since'[v] = since[v] /\ batch'[v] = batch[v]
                 /\ params'[v] = params[v] /\ changed'[v] = changed[v]
<1>1. 1 \in Bars
  BY BarsAssumption DEF Bars
<1>2. NoCandles \in [Bars -> States]
  BY DEF NoCandles, States, Missing
<1> QED  BY <1>1, <1>2 DEF StoreTypeOK, Finish

-----------------------------------------------------------------------------
(* The exchange and the downloads.                                         *)

\* The exchange opens a bar or ends the session.
LEMMA ExchangeStep == IInv /\ (OpenBar \/ CloseSession) => IInv'
<1> SUFFICES ASSUME IInv, OpenBar \/ CloseSession PROVE IInv'
  OBVIOUS
<1>1. UNCHANGED <<candle, row, stage, since, batch, params, changed, regressed, crossed>>
  BY DEF OpenBar, CloseSession, work
<1>2. last' \in Bars /\ closed' \in BOOLEAN
  <2>1. last \in 1..NBars /\ closed \in BOOLEAN
    BY DEF IInv, StoreTypeOK, Bars
  <2>2. CASE OpenBar
    <3>1. last' \in 1..NBars
      BY <2>1, <2>2, BarsAssumption DEF OpenBar
    <3>2. closed' = closed
      BY <2>2 DEF OpenBar
    <3> QED  BY <2>1, <3>1, <3>2 DEF Bars
  <2>3. CASE CloseSession
    <3>1. last' = last /\ closed' = TRUE
      BY <2>3 DEF CloseSession
    <3> QED  BY <2>1, <3>1 DEF Bars
  <2> QED  BY <2>2, <2>3
<1>3. StoreTypeOK'
  BY <1>1, <1>2 DEF IInv, StoreTypeOK
<1> QED  BY <1>1, <1>3, CandlesQuiet, RowsQuiet DEF IInv

\* A download reads where to start.
LEMMA StartDownloadStep ==
    ASSUME IInv, NEW w \in Workers, StartDownload(w)
    PROVE  IInv'
<1> USE BarsAssumption DEF Bars, market
<1>1. PICK s \in 1..NBars + 1 : Starts(s) /\ since' = [since EXCEPT ![w] = s]
  BY DEF StartDownload
<1>2. s \in Bars /\ (s = 1 \/ (s + 1 \in Bars /\ candle[s + 1] # Missing))
  <2>1. CASE Stored = {} /\ s = 1
    BY <2>1
  <2>2. CASE \E b \in Stored : IsLatest(b) /\ s = IF b = 1 THEN 1 ELSE b - 1
    <3>1. PICK b \in Stored : s = IF b = 1 THEN 1 ELSE b - 1
      BY <2>2
    <3>2. b \in 1..NBars /\ candle[b] # Missing
      BY DEF Stored
    <3>3. CASE b = 1  BY <3>1, <3>2, <3>3
    <3>4. CASE b # 1
      <4>1. s = b - 1 /\ s + 1 = b
        BY <3>1, <3>2, <3>4
      <4> QED  BY <3>2, <3>4, <4>1
    <3> QED  BY <3>3, <3>4
  <2> QED  BY <1>1, <2>1, <2>2 DEF Starts
<1>3. UNCHANGED <<last, closed, candle, row, batch, params, changed, regressed, crossed>>
  BY DEF StartDownload
<1>4. stage' = [stage EXCEPT ![w] = "asking"]
  BY DEF StartDownload
<1>5. StoreTypeOK'
  BY <1>1, <1>2, <1>3, <1>4 DEF IInv, StoreTypeOK
<1>6. stage'[w] = "asking" /\ since'[w] = s
  BY <1>1, <1>4 DEF IInv, StoreTypeOK
<1>7. \A v \in Workers \ {w} : stage'[v] = stage[v] /\ since'[v] = since[v]
  BY <1>1, <1>4 DEF IInv, StoreTypeOK
<1>8. StartBehindStored'
  BY <1>2, <1>3, <1>6, <1>7 DEF IInv, StartBehindStored
<1>9. AnswerWhole'
  <2> SUFFICES ASSUME NEW v \in Workers, stage'[v] = "writing"
               PROVE  \A c \in Fetched(v)' :
                         /\ since'[v] <= c
                         /\ \A b \in Bars : since'[v] <= b /\ b < c => batch'[v][b] = Final
    BY DEF AnswerWhole, Final
  <2>1. v # w
    BY <1>6
  <2> QED  BY <1>3, <1>7, <2>1 DEF IInv, AnswerWhole, Fetched
<1>10. HistoryFinal'
  BY <1>3 DEF IInv, HistoryFinal, Stored
<1>11. SavingAlone' /\ OneParams'
  BY <1>3, <1>6, <1>7, RowsQuiet
<1> QED  BY <1>5, <1>8, <1>9, <1>10, <1>11 DEF IInv

\* The exchange answers with no hole after the start.
LEMMA AnswerStep ==
    ASSUME IInv, NEW w \in Workers, NEW b \in 0..NBars, Answer(w, b)
    PROVE  IInv'
<1> DEFINE rows == [c \in Bars |-> IF c \in since[w]..b THEN Shown(c) ELSE Missing]
<1>1. UNCHANGED <<last, closed, candle, row, since, params, changed, regressed, crossed>>
  BY DEF Answer, market
<1>2. stage[w] = "asking" /\ b <= last /\ stage' = [stage EXCEPT ![w] = "writing"]
  BY DEF Answer
<1>3. batch' = [batch EXCEPT ![w] = rows]
  BY DEF Answer
<1>4. rows \in [Bars -> States]
  BY DEF Shown, States, Missing, Forming, Final
<1>5. StoreTypeOK'
  <2> HIDE DEF rows
  <2> QED  BY <1>1, <1>2, <1>3, <1>4 DEF IInv, StoreTypeOK
<1>6. stage'[w] = "writing" /\ batch'[w] = rows
  BY <1>2, <1>3 DEF IInv, StoreTypeOK
<1>7. \A v \in Workers \ {w} : stage'[v] = stage[v] /\ batch'[v] = batch[v]
  BY <1>2, <1>3 DEF IInv, StoreTypeOK
<1>8. StartBehindStored'
  BY <1>1, <1>2, <1>6, <1>7 DEF IInv, StartBehindStored
<1>9. AnswerWhole'
  <2> SUFFICES ASSUME NEW v \in Workers, stage'[v] = "writing",
                      NEW c \in Fetched(v)'
               PROVE  /\ since[v] <= c
                      /\ \A d \in Bars : since[v] <= d /\ d < c => batch'[v][d] = Final
    BY <1>1 DEF AnswerWhole, Final
  <2>1. CASE v = w
    <3>1. c \in Bars /\ rows[c] # Missing
      BY <1>6, <2>1 DEF Fetched
    <3>2. since[w] <= c /\ c <= last
      BY <3>1, <1>2, BarsAssumption DEF IInv, StoreTypeOK, Bars, Shown
    <3>3. ASSUME NEW d \in Bars, since[w] <= d, d < c PROVE rows[d] = Final
      <4>1. d \in since[w]..b /\ d < last
        BY <3>1, <3>2, <3>3, <1>2, BarsAssumption DEF IInv, StoreTypeOK, Bars
      <4> QED  BY <4>1, BarsAssumption DEF Shown, IInv, StoreTypeOK, Bars
    <3> QED  BY <1>6, <2>1, <3>2, <3>3
  <2>2. CASE v # w
    BY <1>1, <1>7, <2>2 DEF IInv, AnswerWhole, Fetched
  <2> QED  BY <2>1, <2>2
<1>10. HistoryFinal'
  BY <1>1 DEF IInv, HistoryFinal, Stored
<1>11. SavingAlone' /\ OneParams'
  BY <1>1, <1>6, <1>7, RowsQuiet
<1> QED  BY <1>5, <1>8, <1>9, <1>10, <1>11 DEF IInv

\* An upsert keeps what is stored stored, with the types of the tables.
LEMMA UpsertFacts ==
    ASSUME StoreTypeOK, NEW w \in Workers, NEW A \in SUBSET Fetched(w), candle' = Upsert(w, A)
    PROVE  /\ candle' \in [Bars -> States]
           /\ \A b \in A : candle'[b] = batch[w][b] /\ candle'[b] # Missing
           /\ \A b \in Bars \ A : candle'[b] = candle[b]
           /\ \A b \in Bars : candle[b] # Missing => candle'[b] # Missing
<1>1. A \subseteq Bars /\ \A b \in A : batch[w][b] # Missing
  BY DEF Fetched
<1>2. candle \in [Bars -> States] /\ batch[w] \in [Bars -> States]
  BY DEF StoreTypeOK
<1> QED  BY <1>1, <1>2 DEF Upsert

\* The upsert of a whole answer leaves no bar open in the history but those the
\* validator refused: an answer ends in its only forming bar, and starts before the
\* latest candle that was stored when it was asked for.
LEMMA WriteHistory ==
    ASSUME IInv, NEW w \in Workers, Write(w)
    PROVE  HistoryFinal'
<1> USE DEF States, Missing, Forming, Final
<1>1. PICK A \in SUBSET Fetched(w) :
         /\ ValidBatch(A, Fetched(w))
         /\ candle' = Upsert(w, A)
         /\ regressed' = regressed \cup {b \in A : batch[w][b] < candle[b]}
  BY DEF Write
<1>2. stage[w] = "writing"
  BY DEF Write
<1>3. /\ \A b \in A : candle'[b] = batch[w][b]
      /\ \A b \in Bars \ A : candle'[b] = candle[b]
  BY <1>1, UpsertFacts DEF IInv
<1>4. A \subseteq Bars /\ Fetched(w) \subseteq Bars
  BY DEF Fetched
<1>5. /\ candle \in [Bars -> States] /\ batch[w] \in [Bars -> States]
      /\ since[w] \in Bars /\ Bars \subseteq Int
  BY BarsAssumption DEF IInv, StoreTypeOK, Bars
<1> SUFFICES ASSUME NEW b \in Bars, b \notin regressed', NEW c \in Stored', b < c,
                    candle'[b] # Final
             PROVE  \E d \in 1..b - 1 : Far(d, b)
  BY DEF HistoryFinal
<1>6. c \in Bars /\ candle'[c] # Missing
  BY DEF Stored
<1>7. b \notin regressed /\ (b \in A => ~ (batch[w][b] < candle[b]))
  BY <1>1
<1>8. ASSUME NEW d \in Stored, b < d
      PROVE  candle[b] = Final \/ \E e \in 1..b - 1 : Far(e, b)
  BY <1>7, <1>8 DEF IInv, HistoryFinal
<1>9. \A d \in Fetched(w) :
         since[w] <= d /\ (since[w] <= b /\ b < d => batch[w][b] = Final)
  BY <1>2 DEF IInv, AnswerWhole
<1>10. CASE b \in A
  <2>1. batch[w][b] # Final /\ since[w] <= b
    BY <1>3, <1>9, <1>10
  <2>2. c \notin A
    BY <1>9, <2>1
  <2>3. c \in Stored
    BY <1>3, <1>6, <2>2 DEF Stored
  <2>4. candle[b] # Final
    <3>1. batch[w][b] \in {0, 1}
      BY <1>5, <2>1
    <3> QED  BY <1>7, <1>10, <3>1
  <2> QED  BY <1>8, <2>3, <2>4
<1>11. CASE b \notin A
  <2>1. candle[b] # Final
    BY <1>3, <1>11
  <2>2. CASE c \in Stored
    BY <1>8, <2>1, <2>2
  <2>3. CASE c \notin Stored
    <3>1. c \in Fetched(w)
      BY <1>3, <1>6, <2>3 DEF Stored
    <3>2. CASE b \in Fetched(w)
      <4>1. PICK d \in A : Before(A, d, b) /\ Far(d, b)
        BY <1>1, <1>11, <3>2 DEF ValidBatch
      <4>2. d \in 1..b - 1
        BY <1>4, <4>1, BarsAssumption DEF Before, Bars
      <4> QED  BY <4>1, <4>2
    <3>3. CASE b \notin Fetched(w)
      <4>1. batch[w][b] = Missing
        BY <3>3 DEF Fetched
      <4>2. ~ (since[w] <= b)
        BY <1>9, <3>1, <4>1
      <4>3. since[w] # 1
        BY <4>2, BarsAssumption DEF Bars
      <4>4. since[w] + 1 \in Bars /\ candle[since[w] + 1] # Missing
        BY <1>2, <4>3 DEF IInv, StartBehindStored
      <4>5. since[w] + 1 \in Stored
        BY <4>4 DEF Stored
      <4>6. b < since[w] + 1
        <5> b \in Int /\ since[w] \in Int
          BY <1>5
        <5> QED  BY <4>2
      <4> QED  BY <1>8, <2>1, <4>5, <4>6
    <3> QED  BY <3>2, <3>3
  <2> QED  BY <2>2, <2>3
<1> QED  BY <1>10, <1>11

\* The batch is validated and written: stored before, accepted now, or refused.
LEMMA WriteStep ==
    ASSUME IInv, NEW w \in Workers, Write(w)
    PROVE  IInv'
<1>1. PICK A \in SUBSET Fetched(w) :
         /\ candle' = Upsert(w, A)
         /\ regressed' = regressed \cup {b \in A : batch[w][b] < candle[b]}
  BY DEF Write
<1>2. Finish(w) /\ UNCHANGED <<last, closed, row, crossed>>
  BY DEF Write, market
<1>3. /\ candle' \in [Bars -> States]
      /\ \A b \in Bars : candle[b] # Missing => candle'[b] # Missing
  BY <1>1, UpsertFacts DEF IInv
<1>4. regressed' \subseteq Bars
  <2> A \subseteq Bars
    BY DEF Fetched
  <2> QED  BY <1>1 DEF IInv, StoreTypeOK
<1>5. StoreTypeOK'
  BY <1>2, <1>3, <1>4, FinishFacts DEF IInv, StoreTypeOK
<1>6. /\ stage'[w] = "idle"
      /\ \A v \in Workers \ {w} :
            /\ stage'[v] = stage[v] /\ since'[v] = since[v] /\ batch'[v] = batch[v]
            /\ params'[v] = params[v] /\ changed'[v] = changed[v]
  BY <1>2, FinishFacts DEF IInv
<1>7. StartBehindStored'
  BY <1>3, <1>6 DEF IInv, StartBehindStored
<1>8. AnswerWhole'
  <2> SUFFICES ASSUME NEW v \in Workers, stage'[v] = "writing", NEW c \in Fetched(v)'
               PROVE  /\ since'[v] <= c
                      /\ \A d \in Bars : since'[v] <= d /\ d < c => batch'[v][d] = Final
    BY DEF AnswerWhole, Final
  <2>1. v # w
    BY <1>6
  <2> QED  BY <1>6, <2>1 DEF IInv, AnswerWhole, Fetched
<1>9. HistoryFinal'
  BY WriteHistory
<1>10. SavingAlone' /\ OneParams'
  BY <1>2, <1>6, RowsQuiet
<1> QED  BY <1>5, <1>7, <1>8, <1>9, <1>10 DEF IInv

-----------------------------------------------------------------------------
(* The analysis runs.                                                      *)

\* A run reads the candles.
LEMMA StartAnalysisStep ==
    ASSUME IInv, NEW w \in Workers, NEW p \in Params, StartAnalysis(w, p)
    PROVE  IInv'
<1> DEFINE read == [b \in Bars |-> IF Newest(b) THEN candle[b] ELSE Missing]
<1>1. UNCHANGED <<last, closed, candle, row, since, changed, regressed, crossed>>
  BY DEF StartAnalysis, market
<1>2. /\ stage' = [stage EXCEPT ![w] = "computing"]
      /\ batch' = [batch EXCEPT ![w] = read]
      /\ params' = [params EXCEPT ![w] = p]
  BY DEF StartAnalysis
<1>3. read \in [Bars -> States]
  BY DEF IInv, StoreTypeOK, States, Missing
<1> HIDE DEF read
<1>4. StoreTypeOK'
  BY <1>1, <1>2, <1>3 DEF IInv, StoreTypeOK
<1>5. /\ stage'[w] = "computing"
      /\ \A v \in Workers \ {w} :
            stage'[v] = stage[v] /\ batch'[v] = batch[v] /\ params'[v] = params[v]
  BY <1>2 DEF IInv, StoreTypeOK
<1>6. StartBehindStored' /\ AnswerWhole' /\ HistoryFinal'
  BY <1>1, <1>5, CandlesQuiet
<1>7. SavingAlone' /\ OneParams'
  BY <1>1, <1>5, RowsQuiet
<1> QED  BY <1>4, <1>6, <1>7 DEF IInv

\* A run inserts its rows and marks those of other parameters.
LEMMA SaveStep ==
    ASSUME IInv, NEW w \in Workers, Save(w)
    PROVE  IInv'
<1> DEFINE fresh == {k \in OwnRows(w) : row[k[1]][k[2]] = Missing}
<1>1. UNCHANGED <<last, closed, candle, row, since, batch, params, regressed>>
  BY DEF Save, market
<1>2. /\ stage' = [stage EXCEPT ![w] = "saving"]
      /\ changed' = [changed EXCEPT ![w] = StaleRows(params[w]) \cup fresh]
      /\ crossed' = (crossed \/ Saving # {})
  BY DEF Save
<1>3. StaleRows(params[w]) \cup fresh \in SUBSET ((Params \cup {NoParams}) \X Bars)
  <2>1. params[w] \in Params \cup {NoParams}
    BY DEF IInv, StoreTypeOK
  <2> QED  BY <2>1 DEF StaleRows, OwnRows, Fetched
<1> HIDE DEF fresh
<1>4. crossed' \in BOOLEAN
  BY <1>2, Zenon DEF IInv, StoreTypeOK
<1>5. StoreTypeOK'
  BY <1>1, <1>2, <1>3, <1>4 DEF IInv, StoreTypeOK
<1>6. /\ stage'[w] = "saving" /\ changed'[w] = StaleRows(params[w]) \cup fresh
      /\ \A v \in Workers \ {w} : stage'[v] = stage[v]
  BY <1>2 DEF IInv, StoreTypeOK
<1>7. StartBehindStored' /\ AnswerWhole' /\ HistoryFinal'
  BY <1>1, <1>6, CandlesQuiet
<1>8. SavingAlone'
  <2> SUFFICES ASSUME ~crossed'
               PROVE  /\ \A v, u \in Saving' : v = u
                      /\ \A v \in Saving' : StaleRows(params[v])' \subseteq changed'[v]
    BY DEF SavingAlone
  <2>1. Saving = {}
    BY <1>2
  <2>2. \A v \in Saving' : v = w
    BY <1>6, <2>1 DEF Saving
  <2>3. StaleRows(params[w])' \subseteq changed'[w]
    BY <1>1, <1>6 DEF StaleRows
  <2> QED  BY <2>2, <2>3
<1>9. OneParams'
  BY <1>1, <1>2 DEF IInv, OneParams
<1> QED  BY <1>5, <1>7, <1>8, <1>9 DEF IInv

\* A transaction becomes visible.
LEMMA CommitStep ==
    ASSUME IInv, NEW w \in Workers, Commit(w)
    PROVE  IInv'
<1>1. Finish(w) /\ UNCHANGED <<last, closed, candle, regressed, crossed>>
  BY DEF Commit, market
<1>2. stage[w] = "saving" /\ row' = [p \in Params |-> [b \in Bars |-> RowsAfter(w, p, b)]]
  BY DEF Commit
<1>3. row' \in [Params -> [Bars -> States]]
  <2>1. \A p \in Params, b \in Bars : RowsAfter(w, p, b) \in States
    BY DEF IInv, StoreTypeOK, RowsAfter, States, Missing
  <2> QED  BY <1>2, <2>1
<1>4. StoreTypeOK'
  BY <1>1, <1>3, FinishFacts DEF IInv, StoreTypeOK
<1>5. /\ stage'[w] = "idle"
      /\ \A v \in Workers \ {w} :
            /\ stage'[v] = stage[v] /\ since'[v] = since[v] /\ batch'[v] = batch[v]
            /\ params'[v] = params[v] /\ changed'[v] = changed[v]
  BY <1>1, FinishFacts DEF IInv
<1>6. StartBehindStored' /\ AnswerWhole' /\ HistoryFinal'
  BY <1>1, <1>5, CandlesQuiet
<1>7. w \in Saving
  BY <1>2 DEF Saving
<1>8. SavingAlone'
  <2> SUFFICES ASSUME ~crossed PROVE Saving' = {}
    BY <1>1 DEF SavingAlone
  <2>1. \A v \in Saving : v = w
    BY <1>7 DEF IInv, SavingAlone
  <2> QED  BY <1>5, <2>1 DEF Saving
<1>9. OneParams'
  <2> SUFFICES ASSUME ~crossed, NEW p \in Params, p # params[w]
               PROVE  row'[p] = NoCandles
    BY <1>1 DEF OneParams, NoCandles
  <2>1. StaleRows(params[w]) \subseteq changed[w]
    BY <1>7 DEF IInv, SavingAlone
  <2>2. \A b \in Bars : row[p][b] # Missing => <<p, b>> \in changed[w]
    BY <2>1 DEF StaleRows
  <2>3. \A b \in Bars : RowsAfter(w, p, b) = Missing
    BY <2>2 DEF RowsAfter
  <2> QED  BY <1>2, <2>3 DEF NoCandles
<1> QED  BY <1>4, <1>6, <1>8, <1>9 DEF IInv

\* A transaction gives everything back.
LEMMA RollBackStep ==
    ASSUME IInv, NEW w \in Workers, RollBack(w)
    PROVE  IInv'
<1>1. Finish(w) /\ UNCHANGED <<last, closed, candle, row, regressed, crossed>>
  BY DEF RollBack, market
<1>2. StoreTypeOK'
  BY <1>1, FinishFacts DEF IInv, StoreTypeOK
<1>3. /\ stage'[w] = "idle"
      /\ \A v \in Workers \ {w} :
            /\ stage'[v] = stage[v] /\ since'[v] = since[v] /\ batch'[v] = batch[v]
            /\ params'[v] = params[v] /\ changed'[v] = changed[v]
  BY <1>1, FinishFacts DEF IInv
<1>4. StartBehindStored' /\ AnswerWhole' /\ HistoryFinal'
  BY <1>1, <1>3, CandlesQuiet
<1>5. SavingAlone' /\ OneParams'
  BY <1>1, <1>3, RowsQuiet
<1> QED  BY <1>2, <1>4, <1>5 DEF IInv

-----------------------------------------------------------------------------
(* The theorems.                                                           *)

\* Every step keeps the invariant.
LEMMA StepIInv == IInv /\ [StoreNext]_storeVars => IInv'
<1> SUFFICES ASSUME IInv, [StoreNext]_storeVars PROVE IInv'
  OBVIOUS
<1>1. CASE OpenBar \/ CloseSession
  BY <1>1, ExchangeStep
<1>2. ASSUME NEW w \in Workers, StartDownload(w) PROVE IInv'
  BY <1>2, StartDownloadStep
<1>3. ASSUME NEW w \in Workers, NEW b \in 0..NBars, Answer(w, b) PROVE IInv'
  BY <1>3, AnswerStep
<1>4. ASSUME NEW w \in Workers, Write(w) PROVE IInv'
  BY <1>4, WriteStep
<1>5. ASSUME NEW w \in Workers, NEW p \in Params, StartAnalysis(w, p) PROVE IInv'
  BY <1>5, StartAnalysisStep
<1>6. ASSUME NEW w \in Workers, Save(w) PROVE IInv'
  BY <1>6, SaveStep
<1>7. ASSUME NEW w \in Workers, Commit(w) PROVE IInv'
  BY <1>7, CommitStep
<1>8. ASSUME NEW w \in Workers, RollBack(w) PROVE IInv'
  BY <1>8, RollBackStep
<1>9. CASE UNCHANGED storeVars
  <2>1. UNCHANGED <<last, closed, candle, row, stage, since, batch, params, changed,
                    regressed, crossed>>
    BY <1>9 DEF storeVars, market, work
  <2>2. StoreTypeOK'
    BY <2>1 DEF IInv, StoreTypeOK
  <2> QED  BY <2>1, <2>2, CandlesQuiet, RowsQuiet DEF IInv
<1> QED  BY <1>1, <1>2, <1>3, <1>4, <1>5, <1>6, <1>7, <1>8, <1>9 DEF StoreNext

\* The invariant holds in every reachable state.
LEMMA IInvAlways == StoreSpec => []IInv
  BY InitIInv, StepIInv, PTL DEF StoreSpec

\* The tables and the requests are well typed, for any number of requests and bars.
THEOREM StoreTypeCorrect == StoreSpec => []StoreTypeOK
<1>1. IInv => StoreTypeOK
  BY DEF IInv
<1> QED  BY <1>1, IInvAlways, PTL

\* However downloads overlap, lag and fail, a bar with a later one stored is final,
\* unless a late answer overwrote this very bar or the validator refused it.
THEOREM HistoryIsFinal == StoreSpec => []HistoryFinal
<1>1. IInv => HistoryFinal
  BY DEF IInv
<1> QED  BY <1>1, IInvAlways, PTL

\* However analysis runs interleave, the rows are of one set of parameters as long
\* as no two runs were saving together.
THEOREM OneParamsKept == StoreSpec => []OneParams
<1>1. IInv => OneParams
  BY DEF IInv
<1> QED  BY <1>1, IInvAlways, PTL
=============================================================================
