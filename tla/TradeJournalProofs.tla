-------------------------- MODULE TradeJournalProofs --------------------------
(***************************************************************************)
(* What the stores of TradeJournal keep, for every set of panes, charts,   *)
(* setups and prices and every length of the lists: the parts that each    *)
(* store's property needs, one lemma per store's step, what the reports    *)
(* make of the stores, and the theorems.                                   *)
(***************************************************************************)
EXTENDS TradeReports, FiniteSums, SequenceTheorems

\* What ExitIsFirstTouch says of one paper trade.
FirstTouch(t) ==
    LET at == LevelsFor(t.setup, t.side)
        best == t.entry + t.side * t.mfe
        worst == t.entry - t.side * t.mae
    IN  /\ t.mfe > 0 /\ t.exit # best => Gain(t.side, at.tp1, best) < 0
        /\ t.mae > 0 /\ t.exit # worst => Gain(t.side, at.stop, worst) > 0
        /\ ~Open(t) => (t.reason = "sl" <=> Gain(t.side, at.stop, t.exit) <= 0)
        /\ t.seen /\ t.side # t.setup.dir => ~Open(t)

\* A trade has the price it was closed at, or none.
SoundTrade(t) == FirstTouch(t) /\ IF Open(t) THEN t.exit = Nil ELSE t.exit \in Int

\* A plan is what happened to it last, and no target is met before the entry.
PaidTargets == {"target_1_hit", "target_2_hit", "target_3_hit"}
SoundPlan(t) ==
    /\ t.status \in t.seen
    /\ t.seen \cap PaidTargets # {} => "entry_triggered" \in t.seen
    /\ t.won # "none" => "entry_triggered" \in t.seen
    /\ ~t.completed => t.seen \cap Terminal = {} /\ t.won = "none"
    /\ t.won = "no" => t.status = "stop_hit"
    /\ t.won = "yes" => t.status \in PaidTargets

\* A setup is tracked once per chart.
OnePlanEach(list) ==
    \A i, j \in DOMAIN list :
        list[i].chart = list[j].chart /\ list[i].setup = list[j].setup => i = j

\* A miss is an executable WAIT whose trigger was met and whose excursion reached the floor.
SoundMiss(e) ==
    e.missed = "yes" => e.snap.kind = "WAIT" /\ e.snap.valid /\ e.hit /\ e.mfe >= Floor
\* The newest event is first, and none has a number still to be given.
InOrder(list, upto) ==
    \A i \in DOMAIN list : /\ list[i].no <= upto
                           /\ \A j \in DOMAIN list : i < j => list[j].no < list[i].no

\* A miss has moved the points of a miss.
SoundRecord(r) == r.class = "missed" => r.mfe >= Floor

JournalInv ==
    /\ TypeOK
    /\ \A i \in DOMAIN trades : SoundTrade(trades[i])
    /\ \A i \in DOMAIN records : SoundRecord(records[i])
    /\ \A i \in DOMAIN plans : SoundPlan(plans[i])
    /\ OnePlanEach(plans)
    /\ \A i \in DOMAIN events : SoundMiss(events[i])
    /\ InOrder(events, logged)

-----------------------------------------------------------------------------
(* Lists.                                                                  *)

\* Cut puts a record in front and drops the last of a full list.
LEMMA CutOf ==
    ASSUME NEW S, NEW list \in Seq(S), NEW r \in S, NEW cap \in Nat \ {0}, Len(list) <= cap
    PROVE  /\ Cut(list, r, cap) \in Seq(S)
           /\ Len(Cut(list, r, cap)) = IF Len(list) < cap THEN Len(list) + 1 ELSE cap
           /\ Cut(list, r, cap)[1] = r
           /\ \A i \in 2 .. Len(Cut(list, r, cap)) : Cut(list, r, cap)[i] = list[i - 1]
<1> DEFINE all == <<r>> \o list
           n == IF Len(list) < cap THEN Len(list) + 1 ELSE cap
<1>1. Len(list) \in Nat
  BY LenProperties
<1>2. <<r>> \in Seq(S) /\ Len(<<r>>) = 1 /\ <<r>>[1] = r
  OBVIOUS
<1>3. /\ all \in Seq(S) /\ Len(all) = Len(list) + 1
      /\ \A i \in 1 .. Len(all) : all[i] = IF i <= 1 THEN <<r>>[i] ELSE list[i - 1]
  BY <1>2, ConcatProperties
<1>4. n \in Nat \ {0} /\ n <= Len(all)
  BY <1>1, <1>3
<1>5. \A i \in 1 .. n : all[i] \in S
  BY <1>1, <1>2, <1>3, <1>4, ElementOfSeq
<1> HIDE DEF all, n
<1>6. /\ SubSeq(all, 1, n) \in Seq(S) /\ Len(SubSeq(all, 1, n)) = n
      /\ \A i \in 1 .. n : SubSeq(all, 1, n)[i] = all[i]
  BY <1>4, <1>5, SubSeqProperties
<1>7. Cut(list, r, cap) = SubSeq(all, 1, n)
  BY DEF Cut, all, n
<1>8. SubSeq(all, 1, n)[1] = r
  BY <1>2, <1>3, <1>4, <1>6
<1>9. \A i \in 2 .. n : SubSeq(all, 1, n)[i] = list[i - 1]
  BY <1>3, <1>4, <1>6
<1> QED
  BY <1>6, <1>7, <1>8, <1>9 DEF n

\* The new record is first; the others, save the last of a full list, move one place down.
LEMMA PutOnTop ==
    ASSUME NEW S, NEW list \in Seq(S), NEW r \in S, NEW cap \in Nat \ {0}, Len(list) <= cap,
           NEW top, top = Cut(list, r, cap)
    PROVE  /\ top \in Seq(S) /\ Len(top) <= cap /\ 1 \in DOMAIN top /\ top[1] = r
           /\ \A i \in DOMAIN top : i # 1 => i - 1 \in DOMAIN list /\ top[i] = list[i - 1]
           /\ \A i \in DOMAIN list : i # cap => i + 1 \in DOMAIN top /\ top[i + 1] = list[i]
<1>1. Len(list) \in Nat /\ DOMAIN list = 1 .. Len(list)
  BY LenProperties
<1>2. /\ top \in Seq(S) /\ top[1] = r
      /\ Len(top) = IF Len(list) < cap THEN Len(list) + 1 ELSE cap
      /\ \A i \in 2 .. Len(top) : top[i] = list[i - 1]
  <2>1. top \in Seq(S) /\ top[1] = r
    BY CutOf
  <2>2. Len(top) = IF Len(list) < cap THEN Len(list) + 1 ELSE cap
    BY CutOf
  <2>3. \A i \in 2 .. Len(top) : top[i] = list[i - 1]
    BY CutOf
  <2> QED
    BY <2>1, <2>2, <2>3
<1>3. DOMAIN top = 1 .. Len(top) /\ Len(top) \in Nat
  BY <1>2, LenProperties
<1>4. Len(top) <= cap /\ 1 \in DOMAIN top /\ Len(top) <= Len(list) + 1
  BY <1>1, <1>2, <1>3
<1>5. ASSUME NEW i \in DOMAIN top, i # 1
      PROVE  i - 1 \in DOMAIN list /\ top[i] = list[i - 1]
  <2>1. i \in 2 .. Len(top) /\ i - 1 \in 1 .. Len(list)
    BY <1>1, <1>3, <1>4, <1>5
  <2> QED
    BY <1>1, <1>2, <2>1
<1>6. ASSUME NEW i \in DOMAIN list, i # cap
      PROVE  i + 1 \in DOMAIN top /\ top[i + 1] = list[i]
  <2>1. i + 1 \in 2 .. Len(top) /\ i + 1 - 1 = i
    BY <1>1, <1>2, <1>3, <1>6
  <2> QED
    BY <1>2, <1>3, <2>1
<1> QED
  BY <1>2, <1>4, <1>5, <1>6

\* RemoveAt closes the gap it makes.
LEMMA RemovedAt ==
    ASSUME NEW S, NEW list \in Seq(S), NEW i \in DOMAIN list
    PROVE  /\ RemoveAt(list, i) \in Seq(S)
           /\ Len(RemoveAt(list, i)) = Len(list) - 1
           /\ \A j \in 1 .. Len(list) - 1 :
                 RemoveAt(list, i)[j] = IF j < i THEN list[j] ELSE list[j + 1]
<1> DEFINE left == SubSeq(list, 1, i - 1)
           right == SubSeq(list, i + 1, Len(list))
<1>1. Len(list) \in Nat /\ i \in 1 .. Len(list)
  BY LenProperties
<1>2. \A j \in 1 .. Len(list) : list[j] \in S
  BY ElementOfSeq
<1>3. /\ left \in Seq(S) /\ Len(left) = i - 1
      /\ \A j \in 1 .. i - 1 : left[j] = list[j]
  <2>1. \A j \in 1 .. i - 1 : list[j] \in S
    BY <1>1, <1>2
  <2>2. /\ left \in Seq(S) /\ Len(left) = IF 1 <= i - 1 THEN i - 1 - 1 + 1 ELSE 0
        /\ \A j \in 1 .. i - 1 - 1 + 1 : left[j] = list[1 + j - 1]
    BY <1>1, <2>1, SubSeqProperties
  <2> QED
    BY <1>1, <2>2
<1>4. /\ right \in Seq(S) /\ Len(right) = Len(list) - i
      /\ \A j \in 1 .. Len(list) - i : right[j] = list[i + j]
  <2>1. \A j \in i + 1 .. Len(list) : list[j] \in S
    BY <1>1, <1>2
  <2>2. /\ right \in Seq(S)
        /\ Len(right) = IF i + 1 <= Len(list) THEN Len(list) - (i + 1) + 1 ELSE 0
        /\ \A j \in 1 .. Len(list) - (i + 1) + 1 : right[j] = list[(i + 1) + j - 1]
    BY <1>1, <2>1, SubSeqProperties
  <2> QED
    BY <1>1, <2>2
<1> HIDE DEF left, right
<1>5. /\ left \o right \in Seq(S) /\ Len(left \o right) = Len(list) - 1
      /\ \A j \in 1 .. Len(list) - 1 :
            (left \o right)[j] = IF j <= Len(left) THEN left[j] ELSE right[j - Len(left)]
  <2>1. /\ left \o right \in Seq(S) /\ Len(left \o right) = Len(left) + Len(right)
        /\ \A j \in 1 .. Len(left) + Len(right) :
              (left \o right)[j] = IF j <= Len(left) THEN left[j] ELSE right[j - Len(left)]
    BY <1>3, <1>4, ConcatProperties
  <2>2. Len(left) + Len(right) = Len(list) - 1
    BY <1>1, <1>3, <1>4
  <2> QED
    BY <2>1, <2>2
<1>6. RemoveAt(list, i) = left \o right
  BY DEF RemoveAt, left, right
<1>7. ASSUME NEW j \in 1 .. Len(list) - 1
      PROVE  (left \o right)[j] = IF j < i THEN list[j] ELSE list[j + 1]
  <2>1. CASE j < i
    BY <1>1, <1>3, <1>5, <2>1
  <2>2. CASE ~(j < i)
    <3>1. j - (i - 1) \in 1 .. Len(list) - i /\ i + (j - (i - 1)) = j + 1
      BY <1>1, <2>2
    <3>2. right[j - (i - 1)] = list[j + 1]
      BY <1>4, <3>1
    <3> QED
      BY <1>1, <1>3, <1>5, <2>2, <3>2
  <2> QED
    BY <2>1, <2>2
<1> QED
  BY <1>5, <1>6, <1>7

\* A list whose records are mapped keeps its length.
LEMMA MappedList ==
    ASSUME NEW S, NEW list \in Seq(S), NEW T, NEW f,
           f = [i \in DOMAIN list |-> f[i]], \A i \in DOMAIN list : f[i] \in T
    PROVE  f \in Seq(T) /\ Len(f) = Len(list) /\ DOMAIN f = DOMAIN list
<1>1. Len(list) \in Nat /\ DOMAIN list = 1 .. Len(list)
  BY LenProperties
<1>2. f \in [1 .. Len(list) -> T]
  BY <1>1
<1> QED
  BY <1>1, <1>2, IsASeq, LenProperties

-----------------------------------------------------------------------------
(* What the market may be.                                                 *)

\* A decision that acts has a setup; one that waits may lean to a side.
LEMMA MarketFacts ==
    ASSUME TypeOK, NEW c \in Charts
    PROVE  /\ market[c].price \in Int /\ market[c].act \in BOOLEAN
           /\ market[c].act => market[c].setup \in Setups
           /\ ~market[c].act => /\ market[c].setup \in Setups \cup {Nil}
                                /\ market[c].hypo \in {1, -1, 0} /\ market[c].evidence \in BOOLEAN
<1>1. market[c] \in Markets
  BY DEF TypeOK
<1>2. CASE market[c] \in [price : Int, setup : Setups, act : {TRUE}, strong : BOOLEAN,
                          expired : BOOLEAN]
  BY <1>2
<1>3. CASE market[c] \in [price : Int, setup : Setups \cup {Nil}, act : {FALSE},
                          hypo : {1, -1, 0}, evidence : BOOLEAN]
  BY <1>3
<1> QED
  BY <1>1, <1>2, <1>3 DEF Markets

-----------------------------------------------------------------------------
(* Paper trades.                                                           *)

\* A setup is bought or sold.
LEMMA SideIs == ASSUME NEW s \in Setups PROVE SideOf(s) \in {1, -1}
  BY SetupsAssumption DEF SideOf

\* The levels a trade is opened with, whichever side of its setup it takes.
LEMMA LevelsTypes ==
    ASSUME NEW s \in Setups, NEW d \in {1, -1}
    PROVE  /\ LevelsFor(s, d).stop \in Int /\ LevelsFor(s, d).tp1 \in Int
           /\ LevelsFor(s, d).tp2 \in Int \cup {Nil}
  BY SetupsAssumption DEF LevelsFor

\* On a setup of the other side every price is at the stop or beyond the first target.
LEMMA AgainstItsSetup ==
    ASSUME NEW s \in Setups, NEW d \in {1, -1}, d # s.dir, NEW price \in Int,
           Gain(d, LevelsFor(s, d).stop, price) > 0
    PROVE  Gain(d, LevelsFor(s, d).tp1, price) >= 0
<1>1. /\ s.dir \in {1, -1} /\ s.cut \in Int /\ s.near1 \in Int /\ s.dir * (s.near1 - s.cut) > 0
      /\ LevelsFor(s, d).stop = s.cut /\ LevelsFor(s, d).tp1 = s.near1
  BY SetupsAssumption DEF LevelsFor
<1>2. CASE d = 1 /\ s.dir = -1
  BY <1>1, <1>2 DEF Gain
<1>3. CASE d = -1 /\ s.dir = 1
  BY <1>1, <1>3 DEF Gain
<1> QED
  BY <1>1, <1>2, <1>3

\* A move from a price leads where it says.
LEMMA MovedBy ==
    ASSUME NEW d \in {1, -1}, NEW from \in Int, NEW price \in Int
    PROVE  from + d * Gain(d, from, price) = price /\ from - d * (-Gain(d, from, price)) = price
<1>1. CASE d = 1
  BY <1>1 DEF Gain
<1>2. CASE d = -1
  BY <1>2 DEF Gain
<1> QED
  BY <1>1, <1>2

\* A price an open trade survives lies between its levels; the one that closes it is the
\* only one that does not.
LEMMA PricedTrade ==
    ASSUME NEW t \in TradeType, NEW price \in Int, t.reason = "open", SoundTrade(t)
    PROVE  Priced(t, price) \in TradeType /\ SoundTrade(Priced(t, price))
<1> DEFINE s == t.setup
           d == t.side
           stop == LevelsFor(s, d).stop
           tp1 == LevelsFor(s, d).tp1
           g == Gain(d, t.entry, price)
           why == ReasonAt(d, LevelsFor(s, d), price)
           u == Priced(t, price)
<1>1. /\ s \in Setups /\ t.entry \in Int /\ t.mfe \in Nat /\ t.mae \in Nat /\ d \in {1, -1}
      /\ Nil \notin Int
  BY NumbersAssumption DEF TradeType
<1>2. stop \in Int /\ tp1 \in Int /\ LevelsFor(s, d).tp2 \in Int \cup {Nil}
  BY <1>1, LevelsTypes
<1>3. why \in {"open", "sl", "tp1", "tp2"}
  BY DEF ReasonAt
<1>4. /\ why = "sl" <=> Gain(d, stop, price) <= 0
      /\ why = "open" => ~(Gain(d, tp1, price) >= 0)
  BY DEF ReasonAt
<1>5. /\ u = [t EXCEPT !.mfe = Larger(@, g), !.mae = Larger(@, -g), !.seen = TRUE,
                       !.reason = why, !.exit = IF why = "open" THEN Nil ELSE price]
      /\ u.setup = s /\ u.side = d /\ u.entry = t.entry /\ u.reason = why
      /\ u.mfe = Larger(t.mfe, g) /\ u.mae = Larger(t.mae, -g)
      /\ u.exit = IF why = "open" THEN Nil ELSE price
  BY DEF Priced, TradeType
<1>6. g \in Int /\ t.entry + d * g = price /\ t.entry - d * (-g) = price
  <2>1. g \in Int
    BY <1>1 DEF Gain
  <2> QED
    BY <1>1, <2>1, MovedBy
<1>7. /\ Gain(d, stop, price) \in Int /\ Gain(d, tp1, price) \in Int
  BY <1>1, <1>2 DEF Gain
<1>8. /\ t.mfe > 0 => Gain(d, tp1, t.entry + d * t.mfe) < 0
      /\ t.mae > 0 => Gain(d, stop, t.entry - d * t.mae) > 0
  <2>1. t.exit = Nil
    BY DEF SoundTrade, Open
  <2>2. t.entry + d * t.mfe \in Int /\ t.entry - d * t.mae \in Int
    BY <1>1
  <2> QED
    BY <1>1, <2>1, <2>2 DEF SoundTrade, FirstTouch
<1>9. ~Open(u) => why # "open"
  BY <1>5 DEF Open
<1>10. d # s.dir => why # "open"
  BY <1>1, <1>3, <1>4, <1>7, AgainstItsSetup
<1> HIDE DEF s, d, stop, tp1, g, why, u
<1>11. Larger(t.mfe, g) \in Nat /\ Larger(t.mae, -g) \in Nat
  BY <1>1, <1>6 DEF Larger
<1>12. u \in TradeType
  BY <1>3, <1>5, <1>11 DEF TradeType
<1>13. ASSUME u.mfe > 0, u.exit # t.entry + d * u.mfe
       PROVE  Gain(d, tp1, t.entry + d * u.mfe) < 0
  <2>1. CASE u.mfe = t.mfe
    BY <1>8, <1>13, <2>1
  <2>2. CASE u.mfe = g
    <3>1. why = "open"
      BY <1>5, <1>6, <1>13, <2>2
    <3> QED
      BY <1>4, <1>6, <1>7, <2>2, <3>1
  <2> QED
    BY <1>5, <2>1, <2>2 DEF Larger
<1>14. ASSUME u.mae > 0, u.exit # t.entry - d * u.mae
       PROVE  Gain(d, stop, t.entry - d * u.mae) > 0
  <2>1. CASE u.mae = t.mae
    BY <1>8, <1>14, <2>1
  <2>2. CASE u.mae = -g
    <3>1. why = "open"
      BY <1>5, <1>6, <1>14, <2>2
    <3> QED
      BY <1>4, <1>6, <1>7, <2>2, <3>1
  <2> QED
    BY <1>5, <2>1, <2>2 DEF Larger
<1>15. FirstTouch(u)
  <2>1. ~Open(u) => (u.reason = "sl" <=> Gain(d, stop, u.exit) <= 0)
    BY <1>4, <1>5, <1>9
  <2>2. u.seen /\ d # s.dir => ~Open(u)
    BY <1>5, <1>10 DEF Open
  <2> QED
    BY <1>5, <1>13, <1>14, <2>1, <2>2 DEF FirstTouch, stop, tp1
<1>16. IF Open(u) THEN u.exit = Nil ELSE u.exit \in Int
  BY <1>5 DEF Open
<1> QED
  BY <1>12, <1>15, <1>16 DEF u, SoundTrade

\* Settled trades stay as they are, and all of them keep to their first touch.
LEMMA OnPriceTrades ==
    ASSUME NEW list \in Seq(TradeType), NEW c \in Charts, NEW price \in Int,
           \A i \in DOMAIN list : SoundTrade(list[i])
    PROVE  /\ OnPrice(list, c, price) \in Seq(TradeType)
           /\ Len(OnPrice(list, c, price)) = Len(list)
           /\ DOMAIN OnPrice(list, c, price) = DOMAIN list
           /\ \A i \in DOMAIN list : /\ SoundTrade(OnPrice(list, c, price)[i])
                                     /\ ~Open(list[i]) => OnPrice(list, c, price)[i] = list[i]
<1> DEFINE f == OnPrice(list, c, price)
<1>1. f = [i \in DOMAIN list |->
              IF Open(list[i]) /\ list[i].chart = c THEN Priced(list[i], price) ELSE list[i]]
  BY DEF OnPrice, Map
<1> HIDE DEF f
<1>2. ASSUME NEW i \in DOMAIN list
      PROVE  /\ f[i] \in TradeType /\ SoundTrade(f[i])
             /\ ~Open(list[i]) => f[i] = list[i]
  <2>1. list[i] \in TradeType
    BY LenProperties, ElementOfSeq
  <2>2. CASE Open(list[i]) /\ list[i].chart = c
    BY <1>1, <2>1, <2>2, PricedTrade DEF Open, SoundTrade
  <2>3. CASE ~(Open(list[i]) /\ list[i].chart = c)
    BY <1>1, <2>1, <2>3
  <2> QED
    BY <2>2, <2>3
<1>3. f = [i \in DOMAIN list |-> f[i]]
  BY <1>1
<1>4. f \in Seq(TradeType) /\ Len(f) = Len(list) /\ DOMAIN f = DOMAIN list
  BY <1>2, <1>3, MappedList
<1> QED
  BY <1>2, <1>4 DEF f

\* One store's step: the price, then the decision.
LEMMA PaperStep ==
    ASSUME TypeOK, \A i \in DOMAIN trades : SoundTrade(trades[i]), NEW c \in Charts,
           KeepPaper(c, market[c])
    PROVE  /\ ListOf(TradeType, trades, Cap)'
           /\ \A i \in DOMAIN trades' : SoundTrade(trades'[i])
           /\ Stays(trades, trades', Cap, LAMBDA t : ~Open(t))
<1> DEFINE m == market[c]
           priced == OnPrice(trades, c, m.price)
           new == [id |-> TradeId(c, m.setup), chart |-> c, setup |-> m.setup,
                   side |-> SideOf(m.setup), entry |-> m.price + SideOf(m.setup) * Slip,
                   mfe |-> 0, mae |-> 0, seen |-> FALSE, reason |-> "open", exit |-> Nil]
<1>1. trades \in Seq(TradeType) /\ Len(trades) <= Cap /\ Cap \in Nat \ {0}
  BY NumbersAssumption DEF TypeOK, ListOf
<1>2. m.price \in Int /\ (m.act => m.setup \in Setups)
  BY MarketFacts
<1>3. /\ priced \in Seq(TradeType) /\ Len(priced) = Len(trades)
      /\ DOMAIN priced = DOMAIN trades
      /\ \A i \in DOMAIN trades : /\ SoundTrade(priced[i])
                                  /\ ~Open(trades[i]) => priced[i] = trades[i]
  BY <1>1, <1>2, OnPriceTrades
<1>4. \/ trades' = trades \/ trades' = priced
      \/ m.act /\ trades' = Cut(priced, new, Cap)
  BY DEF KeepPaper, OpenFromDecision, OnTop
<1> HIDE DEF priced
<1>5. CASE trades' = trades
  BY <1>1, <1>5 DEF ListOf, Stays, Has
<1>6. CASE trades' = priced
  BY <1>1, <1>3, <1>6 DEF ListOf, Stays, Has
<1>7. CASE m.act /\ trades' = Cut(priced, new, Cap)
  <2>1. new \in TradeType /\ SoundTrade(new)
    <3>1. m.setup \in Setups /\ SideOf(m.setup) \in {1, -1} /\ Slip \in Int
      BY <1>2, <1>7, SideIs, NumbersAssumption
    <3>2. m.price + SideOf(m.setup) * Slip \in Int
      BY <1>2, <3>1
    <3>3. TradeId(c, m.setup) \in Charts \X Setups \X Days \X {1, -1}
      BY <3>1 DEF TradeId, TypeOK
    <3> HIDE DEF m
    <3> QED
      BY <3>1, <3>2, <3>3 DEF TradeType, FirstTouch, SoundTrade, Open
  <2> HIDE DEF new
  <2>2. /\ priced \in Seq(TradeType) /\ Len(priced) <= Cap /\ Cap \in Nat \ {0}
        /\ new \in TradeType /\ trades' = Cut(priced, new, Cap)
    BY <1>1, <1>3, <1>7, <2>1
  <2>3. trades' \in Seq(TradeType) /\ Len(trades') <= Cap /\ trades'[1] = new
    BY <2>2, PutOnTop
  <2>4. \A i \in DOMAIN trades' : i # 1 => i - 1 \in DOMAIN priced /\ trades'[i] = priced[i - 1]
    BY <2>2, PutOnTop
  <2>5. \A i \in DOMAIN priced :
            i # Cap => i + 1 \in DOMAIN trades' /\ trades'[i + 1] = priced[i]
    BY <2>2, PutOnTop
  <2>6. \A i \in DOMAIN trades' : SoundTrade(trades'[i])
    BY <1>3, <2>1, <2>3, <2>4
  <2>7. ASSUME NEW i \in DOMAIN trades, ~Open(trades[i]), i # Cap
        PROVE  \E j \in DOMAIN trades' : trades'[j] = trades[i]
    BY <1>3, <2>5, <2>7
  <2> QED
    BY <2>3, <2>6, <2>7 DEF ListOf, Stays, Has
<1> QED
  BY <1>4, <1>5, <1>6, <1>7

-----------------------------------------------------------------------------
(* The validation log.                                                     *)

\* What a later price may do to an event: neither its number, nor its snapshot, nor a miss.
Follows(e, u) == u.no = e.no /\ u.snap = e.snap /\ (e.missed = "yes" => u.missed = "yes")

\* A price updates what an event has met, never what it was logged with.
LEMMA OutcomeUpdated ==
    ASSUME NEW e \in EventType, NEW price \in Int, NEW old \in BOOLEAN, SoundMiss(e)
    PROVE  /\ UpdateOutcome(e, price, old) \in EventType
           /\ SoundMiss(UpdateOutcome(e, price, old))
           /\ Follows(e, UpdateOutcome(e, price, old))
<1> DEFINE s == e.snap
           g == IF s.side = 0 THEN Larger(price - s.spot, s.spot - price)
                ELSE Gain(s.side, s.spot, price)
           best == Larger(e.mfe, g)
           through == /\ s.trigger # Nil /\ s.side # 0
                      /\ \/ Gain(s.side, s.trigger, price) <= 0
                         \/ Gain(s.side, s.trigger, s.spot) <= 0
           hit == e.hit \/ through
           now == IF s.kind # "WAIT" THEN e.missed
                  ELSE IF best >= Floor THEN IF s.valid /\ hit THEN "yes" ELSE "no"
                  ELSE IF old /\ e.missed = "open" THEN "no" ELSE e.missed
           u == UpdateOutcome(e, price, old)
<1>1. /\ s \in SnapType /\ s.spot \in Int /\ s.side \in {1, -1, 0} /\ s.valid \in BOOLEAN
      /\ e.mfe \in Nat /\ e.hit \in BOOLEAN /\ e.missed \in {"open", "yes", "no"}
      /\ Floor \in Nat
  BY NumbersAssumption DEF EventType, SnapType
<1>2. g \in Int
  BY <1>1 DEF Larger, Gain
<1>3. best \in Nat /\ best >= e.mfe
  <2> HIDE DEF g
  <2> QED
    BY <1>1, <1>2 DEF Larger
<1>4. hit \in BOOLEAN
  OBVIOUS
<1>5. u = [e EXCEPT !.mfe = best, !.hit = hit, !.missed = now]
  BY DEF UpdateOutcome
<1>6. now \in {"open", "yes", "no"}
  BY <1>1
<1>7. now = "yes" => s.kind = "WAIT" /\ s.valid /\ hit /\ best >= Floor
  <2> HIDE DEF best, hit, s
  <2>1. CASE e.missed = "yes"
    <3>1. s.kind = "WAIT" /\ s.valid /\ e.hit /\ e.mfe >= Floor
      BY <2>1 DEF SoundMiss, s
    <3>2. hit
      BY <3>1 DEF hit
    <3>3. best >= Floor
      BY <1>1, <1>3, <3>1
    <3> QED
      BY <3>1, <3>2, <3>3
  <2>2. CASE e.missed # "yes"
    BY <1>1, <2>2
  <2> QED
    BY <2>1, <2>2
<1>8. e.missed = "yes" => now = "yes"
  <2> SUFFICES ASSUME e.missed = "yes" PROVE now = "yes"
    OBVIOUS
  <2>1. s.kind = "WAIT" /\ s.valid /\ e.hit /\ e.mfe >= Floor
    BY DEF SoundMiss
  <2>2. hit
    BY <2>1
  <2>3. best >= Floor
    <3> HIDE DEF best
    <3> QED
      BY <1>1, <1>3, <2>1
  <2> HIDE DEF best, hit, s
  <2> QED
    BY <2>1, <2>2, <2>3
<1> HIDE DEF s, g, best, through, hit, now, u
<1>9. /\ u.no = e.no /\ u.snap = s /\ u.mfe = best /\ u.hit = hit /\ u.missed = now
      /\ u \in EventType
  BY <1>1, <1>3, <1>4, <1>5, <1>6 DEF EventType, s
<1>10. SoundMiss(u)
  BY <1>7, <1>9 DEF SoundMiss
<1>11. Follows(e, u)
  BY <1>8, <1>9 DEF Follows, s
<1> QED
  BY <1>9, <1>10, <1>11 DEF u

\* ... and so for the whole log, which keeps its order.
LEMMA TickedEvents ==
    ASSUME NEW list \in Seq(EventType), NEW c \in Charts, NEW price \in Int,
           \A i \in DOMAIN list : SoundMiss(list[i]), NEW l \in TickPrice(list, c, price)
    PROVE  /\ l \in Seq(EventType) /\ Len(l) = Len(list) /\ DOMAIN l = DOMAIN list
           /\ \A i \in DOMAIN list : SoundMiss(l[i]) /\ Follows(list[i], l[i])
<1>1. CASE l = list
  BY <1>1, LenProperties DEF Follows
<1>2. CASE l # list
  <2>1. PICK old \in BOOLEAN :
            l = [i \in DOMAIN list |-> IF list[i].snap.chart = c
                                       THEN UpdateOutcome(list[i], price, old) ELSE list[i]]
    BY <1>2 DEF TickPrice, Map
  <2>2. ASSUME NEW i \in DOMAIN list
        PROVE  l[i] \in EventType /\ SoundMiss(l[i]) /\ Follows(list[i], l[i])
    <3>1. list[i] \in EventType
      BY LenProperties, ElementOfSeq
    <3>2. CASE list[i].snap.chart = c
      BY <2>1, <3>1, <3>2, OutcomeUpdated
    <3>3. CASE list[i].snap.chart # c
      BY <2>1, <3>1, <3>3 DEF Follows
    <3> QED
      BY <3>2, <3>3
  <2>3. l = [i \in DOMAIN list |-> l[i]]
    BY <2>1
  <2> QED
    BY <2>2, <2>3, MappedList
<1> QED
  BY <1>1, <1>2

\* The snapshot of whatever a chart shows is well formed.
LEMMA FrozenState ==
    ASSUME TypeOK, NEW c \in Charts
    PROVE  Freeze(c, market[c]) \in SnapType
<1> DEFINE m == market[c]
           leans == ~m.act /\ m.setup # Nil /\ m.hypo # 0
           trigger == IF m.act \/ leans THEN m.setup.entry ELSE Nil
<1>1. /\ m.price \in Int /\ m.act \in BOOLEAN
      /\ m.act => m.setup \in Setups
      /\ ~m.act => m.setup \in Setups \cup {Nil} /\ m.hypo \in {1, -1, 0}
  BY MarketFacts
<1>2. \A s \in Setups : SideOf(s) \in {1, -1} /\ s.entry \in Int
  BY SetupsAssumption, SideIs
<1> HIDE DEF m
<1>3. KindHere(m) \in Kinds
  BY DEF KindHere, Kinds, Buys
<1>4. trigger \in Int \cup {Nil}
  BY <1>1, <1>2
<1>5. (IF m.act THEN SideOf(m.setup) ELSE m.hypo) \in {1, -1, 0}
  BY <1>1, <1>2
<1>6. (m.act \/ (m.evidence /\ trigger # Nil)) \in BOOLEAN
  OBVIOUS
<1>7. Freeze(c, m) = [chart |-> c, kind |-> KindHere(m), spot |-> m.price,
                      side |-> IF m.act THEN SideOf(m.setup) ELSE m.hypo, trigger |-> trigger,
                      valid |-> m.act \/ (m.evidence /\ trigger # Nil)]
  BY DEF Freeze
<1> HIDE DEF trigger, leans
<1> QED
  BY <1>1, <1>3, <1>4, <1>5, <1>6, <1>7 DEF SnapType, m

\* The price updates the log, then the decision is logged under the next number.
LEMMA ValidationStep ==
    ASSUME TypeOK, \A i \in DOMAIN events : SoundMiss(events[i]), InOrder(events, logged),
           NEW c \in Charts, KeepValidation(c, market[c])
    PROVE  /\ ListOf(EventType, events, Cap)' /\ logged' \in 0 .. MaxEvents
           /\ \A i \in DOMAIN events' : SoundMiss(events'[i])
           /\ InOrder(events', logged')
           /\ \A i \in DOMAIN events, j \in DOMAIN events' :
                 events[i].no = events'[j].no => Follows(events[i], events'[j])
<1> DEFINE m == market[c]
           new == [no |-> logged + 1, snap |-> Freeze(c, m), mfe |-> 0, hit |-> FALSE,
                   missed |-> "open"]
<1>1. /\ events \in Seq(EventType) /\ Len(events) <= Cap /\ Cap \in Nat \ {0}
      /\ logged \in 0 .. MaxEvents /\ MaxEvents \in Nat
      /\ Len(events) \in Nat /\ DOMAIN events = 1 .. Len(events)
  BY NumbersAssumption, LenProperties DEF TypeOK, ListOf
<1>2. m.price \in Int
  BY MarketFacts
<1>3. \A i \in DOMAIN events : events[i].no \in Nat
  <2> SUFFICES ASSUME NEW i \in DOMAIN events PROVE events[i].no \in Nat
    OBVIOUS
  <2>1. events[i] \in EventType
    BY <1>1, ElementOfSeq
  <2> QED
    BY <1>1, <2>1 DEF EventType
<1>4. /\ \A i \in DOMAIN events : events[i].no <= logged
      /\ \A i, j \in DOMAIN events : i < j => events[j].no < events[i].no
  BY DEF InOrder
<1>5. \A i, j \in DOMAIN events : events[i].no = events[j].no => i = j
  BY <1>1, <1>3, <1>4
<1>6. CASE UNCHANGED <<events, logged>>
  BY <1>1, <1>5, <1>6 DEF ListOf, Follows
<1>7. CASE "validation" \in kept
  <2>1. PICK l \in TickPrice(events, c, m.price) : events' \in LogDecision(l, c, m)
    BY <1>7 DEF KeepValidation
  <2>2. /\ logged' = IF events' # <<>> /\ events'[1].no > logged THEN logged + 1 ELSE logged
        /\ logged' <= MaxEvents
    BY <1>7 DEF KeepValidation
  <2>3. /\ l \in Seq(EventType) /\ Len(l) = Len(events) /\ DOMAIN l = DOMAIN events
        /\ \A i \in DOMAIN events : SoundMiss(l[i]) /\ Follows(events[i], l[i])
    BY <1>1, <1>2, TickedEvents
  <2>4. \A i \in DOMAIN events : l[i].no = events[i].no
    BY <2>3 DEF Follows
  <2>5. events' = l \/ events' = Cut(l, new, Cap)
    BY <2>1 DEF LogDecision, OnTop
  <2> HIDE DEF m
  <2>6. CASE events' = l
    <3>1. logged' = logged
      <4>1. CASE events' = <<>>
        BY <2>2, <4>1
      <4>2. CASE events' # <<>>
        <5>1. 1 \in DOMAIN events
          BY <1>1, <2>3, <2>6, <4>2
        <5> QED
          BY <1>1, <1>3, <1>4, <2>2, <2>4, <2>6, <5>1
      <4> QED
        BY <4>1, <4>2
    <3>2. InOrder(events', logged')
      BY <1>4, <2>3, <2>4, <2>6, <3>1 DEF InOrder
    <3> QED
      BY <1>1, <1>5, <2>3, <2>4, <2>6, <3>1, <3>2 DEF ListOf
  <2>7. CASE events' = Cut(l, new, Cap) /\ events' # l
    <3>1. new.no = logged + 1 /\ SoundMiss(new) /\ Len(l) <= Cap
      BY <1>1, <2>3 DEF SoundMiss
    <3> DEFINE Wide == EventType \cup {new}
    <3>2. new \in Wide /\ l \in Seq(Wide)
      BY <2>3, SeqMonotonic
    <3> HIDE DEF Wide, new
    <3>3. 1 \in DOMAIN events' /\ events'[1] = new
      BY <1>1, <2>7, <3>1, <3>2, PutOnTop
    <3>4. events' # <<>>
      BY <3>3
    <3>5. logged' = logged + 1 /\ logged + 1 \in 1 .. MaxEvents
      BY <1>1, <2>2, <3>1, <3>3, <3>4
    <3>6. new \in EventType
      BY <3>5, FrozenState DEF EventType, new, m
    <3>7. l \in Seq(EventType) /\ new \in EventType /\ Len(l) <= Cap /\ Cap \in Nat \ {0}
          /\ events' = Cut(l, new, Cap)
      BY <1>1, <2>3, <2>7, <3>1, <3>6
    <3>8. events' \in Seq(EventType) /\ Len(events') <= Cap
      BY <3>7, PutOnTop
    <3>9. \A j \in DOMAIN events' : j # 1 => j - 1 \in DOMAIN l /\ events'[j] = l[j - 1]
      BY <3>7, PutOnTop
    <3>10. DOMAIN events' = 1 .. Len(events') /\ Len(events') \in Nat
      BY <3>8, LenProperties
    <3>11. \A j \in DOMAIN events' : SoundMiss(events'[j])
      BY <2>3, <3>1, <3>3, <3>9
    <3>12. \A j \in DOMAIN events' :
              IF j = 1 THEN events'[j].no = logged + 1
              ELSE j - 1 \in DOMAIN events /\ events'[j].no = events[j - 1].no
      BY <2>3, <2>4, <3>1, <3>3, <3>9
    <3>13. InOrder(events', logged')
      <4>1. ASSUME NEW j \in DOMAIN events' PROVE events'[j].no <= logged'
        BY <1>1, <1>3, <1>4, <3>5, <3>12
      <4>2. ASSUME NEW i \in DOMAIN events', NEW j \in DOMAIN events', i < j
            PROVE  events'[j].no < events'[i].no
        <5>1. i \in Nat /\ j \in Nat /\ j # 1
          BY <3>10, <4>2
        <5>2. j - 1 \in DOMAIN events /\ events'[j].no = events[j - 1].no
          BY <3>12, <5>1
        <5>3. CASE i = 1
          BY <1>1, <1>3, <1>4, <3>12, <5>2, <5>3
        <5>4. CASE i # 1
          BY <1>4, <3>12, <4>2, <5>1, <5>2, <5>4
        <5> QED
          BY <5>3, <5>4
      <4> QED
        BY <4>1, <4>2 DEF InOrder
    <3>14. ASSUME NEW i \in DOMAIN events, NEW j \in DOMAIN events', events[i].no = events'[j].no
           PROVE  Follows(events[i], events'[j])
      <4>1. j # 1
        BY <1>1, <1>3, <1>4, <3>12, <3>14
      <4>2. i = j - 1 /\ events'[j] = l[i]
        BY <1>5, <2>3, <3>9, <3>12, <3>14, <4>1
      <4> QED
        BY <2>3, <4>2
    <3>15. logged' \in 0 .. MaxEvents
      BY <1>1, <3>5
    <3> QED
      BY <3>8, <3>11, <3>13, <3>14, <3>15 DEF ListOf
  <2> QED
    BY <2>5, <2>6, <2>7
<1> QED
  BY <1>6, <1>7 DEF KeepValidation

-----------------------------------------------------------------------------
(* Personality snapshots.                                                  *)

\* A list whose judged snapshots are where they were.
SameJudged(list, next) ==
    /\ next \in Seq(PersonalityType) /\ Len(next) = Len(list) /\ DOMAIN next = DOMAIN list
    /\ \A i \in DOMAIN list : list[i].outcome # "unknown" => next[i] = list[i]

\* A price judges open snapshots only.
LEMMA EvaluatedSnapshots ==
    ASSUME NEW list \in Seq(PersonalityType), NEW c, NEW price, NEW age
    PROVE  SameJudged(list, EvaluateForward(list, c, price, age))
<1> DEFINE f == EvaluateForward(list, c, price, age)
           Outcomes == {"unknown", "followed", "failed", "choppy"}
<1>1. f = [i \in DOMAIN list |-> f[i]]
  BY DEF EvaluateForward, Map
<1>2. ASSUME NEW i \in DOMAIN list
      PROVE  /\ \E o \in Outcomes : f[i] = list[i] \/ f[i] = [list[i] EXCEPT !.outcome = o]
             /\ list[i].outcome # "unknown" => f[i] = list[i]
  <2>1. CASE list[i].chart = c /\ list[i].outcome = "unknown"
    BY <2>1 DEF EvaluateForward, Map
  <2>2. CASE ~(list[i].chart = c /\ list[i].outcome = "unknown")
    BY <2>2 DEF EvaluateForward, Map
  <2> QED
    BY <2>1, <2>2
<1> HIDE DEF f
<1>3. ASSUME NEW i \in DOMAIN list PROVE f[i] \in PersonalityType
  <2>1. list[i] \in PersonalityType
    BY LenProperties, ElementOfSeq
  <2>2. PICK o \in Outcomes : f[i] = list[i] \/ f[i] = [list[i] EXCEPT !.outcome = o]
    BY <1>2
  <2> QED
    BY <2>1, <2>2 DEF PersonalityType
<1>4. f \in Seq(PersonalityType) /\ Len(f) = Len(list) /\ DOMAIN f = DOMAIN list
  BY <1>1, <1>3, MappedList
<1> QED
  BY <1>2, <1>4 DEF SameJudged, f

\* The end of the session judges what is still open, and nothing else.
LEMMA ClosedSnapshots ==
    ASSUME NEW list \in Seq(PersonalityType), NEW c, NEW price, NEW age
    PROVE  SameJudged(list, CloseSession(list, c, price, age))
<1> DEFINE e == EvaluateForward(list, c, price, age)
           f == CloseSession(list, c, price, age)
<1>1. SameJudged(list, e)
  BY EvaluatedSnapshots
<1>2. f = [i \in DOMAIN e |-> IF e[i].chart = c /\ e[i].outcome = "unknown"
                              THEN [e[i] EXCEPT !.outcome = "choppy"] ELSE e[i]]
  BY DEF CloseSession, Map
<1> HIDE DEF e, f
<1>3. e \in Seq(PersonalityType) /\ Len(e) = Len(list) /\ DOMAIN e = DOMAIN list
  BY <1>1 DEF SameJudged
<1>4. ASSUME NEW i \in DOMAIN e
      PROVE  f[i] \in PersonalityType /\ (e[i].outcome # "unknown" => f[i] = e[i])
  <2>1. e[i] \in PersonalityType
    BY <1>3, LenProperties, ElementOfSeq
  <2> QED
    BY <1>2, <2>1 DEF PersonalityType
<1>5. f = [i \in DOMAIN e |-> f[i]]
  BY <1>2
<1>6. f \in Seq(PersonalityType) /\ Len(f) = Len(e) /\ DOMAIN f = DOMAIN e
  BY <1>3, <1>4, <1>5, MappedList
<1> QED
  BY <1>1, <1>3, <1>4, <1>6 DEF SameJudged, f

\* What the store does keeps every judged snapshot, save the oldest of a full list.
KeepsJudged(list, next) ==
    /\ next \in Seq(PersonalityType) /\ Len(next) <= Cap
    /\ \A i \in DOMAIN list :
          list[i].outcome # "unknown" => (\E j \in DOMAIN next : next[j] = list[i]) \/ i = Cap

\* Judging a list that has kept its history keeps it.
LEMMA KeptThenMapped ==
    ASSUME NEW list, NEW l, NEW next, KeepsJudged(list, l), SameJudged(l, next)
    PROVE  KeepsJudged(list, next)
BY DEF KeepsJudged, SameJudged

\* A flip judges the open snapshots and puts a new one on top.
LEMMA RecordedLive ==
    ASSUME TypeOK, NEW c \in Charts, NEW price \in Int, NEW who \in Personalities,
           NEW l \in RecordLive(snapshots, c, price, who)
    PROVE  KeepsJudged(snapshots, l)
<1> DEFINE new == [chart |-> c, who |-> who, day |-> day, at |-> price, outcome |-> "unknown"]
<1>1. snapshots \in Seq(PersonalityType) /\ Len(snapshots) <= Cap /\ Cap \in Nat \ {0}
  BY NumbersAssumption DEF TypeOK, ListOf
<1>2. SameJudged(snapshots, snapshots)
  BY <1>1 DEF SameJudged
<1>3. \/ l = snapshots
      \/ \E base : SameJudged(snapshots, base) /\ l = Cut(base, new, Cap)
  <2>1. \/ l = snapshots
        \/ \E age \in {"new", "ripe", "old"} :
              l = Cut(EvaluateForward(snapshots, c, price, age), new, Cap)
        \/ l = Cut(snapshots, new, Cap)
    BY DEF RecordLive, OnTop
  <2> HIDE DEF new
  <2> QED
    BY <1>1, <1>2, <2>1, EvaluatedSnapshots
<1>4. CASE l = snapshots
  BY <1>1, <1>4 DEF KeepsJudged
<1>5. ASSUME NEW base, SameJudged(snapshots, base), l = Cut(base, new, Cap)
      PROVE  KeepsJudged(snapshots, l)
  <2>1. new \in PersonalityType
    BY DEF PersonalityType, TypeOK
  <2> HIDE DEF new
  <2>2. /\ base \in Seq(PersonalityType) /\ Len(base) <= Cap /\ DOMAIN base = DOMAIN snapshots
        /\ \A i \in DOMAIN snapshots : snapshots[i].outcome # "unknown" => base[i] = snapshots[i]
    BY <1>1, <1>5 DEF SameJudged
  <2>3. l \in Seq(PersonalityType) /\ Len(l) <= Cap
    BY <1>1, <1>5, <2>1, <2>2, PutOnTop
  <2>4. \A i \in DOMAIN base : i # Cap => i + 1 \in DOMAIN l /\ l[i + 1] = base[i]
    BY <1>1, <1>5, <2>1, <2>2, PutOnTop
  <2> QED
    BY <2>2, <2>3, <2>4 DEF KeepsJudged
<1> QED
  BY <1>3, <1>4, <1>5

\* One store's step: the personality, the price, the end of the session.
LEMMA PersonalityStep ==
    ASSUME TypeOK, NEW c \in Charts, KeepPersonality(c, market[c])
    PROVE  /\ ListOf(PersonalityType, snapshots, Cap)'
           /\ Stays(snapshots, snapshots', Cap, LAMBDA r : r.outcome # "unknown")
<1> DEFINE m == market[c]
<1>1. snapshots \in Seq(PersonalityType) /\ Len(snapshots) <= Cap /\ m.price \in Int
  BY MarketFacts DEF TypeOK, ListOf
<1>2. KeepsJudged(snapshots, snapshots)
  BY <1>1 DEF KeepsJudged
<1>3. KeepsJudged(snapshots, snapshots')
  <2>1. CASE "personality" \in kept /\ intraday
    <3>0. PICK who \in Personalities \cup {Nil}, age \in {"new", "ripe", "old"} :
              \E l \in IF who = Nil THEN {snapshots} ELSE RecordLive(snapshots, c, m.price, who) :
                 LET seen == IF who = Nil THEN l ELSE EvaluateForward(l, c, m.price, age)
                 IN  snapshots' \in IF past THEN {seen, CloseSession(seen, c, m.price, age)}
                                   ELSE {seen}
      BY <2>1 DEF KeepPersonality
    <3>1. PICK l \in IF who = Nil THEN {snapshots} ELSE RecordLive(snapshots, c, m.price, who) :
              LET seen == IF who = Nil THEN l ELSE EvaluateForward(l, c, m.price, age)
              IN  snapshots' \in IF past THEN {seen, CloseSession(seen, c, m.price, age)} ELSE {seen}
      BY <3>0
    <3> DEFINE seen == IF who = Nil THEN l ELSE EvaluateForward(l, c, m.price, age)
    <3>2. KeepsJudged(snapshots, l)
      BY <1>1, <1>2, RecordedLive
    <3>3. l \in Seq(PersonalityType)
      BY <3>2 DEF KeepsJudged
    <3>4. KeepsJudged(snapshots, seen) /\ seen \in Seq(PersonalityType)
      <4>1. CASE who = Nil
        BY <3>2, <3>3, <4>1
      <4>2. CASE who # Nil
        <5>1. SameJudged(l, seen)
          BY <3>3, <4>2, EvaluatedSnapshots
        <5> HIDE DEF seen
        <5> QED
          BY <3>2, <5>1, KeptThenMapped DEF SameJudged
      <4> QED
        BY <4>1, <4>2
    <3>5. snapshots' = seen \/ snapshots' = CloseSession(seen, c, m.price, age)
      BY <3>1
    <3> HIDE DEF seen
    <3>6. CASE snapshots' = CloseSession(seen, c, m.price, age)
      <4>1. SameJudged(seen, snapshots')
        BY <3>4, <3>6, ClosedSnapshots
      <4> QED
        BY <3>4, <4>1, KeptThenMapped
    <3> QED
      BY <3>4, <3>5, <3>6
  <2>2. CASE ~("personality" \in kept /\ intraday)
    BY <1>2, <2>2 DEF KeepPersonality
  <2> QED
    BY <2>1, <2>2
<1> QED
  BY <1>3 DEF KeepsJudged, ListOf, Stays, Has

-----------------------------------------------------------------------------
(* Tracked plans.                                                          *)

PushedEvents == {"entry_triggered", "target_1_hit", "target_2_hit", "target_3_hit", "stop_hit",
                 "expired", "entry_missed"}

\* Every target of a plan lies beyond its entry.
LEMMA TargetsBeyondEntry ==
    ASSUME NEW s \in Setups, NEW k \in 1 .. 3, Targets(s)[k] # Nil
    PROVE  Targets(s)[k] \in Int /\ Gain(s.dir, s.entry, Targets(s)[k]) > 0
<1> DEFINE risk == Gain(s.dir, s.stop, s.entry)
<1>1. /\ s.dir \in {1, -1} /\ s.entry \in Int /\ s.stop \in Int /\ s.t1 \in Int /\ s.far1 \in Int
      /\ s.far2 \in Int \cup {Nil}
      /\ s.dir * (s.entry - s.stop) > 0 /\ s.dir * (s.t1 - s.entry) > 0
      /\ s.dir * (s.far1 - s.t1) >= 0
      /\ s.far2 # Nil => s.dir * (s.far2 - s.far1) >= 0
  BY SetupsAssumption
<1>2. risk \in Int /\ risk > 0
  BY <1>1 DEF Gain
<1> HIDE DEF risk
<1>3. CASE Gain(s.dir, s.entry, s.t1) < 2 * risk
  <2>1. Targets(s) = <<s.entry + 2 * s.dir * risk, s.entry + 3 * s.dir * risk,
                       s.entry + 4 * s.dir * risk>>
    BY <1>3 DEF Targets, risk
  <2>2. CASE s.dir = 1
    BY <1>1, <1>2, <2>1, <2>2 DEF Gain
  <2>3. CASE s.dir = -1
    BY <1>1, <1>2, <2>1, <2>3 DEF Gain
  <2> QED
    BY <1>1, <2>2, <2>3
<1>4. CASE ~(Gain(s.dir, s.entry, s.t1) < 2 * risk)
  <2>1. Targets(s) = <<s.t1, s.far2, Nil>>
    BY <1>4 DEF Targets, risk
  <2>2. CASE s.dir = 1
    BY <1>1, <2>1, <2>2 DEF Gain
  <2>3. CASE s.dir = -1
    BY <1>1, <2>1, <2>3 DEF Gain
  <2> QED
    BY <1>1, <2>2, <2>3
<1> QED
  BY <1>3, <1>4

\* A price that reaches a target has passed the entry: the two events are pushed together.
LEMMA TargetWithEntry ==
    ASSUME NEW s \in Setups, NEW price \in Int, NEW expired
    PROVE  LET hit == HitFlags(s, price)
               new == EventsOf(hit, SignalState(hit, expired))
           IN  /\ new \subseteq PushedEvents
               /\ new \cap PaidTargets # {} => "entry_triggered" \in new
<1> DEFINE hit == HitFlags(s, price)
           state == SignalState(hit, expired)
           new == EventsOf(hit, state)
<1>1. s.dir \in {1, -1} /\ s.entry \in Int
  BY SetupsAssumption
<1>2. ASSUME NEW k \in 1 .. 3, Reached(s, Targets(s)[k], price)
      PROVE  Reached(s, s.entry, price)
  <2>1. Targets(s)[k] # Nil /\ Gain(s.dir, Targets(s)[k], price) >= 0
    BY <1>2 DEF Reached
  <2>2. Targets(s)[k] \in Int /\ Gain(s.dir, s.entry, Targets(s)[k]) > 0
    BY <2>1, TargetsBeyondEntry
  <2>3. Gain(s.dir, s.entry, price) >= 0
    <3>1. CASE s.dir = 1
      BY <1>1, <2>1, <2>2, <3>1 DEF Gain
    <3>2. CASE s.dir = -1
      BY <1>1, <2>1, <2>2, <3>2 DEF Gain
    <3> QED
      BY <1>1, <3>1, <3>2
  <2> QED
    BY <1>1, <2>3, NumbersAssumption DEF Reached
<1>3. hit.t1 \/ hit.t2 \/ hit.t3 => hit.entry
  <2>1. /\ hit.t1 = Reached(s, Targets(s)[1], price)
        /\ hit.t2 = Reached(s, Targets(s)[2], price)
        /\ hit.t3 = Reached(s, Targets(s)[3], price)
        /\ hit.entry = ((s.low <= price /\ price <= s.high) \/ Reached(s, s.entry, price))
    BY DEF HitFlags
  <2>2. /\ Reached(s, Targets(s)[1], price) => Reached(s, s.entry, price)
        /\ Reached(s, Targets(s)[2], price) => Reached(s, s.entry, price)
        /\ Reached(s, Targets(s)[3], price) => Reached(s, s.entry, price)
    BY <1>2
  <2> HIDE DEF hit
  <2> QED
    BY <2>1, <2>2
<1> HIDE DEF hit, state
<1>4. new \subseteq PushedEvents
  BY DEF EventsOf, PushedEvents
<1>5. new \cap PaidTargets # {} => "entry_triggered" \in new
  BY <1>3 DEF EventsOf, PaidTargets
<1> QED
  BY <1>4, <1>5 DEF hit, state

\* The last event pushed is one of them; if it is the entry, nothing else was pushed.
LEMMA LastOfPushed ==
    ASSUME NEW new, new \subseteq PushedEvents, new # {}
    PROVE  /\ LastPushed(new) \in new
           /\ LastPushed(new) = "entry_triggered" => new = {"entry_triggered"}
<1> DEFINE IsLast(i) == /\ Pushed[i] \in new
                        /\ \A j \in DOMAIN Pushed : j > i => Pushed[j] \notin new
<1>1. /\ DOMAIN Pushed = 1 .. 7
      /\ Pushed[1] = "entry_triggered" /\ Pushed[2] = "target_1_hit"
      /\ Pushed[3] = "target_2_hit" /\ Pushed[4] = "target_3_hit" /\ Pushed[5] = "stop_hit"
      /\ Pushed[6] = "expired" /\ Pushed[7] = "entry_missed"
  BY DEF Pushed
<1>2. \A e \in PushedEvents : \E i \in DOMAIN Pushed : Pushed[i] = e
  BY <1>1 DEF PushedEvents
<1>3. \E i \in DOMAIN Pushed : IsLast(i)
  <2>1. CASE Pushed[7] \in new
    BY <1>1, <2>1
  <2>2. CASE Pushed[7] \notin new /\ Pushed[6] \in new
    BY <1>1, <2>2
  <2>3. CASE {Pushed[6], Pushed[7]} \cap new = {} /\ Pushed[5] \in new
    BY <1>1, <2>3
  <2>4. CASE {Pushed[5], Pushed[6], Pushed[7]} \cap new = {} /\ Pushed[4] \in new
    BY <1>1, <2>4
  <2>5. CASE {Pushed[4], Pushed[5], Pushed[6], Pushed[7]} \cap new = {} /\ Pushed[3] \in new
    BY <1>1, <2>5
  <2>6. CASE /\ {Pushed[3], Pushed[4], Pushed[5], Pushed[6], Pushed[7]} \cap new = {}
             /\ Pushed[2] \in new
    BY <1>1, <2>6
  <2>7. CASE {Pushed[2], Pushed[3], Pushed[4], Pushed[5], Pushed[6], Pushed[7]} \cap new = {}
    <3>1. Pushed[1] \in new
      BY <1>1, <2>7 DEF PushedEvents
    <3> QED
      BY <1>1, <2>7, <3>1
  <2> QED
    BY <2>1, <2>2, <2>3, <2>4, <2>5, <2>6, <2>7
<1> DEFINE last == CHOOSE i \in DOMAIN Pushed : IsLast(i)
<1>4. last \in DOMAIN Pushed /\ IsLast(last)
  BY <1>3
<1>5. LastPushed(new) = Pushed[last]
  BY DEF LastPushed
<1> HIDE DEF last
<1>6. ASSUME Pushed[last] = "entry_triggered" PROVE new = {"entry_triggered"}
  <2>1. last = 1
    BY <1>1, <1>4, <1>6
  <2>2. \A j \in 2 .. 7 : Pushed[j] \notin new
    BY <1>1, <1>4, <2>1
  <2>3. ASSUME NEW e \in new PROVE e = "entry_triggered"
    <3>1. PICK i \in DOMAIN Pushed : Pushed[i] = e
      BY <1>2
    <3>2. i = 1
      BY <1>1, <2>2, <2>3, <3>1
    <3> QED
      BY <1>1, <3>1, <3>2
  <2> QED
    BY <1>4, <1>6, <2>3
<1> QED
  BY <1>4, <1>5, <1>6

\* What a plan has met so far decides it, however the events came in.
LEMMA AppliedEvents ==
    ASSUME NEW t \in PlanType, SoundPlan(t), ~t.completed, NEW price \in Int,
           NEW new, new \subseteq PushedEvents,
           new \cap PaidTargets # {} => "entry_triggered" \in new
    PROVE  LET u == ApplyEvents(t, new, price)
           IN  u \in PlanType /\ SoundPlan(u) /\ u.chart = t.chart /\ u.setup = t.setup
<1> DEFINE seen == t.seen \cup new
           last == IF new \subseteq t.seen THEN t.status ELSE LastPushed(new \ t.seen)
           stopped == "stop_hit" \in seen /\ "entry_triggered" \in seen
           paid == seen \cap PaidTargets # {}
           fill == IF "entry_triggered" \in seen \ t.seen THEN price ELSE t.fill
           status == IF stopped THEN "stop_hit" ELSE IF paid THEN BestTarget(seen) ELSE last
           won == IF stopped THEN "no" ELSE IF paid THEN "yes" ELSE "none"
           u == ApplyEvents(t, new, price)
<1>1. /\ t.seen \subseteq Lifecycle /\ t.status \in t.seen /\ t.fill \in Int \cup {Nil}
      /\ t.seen \cap PaidTargets # {} => "entry_triggered" \in t.seen
      /\ t.seen \cap Terminal = {} /\ t.won \in {"yes", "no", "none"}
      /\ t.won = "none"
  BY DEF PlanType, SoundPlan
<1>2. seen \subseteq Lifecycle
  BY <1>1 DEF PushedEvents, Lifecycle, Terminal
<1>3. paid => "entry_triggered" \in seen
  BY <1>1
<1>4. last \in seen
  <2>1. CASE new \subseteq t.seen
    BY <1>1, <2>1
  <2>2. CASE ~(new \subseteq t.seen)
    <3>1. LastPushed(new \ t.seen) \in new \ t.seen
      BY <2>2, LastOfPushed
    <3> QED
      BY <2>2, <3>1
  <2> QED
    BY <2>1, <2>2
<1>5. last \notin Terminal => seen \cap Terminal = {}
  <2>1. CASE new \subseteq t.seen
    BY <1>1, <2>1
  <2>2. CASE ~(new \subseteq t.seen)
    <3> SUFFICES ASSUME last \notin Terminal PROVE seen \cap Terminal = {}
      OBVIOUS
    <3>1. LastPushed(new \ t.seen) \in new \ t.seen
      BY <2>2, LastOfPushed
    <3>2. LastPushed(new \ t.seen) = "entry_triggered"
      BY <2>2, <3>1 DEF PushedEvents, Terminal
    <3>3. new \ t.seen = {"entry_triggered"}
      BY <2>2, <3>2, LastOfPushed
    <3> QED
      BY <1>1, <3>3 DEF Terminal
  <2> QED
    BY <2>1, <2>2
<1>6. paid => BestTarget(seen) \in seen
  BY DEF BestTarget, PaidTargets
<1>7. u = IF last \notin Terminal
          THEN [t EXCEPT !.seen = seen, !.status = last, !.fill = fill]
          ELSE [t EXCEPT !.seen = seen, !.completed = TRUE, !.fill = fill,
                         !.status = status, !.won = won]
  BY DEF ApplyEvents, PaidTargets
<1>8. status \in seen /\ fill \in Int \cup {Nil} /\ won \in {"yes", "no", "none"}
  <2> HIDE DEF last, paid
  <2> QED
    BY <1>1, <1>4, <1>6
<1>9. won # "none" => "entry_triggered" \in seen
  BY <1>3
<1>12. (won = "no" => status = "stop_hit") /\ (won = "yes" => status \in PaidTargets)
  <2>1. BestTarget(seen) \in PaidTargets
    BY DEF BestTarget, PaidTargets
  <2> QED
    BY <2>1
<1> HIDE DEF seen, last, stopped, paid, fill, status, won, u
<1>10. CASE last \notin Terminal
  <2>1. /\ u.seen = seen /\ u.status = last /\ u.won = t.won /\ u.chart = t.chart
        /\ u.setup = t.setup /\ u.completed = t.completed /\ u.fill = fill /\ u \in PlanType
    BY <1>1, <1>2, <1>4, <1>7, <1>8, <1>10 DEF PlanType
  <2>2. t.seen \subseteq seen
    BY DEF seen
  <2>3. SoundPlan(u)
    <3>1. seen \cap PaidTargets # {} => "entry_triggered" \in seen
      BY <1>3 DEF paid
    <3> QED
      BY <1>1, <1>4, <1>5, <1>10, <2>1, <2>2, <3>1 DEF SoundPlan
  <2> QED
    BY <2>1, <2>3 DEF u
<1>11. CASE last \in Terminal
  <2>1. /\ u.seen = seen /\ u.status = status /\ u.won = won /\ u.chart = t.chart
        /\ u.setup = t.setup /\ u.completed = TRUE /\ u.fill = fill /\ u \in PlanType
    BY <1>1, <1>2, <1>7, <1>8, <1>11 DEF PlanType
  <2>2. SoundPlan(u)
    <3>1. seen \cap PaidTargets # {} => "entry_triggered" \in seen
      BY <1>3 DEF paid
    <3> QED
      BY <1>8, <1>9, <1>12, <2>1, <3>1 DEF SoundPlan
  <2> QED
    BY <2>1, <2>2 DEF u
<1> QED
  BY <1>10, <1>11

\* The rest of the list when the plan of a setup is taken out of it.
TheRest(rest, c, s) ==
    /\ rest \in Seq(PlanType) /\ Len(rest) <= PlanCap /\ OnePlanEach(rest)
    /\ \A j \in DOMAIN rest : /\ SoundPlan(rest[j])
                              /\ ~(rest[j].chart = c /\ rest[j].setup = s)
    /\ \A i \in DOMAIN plans :
          plans[i].completed => \E j \in DOMAIN rest : j <= i /\ rest[j] = plans[i]

KeepsPlans(next) ==
    /\ next \in Seq(PlanType) /\ Len(next) <= PlanCap /\ OnePlanEach(next)
    /\ \A j \in DOMAIN next : SoundPlan(next[j])
    /\ \A i \in DOMAIN plans :
          plans[i].completed => (\E j \in DOMAIN next : next[j] = plans[i]) \/ i = PlanCap

\* Taking an open plan out leaves every completed one, no lower than it was.
LEMMA PlanTakenOut ==
    ASSUME TypeOK, \A i \in DOMAIN plans : SoundPlan(plans[i]), OnePlanEach(plans),
           NEW k \in DOMAIN plans, ~plans[k].completed
    PROVE  TheRest(RemoveAt(plans, k), plans[k].chart, plans[k].setup)
<1> DEFINE rest == RemoveAt(plans, k)
<1>1. plans \in Seq(PlanType) /\ Len(plans) <= PlanCap /\ PlanCap \in Nat
  BY NumbersAssumption DEF TypeOK, ListOf
<1>2. DOMAIN plans = 1 .. Len(plans) /\ Len(plans) \in Nat
  BY <1>1, LenProperties
<1>3. rest \in Seq(PlanType)
  BY <1>1, RemovedAt
<1>4. Len(rest) = Len(plans) - 1
  BY <1>1, RemovedAt
<1>5. \A j \in 1 .. Len(plans) - 1 : rest[j] = IF j < k THEN plans[j] ELSE plans[j + 1]
  BY <1>1, RemovedAt
<1> HIDE DEF rest
<1>6. DOMAIN rest = 1 .. Len(plans) - 1
  BY <1>3, <1>4, LenProperties
<1> DEFINE From(j) == IF j < k THEN j ELSE j + 1
<1>7. ASSUME NEW j \in DOMAIN rest
      PROVE  From(j) \in DOMAIN plans /\ From(j) # k /\ rest[j] = plans[From(j)]
  BY <1>2, <1>5, <1>6
<1>8. OnePlanEach(rest)
  <2> SUFFICES ASSUME NEW i \in DOMAIN rest, NEW j \in DOMAIN rest,
                      rest[i].chart = rest[j].chart, rest[i].setup = rest[j].setup
               PROVE  i = j
    BY DEF OnePlanEach
  <2>1. From(i) = From(j)
    <3> HIDE DEF From
    <3> QED
      BY <1>7 DEF OnePlanEach
  <2> QED
    BY <1>2, <1>6, <2>1
<1>9. ASSUME NEW j \in DOMAIN rest
      PROVE  SoundPlan(rest[j]) /\ ~(rest[j].chart = plans[k].chart /\ rest[j].setup = plans[k].setup)
  <2> HIDE DEF From
  <2> QED
    BY <1>7 DEF OnePlanEach
<1>10. ASSUME NEW i \in DOMAIN plans, plans[i].completed
       PROVE  \E j \in DOMAIN rest : j <= i /\ rest[j] = plans[i]
  <2>1. i # k
    BY <1>10
  <2>2. CASE i < k
    BY <1>2, <1>5, <1>6, <2>2
  <2>3. CASE i > k
    <3>1. i - 1 \in DOMAIN rest /\ rest[i - 1] = plans[i] /\ i - 1 <= i
      BY <1>2, <1>5, <1>6, <2>3
    <3> QED
      BY <3>1
  <2> QED
    BY <1>2, <2>1, <2>2, <2>3
<1>11. Len(rest) <= PlanCap
  BY <1>1, <1>2, <1>4
<1> QED
  BY <1>3, <1>8, <1>9, <1>10, <1>11 DEF TheRest, rest

\* Putting the plan of that setup on top keeps the list as PlansStep needs it.
LEMMA PlanPutOnTop ==
    ASSUME TypeOK, NEW rest, NEW c, NEW s, TheRest(rest, c, s),
           NEW u \in PlanType, SoundPlan(u), u.chart = c, u.setup = s
    PROVE  KeepsPlans(Cut(rest, u, PlanCap))
<1> DEFINE next == Cut(rest, u, PlanCap)
<1>1. rest \in Seq(PlanType) /\ Len(rest) <= PlanCap /\ PlanCap \in Nat \ {0}
  BY NumbersAssumption DEF TheRest
<1>2. next \in Seq(PlanType) /\ Len(next) <= PlanCap /\ next[1] = u
  BY <1>1, PutOnTop
<1>3. \A j \in DOMAIN next : j # 1 => j - 1 \in DOMAIN rest /\ next[j] = rest[j - 1]
  BY <1>1, PutOnTop
<1>4. \A j \in DOMAIN rest : j # PlanCap => j + 1 \in DOMAIN next /\ next[j + 1] = rest[j]
  BY <1>1, PutOnTop
<1> HIDE DEF next
<1>5. /\ DOMAIN next = 1 .. Len(next) /\ Len(next) \in Nat
      /\ DOMAIN rest = 1 .. Len(rest) /\ Len(rest) \in Nat
      /\ DOMAIN plans = 1 .. Len(plans) /\ Len(plans) \in Nat /\ Len(plans) <= PlanCap
  BY <1>1, <1>2, LenProperties DEF TypeOK, ListOf
<1>6. \A j \in DOMAIN next : SoundPlan(next[j])
  BY <1>2, <1>3 DEF TheRest
<1>7. OnePlanEach(next)
  <2> SUFFICES ASSUME NEW i \in DOMAIN next, NEW j \in DOMAIN next,
                      next[i].chart = next[j].chart, next[i].setup = next[j].setup
               PROVE  i = j
    BY DEF OnePlanEach
  <2>1. CASE i = 1 \/ j = 1
    BY <1>2, <1>3, <2>1 DEF TheRest
  <2>2. CASE i # 1 /\ j # 1
    <3>1. i - 1 = j - 1
      BY <1>3, <2>2 DEF TheRest, OnePlanEach
    <3> QED
      BY <1>5, <3>1
  <2> QED
    BY <2>1, <2>2
<1>8. ASSUME NEW i \in DOMAIN plans, plans[i].completed, i # PlanCap
      PROVE  \E j \in DOMAIN next : next[j] = plans[i]
  <2>1. PICK j \in DOMAIN rest : j <= i /\ rest[j] = plans[i]
    BY <1>8 DEF TheRest
  <2>2. j # PlanCap
    BY <1>1, <1>5, <1>8, <2>1
  <2> QED
    BY <1>4, <2>1, <2>2
<1> QED
  BY <1>2, <1>6, <1>7, <1>8 DEF KeepsPlans, next

\* A decision that acts adds a plan or applies the events of its price to the one there is.
LEMMA UpsertedPlan ==
    ASSUME TypeOK, \A i \in DOMAIN plans : SoundPlan(plans[i]), OnePlanEach(plans),
           NEW c \in Charts, market[c].act, NEW next \in UpsertFromPlan(plans, c, market[c])
    PROVE  KeepsPlans(next)
<1> DEFINE m == market[c]
           Is(i) == plans[i].chart = c /\ plans[i].setup = m.setup
           hit == HitFlags(m.setup, m.price)
           new == EventsOf(hit, SignalState(hit, m.expired))
           Updated(t) == ApplyEvents(t, new, m.price)
<1>1. m.price \in Int /\ m.setup \in Setups
  BY MarketFacts
<1>2. plans \in Seq(PlanType) /\ Len(plans) <= PlanCap
  BY DEF TypeOK, ListOf
<1>3. KeepsPlans(plans)
  BY <1>2 DEF KeepsPlans
<1>4. /\ new \subseteq PushedEvents
      /\ new \cap PaidTargets # {} => "entry_triggered" \in new
  BY <1>1, TargetWithEntry
<1> HIDE DEF new
<1>5. CASE ~\E i \in DOMAIN plans : Is(i)
  <2> DEFINE t == NewPlan(c, m.setup)
  <2>1. next = Cut(plans, Updated(t), PlanCap)
    BY <1>5 DEF UpsertFromPlan, Without, Has, NewPlan, new
  <2>2. t \in PlanType /\ SoundPlan(t) /\ ~t.completed /\ t.chart = c /\ t.setup = m.setup
    BY <1>1 DEF NewPlan, PlanType, SoundPlan, Lifecycle, Terminal, PaidTargets
  <2> HIDE DEF t, m
  <2>3. TheRest(plans, c, m.setup)
    BY <1>2, <1>5, LenProperties DEF TheRest
  <2>4. /\ Updated(t) \in PlanType /\ SoundPlan(Updated(t))
        /\ Updated(t).chart = c /\ Updated(t).setup = m.setup
    BY <1>1, <1>4, <2>2, AppliedEvents
  <2> QED
    BY <2>1, <2>3, <2>4, PlanPutOnTop
<1>6. CASE \E i \in DOMAIN plans : Is(i)
  <2> DEFINE k == CHOOSE i \in DOMAIN plans : Is(i)
             t == plans[k]
  <2>1. k \in DOMAIN plans /\ Is(k)
    BY <1>6
  <2>2. \/ next = plans
        \/ ~t.completed /\ next = Cut(RemoveAt(plans, k), Updated(t), PlanCap)
    BY <1>6 DEF UpsertFromPlan, Without, Has, Find, new
  <2> HIDE DEF k, m
  <2>3. t \in PlanType /\ SoundPlan(t)
    BY <1>2, <2>1, LenProperties, ElementOfSeq
  <2>4. CASE ~t.completed /\ next = Cut(RemoveAt(plans, k), Updated(t), PlanCap)
    <3>1. TheRest(RemoveAt(plans, k), c, m.setup)
      BY <2>1, <2>4, PlanTakenOut
    <3>2. /\ Updated(t) \in PlanType /\ SoundPlan(Updated(t))
          /\ Updated(t).chart = c /\ Updated(t).setup = m.setup
      BY <1>1, <1>4, <2>1, <2>3, <2>4, AppliedEvents
    <3> QED
      BY <2>4, <3>1, <3>2, PlanPutOnTop
  <2> QED
    BY <1>3, <2>2, <2>4
<1> QED
  BY <1>5, <1>6

\* A flip to WAIT cancels the open plans of the chart and leaves the completed ones.
LEMMA CancelledPlans ==
    ASSUME TypeOK, \A i \in DOMAIN plans : SoundPlan(plans[i]), OnePlanEach(plans),
           NEW c \in Charts
    PROVE  KeepsPlans(CancelActive(plans, c))
<1> DEFINE f == CancelActive(plans, c)
<1>1. f = [i \in DOMAIN plans |-> IF plans[i].completed \/ plans[i].chart # c THEN plans[i]
                                  ELSE Cancelled(plans[i])]
  BY DEF CancelActive, Map
<1>2. plans \in Seq(PlanType) /\ Len(plans) <= PlanCap
  BY DEF TypeOK, ListOf
<1> HIDE DEF f
<1>3. ASSUME NEW i \in DOMAIN plans
      PROVE  /\ f[i] \in PlanType /\ SoundPlan(f[i])
             /\ f[i].chart = plans[i].chart /\ f[i].setup = plans[i].setup
             /\ plans[i].completed => f[i] = plans[i]
  <2>1. plans[i] \in PlanType /\ SoundPlan(plans[i])
    BY <1>2, LenProperties, ElementOfSeq
  <2>2. CASE plans[i].completed \/ plans[i].chart # c
    BY <1>1, <2>1, <2>2
  <2>3. CASE ~(plans[i].completed \/ plans[i].chart # c)
    <3> DEFINE u == Cancelled(plans[i])
    <3>1. f[i] = u
      BY <1>1, <2>3
    <3>2. "cancelled" \in Lifecycle
      BY DEF Lifecycle, Terminal
    <3>3. /\ u.seen = plans[i].seen \cup {"cancelled"} /\ u.status = "cancelled"
          /\ u.completed = TRUE /\ u.won = "none" /\ u.chart = plans[i].chart
          /\ u.setup = plans[i].setup /\ u \in PlanType
      BY <2>1, <3>2 DEF Cancelled, PlanType
    <3> HIDE DEF u
    <3>4. SoundPlan(u)
      BY <2>1, <3>3 DEF SoundPlan, PaidTargets
    <3> QED
      BY <2>3, <3>1, <3>3, <3>4
  <2> QED
    BY <2>2, <2>3
<1>4. f = [i \in DOMAIN plans |-> f[i]]
  BY <1>1
<1>5. f \in Seq(PlanType) /\ Len(f) = Len(plans) /\ DOMAIN f = DOMAIN plans
  BY <1>2, <1>3, <1>4, MappedList
<1>6. OnePlanEach(f)
  BY <1>3, <1>5 DEF OnePlanEach
<1> QED
  BY <1>2, <1>3, <1>5, <1>6 DEF KeepsPlans, f

\* One store's step: an acting decision tracks its plan, a flip to WAIT cancels.
LEMMA PlansStep ==
    ASSUME TypeOK, \A i \in DOMAIN plans : SoundPlan(plans[i]), OnePlanEach(plans),
           NEW p \in Panes, NEW c \in Charts, KeepPlans(p, c, market[c])
    PROVE  KeepsPlans(plans') /\ prev' \in [Panes -> BOOLEAN]
<1>1. KeepsPlans(plans)
  BY DEF KeepsPlans, TypeOK, ListOf
<1>2. market[c].act \in BOOLEAN /\ prev \in [Panes -> BOOLEAN]
  BY MarketFacts DEF TypeOK
<1>3. CASE "plans" \notin kept
  BY <1>1, <1>2, <1>3 DEF KeepPlans
<1>4. CASE "plans" \in kept
  <2>1. prev' \in [Panes -> BOOLEAN]
    BY <1>2, <1>4 DEF KeepPlans
  <2>2. \/ market[c].act /\ plans' \in UpsertFromPlan(plans, c, market[c])
        \/ plans' = CancelActive(plans, c)
        \/ plans' = plans
    BY <1>4 DEF KeepPlans
  <2> QED
    BY <1>1, <2>1, <2>2, UpsertedPlan, CancelledPlans
<1> QED
  BY <1>3, <1>4

-----------------------------------------------------------------------------
(* The journal and the missed opportunities keep their types.              *)

\* A signal is put on top of the journal or left out.
LEMMA RecordedSignal ==
    ASSUME TypeOK, NEW c \in Charts, NEW l \in RecordSignal(entries, c, market[c])
    PROVE  l \in Seq(EntryType) /\ Len(l) <= Cap
<1> DEFINE m == market[c]
           noted == [key |-> <<c, intraday, KindHere(m), m.setup>>, setup |-> m.setup,
                     outcome |-> IF m.act THEN "open" ELSE "cancelled"]
<1>1. entries \in Seq(EntryType) /\ Len(entries) <= Cap /\ Cap \in Nat \ {0}
  BY NumbersAssumption DEF TypeOK, ListOf
<1>2. l = entries \/ l = Cut(entries, noted, Cap)
  BY DEF RecordSignal, OnTop
<1>3. noted \in EntryType
  <2>1. m.setup \in Setups \cup {Nil} /\ intraday \in BOOLEAN
    BY MarketFacts DEF TypeOK
  <2>2. KindHere(m) \in Kinds
    BY DEF KindHere, Kinds, Buys
  <2> HIDE DEF m
  <2> QED
    BY <2>1, <2>2 DEF EntryType
<1> HIDE DEF noted
<1> QED
  BY <1>1, <1>2, <1>3, PutOnTop

\* One store's step: the signal, then the price, which writes outcomes only.
LEMMA JournalStep ==
    ASSUME TypeOK, NEW c \in Charts, KeepJournal(c, market[c])
    PROVE  ListOf(EntryType, entries, Cap)'
<1>1. CASE "journal" \in kept
  <2>1. PICK l \in RecordSignal(entries, c, market[c]) :
            entries' = MarkPriceUpdate(l, c, market[c].price)
    BY <1>1 DEF KeepJournal
  <2>2. l \in Seq(EntryType) /\ Len(l) <= Cap
    BY RecordedSignal
  <2>3. entries' = [i \in DOMAIN l |-> entries'[i]]
    BY <2>1 DEF MarkPriceUpdate, Map
  <2>4. ASSUME NEW i \in DOMAIN l PROVE entries'[i] \in EntryType
    <3>1. l[i] \in EntryType
      BY <2>2, LenProperties, ElementOfSeq
    <3>2. \/ entries'[i] = l[i]
          \/ \E o \in {"open", "win", "loss"} : entries'[i] = [l[i] EXCEPT !.outcome = o]
      BY <2>1 DEF MarkPriceUpdate, Map
    <3> QED
      BY <3>1, <3>2 DEF EntryType
  <2>5. entries' \in Seq(EntryType) /\ Len(entries') = Len(l)
    BY <2>2, <2>3, <2>4, MappedList
  <2> QED
    BY <2>2, <2>5 DEF ListOf
<1>2. CASE "journal" \notin kept
  BY <1>2 DEF KeepJournal, TypeOK, ListOf
<1> QED
  BY <1>1, <1>2

\* A decision is put on top of the missed opportunities, in place of the day's WAIT of its side.
LEMMA RecordedMissed ==
    ASSUME TypeOK, \A i \in DOMAIN records : SoundRecord(records[i]), NEW c \in Charts,
           NEW l \in RecordMissed(records, c, market[c])
    PROVE  l \in Seq(RecordType) /\ Len(l) <= Cap /\ \A i \in DOMAIN l : SoundRecord(l[i])
<1> DEFINE m == market[c]
           Note(id, dir, evidence) ==
               [id |-> id, dir |-> dir, at |-> m.price, mfe |-> 0, mae |-> 0,
                evidence |-> evidence, class |-> IF m.act THEN "taken" ELSE "correct_wait",
                resolved |-> m.act]
           taken == Note(<<c, m.setup, SideOf(m.setup), day>>, SideOf(m.setup), FALSE)
           wait == Note(<<c, Nil, m.hypo, day>>, m.hypo, m.evidence)
<1>1. records \in Seq(RecordType) /\ Len(records) <= Cap /\ Cap \in Nat \ {0}
  BY NumbersAssumption DEF TypeOK, ListOf
<1>2. /\ m.price \in Int /\ m.act \in BOOLEAN /\ day \in Days
      /\ m.act => m.setup \in Setups
      /\ ~m.act => m.hypo \in {1, -1, 0} /\ m.evidence \in BOOLEAN
  BY MarketFacts DEF TypeOK
<1>3. \/ l = records
      \/ m.act /\ l = Cut(records, taken, Cap)
      \/ /\ ~m.act /\ m.hypo # 0
         /\ l = Cut(Without(records, LAMBDA r : r.id = <<c, Nil, m.hypo, day>>), wait, Cap)
  <2>1. CASE m.act
    BY <2>1 DEF RecordMissed, OnTop
  <2>2. CASE ~m.act /\ m.hypo = 0
    BY <2>2 DEF RecordMissed, OnTop
  <2>3. CASE ~m.act /\ m.hypo # 0
    BY <2>3 DEF RecordMissed, OnTop
  <2> QED
    BY <2>1, <2>2, <2>3
<1>4. CASE m.act /\ l = Cut(records, taken, Cap)
  <2>1. taken \in RecordType
    <3>1. SideOf(m.setup) \in {1, -1}
      BY <1>2, <1>4, SideIs
    <3> HIDE DEF m
    <3> QED
      BY <1>2, <1>4, <3>1 DEF RecordType
  <2>2. SoundRecord(taken)
    BY <1>4 DEF SoundRecord
  <2> HIDE DEF taken
  <2>3. l \in Seq(RecordType) /\ Len(l) <= Cap /\ l[1] = taken
    BY <1>1, <1>4, <2>1, PutOnTop
  <2>4. \A i \in DOMAIN l : i # 1 => i - 1 \in DOMAIN records /\ l[i] = records[i - 1]
    BY <1>1, <1>4, <2>1, PutOnTop
  <2> QED
    BY <2>2, <2>3, <2>4
<1>5. CASE /\ ~m.act /\ m.hypo # 0
           /\ l = Cut(Without(records, LAMBDA r : r.id = <<c, Nil, m.hypo, day>>), wait, Cap)
  <2> DEFINE Is(i) == records[i].id = <<c, Nil, m.hypo, day>>
             rest == Without(records, LAMBDA r : r.id = <<c, Nil, m.hypo, day>>)
  <2>1. wait \in RecordType
    <3> HIDE DEF m
    <3> QED
      BY <1>2, <1>5 DEF RecordType
  <2>2. \/ rest = records
        \/ \E k \in DOMAIN records : rest = RemoveAt(records, k)
    <3>1. CASE \E i \in DOMAIN records : Is(i)
      <4> DEFINE k == CHOOSE i \in DOMAIN records : Is(i)
      <4>1. k \in DOMAIN records
        BY <3>1
      <4>2. rest = RemoveAt(records, k)
        BY <3>1 DEF Without, Has, Find
      <4> QED
        BY <4>1, <4>2
    <3>2. CASE ~\E i \in DOMAIN records : Is(i)
      BY <3>2 DEF Without, Has
    <3> QED
      BY <3>1, <3>2
  <2>5. SoundRecord(wait)
    BY <1>5 DEF SoundRecord
  <2> HIDE DEF wait, rest
  <2>3. /\ rest \in Seq(RecordType) /\ Len(rest) <= Cap
        /\ \A i \in DOMAIN rest : \E j \in DOMAIN records : rest[i] = records[j]
    <3>1. CASE rest = records
      BY <1>1, <3>1
    <3>2. ASSUME NEW k \in DOMAIN records, rest = RemoveAt(records, k)
          PROVE  /\ rest \in Seq(RecordType) /\ Len(rest) <= Cap
                 /\ \A i \in DOMAIN rest : \E j \in DOMAIN records : rest[i] = records[j]
      <4>1. rest \in Seq(RecordType)
        BY <1>1, <3>2, RemovedAt
      <4>2. Len(rest) = Len(records) - 1 /\ Len(records) \in Nat
        BY <1>1, <3>2, RemovedAt, LenProperties
      <4>3. \A j \in 1 .. Len(records) - 1 : rest[j] = IF j < k THEN records[j] ELSE records[j + 1]
        BY <1>1, <3>2, RemovedAt
      <4>4. DOMAIN rest = 1 .. Len(records) - 1 /\ DOMAIN records = 1 .. Len(records)
        BY <1>1, <4>1, <4>2, LenProperties
      <4>5. \A j \in DOMAIN rest : j \in DOMAIN records /\ j + 1 \in DOMAIN records
        BY <4>2, <4>4
      <4>6. \A i \in DOMAIN rest : \E j \in DOMAIN records : rest[i] = records[j]
        BY <4>3, <4>4, <4>5
      <4> QED
        BY <1>1, <4>1, <4>2, <4>6
    <3> QED
      BY <2>2, <3>1, <3>2
  <2>4. l = Cut(rest, wait, Cap)
    BY <1>5 DEF rest
  <2>6. l \in Seq(RecordType) /\ Len(l) <= Cap /\ l[1] = wait
    BY <1>1, <2>1, <2>3, <2>4, PutOnTop
  <2>7. \A i \in DOMAIN l : i # 1 => i - 1 \in DOMAIN rest /\ l[i] = rest[i - 1]
    BY <1>1, <2>1, <2>3, <2>4, PutOnTop
  <2>8. \A i \in DOMAIN rest : SoundRecord(rest[i])
    BY <2>3
  <2> QED
    BY <2>5, <2>6, <2>7, <2>8
<1> QED
  BY <1>1, <1>3, <1>4, <1>5

\* A price moves and may resolve the pending ones.
LEMMA EvaluatedMissed ==
    ASSUME TypeOK, NEW list \in Seq(RecordType), NEW c, NEW price \in Int,
           \A i \in DOMAIN list : SoundRecord(list[i]), NEW l \in EvaluateMissed(list, c, price)
    PROVE  l \in Seq(RecordType) /\ Len(l) = Len(list) /\ \A i \in DOMAIN l : SoundRecord(l[i])
<1> DEFINE Moved(r) == [r EXCEPT !.mfe = Larger(@, Gain(r.dir, r.at, price)),
                                 !.mae = Larger(@, -Gain(r.dir, r.at, price))]
<1>1. l = [i \in DOMAIN list |-> l[i]]
  BY DEF EvaluateMissed
<1>2. ASSUME NEW i \in DOMAIN list PROVE l[i] \in RecordType /\ SoundRecord(l[i])
  <2> DEFINE r == list[i]
             u == Moved(r)
  <2>1. r \in RecordType /\ SoundRecord(r)
    BY LenProperties, ElementOfSeq
  <2>2. \/ l[i] = r \/ l[i] = u
        \/ u.mfe >= Floor /\ l[i] = [u EXCEPT !.resolved = TRUE, !.class = "missed"]
        \/ l[i] = [u EXCEPT !.resolved = TRUE]
    BY DEF EvaluateMissed
  <2>3. u \in RecordType /\ u.class = r.class /\ u.mfe >= r.mfe
    <3>1. Gain(r.dir, r.at, price) \in Int /\ r.mfe \in Nat /\ r.mae \in Nat
      BY <2>1 DEF RecordType, Gain
    <3>2. /\ Larger(r.mfe, Gain(r.dir, r.at, price)) \in Nat
          /\ Larger(r.mae, -Gain(r.dir, r.at, price)) \in Nat
          /\ Larger(r.mfe, Gain(r.dir, r.at, price)) >= r.mfe
      BY <3>1 DEF Larger
    <3> HIDE DEF r
    <3> QED
      BY <2>1, <3>2 DEF RecordType
  <2> HIDE DEF u, r
  <2>4. l[i] \in RecordType
    BY <2>1, <2>2, <2>3 DEF RecordType
  <2>5. l[i].class = "missed" => l[i].mfe >= Floor
    <3>1. u.class = "missed" => u.mfe >= Floor
      BY <2>1, <2>3, NumbersAssumption DEF SoundRecord, RecordType
    <3>2. CASE l[i] = r
      BY <2>1, <3>2 DEF SoundRecord
    <3>3. CASE l[i] = u
      BY <3>1, <3>3
    <3>4. CASE u.mfe >= Floor /\ l[i] = [u EXCEPT !.resolved = TRUE, !.class = "missed"]
      BY <2>3, <3>4 DEF RecordType
    <3>5. CASE l[i] = [u EXCEPT !.resolved = TRUE]
      BY <2>3, <3>1, <3>5 DEF RecordType
    <3> QED
      BY <2>2, <3>2, <3>3, <3>4, <3>5
  <2> QED
    BY <2>4, <2>5 DEF SoundRecord
<1>3. \A i \in DOMAIN list : l[i] \in RecordType
  BY <1>2
<1>4. l \in Seq(RecordType) /\ Len(l) = Len(list) /\ DOMAIN l = DOMAIN list
  BY <1>1, <1>3, MappedList
<1> QED
  BY <1>2, <1>4

\* One store's step: the decision, for the intraday profiles, then the price.
LEMMA MissedStep ==
    ASSUME TypeOK, \A i \in DOMAIN records : SoundRecord(records[i]), NEW c \in Charts,
           KeepMissed(c, market[c])
    PROVE  ListOf(RecordType, records, Cap)' /\ \A i \in DOMAIN records' : SoundRecord(records'[i])
<1>1. records \in Seq(RecordType) /\ Len(records) <= Cap /\ market[c].price \in Int
  BY MarketFacts DEF TypeOK, ListOf
<1>2. CASE "missed" \in kept /\ intraday
  <2>1. PICK l \in RecordMissed(records, c, market[c]) :
            records' \in EvaluateMissed(l, c, market[c].price)
    BY <1>2 DEF KeepMissed
  <2>2. l \in Seq(RecordType) /\ Len(l) <= Cap /\ \A i \in DOMAIN l : SoundRecord(l[i])
    BY <2>1, RecordedMissed
  <2>3. /\ records' \in Seq(RecordType) /\ Len(records') = Len(l)
        /\ \A i \in DOMAIN records' : SoundRecord(records'[i])
    BY <1>1, <2>1, <2>2, EvaluatedMissed
  <2> QED
    BY <2>2, <2>3 DEF ListOf
<1>3. CASE "missed" \in kept /\ ~intraday
  BY <1>1, <1>3, EvaluatedMissed DEF KeepMissed, ListOf
<1>4. CASE "missed" \notin kept
  BY <1>1, <1>4 DEF KeepMissed, ListOf
<1> QED
  BY <1>2, <1>3, <1>4

-----------------------------------------------------------------------------
(* The whole step.                                                         *)

\* What HistoryKept and MissStands say of one step.
HistoryStep ==
    /\ Stays(trades, trades', Cap, LAMBDA t : ~Open(t))
    /\ Stays(snapshots, snapshots', Cap, LAMBDA r : r.outcome # "unknown")
    /\ Stays(plans, plans', PlanCap, LAMBDA t : t.completed)
MissStep ==
    \A i \in DOMAIN events, j \in DOMAIN events' :
       events[i].no = events'[j].no
          => /\ events'[j].snap = events[i].snap
             /\ events[i].missed = "yes" => events'[j].missed = "yes"

\* The stores are empty at first.
LEMMA InitInv == Init => JournalInv
<1> SUFFICES ASSUME Init PROVE JournalInv
  OBVIOUS
<1>1. /\ entries = <<>> /\ records = <<>> /\ events = <<>> /\ trades = <<>>
      /\ snapshots = <<>> /\ plans = <<>>
  BY DEF Init
<1>2. \A S : <<>> \in Seq(S) /\ Len(<<>>) = 0
  BY EmptySeq
<1>3. market \in [Charts -> Markets] /\ \A c \in Charts : market[c] \in Feed[kept][c]
  <2>1. kept \in Kept /\ \A c \in Charts : market[c] \in Feed[kept][c]
    BY DEF Init
  <2>2. \A c \in Charts : Feed[kept][c] \subseteq Markets
    BY <2>1, FeedAssumption
  <2>3. DOMAIN market = Charts /\ market = [c \in Charts |-> market[c]]
    BY DEF Init
  <2> QED
    BY <2>1, <2>2, <2>3
<1>4. TypeOK
  <2>1. /\ ListOf(EntryType, entries, Cap) /\ ListOf(RecordType, records, Cap)
        /\ ListOf(EventType, events, Cap) /\ ListOf(TradeType, trades, Cap)
        /\ ListOf(PersonalityType, snapshots, Cap) /\ ListOf(PlanType, plans, PlanCap)
    BY <1>1, <1>2, NumbersAssumption DEF ListOf
  <2>2. /\ chart \in [Panes -> Charts] /\ prev \in [Panes -> BOOLEAN] /\ owed \subseteq Panes
        /\ kept \in Kept /\ intraday \in BOOLEAN /\ past \in BOOLEAN
        /\ paperOn \in BOOLEAN /\ validationOn \in BOOLEAN
    BY DEF Init
  <2>3. day \in Days /\ logged \in 0 .. MaxEvents
    BY NumbersAssumption DEF Init, Days
  <2> QED
    BY <1>3, <2>1, <2>2, <2>3 DEF TypeOK
<1>5. DOMAIN <<>> = {}
  OBVIOUS
<1> QED
  BY <1>1, <1>4, <1>5 DEF JournalInv, OnePlanEach, InOrder

\* A step that leaves the stores alone, or empties them.
LEMMA StoresUntouched ==
    ASSUME JournalInv, TypeOK', UNCHANGED lists
    PROVE  JournalInv' /\ HistoryStep /\ MissStep
<1>1. /\ entries' = entries /\ records' = records /\ events' = events /\ trades' = trades
      /\ snapshots' = snapshots /\ plans' = plans /\ logged' = logged
  BY DEF lists
<1>2. JournalInv'
  BY <1>1 DEF JournalInv, OnePlanEach, InOrder
<1>3. HistoryStep
  BY <1>1 DEF HistoryStep, Stays, Has
<1>4. \A i, j \in DOMAIN events : events[i].no = events[j].no => i = j
  <2>1. events \in Seq(EventType) /\ DOMAIN events = 1 .. Len(events)
    BY LenProperties DEF JournalInv, TypeOK, ListOf
  <2>2. \A i \in DOMAIN events : events[i].no \in Nat
    <3> SUFFICES ASSUME NEW i \in DOMAIN events PROVE events[i].no \in Nat
      OBVIOUS
    <3>1. events[i] \in EventType
      BY <2>1, ElementOfSeq
    <3> QED
      BY <3>1, NumbersAssumption DEF EventType
  <2>3. Len(events) \in Nat
    BY <2>1, LenProperties
  <2> QED
    BY <2>1, <2>2, <2>3 DEF JournalInv, InOrder
<1>5. MissStep
  BY <1>1, <1>4 DEF MissStep
<1> QED
  BY <1>2, <1>3, <1>5

\* Emptied stores keep nothing that could be wrong.
LEMMA StoresCleared ==
    ASSUME JournalInv, Clear
    PROVE  JournalInv' /\ HistoryStep /\ MissStep
<1>1. /\ entries' = <<>> /\ records' = <<>> /\ events' = <<>> /\ trades' = <<>>
      /\ snapshots' = <<>> /\ plans' = <<>> /\ UNCHANGED <<desk, logged>>
  BY DEF Clear
<1>2. \A S : <<>> \in Seq(S) /\ Len(<<>>) = 0
  BY EmptySeq
<1>3. DOMAIN <<>> = {}
  OBVIOUS
<1>4. TypeOK'
  <2>1. (/\ ListOf(EntryType, entries, Cap) /\ ListOf(RecordType, records, Cap)
         /\ ListOf(EventType, events, Cap) /\ ListOf(TradeType, trades, Cap)
         /\ ListOf(PersonalityType, snapshots, Cap) /\ ListOf(PlanType, plans, PlanCap))'
    BY <1>1, <1>2, NumbersAssumption DEF ListOf
  <2> QED
    BY <1>1, <2>1 DEF JournalInv, TypeOK, desk
<1>5. JournalInv'
  BY <1>1, <1>3, <1>4 DEF JournalInv, OnePlanEach, InOrder
<1>6. HistoryStep
  BY <1>1 DEF HistoryStep, Stays
<1>7. MissStep
  BY <1>1, <1>3 DEF MissStep
<1> QED
  BY <1>5, <1>6, <1>7

\* The effect of one pane, store by store.
LEMMA EffectStep ==
    ASSUME JournalInv, NEW p \in Panes, Effect(p)
    PROVE  JournalInv' /\ HistoryStep /\ MissStep
<1> DEFINE c == chart[p]
<1>1. TypeOK /\ c \in Charts
  BY DEF JournalInv, TypeOK
<1>2. /\ KeepJournal(c, market[c]) /\ KeepMissed(c, market[c]) /\ KeepValidation(c, market[c])
      /\ KeepPaper(c, market[c]) /\ KeepPersonality(c, market[c])
      /\ KeepPlans(p, c, market[c]) /\ owed' = owed \ {p}
      /\ UNCHANGED <<chart, market, intraday, paperOn, validationOn, past, day, kept>>
  BY DEF Effect
<1> HIDE DEF c
<1>3. /\ ListOf(EntryType, entries, Cap)' /\ ListOf(RecordType, records, Cap)'
      /\ \A i \in DOMAIN records' : SoundRecord(records'[i])
  BY <1>1, <1>2, JournalStep, MissedStep DEF JournalInv
<1>4. /\ ListOf(EventType, events, Cap)' /\ logged' \in 0 .. MaxEvents
      /\ \A i \in DOMAIN events' : SoundMiss(events'[i])
      /\ InOrder(events', logged')
      /\ \A i \in DOMAIN events, j \in DOMAIN events' :
            events[i].no = events'[j].no => Follows(events[i], events'[j])
  BY <1>1, <1>2, ValidationStep DEF JournalInv
<1>5. /\ ListOf(TradeType, trades, Cap)'
      /\ \A i \in DOMAIN trades' : SoundTrade(trades'[i])
      /\ Stays(trades, trades', Cap, LAMBDA t : ~Open(t))
  BY <1>1, <1>2, PaperStep DEF JournalInv
<1>6. /\ ListOf(PersonalityType, snapshots, Cap)'
      /\ Stays(snapshots, snapshots', Cap, LAMBDA r : r.outcome # "unknown")
  BY <1>1, <1>2, PersonalityStep
<1>7. KeepsPlans(plans') /\ prev' \in [Panes -> BOOLEAN]
  BY <1>1, <1>2, PlansStep DEF JournalInv
<1>8. TypeOK'
  BY <1>1, <1>2, <1>3, <1>4, <1>5, <1>6, <1>7 DEF TypeOK, KeepsPlans, ListOf
<1>9. JournalInv'
  BY <1>3, <1>4, <1>5, <1>7, <1>8 DEF JournalInv, KeepsPlans
<1>10. HistoryStep
  <2>1. Stays(plans, plans', PlanCap, LAMBDA t : t.completed)
    BY <1>7 DEF KeepsPlans, Stays, Has
  <2> QED
    BY <1>5, <1>6, <2>1 DEF HistoryStep
<1>11. MissStep
  BY <1>4 DEF MissStep, Follows
<1> QED
  BY <1>9, <1>10, <1>11

\* Every step keeps the invariant and is one that HistoryKept and MissStands allow.
LEMMA NextStep == JournalInv /\ [Next]_vars => JournalInv' /\ HistoryStep /\ MissStep
<1> SUFFICES ASSUME JournalInv, [Next]_vars PROVE JournalInv' /\ HistoryStep /\ MissStep
  OBVIOUS
<1>1. TypeOK
  BY DEF JournalInv
<1>2. ASSUME NEW p \in Panes, Effect(p) PROVE JournalInv' /\ HistoryStep /\ MissStep
  BY <1>2, EffectStep
<1>3. ASSUME NEW c \in Charts, NewData(c) PROVE JournalInv' /\ HistoryStep /\ MissStep
  <2>1. PICK m \in Feed[kept][c] : market' = [market EXCEPT ![c] = m]
    BY <1>3 DEF NewData
  <2>2. /\ owed' = Showing(c) /\ Showing(c) \subseteq Panes
        /\ UNCHANGED <<chart, prev, intraday, paperOn, validationOn, past, day, kept, lists>>
    BY <1>3 DEF NewData, Showing
  <2>3. m \in Markets
    BY <1>1, FeedAssumption DEF TypeOK
  <2>4. market' \in [Charts -> Markets] /\ \A d \in Charts : market'[d] \in Feed[kept'][d]
    BY <1>1, <2>1, <2>2, <2>3 DEF TypeOK
  <2>5. TypeOK'
    BY <1>1, <2>2, <2>4 DEF TypeOK, lists
  <2> QED
    BY <2>2, <2>5, StoresUntouched
<1>4. ASSUME NEW c \in Charts, NEW p \in Panes, SwitchChart(p, c)
      PROVE  JournalInv' /\ HistoryStep /\ MissStep
  <2>1. TypeOK' /\ UNCHANGED lists
    BY <1>1, <1>4 DEF SwitchChart, TypeOK, lists
  <2> QED
    BY <2>1, StoresUntouched
<1>5. CASE ChangeSettings
  <2>1. /\ paperOn' \in BOOLEAN /\ validationOn' \in BOOLEAN /\ intraday' \in BOOLEAN
        /\ owed' = Panes
        /\ UNCHANGED <<chart, prev, market, past, day, kept, lists>>
    BY <1>1, <1>5 DEF ChangeSettings, TypeOK
  <2>2. TypeOK'
    BY <1>1, <2>1 DEF TypeOK, lists
  <2> QED
    BY <2>1, <2>2, StoresUntouched
<1>6. CASE Clear
  BY <1>6, StoresCleared
<1>7. CASE Reload
  <2>1. TypeOK' /\ UNCHANGED lists
    BY <1>1, <1>7 DEF Reload, TypeOK, lists
  <2> QED
    BY <2>1, StoresUntouched
<1>8. CASE ClockMoves
  <2>1. /\ past' \in BOOLEAN /\ day' \in Days
        /\ UNCHANGED <<chart, prev, market, owed, intraday, paperOn, validationOn, kept, lists>>
    <3>1. UNCHANGED <<chart, prev, market, owed, intraday, paperOn, validationOn, kept, lists>>
      BY <1>8 DEF ClockMoves
    <3>2. past' \in BOOLEAN
      BY <1>8 DEF ClockMoves
    <3>3. day' = day \/ (day < MaxDays /\ day' = day + 1)
      BY <1>8 DEF ClockMoves
    <3>4. day \in 0 .. MaxDays /\ MaxDays \in Nat
      BY <1>1, NumbersAssumption DEF TypeOK, Days
    <3>5. day' \in 0 .. MaxDays
      BY <3>3, <3>4
    <3> QED
      BY <3>1, <3>2, <3>5 DEF Days
  <2>2. TypeOK'
    BY <1>1, <2>1 DEF TypeOK, lists
  <2> QED
    BY <2>1, <2>2, StoresUntouched
<1>9. CASE UNCHANGED vars
  <2>1. TypeOK' /\ UNCHANGED lists
    BY <1>1, <1>9 DEF TypeOK, vars, lists
  <2> QED
    BY <2>1, StoresUntouched
<1> QED
  BY <1>2, <1>3, <1>4, <1>5, <1>6, <1>7, <1>8, <1>9 DEF Next

\* The invariant holds in every reachable state.
LEMMA JournalInvHolds == Spec => []JournalInv
<1>1. Init => JournalInv
  BY InitInv
<1>2. JournalInv /\ [Next]_vars => JournalInv'
  BY NextStep
<1> QED
  BY <1>1, <1>2, PTL DEF Spec

-----------------------------------------------------------------------------
(* Drawdowns.  A fall of the curve below its peak is a run of consecutive  *)
(* results, whichever end the rows are walked from.                        *)

\* A walk over rows whose stretches, from one of its sets to a later one, are the runs.
Walks(walk, rows) ==
    /\ IsFiniteSet(walk) /\ walk \subseteq SUBSET rows
    /\ \A s \in walk : \A t \in walk \cup {{}} :
          t \subseteq s /\ s \ t # {} => \E a, b \in rows : s \ t = rows \cap (a .. b)
    /\ \A a, b \in rows :
          rows \cap (a .. b) # {}
             => \E s \in walk : \E t \in walk \cup {{}} : t \subseteq s /\ s \ t = rows \cap (a .. b)

\* The deepest fall of such a walk is the worst run.
LEMMA FallIsRun ==
    ASSUME NEW rows, IsFiniteSet(rows), NEW gains, \A i \in rows : gains[i] \in Int,
           NEW walk, Walks(walk, rows)
    PROVE  Drawdown(gains, walk) = WorstRun(gains, rows)
<1> DEFINE Total(s) == SumFunctionOnSet(gains, s)
           Peak(s) == Max({0} \cup Curve(gains, walk, s))
           D == {0} \cup {Peak(s) - Total(s) : s \in walk}
           Between(p) == rows \cap (p[1] .. p[2])
           R == {0} \cup {-Total(Between(p)) : p \in rows \X rows}
<1>1. \A s \in SUBSET rows : IsFiniteSet(s) /\ Total(s) \in Int
  <2> SUFFICES ASSUME NEW s \in SUBSET rows PROVE IsFiniteSet(s) /\ Total(s) \in Int
    OBVIOUS
  <2>1. IsFiniteSet(s) /\ \A i \in s : gains[i] \in Int
    BY FS_Subset
  <2>2. SumOf(gains, s) \in Int
    BY <2>1, SumInt
  <2> QED  BY <2>1, <2>2, SumIs
<1>2. \A s, t \in SUBSET rows : t \subseteq s => Total(s \ t) = Total(s) - Total(t)
  <2> SUFFICES ASSUME NEW s \in SUBSET rows, NEW t \in SUBSET rows, t \subseteq s
               PROVE  Total(s \ t) = Total(s) - Total(t)
    OBVIOUS
  <2> DEFINE u == s \ t
  <2>1. s = t \cup u /\ t \cap u = {} /\ u \in SUBSET rows
    OBVIOUS
  <2> HIDE DEF u
  <2>2. IsFiniteSet(t) /\ IsFiniteSet(u) /\ \A i \in t \cup u : gains[i] \in Int
    BY <1>1, <2>1
  <2>3. SumOf(gains, t \cup u) = SumOf(gains, t) + SumOf(gains, u)
    BY <2>1, <2>2, SumSplit
  <2>4. Total(s) = Total(t) + Total(u)
    BY <2>1, <2>3, SumIs
  <2>5. Total(s) \in Int /\ Total(t) \in Int /\ Total(u) \in Int
    BY <1>1, <2>1
  <2> HIDE DEF Total
  <2>6. Total(u) = Total(s) - Total(t)
    BY <2>4, <2>5
  <2> QED  BY <2>6 DEF u
<1>3. Total({}) = 0
  BY SumNone, SumIs
<1> HIDE DEF Total
<1>4. \A s \in walk : /\ Peak(s) \in Int
                      /\ \E t \in walk \cup {{}} : t \subseteq s /\ Peak(s) = Total(t)
                      /\ \A t \in walk \cup {{}} : t \subseteq s => Peak(s) >= Total(t)
  <2> SUFFICES ASSUME NEW s \in walk
               PROVE  /\ Peak(s) \in Int
                      /\ \E t \in walk \cup {{}} : t \subseteq s /\ Peak(s) = Total(t)
                      /\ \A t \in walk \cup {{}} : t \subseteq s => Peak(s) >= Total(t)
    OBVIOUS
  <2> DEFINE before == {t \in walk : t \subseteq s}
             total == [t \in before |-> Total(t)]
             P == {0} \cup Curve(gains, walk, s)
  <2>1. Curve(gains, walk, s) = {total[t] : t \in before}
    BY DEF Curve, Total
  <2>2. IsFiniteSet(before)
    <3>1. before \in SUBSET walk
      OBVIOUS
    <3> QED  BY <3>1, FS_Subset DEF Walks
  <2>3. IsFiniteSet(P)
    <3> HIDE DEF before, total
    <3>1. IsFiniteSet({total[t] : t \in before})
      BY <2>2, ImageFinite
    <3>2. IsFiniteSet({0})
      BY FS_Singleton
    <3> QED  BY <2>1, <3>1, <3>2, FS_Union
  <2>4. P = {0} \cup {Total(t) : t \in before}
    BY <2>1
  <2>5. \A t \in before : t \in SUBSET rows
    BY DEF Walks
  <2>6. P \subseteq Int /\ P # {} /\ 0 \in P
    BY <1>1, <2>4, <2>5
  <2>7. Max(P) \in P /\ \A y \in P : Max(P) >= y
    <3> HIDE DEF P
    <3> QED  BY <2>3, <2>6, MaxOf
  <2>8. Peak(s) = Max(P)
    OBVIOUS
  <2> HIDE DEF P, Peak
  <2>9. Peak(s) \in Int
    BY <2>6, <2>7, <2>8
  <2>10. \E t \in walk \cup {{}} : t \subseteq s /\ Peak(s) = Total(t)
    <3>1. Max(P) = 0 \/ \E t \in before : Max(P) = Total(t)
      BY <2>4, <2>7
    <3>2. CASE Max(P) = 0
      BY <1>3, <2>8, <3>2
    <3>3. CASE \E t \in before : Max(P) = Total(t)
      BY <2>8, <3>3
    <3> QED  BY <3>1, <3>2, <3>3
  <2>11. \A t \in walk \cup {{}} : t \subseteq s => Peak(s) >= Total(t)
    <3> SUFFICES ASSUME NEW t \in walk \cup {{}}, t \subseteq s PROVE Peak(s) >= Total(t)
      OBVIOUS
    <3>1. CASE t = {}
      BY <1>3, <2>6, <2>7, <2>8, <3>1
    <3>2. CASE t \in walk
      <4>1. t \in before
        BY <3>2
      <4>2. Total(t) \in P
        BY <2>4, <4>1
      <4> QED  BY <2>7, <2>8, <4>2
    <3> QED  BY <3>1, <3>2
  <2> QED  BY <2>9, <2>10, <2>11
<1> HIDE DEF Peak
<1>5. IsFiniteSet(D) /\ D \subseteq Int /\ D # {}
  <2> DEFINE fall == [s \in walk |-> Peak(s) - Total(s)]
  <2>1. D = {0} \cup {fall[s] : s \in walk}
    OBVIOUS
  <2>2. IsFiniteSet({fall[s] : s \in walk})
    <3> HIDE DEF fall
    <3> QED  BY ImageFinite DEF Walks
  <2>3. IsFiniteSet({0})
    BY FS_Singleton
  <2>4. \A s \in walk : Peak(s) - Total(s) \in Int
    <3>1. \A s \in walk : Peak(s) \in Int /\ Total(s) \in Int
      BY <1>1, <1>4 DEF Walks
    <3> QED  BY <3>1
  <2>5. D \subseteq Int /\ D # {}
    BY <2>4
  <2>6. IsFiniteSet(D)
    <3> HIDE DEF fall, D
    <3> QED  BY <2>1, <2>2, <2>3, FS_Union
  <2> QED  BY <2>5, <2>6
<1>13. \A p \in rows \X rows : Between(p) \in SUBSET rows
  OBVIOUS
<1>14. \A a, b \in rows : \E p \in rows \X rows : Between(p) = rows \cap (a .. b)
  <2> SUFFICES ASSUME NEW a \in rows, NEW b \in rows
               PROVE  \E p \in rows \X rows : Between(p) = rows \cap (a .. b)
    OBVIOUS
  <2>1. <<a, b>> \in rows \X rows /\ Between(<<a, b>>) = rows \cap (a .. b)
    OBVIOUS
  <2> QED  BY <2>1
<1>15. \A p \in rows \X rows : \E a, b \in rows : Between(p) = rows \cap (a .. b)
  <2> SUFFICES ASSUME NEW p \in rows \X rows
               PROVE  \E a, b \in rows : Between(p) = rows \cap (a .. b)
    OBVIOUS
  <2>1. p[1] \in rows /\ p[2] \in rows
    OBVIOUS
  <2> QED  BY <2>1
<1> HIDE DEF Between
<1>6. IsFiniteSet(R) /\ R \subseteq Int /\ R # {}
  <2> DEFINE loss == [p \in rows \X rows |-> -Total(Between(p))]
  <2>1. R = {0} \cup {loss[p] : p \in rows \X rows}
    OBVIOUS
  <2>2. IsFiniteSet(rows \X rows)
    BY FS_Product
  <2>3. IsFiniteSet({loss[p] : p \in rows \X rows})
    <3> HIDE DEF loss
    <3> QED  BY <2>2, ImageFinite
  <2>4. IsFiniteSet({0})
    BY FS_Singleton
  <2>5. \A p \in rows \X rows : -Total(Between(p)) \in Int
    <3>1. \A p \in rows \X rows : Total(Between(p)) \in Int
      BY <1>1, <1>13
    <3> QED  BY <3>1
  <2>6. R \subseteq Int /\ R # {}
    BY <2>5
  <2>7. IsFiniteSet(R)
    <3> HIDE DEF loss, R
    <3> QED  BY <2>1, <2>3, <2>4, FS_Union
  <2> QED  BY <2>6, <2>7
<1>7. \A s \in walk : \A t \in walk \cup {{}} :
         t \subseteq s => /\ Total(s \ t) = Total(s) - Total(t)
                          /\ Total(s) \in Int /\ Total(t) \in Int
  BY <1>1, <1>2 DEF Walks
<1>11. 0 \in R /\ (\A p \in rows \X rows : -Total(Between(p)) \in R)
       /\ \A y \in R : y = 0 \/ \E p \in rows \X rows : y = -Total(Between(p))
  OBVIOUS
<1>12. 0 \in D /\ (\A s \in walk : Peak(s) - Total(s) \in D)
       /\ \A x \in D : x = 0 \/ \E s \in walk : x = Peak(s) - Total(s)
  OBVIOUS
<1>16. \A s \in walk : \A t \in walk \cup {{}} :
          t \subseteq s /\ s \ t # {} => \E a, b \in rows : s \ t = rows \cap (a .. b)
  BY DEF Walks
<1>17. \A a, b \in rows :
          rows \cap (a .. b) # {}
             => \E s \in walk : \E t \in walk \cup {{}} : t \subseteq s /\ s \ t = rows \cap (a .. b)
  BY DEF Walks
<1>18. \A v \in Int : v = 0 => -v = 0
  <2>1. \A v \in Int : -v = 0 - v
    OBVIOUS
  <2>2. \A v \in Int : v = 0 => 0 - v = 0
    OBVIOUS
  <2> QED  BY <2>1, <2>2, Zenon
<1> HIDE DEF D, R
<1>8. ASSUME NEW x \in D PROVE \E y \in R : y >= x
  <2>1. CASE x = 0
    BY <1>11, <2>1
  <2>2. CASE \E s \in walk : x = Peak(s) - Total(s)
    <3>1. PICK s \in walk : x = Peak(s) - Total(s)
      BY <2>2
    <3>2. PICK t \in walk \cup {{}} : t \subseteq s /\ Peak(s) = Total(t)
      BY <1>4
    <3>3. Total(s \ t) = Total(s) - Total(t) /\ Total(s) \in Int /\ Total(t) \in Int
      BY <1>7, <3>2
    <3>4. x = -Total(s \ t) /\ x \in Int
      BY <3>1, <3>2, <3>3
    <3>5. CASE s \ t = {}
      <4>1. Total(s \ t) = 0 /\ 0 \in Int
        BY <1>3, <3>5
      <4>2. x = 0
        BY <1>18, <3>4, <4>1
      <4> QED  BY <1>11, <4>2
    <3>6. CASE s \ t # {}
      <4>1. \E a, b \in rows : s \ t = rows \cap (a .. b)
        BY <1>16, <3>2, <3>6
      <4>2. PICK p \in rows \X rows : s \ t = Between(p)
        BY <1>14, <4>1
      <4>3. x = -Total(Between(p))
        BY <3>4, <4>2
      <4>4. x \in R /\ x >= x
        BY <1>11, <3>4, <4>3
      <4> QED  BY <4>4
    <3> QED  BY <3>5, <3>6
  <2> QED  BY <1>12, <2>1, <2>2
<1>9. ASSUME NEW y \in R PROVE \E x \in D : x >= y
  <2>1. CASE y = 0
    BY <1>12, <2>1
  <2>2. CASE \E p \in rows \X rows : y = -Total(Between(p))
    <3>1. PICK p \in rows \X rows : y = -Total(Between(p))
      BY <2>2
    <3>2. CASE Between(p) = {}
      <4>1. Total(Between(p)) = 0 /\ 0 \in Int
        BY <1>3, <3>2
      <4>2. y = 0
        BY <1>18, <3>1, <4>1
      <4> QED  BY <1>12, <4>2
    <3>3. CASE Between(p) # {}
      <4>1. \E s \in walk : \E t \in walk \cup {{}} : t \subseteq s /\ s \ t = Between(p)
        <5>1. PICK a \in rows, b \in rows : Between(p) = rows \cap (a .. b)
          BY <1>15
        <5> QED  BY <1>17, <3>3, <5>1
      <4>2. PICK s \in walk : \E t \in walk \cup {{}} : t \subseteq s /\ s \ t = Between(p)
        BY <4>1
      <4>6. PICK t \in walk \cup {{}} : t \subseteq s /\ s \ t = Between(p)
        BY <4>2
      <4>3. Total(s \ t) = Total(s) - Total(t) /\ Total(s) \in Int /\ Total(t) \in Int
        BY <1>7, <4>6
      <4>4. Peak(s) \in Int /\ Peak(s) >= Total(t)
        BY <1>4, <4>6
      <4>5. y = -(Total(s) - Total(t))
        BY <3>1, <4>6, <4>3
      <4>7. Peak(s) - Total(s) >= y
        BY <4>3, <4>4, <4>5
      <4>8. Peak(s) - Total(s) \in D
        BY <1>12
      <4> QED  BY <4>7, <4>8
    <3> QED  BY <3>2, <3>3
  <2> QED  BY <1>11, <2>1, <2>2
<1>10. Max(D) = Max(R)
  <2> QED  BY <1>5, <1>6, <1>8, <1>9, MaxSame
<1> QED  BY <1>10 DEF Drawdown, WorstRun, Peak, Total, D, R, Between

\* A finite set of integers, if not empty, has its least.
LEMMA LeastOf ==
    ASSUME NEW S, IsFiniteSet(S), S \subseteq Int, S # {}
    PROVE  \E m \in S : \A y \in S : m <= y
<1> DEFINE f == [x \in S |-> 0 - x]
           T == {f[x] : x \in S}
<1>1. \A x \in S : f[x] \in T /\ f[x] = 0 - x
  OBVIOUS
<1>2. \A y \in T : \E x \in S : y = 0 - x
  OBVIOUS
<1>3. IsFiniteSet(T)
  <2> HIDE DEF f
  <2> QED  BY ImageFinite
<1>4. T \subseteq Int /\ T # {}
  <2>1. \A x \in S : 0 - x \in Int
    OBVIOUS
  <2>2. \A y \in T : y \in Int
    BY <1>2, <2>1
  <2> HIDE DEF f, T
  <2> QED  BY <1>1, <2>2
<1> HIDE DEF T
<1>5. Max(T) \in T /\ \A y \in T : Max(T) >= y
  BY <1>3, <1>4, MaxOf
<1> DEFINE n == Max(T)
<1> HIDE DEF n
<1>6. PICK m \in S : n = 0 - m
  BY <1>2, <1>5 DEF n
<1>7. \A y \in S : n >= 0 - y
  BY <1>1, <1>5 DEF n
<1>8. \A y \in S : m <= y
  <2> HIDE DEF f
  <2> QED  BY <1>6, <1>7
<1> QED  BY <1>8

\* The curve of the plans, from the newest back, walks over its rows.
LEMMA NewestWalks ==
    ASSUME NEW rows, IsFiniteSet(rows), rows \subseteq Int
    PROVE  Walks(FromNewest(rows), rows)
<1> DEFINE Until(i) == {j \in rows : j <= i}
           walk == {Until(i) : i \in rows}
<1>1. FromNewest(rows) = walk
  BY DEF FromNewest
<1>2. IsFiniteSet(walk)
  <2> DEFINE f == [i \in rows |-> Until(i)]
  <2>1. walk = {f[i] : i \in rows}
    OBVIOUS
  <2> HIDE DEF f, walk
  <2> QED  BY <2>1, ImageFinite
<1>3. \A i : \A j : j \in Until(i) <=> j \in rows /\ j <= i
  OBVIOUS
<1>4. (\A i \in rows : Until(i) \in walk) /\ \A s \in walk : \E i \in rows : s = Until(i)
  OBVIOUS
<1>5. \A i : Until(i) \in SUBSET rows
  OBVIOUS
<1> HIDE DEF Until, walk
<1>6. walk \subseteq SUBSET rows
  BY <1>4, <1>5
<1>7. ASSUME NEW s \in walk, NEW t \in walk \cup {{}}, t \subseteq s, s \ t # {}
      PROVE  \E a, b \in rows : s \ t = rows \cap (a .. b)
  <2>1. PICK b \in rows : s = Until(b)
    BY <1>4, <1>7
  <2>2. IsFiniteSet(s \ t) /\ s \ t \subseteq Int /\ s \ t \subseteq rows
    <3>1. s \ t \in SUBSET rows
      BY <1>5, <2>1
    <3> QED  BY <3>1, FS_Subset
  <2>3. PICK a \in s \ t : \A y \in s \ t : a <= y
    BY <1>7, <2>2, LeastOf
  <2>4. \A j \in rows : a <= j => j \notin t
    <3>1. CASE t = {}
      BY <3>1
    <3>2. CASE t \in walk
      <4>1. PICK k \in rows : t = Until(k)
        BY <1>4, <3>2
      <4>2. ~(a <= k) /\ a \in Int /\ k \in Int
        BY <1>3, <2>2, <2>3, <4>1
      <4>3. \A j \in rows : a <= j => ~(j <= k)
        BY <4>2
      <4> QED  BY <1>3, <4>1, <4>3
    <3> QED  BY <1>7, <3>1, <3>2
  <2>5. \A j \in rows : j \in s \ t <=> a <= j /\ j <= b
    BY <1>3, <2>1, <2>3, <2>4
  <2>6. \A j : j \in s \ t <=> j \in rows \cap (a .. b)
    BY <2>2, <2>3, <2>5
  <2>7. s \ t = rows \cap (a .. b)
    BY <2>6
  <2>8. a \in rows
    BY <2>2, <2>3
  <2> QED  BY <2>7, <2>8
<1>8. ASSUME NEW a \in rows, NEW b \in rows, rows \cap (a .. b) # {}
      PROVE  \E s \in walk : \E t \in walk \cup {{}} : t \subseteq s /\ s \ t = rows \cap (a .. b)
  <2> DEFINE t == {j \in rows : j < a}
  <2>1. \A j : j \in t <=> j \in rows /\ j < a
    OBVIOUS
  <2>2. t \in SUBSET rows
    OBVIOUS
  <2> HIDE DEF t
  <2>3. t \in walk \cup {{}}
    <3>1. CASE t = {}
      BY <3>1
    <3>2. CASE t # {}
      <4>1. IsFiniteSet(t) /\ t \subseteq Int
        BY <2>2, FS_Subset
      <4>2. PICK k \in t : \A y \in t : k >= y
        BY <3>2, <4>1, MaxOf
      <4>3. \A j \in rows : j < a <=> j <= k
        BY <2>1, <2>2, <4>2
      <4>4. \A j : j \in t <=> j \in Until(k)
        BY <1>3, <2>1, <4>3
      <4>5. t = Until(k) /\ k \in rows
        BY <2>2, <4>2, <4>4
      <4> QED  BY <1>4, <4>5
    <3> QED  BY <3>1, <3>2
  <2>4. a \in Int /\ b \in Int /\ a <= b
    BY <1>8
  <2>5. \A j \in rows : j < a => j <= b
    BY <2>4
  <2>6. t \subseteq Until(b)
    BY <1>3, <2>1, <2>5
  <2>7. \A j \in rows : j <= b /\ ~(j < a) <=> j \in a .. b
    BY <2>4
  <2>8. \A j : j \in Until(b) \ t <=> j \in rows \cap (a .. b)
    BY <1>3, <2>1, <2>7
  <2>9. Until(b) \ t = rows \cap (a .. b)
    BY <2>8
  <2> QED  BY <1>4, <2>3, <2>6, <2>9
<1>9. \A s \in walk : \A t \in walk \cup {{}} :
         t \subseteq s /\ s \ t # {} => \E a, b \in rows : s \ t = rows \cap (a .. b)
  BY <1>7
<1>10. \A a, b \in rows :
          rows \cap (a .. b) # {}
             => \E s \in walk : \E t \in walk \cup {{}} : t \subseteq s /\ s \ t = rows \cap (a .. b)
  BY <1>8
<1>11. Walks(walk, rows)
  BY <1>2, <1>6, <1>9, <1>10 DEF Walks
<1> QED  BY <1>1, <1>11

\* So does the curve of the day's trades, from the oldest on.
LEMMA OldestWalks ==
    ASSUME NEW rows, IsFiniteSet(rows), rows \subseteq Int
    PROVE  Walks(FromOldest(rows), rows)
<1> DEFINE From(i) == {j \in rows : j >= i}
           walk == {From(i) : i \in rows}
<1>1. FromOldest(rows) = walk
  BY DEF FromOldest
<1>2. IsFiniteSet(walk)
  <2> DEFINE f == [i \in rows |-> From(i)]
  <2>1. walk = {f[i] : i \in rows}
    OBVIOUS
  <2> HIDE DEF f, walk
  <2> QED  BY <2>1, ImageFinite
<1>3. \A i : \A j : j \in From(i) <=> j \in rows /\ j >= i
  OBVIOUS
<1>4. (\A i \in rows : From(i) \in walk) /\ \A s \in walk : \E i \in rows : s = From(i)
  OBVIOUS
<1>5. \A i : From(i) \in SUBSET rows
  OBVIOUS
<1> HIDE DEF From, walk
<1>6. walk \subseteq SUBSET rows
  BY <1>4, <1>5
<1>7. ASSUME NEW s \in walk, NEW t \in walk \cup {{}}, t \subseteq s, s \ t # {}
      PROVE  \E a, b \in rows : s \ t = rows \cap (a .. b)
  <2>1. PICK a \in rows : s = From(a)
    BY <1>4, <1>7
  <2>2. IsFiniteSet(s \ t) /\ s \ t \subseteq Int /\ s \ t \subseteq rows
    <3>1. s \ t \in SUBSET rows
      BY <1>5, <2>1
    <3> QED  BY <3>1, FS_Subset
  <2>3. PICK b \in s \ t : \A y \in s \ t : b >= y
    BY <1>7, <2>2, MaxOf
  <2>4. \A j \in rows : b >= j => j \notin t
    <3>1. CASE t = {}
      BY <3>1
    <3>2. CASE t \in walk
      <4>1. PICK k \in rows : t = From(k)
        BY <1>4, <3>2
      <4>2. ~(b >= k) /\ b \in Int /\ k \in Int
        BY <1>3, <2>2, <2>3, <4>1
      <4>3. \A j \in rows : b >= j => ~(j >= k)
        BY <4>2
      <4> QED  BY <1>3, <4>1, <4>3
    <3> QED  BY <1>7, <3>1, <3>2
  <2>5. \A j \in rows : j \in s \ t <=> a <= j /\ j <= b
    BY <1>3, <2>1, <2>3, <2>4
  <2>6. \A j : j \in s \ t <=> j \in rows \cap (a .. b)
    BY <2>2, <2>3, <2>5
  <2>7. s \ t = rows \cap (a .. b)
    BY <2>6
  <2>8. b \in rows
    BY <2>2, <2>3
  <2> QED  BY <2>7, <2>8
<1>8. ASSUME NEW a \in rows, NEW b \in rows, rows \cap (a .. b) # {}
      PROVE  \E s \in walk : \E t \in walk \cup {{}} : t \subseteq s /\ s \ t = rows \cap (a .. b)
  <2> DEFINE t == {j \in rows : j > b}
  <2>1. \A j : j \in t <=> j \in rows /\ j > b
    OBVIOUS
  <2>2. t \in SUBSET rows
    OBVIOUS
  <2> HIDE DEF t
  <2>3. t \in walk \cup {{}}
    <3>1. CASE t = {}
      BY <3>1
    <3>2. CASE t # {}
      <4>1. IsFiniteSet(t) /\ t \subseteq Int
        BY <2>2, FS_Subset
      <4>2. PICK k \in t : \A y \in t : k <= y
        BY <3>2, <4>1, LeastOf
      <4>3. \A j \in rows : j > b <=> j >= k
        BY <2>1, <2>2, <4>2
      <4>4. \A j : j \in t <=> j \in From(k)
        BY <1>3, <2>1, <4>3
      <4>5. t = From(k) /\ k \in rows
        BY <2>2, <4>2, <4>4
      <4> QED  BY <1>4, <4>5
    <3> QED  BY <3>1, <3>2
  <2>4. a \in Int /\ b \in Int /\ a <= b
    BY <1>8
  <2>5. \A j \in rows : j > b => j >= a
    BY <2>4
  <2>6. t \subseteq From(a)
    BY <1>3, <2>1, <2>5
  <2>7. \A j \in rows : j >= a /\ ~(j > b) <=> j \in a .. b
    BY <2>4
  <2>8. \A j : j \in From(a) \ t <=> j \in rows \cap (a .. b)
    BY <1>3, <2>1, <2>7
  <2>9. From(a) \ t = rows \cap (a .. b)
    BY <2>8
  <2> QED  BY <1>4, <2>3, <2>6, <2>9
<1>9. \A s \in walk : \A t \in walk \cup {{}} :
         t \subseteq s /\ s \ t # {} => \E a, b \in rows : s \ t = rows \cap (a .. b)
  BY <1>7
<1>10. \A a, b \in rows :
          rows \cap (a .. b) # {}
             => \E s \in walk : \E t \in walk \cup {{}} : t \subseteq s /\ s \ t = rows \cap (a .. b)
  BY <1>8
<1>11. Walks(walk, rows)
  BY <1>2, <1>6, <1>9, <1>10 DEF Walks
<1> QED  BY <1>1, <1>11

-----------------------------------------------------------------------------
(* The reports on the plans.                                               *)

\* A table that counts the members of a set by their label adds up to the set.
LEMMA TableCounts ==
    ASSUME NEW S, IsFiniteSet(S), NEW count, IsFiniteSet(DOMAIN count),
           NEW label, \A i \in S : label[i] \in DOMAIN count,
           \A x \in DOMAIN count : count[x] = Cardinality({i \in S : label[i] = x})
    PROVE  SumFunction(count) = Cardinality(S)
<1> DEFINE L == DOMAIN count
<1> HIDE DEF L
<1>1. IsFiniteSet(L) /\ \A i \in S : label[i] \in L
  BY DEF L
<1>2. \A x \in L : count[x] = Cardinality({i \in S : label[i] = x})
  BY DEF L
<1>3. SumOf(count, L) = Cardinality(S)
  BY <1>1, <1>2, SumOfCounts
<1>4. SumFunctionOnSet(count, L) = SumOf(count, L)
  BY SumIs
<1>5. SumFunction(count) = SumFunctionOnSet(count, L)
  BY DEF SumFunction, SumFunctionOnSet, FoldFunction, L
<1> QED
  BY <1>3, <1>4, <1>5

\* What two sets that share nothing count together.
LEMMA PartsCount ==
    ASSUME NEW S, IsFiniteSet(S), NEW A \in SUBSET S, NEW B \in SUBSET S,
           A \cap B = {}, A \cup B = S
    PROVE  /\ Cardinality(A) + Cardinality(B) = Cardinality(S)
           /\ Cardinality(A) \in Nat /\ Cardinality(B) \in Nat
<1>1. IsFiniteSet(A) /\ IsFiniteSet(B)
  BY FS_Subset
<1>2. Cardinality(A \cup B) = Cardinality(A) + Cardinality(B) - Cardinality(A \cap B)
  BY <1>1, FS_Union
<1>3. Cardinality(A \cap B) = 0
  BY FS_EmptySet
<1>4. Cardinality(A) \in Nat /\ Cardinality(B) \in Nat
  BY <1>1, FS_CardinalityType
<1> QED
  BY <1>2, <1>3, <1>4

\* The places of the plans.
LEMMA PlanFacts ==
    ASSUME JournalInv
    PROVE  /\ IsFiniteSet(DOMAIN plans) /\ DOMAIN plans \subseteq Int
           /\ Cardinality(DOMAIN plans) = Len(plans)
           /\ \A i \in DOMAIN plans : plans[i] \in PlanType /\ SoundPlan(plans[i])
<1>1. plans \in Seq(PlanType)
  BY DEF JournalInv, TypeOK, ListOf
<1>2. DOMAIN plans = 1 .. Len(plans) /\ Len(plans) \in Nat
  BY <1>1, LenProperties
<1>3. IsFiniteSet(1 .. Len(plans)) /\ Cardinality(1 .. Len(plans)) = Len(plans)
  <2>1. \A n \in Nat : IsFiniteSet(1 .. n) /\ Cardinality(1 .. n) = n
    BY FS_Interval
  <2> QED
    BY <1>2, <2>1
<1>4. \A i \in DOMAIN plans : plans[i] \in PlanType
  BY <1>1, <1>2, ElementOfSeq
<1> QED
  BY <1>2, <1>3, <1>4 DEF JournalInv

\* A plan that won or lost has a whole result.
LEMMA GainsWhole ==
    ASSUME NEW t \in PlanType
    PROVE  PnlR(t) \in Int
<1> DEFINE s == t.setup
<1>1. s \in Setups /\ s.dir \in {1, -1} /\ s.entry \in Int /\ s.stop \in Int /\ s.t1 \in Int
      /\ s.dir * (s.entry - s.stop) > 0
  BY SetupsAssumption DEF PlanType
<1>2. CASE t.won = "yes"
  <2>1. Risk(t) \in Int /\ Risk(t) > 0
    BY <1>1 DEF Risk, Gain
  <2>2. \E k \in 1 .. 3 : Exit(t) = Targets(s)[k] /\ Targets(s)[k] # Nil
    <3>1. Targets(s)[1] # Nil
      <4>1. CASE Gain(s.dir, s.entry, s.t1) < 2 * Gain(s.dir, s.stop, s.entry)
        <5>1. Targets(s)[1] = s.entry + 2 * s.dir * Gain(s.dir, s.stop, s.entry)
          BY <4>1 DEF Targets
        <5>2. Gain(s.dir, s.stop, s.entry) \in Int
          BY <1>1 DEF Gain
        <5>3. s.entry + 2 * s.dir * Gain(s.dir, s.stop, s.entry) \in Int
          BY <1>1, <5>2
        <5> QED
          BY <5>1, <5>3, NumbersAssumption
      <4>2. CASE ~(Gain(s.dir, s.entry, s.t1) < 2 * Gain(s.dir, s.stop, s.entry))
        BY <1>1, <4>2, NumbersAssumption DEF Targets
      <4> QED
        BY <4>1, <4>2
    <3> HIDE DEF s
    <3>2. \/ Targets(s)[3] # Nil /\ Exit(t) = Targets(s)[3]
          \/ Targets(s)[2] # Nil /\ Exit(t) = Targets(s)[2]
          \/ Exit(t) = Targets(s)[1]
      BY DEF Exit, s
    <3> QED
      BY <3>1, <3>2
  <2>3. Exit(t) \in Int
    <3> HIDE DEF s
    <3> QED
      BY <1>1, <2>2, TargetsBeyondEntry
  <2>4. Gain(s.dir, s.entry, Exit(t)) \in Int
    BY <1>1, <2>3 DEF Gain
  <2>5. PnlR(t) = Gain(s.dir, s.entry, Exit(t)) \div Risk(t)
    BY <1>2 DEF PnlR
  <2> HIDE DEF s
  <2>6. \A a, b \in Int : b > 0 => a \div b \in Int
    OBVIOUS
  <2> QED
    BY <2>1, <2>4, <2>5, <2>6
<1>3. CASE t.won = "no"
  BY <1>3 DEF PnlR
<1>4. CASE t.won = "none"
  BY <1>4 DEF PnlR
<1> QED
  BY <1>2, <1>3, <1>4 DEF PlanType

\* Counting by strategy.
LEMMA StrategiesCount ==
    ASSUME JournalInv
    PROVE  LET all == DOMAIN plans
               lines == Strategies(all)
           IN  /\ SumFunction([name \in DOMAIN lines |-> lines[name].wins]) = Cardinality(Winners(all))
               /\ SumFunction([name \in DOMAIN lines |-> lines[name].losses]) = Cardinality(Losers(all))
               /\ SumFunction([name \in DOMAIN lines |-> lines[name].signals]) = Len(plans)
<1> DEFINE all == DOMAIN plans
           lines == Strategies(all)
           label == [i \in all |-> StrategyOf[plans[i].setup]]
           names == {label[i] : i \in all}
           Of(name) == {i \in all : StrategyOf[plans[i].setup] = name}
<1>1. IsFiniteSet(all) /\ Cardinality(all) = Len(plans)
  BY PlanFacts
<1>2. IsFiniteSet(names)
  <2> HIDE DEF label
  <2> QED  BY <1>1, ImageFinite
<1>3. names = {StrategyOf[plans[i].setup] : i \in all}
  OBVIOUS
<1>4. lines = [name \in names |-> StrategyStats(name, all)]
  BY <1>3 DEF Strategies
<1>5. DOMAIN lines = names
  BY <1>4
<1>6. \A name \in names : /\ lines[name].signals = Cardinality(Of(name))
                          /\ lines[name].wins = Cardinality(Winners(Of(name)))
                          /\ lines[name].losses = Cardinality(Losers(Of(name)))
  <2> SUFFICES ASSUME NEW name \in names
               PROVE  /\ lines[name].signals = Cardinality(Of(name))
                      /\ lines[name].wins = Cardinality(Winners(Of(name)))
                      /\ lines[name].losses = Cardinality(Losers(Of(name)))
    OBVIOUS
  <2>1. lines[name] = StrategyStats(name, all)
    BY <1>4
  <2> HIDE DEF lines, names
  <2>2. /\ StrategyStats(name, all).signals = Cardinality(Of(name))
        /\ StrategyStats(name, all).wins = Cardinality(Winners(Of(name)))
        /\ StrategyStats(name, all).losses = Cardinality(Losers(Of(name)))
    BY DEF StrategyStats
  <2> QED  BY <2>1, <2>2
<1>7. \A name : /\ Of(name) = {i \in all : label[i] = name}
                /\ Winners(Of(name)) = {i \in Winners(all) : label[i] = name}
                /\ Losers(Of(name)) = {i \in Losers(all) : label[i] = name}
  BY DEF Winners, Losers, Completed
<1>8. Winners(all) \in SUBSET all /\ Losers(all) \in SUBSET all
  BY DEF Winners, Losers, Completed
<1>9. IsFiniteSet(Winners(all)) /\ IsFiniteSet(Losers(all))
  BY <1>1, <1>8, FS_Subset
<1>10. \A i \in all : label[i] \in names
  OBVIOUS
<1> HIDE DEF all, lines, label, names, Of
<1>11. SumFunction([name \in names |-> lines[name].wins]) = Cardinality(Winners(all))
  <2> DEFINE count == [name \in names |-> lines[name].wins]
  <2>1. DOMAIN count = names
    OBVIOUS
  <2>2. \A x \in names : count[x] = Cardinality({i \in Winners(all) : label[i] = x})
    BY <1>6, <1>7
  <2> HIDE DEF count
  <2>3. SumFunction(count) = Cardinality(Winners(all))
    BY <1>2, <1>8, <1>9, <1>10, <2>1, <2>2, TableCounts
  <2> QED  BY <2>3 DEF count
<1>12. SumFunction([name \in names |-> lines[name].losses]) = Cardinality(Losers(all))
  <2> DEFINE count == [name \in names |-> lines[name].losses]
  <2>1. DOMAIN count = names
    OBVIOUS
  <2>2. \A x \in names : count[x] = Cardinality({i \in Losers(all) : label[i] = x})
    BY <1>6, <1>7
  <2> HIDE DEF count
  <2>3. SumFunction(count) = Cardinality(Losers(all))
    BY <1>2, <1>8, <1>9, <1>10, <2>1, <2>2, TableCounts
  <2> QED  BY <2>3 DEF count
<1>13. SumFunction([name \in names |-> lines[name].signals]) = Cardinality(all)
  <2> DEFINE count == [name \in names |-> lines[name].signals]
  <2>1. DOMAIN count = names
    OBVIOUS
  <2>2. \A x \in names : count[x] = Cardinality({i \in all : label[i] = x})
    BY <1>6, <1>7
  <2> HIDE DEF count
  <2>3. SumFunction(count) = Cardinality(all)
    BY <1>1, <1>2, <1>10, <2>1, <2>2, TableCounts
  <2> QED  BY <2>3 DEF count
<1> QED
  BY <1>1, <1>5, <1>11, <1>12, <1>13 DEF all, lines

\* A strategy's drawdown is the worst run of its results.
LEMMA StrategiesFall ==
    ASSUME JournalInv
    PROVE  \A name \in DOMAIN Strategies(DOMAIN plans) :
               Strategies(DOMAIN plans)[name].drawdown
                 = WorstRun(Gains, {i \in Completed(DOMAIN plans) : StrategyOf[plans[i].setup] = name})
<1> DEFINE all == DOMAIN plans
<1> SUFFICES ASSUME NEW name \in DOMAIN Strategies(all)
             PROVE  Strategies(all)[name].drawdown
                      = WorstRun(Gains, {i \in Completed(all) : StrategyOf[plans[i].setup] = name})
  OBVIOUS
<1> DEFINE rows == {i \in Completed(all) : StrategyOf[plans[i].setup] = name}
           named == {i \in all : StrategyOf[plans[i].setup] = name}
<1>1. Strategies(all)[name] = StrategyStats(name, all)
  BY DEF Strategies
<1>2. StrategyStats(name, all).drawdown = Drawdown(Gains, FromNewest(Completed(named)))
  BY DEF StrategyStats
<1>3. Completed(named) = rows
  BY DEF Completed
<1>4. rows \in SUBSET all
  BY DEF Completed
<1>5. IsFiniteSet(all) /\ all \subseteq Int /\ \A i \in all : plans[i] \in PlanType
  BY PlanFacts
<1>6. \A i \in all : Gains[i] \in Int
  BY <1>5, GainsWhole DEF Gains
<1> HIDE DEF rows, all, named
<1>7. IsFiniteSet(rows) /\ rows \subseteq Int /\ \A i \in rows : Gains[i] \in Int
  BY <1>4, <1>5, <1>6, FS_Subset
<1>8. Drawdown(Gains, FromNewest(rows)) = WorstRun(Gains, rows)
  BY <1>7, NewestWalks, FallIsRun
<1> QED
  BY <1>1, <1>2, <1>3, <1>8 DEF rows

\* Counting by symbol.
LEMMA SymbolsCount ==
    ASSUME JournalInv
    PROVE  LET all == DOMAIN plans
               symbols == Snapshot(all).symbols
           IN  /\ SumFunction([sym \in DOMAIN symbols |-> symbols[sym].winRate.hits])
                    = Cardinality(Winners(all))
               /\ SumFunction([sym \in DOMAIN symbols |-> symbols[sym].winRate.n])
                    = Cardinality(Completed(all))
<1> DEFINE all == DOMAIN plans
           lines == Snapshot(all).symbols
           label == [i \in all |-> SymbolOf[plans[i].chart]]
           names == {label[i] : i \in all}
           Of(name) == {i \in all : SymbolOf[plans[i].chart] = name}
<1>1. IsFiniteSet(all)
  BY PlanFacts
<1>2. IsFiniteSet(names)
  <2> HIDE DEF label
  <2> QED  BY <1>1, ImageFinite
<1>3. names = {SymbolOf[plans[i].chart] : i \in all}
  OBVIOUS
<1>4. lines = [name \in names |-> SymbolStats(name, all)]
  <2>1. lines = [sym \in {SymbolOf[plans[i].chart] : i \in all} |-> SymbolStats(sym, all)]
    BY DEF Snapshot
  <2> QED  BY <1>3, <2>1
<1>5. DOMAIN lines = names
  BY <1>4
<1>6. ASSUME NEW name \in names
      PROVE  /\ lines[name].winRate.hits = Cardinality(Winners(Of(name)))
             /\ lines[name].winRate.n = Cardinality(Completed(Of(name)))
  <2>1. lines[name] = SymbolStats(name, all)
    BY <1>4
  <2>2. SymbolStats(name, all).winRate = WinRate(Of(name))
    BY DEF SymbolStats
  <2> HIDE DEF lines, Of
  <2> QED  BY <2>1, <2>2 DEF WinRate
<1>7. \A name : /\ Winners(Of(name)) = {i \in Winners(all) : label[i] = name}
                /\ Completed(Of(name)) = {i \in Completed(all) : label[i] = name}
  BY DEF Winners, Completed
<1>8. Winners(all) \in SUBSET all /\ Completed(all) \in SUBSET all
  BY DEF Winners, Completed
<1>9. IsFiniteSet(Winners(all)) /\ IsFiniteSet(Completed(all))
  BY <1>1, <1>8, FS_Subset
<1>10. \A i \in all : label[i] \in names
  OBVIOUS
<1> HIDE DEF all, lines, label, names, Of
<1>11. SumFunction([name \in names |-> lines[name].winRate.hits]) = Cardinality(Winners(all))
  <2> DEFINE count == [name \in names |-> lines[name].winRate.hits]
  <2>1. DOMAIN count = names
    OBVIOUS
  <2>2. \A x \in names : count[x] = Cardinality({i \in Winners(all) : label[i] = x})
    BY <1>6, <1>7
  <2> HIDE DEF count
  <2>3. SumFunction(count) = Cardinality(Winners(all))
    BY <1>2, <1>8, <1>9, <1>10, <2>1, <2>2, TableCounts
  <2> QED  BY <2>3 DEF count
<1>12. SumFunction([name \in names |-> lines[name].winRate.n]) = Cardinality(Completed(all))
  <2> DEFINE count == [name \in names |-> lines[name].winRate.n]
  <2>1. DOMAIN count = names
    OBVIOUS
  <2>2. \A x \in names : count[x] = Cardinality({i \in Completed(all) : label[i] = x})
    BY <1>6, <1>7
  <2> HIDE DEF count
  <2>3. SumFunction(count) = Cardinality(Completed(all))
    BY <1>2, <1>8, <1>9, <1>10, <2>1, <2>2, TableCounts
  <2> QED  BY <2>3 DEF count
<1> QED
  BY <1>5, <1>11, <1>12 DEF all, lines

\* Every confidence is in one of the buckets.
BucketOf(c) == IF c >= 90 THEN <<90, 100>> ELSE IF c >= 80 THEN <<80, 89>>
               ELSE IF c >= 70 THEN <<70, 79>> ELSE IF c >= 60 THEN <<60, 69>> ELSE <<0, 59>>
LEMMA OneBucket ==
    ASSUME NEW c \in 0 .. 100
    PROVE  /\ BucketOf(c) \in Buckets
           /\ \A b \in Buckets : c \in b[1] .. b[2] <=> BucketOf(c) = b
<1>1. BucketOf(c) \in Buckets
  BY DEF BucketOf, Buckets
<1>2. ASSUME NEW b \in Buckets PROVE c \in b[1] .. b[2] <=> BucketOf(c) = b
  <2>1. CASE b = <<90, 100>>
    BY <2>1 DEF BucketOf
  <2>2. CASE b = <<80, 89>>
    BY <2>2 DEF BucketOf
  <2>3. CASE b = <<70, 79>>
    BY <2>3 DEF BucketOf
  <2>4. CASE b = <<60, 69>>
    BY <2>4 DEF BucketOf
  <2>5. CASE b = <<0, 59>>
    BY <2>5 DEF BucketOf
  <2> QED
    BY <2>1, <2>2, <2>3, <2>4, <2>5 DEF Buckets
<1> QED
  BY <1>1, <1>2

\* Counting by confidence.
LEMMA CalibrationCounts ==
    ASSUME JournalInv
    PROVE  LET report == Snapshot(DOMAIN plans)
           IN  SumFunction([b \in Buckets |-> report.calibration[b].count])
                 = Cardinality(Completed(DOMAIN plans))
<1> DEFINE all == DOMAIN plans
           lines == Snapshot(all).calibration
           done == Completed(all)
           Conf(i) == ConfidenceOf[plans[i].setup]
           label == [i \in all |-> BucketOf(Conf(i))]
           In(b) == {i \in all : Conf(i) \in b[1] .. b[2]}
           count == [b \in Buckets |-> lines[b].count]
<1>1. IsFiniteSet(all) /\ \A i \in all : plans[i] \in PlanType
  BY PlanFacts
<1>2. IsFiniteSet(Buckets)
  <2> DEFINE b == <<<<90, 100>>, <<80, 89>>, <<70, 79>>, <<60, 69>>, <<0, 59>>>>
  <2>1. Buckets = {b[k] : k \in 1 .. 5}
    BY DEF Buckets
  <2>2. IsFiniteSet(1 .. 5)
    <3>1. \A n \in Nat : IsFiniteSet(1 .. n)
      BY FS_Interval
    <3> QED  BY <3>1
  <2> HIDE DEF b
  <2> QED  BY <2>1, <2>2, ImageFinite
<1>3. \A i \in all : Conf(i) \in 0 .. 100
  BY <1>1, ReportsAssumption DEF PlanType
<1>4. done \in SUBSET all
  BY DEF Completed
<1>5. IsFiniteSet(done)
  BY <1>1, <1>4, FS_Subset
<1>6. lines = [b \in Buckets |-> Calibration(b, all)]
  BY DEF Snapshot
<1>7. \A b \in Buckets : count[b] = Cardinality(Completed(In(b)))
  <2> SUFFICES ASSUME NEW b \in Buckets PROVE count[b] = Cardinality(Completed(In(b)))
    OBVIOUS
  <2>1. count[b] = Calibration(b, all).count
    BY <1>6
  <2>2. Calibration(b, all).count = WinRate(In(b)).n
    BY DEF Calibration
  <2> HIDE DEF count, In
  <2> QED  BY <2>1, <2>2 DEF WinRate
<1>8. \A i \in all : label[i] = BucketOf(Conf(i))
  OBVIOUS
<1>9. \A b : Completed(In(b)) = {i \in done : Conf(i) \in b[1] .. b[2]}
  BY DEF Completed
<1>13. DOMAIN count = Buckets
  OBVIOUS
<1>14. SumFunction([b \in Buckets |-> Snapshot(all).calibration[b].count]) = SumFunction(count)
  OBVIOUS
<1> HIDE DEF all, lines, done, Conf, label, In, count
<1>10. \A i \in done : label[i] \in Buckets
  <2>1. \A c \in 0 .. 100 : BucketOf(c) \in Buckets
    BY OneBucket
  <2> QED  BY <1>3, <1>4, <1>8, <2>1
<1>11. \A b \in Buckets : {i \in done : Conf(i) \in b[1] .. b[2]} = {i \in done : label[i] = b}
  <2> SUFFICES ASSUME NEW b \in Buckets, NEW i \in done
               PROVE  Conf(i) \in b[1] .. b[2] <=> label[i] = b
    OBVIOUS
  <2>1. Conf(i) \in 0 .. 100 /\ label[i] = BucketOf(Conf(i))
    BY <1>3, <1>4, <1>8
  <2>2. \A c \in 0 .. 100 : \A k \in Buckets : c \in k[1] .. k[2] <=> BucketOf(c) = k
    BY OneBucket
  <2>3. Conf(i) \in b[1] .. b[2] <=> BucketOf(Conf(i)) = b
    BY <2>1, <2>2
  <2> QED  BY <2>1, <2>3
<1>12. \A b \in Buckets : count[b] = Cardinality({i \in done : label[i] = b})
  BY <1>7, <1>9, <1>11
<1>15. SumFunction(count) = Cardinality(done)
  BY <1>2, <1>5, <1>10, <1>12, <1>13, TableCounts
<1> QED
  BY <1>14, <1>15 DEF all, done

\* A plan lost if and only if its tags call it a false positive.
LEMMA LossesTagged ==
    ASSUME JournalInv, NEW i \in Completed(DOMAIN plans)
    PROVE  (plans[i].won = "no") <=> ("false_positive" \in Tags(plans[i]))
<1> DEFINE t == plans[i]
<1>1. t \in PlanType /\ SoundPlan(t) /\ t.completed /\ t.won # "none"
  BY PlanFacts DEF Completed
<1>2. t.won = "no" <=> t.status = "stop_hit"
  <2>1. t.won \in {"yes", "no"}
    BY <1>1 DEF PlanType
  <2>2. "stop_hit" \notin PaidTargets
    BY DEF PaidTargets
  <2> QED  BY <1>1, <2>1, <2>2 DEF SoundPlan
<1> HIDE DEF t
<1>3. "false_positive" \in Tags(t) <=> t.completed /\ t.status = "stop_hit"
  BY DEF Tags
<1> QED
  BY <1>1, <1>2, <1>3 DEF t

\* The performance snapshot balances.
LEMMA SnapshotSound == JournalInv => SnapshotBalances
<1> SUFFICES ASSUME JournalInv PROVE SnapshotBalances
  OBVIOUS
<1>1. Snapshot(DOMAIN plans).strategies = Strategies(DOMAIN plans)
  BY DEF Snapshot
<1>2. \A i \in Completed(DOMAIN plans) :
          (plans[i].won = "no") <=> ("false_positive" \in Tags(plans[i]))
  BY LossesTagged
<1> QED
  BY <1>1, <1>2, StrategiesCount, StrategiesFall, SymbolsCount, CalibrationCounts
  DEF SnapshotBalances

-----------------------------------------------------------------------------
(* The day's reports.                                                      *)

\* Wins and losses of the paper trades of a day, and their deepest fall.
LEMMA PaperBalances ==
    ASSUME JournalInv, NEW d
    PROVE  LET paper == DailyReport(d).paper
           IN  /\ paper.wins + paper.losses = paper.n
               /\ paper.drawdown = WorstRun(PointsOf(ClosedOn(d)), ClosedOn(d))
<1> DEFINE closed == ClosedOn(d)
           wins == {i \in closed : Points(trades[i]) > 0}
           losses == {i \in closed : Points(trades[i]) <= 0}
<1>1. trades \in Seq(TradeType) /\ \A i \in DOMAIN trades : SoundTrade(trades[i])
  BY DEF JournalInv, TypeOK, ListOf
<1>2. DOMAIN trades = 1 .. Len(trades) /\ Len(trades) \in Nat
  BY <1>1, LenProperties
<1>3. \A i \in DOMAIN trades : trades[i] \in TradeType
  BY <1>1, <1>2, ElementOfSeq
<1>4. closed \in SUBSET DOMAIN trades /\ \A i \in closed : ~Open(trades[i])
  BY DEF ClosedOn
<1>5. IsFiniteSet(DOMAIN trades)
  BY <1>2, FS_Interval
<1>6. IsFiniteSet(closed) /\ closed \subseteq Int
  BY <1>2, <1>4, <1>5, FS_Subset
<1>7. DailyReport(d).paper = DayStats(d)
  BY DEF DailyReport
<1>8. /\ DayStats(d).n = Cardinality(closed) /\ DayStats(d).wins = Cardinality(wins)
      /\ DayStats(d).losses = Cardinality(losses)
      /\ DayStats(d).drawdown = Drawdown(PointsOf(closed), FromOldest(closed))
  BY DEF DayStats
<1> HIDE DEF closed
<1>9. ASSUME NEW i \in closed PROVE Points(trades[i]) \in Int
  <2>1. trades[i] \in TradeType /\ trades[i].exit \in Int
    BY <1>1, <1>3, <1>4 DEF SoundTrade
  <2>2. trades[i].side \in {1, -1} /\ trades[i].entry \in Int
    BY <2>1 DEF TradeType
  <2> QED  BY <2>1, <2>2 DEF Points, Gain
<1>10. wins \in SUBSET closed /\ losses \in SUBSET closed /\ wins \cap losses = {}
       /\ wins \cup losses = closed
  BY <1>9
<1>11. \A i \in closed : PointsOf(closed)[i] \in Int
  BY <1>9 DEF PointsOf
<1> HIDE DEF wins, losses
<1>12. Cardinality(wins) + Cardinality(losses) = Cardinality(closed)
  BY <1>6, <1>10, PartsCount
<1>13. Drawdown(PointsOf(closed), FromOldest(closed)) = WorstRun(PointsOf(closed), closed)
  BY <1>6, <1>11, OldestWalks, FallIsRun
<1> QED
  BY <1>7, <1>8, <1>12, <1>13 DEF closed

\* Every event is a buy, a sell or a wait.
LEMMA EventsBalance ==
    ASSUME JournalInv, NEW d
    PROVE  LET daily == DailyReport(d)
           IN  daily.buys + daily.sells + daily.waits = Len(events)
<1> DEFINE all == DOMAIN events
           Of(kinds) == {i \in all : events[i].snap.kind \in kinds}
           buys == Of({"BUY", "STRONG BUY"})
           sells == Of({"SELL", "STRONG SELL"})
           waits == Of({"WAIT"})
           sided == buys \cup sells
<1>1. events \in Seq(EventType)
  BY DEF JournalInv, TypeOK, ListOf
<1>2. all = 1 .. Len(events) /\ Len(events) \in Nat
  BY <1>1, LenProperties
<1>3. \A i \in all : events[i].snap.kind \in Kinds
  <2>1. \A i \in all : events[i] \in EventType
    BY <1>1, <1>2, ElementOfSeq
  <2> QED  BY <2>1 DEF EventType, SnapType
<1>4. /\ DailyReport(d).buys = Cardinality(buys) /\ DailyReport(d).sells = Cardinality(sells)
      /\ DailyReport(d).waits = Cardinality(waits)
  BY DEF DailyReport
<1>5. IsFiniteSet(all) /\ Cardinality(all) = Len(events)
  <2>1. \A n \in Nat : IsFiniteSet(1 .. n) /\ Cardinality(1 .. n) = n
    BY FS_Interval
  <2> QED  BY <1>2, <2>1
<1>6. /\ buys \in SUBSET all /\ sells \in SUBSET all /\ waits \in SUBSET all
      /\ buys \cap sells = {} /\ sided \cap waits = {} /\ sided \cup waits = all
  BY <1>3 DEF Kinds, Buys
<1>7. sided \in SUBSET all /\ buys \in SUBSET sided /\ sells \in SUBSET sided
      /\ buys \cup sells = sided
  BY <1>6
<1> HIDE DEF all, buys, sells, waits, sided
<1>8. IsFiniteSet(sided)
  BY <1>5, <1>7, FS_Subset
<1>9. Cardinality(sided) + Cardinality(waits) = Cardinality(all)
  BY <1>5, <1>6, <1>7, PartsCount
<1>10. Cardinality(buys) + Cardinality(sells) = Cardinality(sided)
  BY <1>6, <1>7, <1>8, PartsCount
<1> QED
  BY <1>4, <1>5, <1>9, <1>10

\* Every record of a day is counted once, and a miss on every rung it has passed.
LEMMA MissesBalance ==
    ASSUME JournalInv, NEW d
    PROVE  LET missed == DailyReport(d).missed
           IN  /\ missed.buys + missed.sells + missed.correct + missed.incorrect = missed.n
               /\ \A x \in Ladder : x <= Floor => missed.incorrect <= missed.hits[x]
<1> DEFINE list == {i \in DOMAIN records : records[i].id[4] = d}
           Class(k, dir) == {i \in list : records[i].class = k /\ records[i].dir = dir}
           tb == Class("taken", 1)
           ts == Class("taken", -1)
           mb == Class("missed", 1)
           ms == Class("missed", -1)
           correct == {i \in list : records[i].class = "correct_wait"}
           taken == tb \cup ts
           missed == mb \cup ms
           right == taken \cup correct
           Hit(x) == {i \in list : records[i].class # "taken" /\ x \in ThresholdsHit(records[i])}
           report == MissedReport(d)
<1>1. records \in Seq(RecordType) /\ \A i \in DOMAIN records : SoundRecord(records[i])
  BY DEF JournalInv, TypeOK, ListOf
<1>2. DOMAIN records = 1 .. Len(records) /\ Len(records) \in Nat
  BY <1>1, LenProperties
<1>3. \A i \in DOMAIN records : records[i] \in RecordType
  BY <1>1, <1>2, ElementOfSeq
<1>4. IsFiniteSet(DOMAIN records)
  BY <1>2, FS_Interval
<1>5. list \in SUBSET DOMAIN records
  OBVIOUS
<1>6. IsFiniteSet(list)
  <2> HIDE DEF list
  <2> QED  BY <1>4, <1>5, FS_Subset
<1>7. DailyReport(d).missed = report
  BY DEF DailyReport
<1>8. /\ report.n = Cardinality(list) /\ report.buys = Cardinality(tb)
      /\ report.sells = Cardinality(ts) /\ report.correct = Cardinality(correct)
      /\ report.incorrect = Cardinality(mb) + Cardinality(ms)
  BY DEF MissedReport
<1>9. report.hits = [x \in Ladder |-> Cardinality(Hit(x))]
  BY DEF MissedReport
<1>10. \A i \in list : /\ records[i].class \in {"taken", "correct_wait", "missed"}
                       /\ records[i].dir \in {1, -1} /\ records[i].mfe \in Nat
                       /\ records[i].class = "missed" => records[i].mfe >= Floor
  BY <1>1, <1>3, <1>5 DEF RecordType, SoundRecord
<1> HIDE DEF list, report
<1>11. /\ taken \in SUBSET list /\ missed \in SUBSET list /\ right \in SUBSET list
       /\ tb \in SUBSET taken /\ ts \in SUBSET taken /\ tb \cap ts = {} /\ tb \cup ts = taken
       /\ mb \in SUBSET missed /\ ms \in SUBSET missed /\ mb \cap ms = {} /\ mb \cup ms = missed
       /\ taken \in SUBSET right /\ correct \in SUBSET right /\ taken \cap correct = {}
       /\ taken \cup correct = right
  OBVIOUS
<1>21. \A i \in list : /\ i \in missed <=> records[i].class = "missed"
                       /\ i \in right <=> records[i].class # "missed"
  <2> SUFFICES ASSUME NEW i \in list
               PROVE  /\ i \in missed <=> records[i].class = "missed"
                      /\ i \in right <=> records[i].class # "missed"
    OBVIOUS
  <2>1. /\ i \in tb <=> records[i].class = "taken" /\ records[i].dir = 1
        /\ i \in ts <=> records[i].class = "taken" /\ records[i].dir = -1
        /\ i \in mb <=> records[i].class = "missed" /\ records[i].dir = 1
        /\ i \in ms <=> records[i].class = "missed" /\ records[i].dir = -1
        /\ i \in correct <=> records[i].class = "correct_wait"
    OBVIOUS
  <2>2. /\ records[i].class \in {"taken", "correct_wait", "missed"}
        /\ records[i].dir = 1 \/ records[i].dir = -1
    BY <1>10
  <2>3. (i \in missed <=> i \in mb \/ i \in ms) /\ (i \in right <=> i \in tb \/ i \in ts \/ i \in correct)
    OBVIOUS
  <2> HIDE DEF tb, ts, mb, ms, correct, taken, missed, right
  <2> QED  BY <2>1, <2>2, <2>3
<1>12. right \cap missed = {} /\ right \cup missed = list
  <2> HIDE DEF right, missed
  <2>1. \A i \in missed \cup right : i \in list
    BY <1>11
  <2>2. \A i : i \in right /\ i \in missed => FALSE
    BY <1>21, <2>1
  <2>3. \A i \in list : i \in right \/ i \in missed
    BY <1>21
  <2> QED  BY <2>1, <2>2, <2>3
<1>13. ASSUME NEW x \in Ladder, x <= Floor
       PROVE  missed \in SUBSET Hit(x) /\ Hit(x) \in SUBSET list
  <2>1. x \in Nat /\ Floor \in Nat
    BY ReportsAssumption, NumbersAssumption
  <2>2. \A i \in list : records[i].class = "missed" => x <= records[i].mfe
    <3> SUFFICES ASSUME NEW i \in list, records[i].class = "missed" PROVE x <= records[i].mfe
      OBVIOUS
    <3>1. records[i].mfe \in Nat /\ records[i].mfe >= Floor
      BY <1>10
    <3> QED  BY <1>13, <2>1, <3>1
  <2>3. \A i \in list : i \in missed => i \in Hit(x)
    <3> HIDE DEF missed
    <3> QED  BY <1>13, <1>21, <2>2 DEF ThresholdsHit
  <2> QED  BY <1>11, <2>3
<1> HIDE DEF tb, ts, mb, ms, correct, taken, missed, right, Hit
<1>14. IsFiniteSet(taken) /\ IsFiniteSet(missed) /\ IsFiniteSet(right)
  BY <1>6, <1>11, FS_Subset
<1>15. /\ Cardinality(right) + Cardinality(missed) = Cardinality(list)
       /\ Cardinality(right) \in Nat /\ Cardinality(missed) \in Nat
  BY <1>6, <1>11, <1>12, PartsCount
<1>16. /\ Cardinality(taken) + Cardinality(correct) = Cardinality(right)
       /\ Cardinality(taken) \in Nat /\ Cardinality(correct) \in Nat
  BY <1>11, <1>14, PartsCount
<1>17. /\ Cardinality(tb) + Cardinality(ts) = Cardinality(taken)
       /\ Cardinality(tb) \in Nat /\ Cardinality(ts) \in Nat
  <2>1. tb \in SUBSET taken /\ ts \in SUBSET taken /\ tb \cap ts = {} /\ tb \cup ts = taken
    BY <1>11
  <2> QED  BY <1>14, <2>1, PartsCount
<1>18. Cardinality(mb) + Cardinality(ms) = Cardinality(missed)
  <2>1. /\ mb \in SUBSET missed /\ ms \in SUBSET missed /\ mb \cap ms = {}
        /\ mb \cup ms = missed
    BY <1>11
  <2> QED  BY <1>14, <2>1, PartsCount
<1>19. report.buys + report.sells + report.correct + report.incorrect = report.n
  BY <1>8, <1>15, <1>16, <1>17, <1>18
<1>20. ASSUME NEW x \in Ladder, x <= Floor PROVE report.incorrect <= report.hits[x]
  <2>1. missed \in SUBSET Hit(x) /\ Hit(x) \in SUBSET list
    BY <1>13, <1>20
  <2>2. IsFiniteSet(Hit(x))
    BY <1>6, <2>1, FS_Subset
  <2>3. Cardinality(missed) <= Cardinality(Hit(x))
    BY <2>1, <2>2, FS_Subset
  <2> QED  BY <1>8, <1>9, <1>18, <2>3
<1> QED
  BY <1>7, <1>19, <1>20

\* The reports of every day balance.
LEMMA DaySound == ASSUME JournalInv, NEW d PROVE DayBalances(d)
BY PaperBalances, EventsBalance, MissesBalance DEF DayBalances

-----------------------------------------------------------------------------
(* The theorems.                                                           *)

\* Every store holds records of its own kind and no more than it has room for
\* (slice in paperTrading.ts:114, store/backtest.ts:76 and the other stores).
THEOREM TypeCorrect == Spec => []TypeOK
<1>1. JournalInv => TypeOK
  BY DEF JournalInv
<1> QED
  BY <1>1, JournalInvHolds, PTL

\* A paper trade ends at the first price that touches one of its levels, for every number of
\* panes and every order in which they open and price trades (paperTrading.ts:152).
THEOREM EndsAtFirstTouch == Spec => []ExitIsFirstTouch
<1>1. JournalInv => ExitIsFirstTouch
  BY DEF JournalInv, ExitIsFirstTouch, FirstTouch, SoundTrade
<1> QED
  BY <1>1, JournalInvHolds, PTL

\* A tracked plan wins or loses only after its entry, and nothing that ends a plan has
\* happened to one still open (tradeAnalytics.ts:305).
THEOREM WinsAfterEntry == Spec => []WonMeansEntered
<1>1. JournalInv => WonMeansEntered
  BY DEF JournalInv, WonMeansEntered, SoundPlan
<1> QED
  BY <1>1, JournalInvHolds, PTL

\* What is settled in the paper trades, the personalities and the plans stays, save the
\* oldest of a full list (paperTrading.ts:156, personalityLearning.ts:203, backtest.ts:44).
THEOREM SettledStays == Spec => HistoryKept
<1>1. JournalInv /\ [Next]_vars => [HistoryStep]_vars
  BY NextStep
<1>2. [HistoryStep]_vars
      => [/\ Stays(trades, trades', Cap, LAMBDA t : ~Open(t))
          /\ Stays(snapshots, snapshots', Cap, LAMBDA r : r.outcome # "unknown")
          /\ Stays(plans, plans', PlanCap, LAMBDA t : t.completed)]_vars
  BY DEF HistoryStep
<1> QED
  BY <1>1, <1>2, JournalInvHolds, PTL DEF Spec, HistoryKept

\* A logged decision keeps its snapshot and an established miss stands, whatever the prices
\* that follow (liveValidation.ts:3).
THEOREM LogIsFrozen == Spec => MissStands
<1>1. JournalInv /\ [Next]_vars => [MissStep]_vars
  BY NextStep
<1>2. [MissStep]_vars
      => [\A i \in DOMAIN events, j \in DOMAIN events' :
             events[i].no = events'[j].no
                => /\ events'[j].snap = events[i].snap
                   /\ events[i].missed = "yes" => events'[j].missed = "yes"]_vars
  BY DEF MissStep
<1> QED
  BY <1>1, <1>2, JournalInvHolds, PTL DEF Spec, MissStands

\* The tables of the reports count the same wins, losses, events, trades and misses whatever
\* these went through, every loss is a false positive and no win is one, and a drawdown is
\* the worst run of results from whichever end the curve is walked (tradeAnalytics.ts:392,
\* paperTrading.ts:272).
THEOREM BooksAlwaysBalance == Spec => []BooksBalance
<1>1. JournalInv => BooksBalance
  BY SnapshotSound, DaySound DEF BooksBalance
<1> QED
  BY <1>1, JournalInvHolds, PTL

=============================================================================
