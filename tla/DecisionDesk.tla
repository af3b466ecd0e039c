---------------------------- MODULE DecisionDesk ----------------------------
(***************************************************************************)
(* The decision of one chart (useDecision.ts): the answers of its queries  *)
(* arrive one at a time, in any order, and are replaced by newer ones; the *)
(* trader changes the profile and the EMA overlay.  After each the hook    *)
(* derives the decision anew from whatever has arrived.                    *)
(* A failed query keeps the data it had, so it is no step.  Another chart  *)
(* is another hook: its symbol, timeframe and server stay the same.        *)
(* From the same answers the hook reads the character of an expiry session *)
(* and the late-session setup; both see the time at which the candles came.*)
(* The last price is the last close.                                       *)
(***************************************************************************)
EXTENDS TradePlan, SessionTape, ExpiryCalendar

CONSTANTS
    Charts,         \* [timeframe, server, symbol, date, tapes]: the charts to follow
    Unit,           \* Unit[server]: "fraction" from the API, "percent" from the demo server
    SetupAnswers,   \* SetupAnswers[server]: the lists of active setups, as sets
    TrendAnswers,   \* TrendAnswers[timeframe]: trends of the symbol
    ZoneAnswers,    \* ZoneAnswers[server]: sets of zones
    EventAnswers,   \* EventAnswers[server]: [bos, choch], sequences of sides
    Tapes,          \* candles by name; "none" names no candles
    Clock,          \* Clock[tape]: [today, minute], the bars of the day and its time
    LevelSets,      \* levels by name; "none" names no levels; sup and res are the first listed
    Strategies      \* the catalogue: the setup types each strategy accepts

Profiles == {"institutional", "intraday", "scalping", "swing"}
NoEvents == [bos |-> <<>>, choch |-> <<>>]

ASSUME TapesAssumption ==
    /\ "none" \in DOMAIN Tapes /\ Tapes["none"] = <<>>
    /\ \A t \in DOMAIN Tapes : Tapes[t] \in Seq([o : Int, h : Int, l : Int, c : Int, v : Nat])
ASSUME ChartsAssumption ==
    \A c \in Charts :
        /\ c.server \in DOMAIN Unit \cap DOMAIN SetupAnswers
        /\ c.date \in 1..365 /\ c.tapes \subseteq DOMAIN Tapes \ {"none"}
ASSUME ClockAssumption == \A t \in DOMAIN Tapes : Clock[t].today \in 0..Len(Tapes[t])
ASSUME LevelsAssumption == "none" \in DOMAIN LevelSets
\* A setup's stop and targets lie on the two sides of its entry that its direction asks for
\* (trade_setup/zones.py:44-74, 86-111; data.mjs:659-667).
ASSUME SetupsAssumption ==
    \A c \in Charts : \A found \in SetupAnswers[c.server] : \A s \in found :
        /\ s.confidence \in 0..100
        /\ s.entry \in (Nat \ {0}) \X (Nat \ {0}) /\ s.stop \in (Nat \ {0}) \X (Nat \ {0})
        /\ s.targets \in Seq(Nat \X Nat)
        /\ \A k \in DOMAIN s.evidence : s.evidence[k] \in Int
        /\ s.direction \in {"bullish", "bearish", "buy", "sell"}
        /\ \A k \in {1, 2} :
              /\ Gain(ToneSide(s.direction), 2 * s.stop[k], Middle(s.entry)) > 0
              /\ s.targets # <<>> => Gain(ToneSide(s.direction), Middle(s.entry), 2 * s.targets[1][k]) > 0
ASSUME AnswersAssumption ==
    /\ \A tf \in Timeframes \cup {c.timeframe : c \in Charts} :
           \A t \in TrendAnswers[tf] : t.confidence \in 0..100 /\ t.phaseConfidence \in 0..100
    /\ \A c \in Charts : \A found \in ZoneAnswers[c.server] :
           IsFiniteSet(found) /\ \A z \in found : z.confidence \in Nat
    /\ \A c \in Charts : \A e \in EventAnswers[c.server] :
           e.bos \in Seq(Sides \cup {"none"}) /\ e.choch \in Seq(Sides \cup {"none"})
ASSUME NilAssumption ==
    /\ Nil \notin Int \cup [rr : Int, risk : Int, riskPct : Int]
    /\ Nil \notin [side : Sides, entry : Int, stop : Int, targets : [1..3 -> Int \cup {Nil}], rr : Int]

VARIABLES
    chart,      \* the timeframe and the server
    profile,    \* the setting decisionProfile
    emaOn,      \* the setting overlays.ema
    setups, trends, catalog, zones, events, tape, lines    \* the latest answers

answers == <<setups, trends, catalog, zones, events, tape, lines>>
decisionVars == <<chart, profile, emaOn, answers>>

TrendKeys == Timeframes \cup {c.timeframe : c \in Charts}

-----------------------------------------------------------------------------
\* What the candles say, for every tape and every set of levels.
LevelsShown(l, ema) == [LevelSets[l] EXCEPT !.ema = IF ema THEN @ ELSE Nil]
ScanOf ==
    [t \in DOMAIN Tapes |-> [l \in DOMAIN LevelSets |-> [e \in BOOLEAN |-> EarlyScan(Tapes[t], LevelsShown(l, e))]]]
PersonalityOf == [t \in DOMAIN Tapes |-> [s \in Sides \cup {"none"} |-> Personality(Tapes[t], s)]]

\* topSetup: the most confident setup among the fresh ones, or among all.
TopSetup ==
    LET fresh == {s \in setups : ~Dead(s)}
        pool == IF fresh = {} THEN setups ELSE fresh
    IN IF pool = {} THEN Nil ELSE CHOOSE s \in pool : \A t \in pool : s.confidence >= t.confidence

\* useRecommendation: the first strategy of the catalogue that accepts the setup's type.
Accepted(setup) ==
    LET matches == {k \in DOMAIN Strategies : setup # Nil /\ setup.type \in Strategies[k]}
    IN IF ~catalog \/ matches = {} THEN {} ELSE Strategies[Min(matches)]

InputsWith(seen) ==
    [timeframe |-> chart.timeframe, unit |-> Unit[chart.server],
     setup |-> TopSetup, accepts |-> Accepted(TopSetup),
     trend |-> trends[chart.timeframe], trends |-> trends,
     zones |-> seen, bos |-> events.bos, choch |-> events.choch]

BosSide == IF events.bos = <<>> THEN "none" ELSE Last(events.bos)

\* The decision for a profile from what it reads.  Swing is not implemented and
\* means institutional.
Derived(prof, inputs) ==
    IF prof \in {"intraday", "scalping"}
    THEN Intraday(inputs, IF prof = "scalping" THEN SCALPING_MODEL ELSE INTRADAY_MODEL,
                  Tapes[tape], ScanOf[tape][lines][emaOn], PersonalityOf[tape][BosSide])
    ELSE Institutional(inputs, Tapes[tape])

\* expiryIntel: what the expiry session looks like, on the chart of an index that has one.
ExpiryCharts == {c \in Charts : IsExpiryDay(c.symbol, c.date)}
Sessions == {[tape |-> t, unsure |-> u, intel |-> Expiry(Tapes[t], Clock[t].today, u)] :
                t \in DOMAIN Tapes, u \in BOOLEAN}
TrendHere == trends[chart.timeframe]
TrendSure == Confidence([unit |-> Unit[chart.server]], TrendHere) >= 62
ExpiryIntel ==
    IF chart \notin ExpiryCharts THEN Idle
    ELSE (CHOOSE s \in Sessions : s.tape = tape /\ s.unsure = ~TrendSure).intel

\* enrichDecisionForExpiry: a WAIT on an expiry day also waits for the session.
Enriched(d, intel) ==
    IF ~intel.active \/ d.direction # "wait" THEN d
    ELSE [d EXCEPT !.unlock = @ \cup (IF intel.compressing THEN {"compression_breakout"} ELSE {})
                                \cup (IF intel.vol = "contracting" THEN {"vol_expansion"} ELSE {})]

DecisionWith(prof, seen) == Enriched(Derived(prof, InputsWith(seen)), ExpiryIntel)
DecisionFor(prof) == DecisionWith(prof, zones)
Decision == DecisionFor(profile)

\* lateSession, for a side of the trend and of the structure.
Days == {[tape |-> t, marks |-> Landmarks(LastN(Clock[t].today, Tapes[t]))] : t \in DOMAIN Tapes}
Marks == (CHOOSE d \in Days : d.tape = tape).marks
TrendSide == IF TrendHere = Nil THEN "neutral" ELSE ToneSide(TrendHere.side)
LateWith(trendSide, bias) ==
    LateSession(Marks, Clock[tape].minute, trendSide, bias, LevelSets[lines], ExpiryIntel)
Bias == StructureBias(events.bos, events.choch)
Late == LateWith(TrendSide, Bias)

\* executionCard, with the plan of the hook, which needs a last price.
ExecutionCard(prof, d) ==
    CardOf(d, TopSetup, IF tape = "none" THEN Nil ELSE Predictive(prof, TopSetup, d))
-----------------------------------------------------------------------------
DecisionInit ==
    /\ chart \in Charts
    /\ profile = "intraday" /\ emaOn = TRUE
    /\ setups = {} /\ zones = {} /\ catalog = FALSE
    /\ trends = [tf \in TrendKeys |-> Nil]
    /\ events = NoEvents /\ tape = "none" /\ lines = "none"

SetupsAnswered ==
    /\ setups' \in SetupAnswers[chart.server]
    /\ UNCHANGED <<chart, profile, emaOn, trends, catalog, zones, events, tape, lines>>

TrendAnswered(tf) ==
    /\ \E t \in TrendAnswers[tf] : trends' = [trends EXCEPT ![tf] = t]
    /\ UNCHANGED <<chart, profile, emaOn, setups, catalog, zones, events, tape, lines>>

StrategiesAnswered ==
    /\ catalog' = TRUE
    /\ UNCHANGED <<chart, profile, emaOn, setups, trends, zones, events, tape, lines>>

ZonesAnswered ==
    /\ zones' \in ZoneAnswers[chart.server]
    /\ UNCHANGED <<chart, profile, emaOn, setups, trends, catalog, events, tape, lines>>

EventsAnswered ==
    /\ events' \in EventAnswers[chart.server]
    /\ UNCHANGED <<chart, profile, emaOn, setups, trends, catalog, zones, tape, lines>>

CandlesAnswered ==
    /\ tape' \in chart.tapes
    /\ UNCHANGED <<chart, profile, emaOn, setups, trends, catalog, zones, events, lines>>

LevelsAnswered ==
    /\ lines' \in DOMAIN LevelSets \ {"none"}
    /\ UNCHANGED <<chart, profile, emaOn, setups, trends, catalog, zones, events, tape>>

SetProfile ==
    /\ profile' \in Profiles \ {profile}
    /\ UNCHANGED <<chart, emaOn, answers>>

ToggleEma ==
    /\ emaOn' = ~emaOn
    /\ UNCHANGED <<chart, profile, answers>>

DecisionNext ==
    \/ SetupsAnswered \/ StrategiesAnswered \/ ZonesAnswered \/ EventsAnswered
    \/ CandlesAnswered \/ LevelsAnswered \/ SetProfile \/ ToggleEma
    \/ \E tf \in TrendKeys : TrendAnswered(tf)

DecisionSpec == DecisionInit /\ [][DecisionNext]_decisionVars
-----------------------------------------------------------------------------
Acted(d) == d.direction # "wait"
Rank(d) == CASE d.level = "none" -> 0 [] d.level = "early" -> 1 [] OTHER -> 2

CardOk(d) ==
    /\ d.direction \in Sides \cup {"wait"} /\ d.strong \in BOOLEAN
    /\ d.level \in {"none", "early", "confirmed", "full"}
    /\ d.confidence \in
         CASE d.level = "none" -> 0..55 [] d.level = "early" -> 48..64 [] OTHER -> 0..100

\* Every variable has its type, and the confidence shown has the range of its level:
\* a WAIT never looks like a trade and an early entry never like a confirmed one.
DecisionTypeOK ==
    /\ chart \in Charts /\ profile \in Profiles /\ emaOn \in BOOLEAN /\ catalog \in BOOLEAN
    /\ setups \in SetupAnswers[chart.server] \cup {{}}
    /\ trends \in [TrendKeys -> {Nil} \cup UNION {TrendAnswers[tf] : tf \in TrendKeys}]
    /\ zones \in ZoneAnswers[chart.server] \cup {{}} /\ events \in EventAnswers[chart.server] \cup {NoEvents}
    /\ tape \in DOMAIN Tapes /\ lines \in DOMAIN LevelSets
    /\ CardOk(Decision)

\* Scalping only narrows intraday trading: whatever has arrived, a trade the
\* scalping profile takes is one the intraday profile takes too, on the same side.
\* The floors of the two models, the projected targets and the two levels of
\* entry could each break this.
Narrows(scalp, intraday) == Acted(scalp) => intraday.direction = scalp.direction
ScalpingIsStricter == Narrows(DecisionFor("scalping"), DecisionFor("intraday"))

\* More zones never cost a trade its grade: with all else the same, an answer that
\* only adds zones leaves the decision at its level or lifts it.  The institutional
\* score takes the mean of the best zones, so there only zones that do not dilute it.
NoWorse(now, then) == Acted(now) => Rank(then) >= Rank(now)
FastProfiles == {"intraday", "scalping"}
MeanOf(seen) == SmcQuality(InputsWith(seen), Reading(InputsWith(seen), Tapes[tape]).best)
Dilutes(more) == profile \notin FastProfiles /\ MeanOf(more) < MeanOf(zones)
ZonesOnlyHelp ==
    \A more \in ZoneAnswers[chart.server] :
        zones \subseteq more /\ ~Dilutes(more) => NoWorse(Decision, DecisionWith(profile, more))

\* The measures of a trade card: the distances paid and risked on a side, and where the
\* target is from.
PaysTwo(side, card) ==
    /\ Gain(side, card.stop, card.entry) > 0
    /\ Gain(side, card.entry, card.target) >= 2 * Gain(side, card.stop, card.entry)
OwnTarget(s, card) == s.targets # <<>> /\ card.target = Middle(s.targets[1])
TwoRisks(card) == AbsVal(card.target - card.entry) = 2 * AbsVal(card.entry - card.stop)
\* The card of a decision, over the levels of a setup.
PaysAsNamed(d, s, card) ==
    LET named == ToneSide(s.direction)
        sold == d.direction # named
    IN  /\ card.mode = "trade" /\ card.rr >= 200
        /\ OwnTarget(s, card) \/ TwoRisks(card)
        /\ sold => profile \in FastProfiles /\ d.direction = "sell"
        /\ IF sold /\ tape = "none" THEN card.stop < card.entry /\ card.target < card.entry
           ELSE PaysTwo(named, card)

\* The levels on the execution card of a trade pay at least two for one, with the stop on
\* the losing and the target on the winning side, for the side the setup names; a target
\* that is not the setup's own lies two risks away, under scalping too, although
\* scalpGeometry.ts:3 wants none invented.  The side traded is the one named, except that
\* the fast profiles sell a setup called "bullish" (intradayDecision.ts:422): that card
\* says SELL over the levels of the purchase, which predictiveSignal.ts:150 would not take
\* for a short, and before the candles over a stop and a target both below the entry.
TwoToOne == Acted(Decision) => PaysAsNamed(Decision, TopSetup, ExecutionCard(profile, Decision))

\* A late-session trade survives agreement: when the side it takes leads on evidence, the
\* trend and the newest structure turning to that side never cancel or reverse it.
Leads(s, score) == score[s] > score[Other(s)]
AgreementHelps ==
    \A s \in Sides :
        Late.side = s /\ Leads(s, Scores(Marks, TrendSide, Bias, LevelSets[lines])) => LateWith(s, s).side = s

\* An index shown has its one session a week, or a month, where a holiday moves it to: on
\* the day before that the market is open ("Holiday -> previous weekday",
\* expiryCalendar.ts:4; adjustExpiryDate, :66), none lost, doubled or on a closed day.
\* The monthly rule (:84) skips a holiday before anything can move it: March 2026's
\* session, due on Tuesday the 31st, is on the 24th and not on Monday the 30th, and this
\* is the year's only one to break that line.
ExpiresOnce == chart.symbol \in Listed => chart.symbol \in Regular
=============================================================================
