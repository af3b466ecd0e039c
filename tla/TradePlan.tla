------------------------------ MODULE TradePlan ------------------------------
(***************************************************************************)
(* The levels a trader is shown once a decision acts on a setup: the plan  *)
(* (predictiveSignal.ts) and the execution card made from the decision and *)
(* the plan (executionTradeCard.ts).  Prices are doubled, so that the      *)
(* middle of a zone is an integer; ratios are hundredths.                  *)
(***************************************************************************)
EXTENDS IntradayGates

Middle(zone) == zone[1] + zone[2]
\* The ratio as it is shown, of two distances: it tells nothing of the sides they lie on.
Ratio(entry, stop, target) == (100 * AbsVal(target - entry)) \div AbsVal(entry - stop)

\* What a move gains on a side.
Gain(side, from, to) == IF side = "buy" THEN to - from ELSE from - to

\* Mutant: the targets of the setup are taken as they are.
TargetsMutant(entry, risk, side, zones) == [k \in 1..3 |-> IF k \in DOMAIN zones THEN Middle(zones[k]) ELSE Nil]

\* The targets: the middles of the zones, or two, three and four risks away when the
\* first of them, the entry itself without zones, is nearer than two.
Targets(entry, risk, side, zones) ==
    LET at == [k \in 1..3 |-> IF k \in DOMAIN zones THEN Middle(zones[k]) ELSE IF k = 1 THEN entry ELSE Nil]
    IN IF risk > 0 /\ AbsVal(at[1] - entry) < 2 * risk
       THEN [k \in 1..3 |-> IF side = "buy" THEN entry + (k + 1) * risk ELSE entry - (k + 1) * risk]
       ELSE at

\* derivePredictivePlan: the side is the one the setup's direction names.
PredictivePlan(setup) ==
    LET side == IF ToneSide(setup.direction) = "buy" THEN "buy" ELSE "sell"
        entry == Middle(setup.entry)
        stop == 2 * (IF side = "buy" THEN Smaller(setup.stop[1], setup.stop[2])
                     ELSE Larger(setup.stop[1], setup.stop[2]))
        targets == Targets(entry, AbsVal(entry - stop), side, setup.targets)
    IN [side |-> side, entry |-> entry, stop |-> stop, targets |-> targets,
        rr |-> IF entry = stop THEN setup.rr ELSE Ratio(entry, stop, targets[1])]

\* validatePlan
ValidPlan(plan) ==
    /\ plan.entry # plan.stop
    /\ IF plan.side = "buy" THEN plan.stop < plan.entry ELSE plan.stop > plan.entry
    /\ plan.rr >= 200

\* The plan useDecision passes on: a valid one, or for intraday one that pays 1.8.
Predictive(profile, setup, decision) ==
    IF decision.direction = "wait" \/ setup = Nil THEN Nil
    ELSE LET plan == PredictivePlan(setup)
         IN IF ValidPlan(plan) \/ (profile = "intraday" /\ plan.rr # Nil /\ plan.rr >= 180) THEN plan ELSE Nil

WaitCard == [mode |-> "wait", entry |-> Nil, stop |-> Nil, target |-> Nil, rr |-> Nil]

\* deriveExecutionCard: the levels of the plan, or without one the setup's entry and stop
\* and a target two risks away, on the side of the decision.
CardOf(decision, setup, plan) ==
    LET side == decision.direction
        entry == IF plan # Nil THEN plan.entry ELSE Middle(setup.entry)
        stop == IF plan # Nil THEN plan.stop ELSE 2 * setup.stop[IF side = "buy" THEN 1 ELSE 2]
        risk == AbsVal(entry - stop)
        target == IF plan # Nil THEN plan.targets[1]
                  ELSE IF side = "buy" THEN entry + 2 * risk ELSE entry - 2 * risk
    IN IF side = "wait" \/ setup = Nil \/ risk = 0 THEN WaitCard
       ELSE [mode |-> "trade", entry |-> entry, stop |-> stop, target |-> target,
             rr |-> Ratio(entry, stop, target)]
=============================================================================
