CONSTANTS
    Nil = Nil
    Charts <- MCCharts
    Unit <- MCUnit
    SetupAnswers <- MCSetupAnswers
    TrendAnswers <- MCTrendAnswers
    ZoneAnswers <- MCZoneAnswers
    EventAnswers <- MCEventAnswers
    Tapes <- MCTapes
    Clock <- MCClock
    LevelSets <- MCLevelSets
    Strategies <- MCStrategies
SPECIFICATION DecisionSpec
INVARIANT ScalpingIsStricter
INVARIANT ZonesOnlyHelp
INVARIANT TwoToOne
INVARIANT AgreementHelps
INVARIANT ExpiresOnce
