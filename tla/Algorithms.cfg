SPECIFICATION AllSpec
CONSTANTS
    Suggestion = {1, 2}
    PlannerSuggestionCount = 2
    MaxChild = 3
    Score = {1, 2}
    MaxSuggestions = 3
    MaxFrontier = 3
    Length = {0, 1, 3}
    MaxRows = 6
    Alpha = 5
    Beta = 2
    Gamma = 2
    FmtWeight = 2
    EmergeWeight = 3
    MaxRollouts = 3
    Sides = {1, 2, 6}
    MaxTurns = 4
INVARIANTS
    ListMatchesRanking BalancingIsSound RowsKeepTheirPrompt RanksInStep
    ToolsPayWhenNeeded BonusIsEarned  PackedApart
CHECK_DEADLOCK FALSE
