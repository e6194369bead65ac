\* Budgets 0, 1 and 2 with failing calls, results of every kind and a suggestion id
\* that cannot become a directory; budget 3 with the deepest trees.
SPECIFICATION CaseSpec
CONSTANTS
    Suggestion = {1, 2, 3}
    PlannerSuggestionCount = 2
    MaxChild = 2
    Unsafe = {3}
    MaxSuggestions = 2
    MaxRounds = 3
    Score = {0, 1, 2}
    KeepThreshold = 1
    Result = {"failed", "blank", "text", "image"}
    Fault = {"root", "planner", "executor", "runtime", "judge"}
    StopUnselected = TRUE
INVARIANTS StoreIsSound CrashConsistent BudgetMeasuresDepth SettledWhenDone RankedByOwnStep BeamKeepsEveryParent
PROPERTIES TerminalIsFinal ImplementsTree RunEnds
