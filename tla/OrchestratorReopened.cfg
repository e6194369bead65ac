\* docs/8, 8.2: "error" is final.
SPECIFICATION FairSpec
CONSTANTS
    Suggestion = {1, 2}
    PlannerSuggestionCount = 2
    MaxChild = 2
    Unsafe = {2}
    MaxSuggestions = 2
    MaxRounds = 1
    Score = {1}
    KeepThreshold = 1
    Result = {"image"}
    Fault = {}
    StopUnselected = TRUE
PROPERTY
    ErrorIsFinal
