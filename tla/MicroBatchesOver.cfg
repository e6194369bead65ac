\* rearrange_micro_batches: "max_token_len (int): max sum of attention_mask per
\* micro-batch".
SPECIFICATION AllSpec
CONSTANTS
    Suggestion = {1}
    PlannerSuggestionCount = 1
    MaxChild = 1
    Score = {1}
    MaxSuggestions = 0
    MaxFrontier = 0
    Length = {1, 2}
    MaxRows = 3
    Alpha = 5
    Beta = 2
    Gamma = 2
    FmtWeight = 2
    EmergeWeight = 3
    MaxRollouts = 0
    Sides = {1}
    MaxTurns = 0
INVARIANT WithinMaxTokenLen
CHECK_DEADLOCK FALSE
