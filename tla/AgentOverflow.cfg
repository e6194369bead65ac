\* The rollout's comment: go on only while there is room for a token.
SPECIFICATION FairSpec
CONSTANTS
    PromptLength = 2
    MaxGenerated = 2
    MaxParallelCalls = 1
    Configs <- MCTalks
INVARIANT
    RoomToGenerate
CHECK_DEADLOCK FALSE
