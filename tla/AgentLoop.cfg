\* Tools without limits, and an interaction with them.
SPECIFICATION FairSpec
CONSTANTS
    PromptLength = 2
    MaxGenerated = 2
    MaxParallelCalls = 2
    Configs <- MCConfigs
INVARIANTS MaskMarksGenerated ImagesMatch InstancesReleased LimitsHold
PROPERTY LoopReturns
CHECK_DEADLOCK FALSE
