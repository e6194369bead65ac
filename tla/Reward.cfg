\* Both reward models: as many ranks as agent loop workers, and a single one.
SPECIFICATION FairSpec
CONSTANTS
    Worker = {w1, w2, w3}
    MaxPrompts = 6
    Configs <- MCConfigs
INVARIANTS QueueIsSound OwnScore QuietBetweenCalls
PROPERTY CallsEnd
CHECK_DEADLOCK FALSE
