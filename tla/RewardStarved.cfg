\* submit_task returns the function's output; here with three workers and two
\* reward model ranks, which divide the prompts.
SPECIFICATION FairSpec
CONSTANTS
    Worker = {w1, w2, w3}
    MaxPrompts = 6
    Configs <- MCStarved
PROPERTY
    SubmissionsAnswered
CHECK_DEADLOCK FALSE
