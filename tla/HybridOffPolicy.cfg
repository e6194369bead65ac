\* free_cache_engine FALSE: nothing switches the workers to rollout mode.
SPECIFICATION Spec
CONSTANTS
  Replicas = {{a1}}
  Configs <- MCKeepsCache
  TotalSteps = 2
INVARIANT OnPolicy
CHECK_DEADLOCK FALSE
