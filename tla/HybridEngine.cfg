\* Two replicas, one of two workers, every configuration that frees the engine's memory.
SPECIFICATION FairSpec
CONSTANTS
  Replicas = {{a1, a2}, {b1}}
  Configs <- MCConfigs
  TotalSteps = 2
INVARIANTS OnPolicy EngineReady MemoryIsSound OwnRandom
PROPERTY RunEnds
CHECK_DEADLOCK FALSE
