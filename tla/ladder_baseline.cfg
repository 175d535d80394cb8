SPECIFICATION LadderSpec
CONSTANTS
  StageCount = 2
  Segment = 2
  ImprovementFrom = 2
  CheckpointEvery = 3
  Scores = {0, 1}
  MaxStageDeaths = 0
INVARIANT
  ImprovementIsMeasured
CHECK_DEADLOCK FALSE
