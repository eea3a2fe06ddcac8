CONSTANTS
  Sources = {s1, s2}
  HighWater = 1
  MaxChunks = 4
  MaxWrites = 2

SPECIFICATION Spec
CHECK_DEADLOCK FALSE

INVARIANTS
  SinkInOrder
  QueueBound
  CallbackOnce
  FinishMeansWritten

PROPERTIES
  PausedResumes
  EndFinishes
