CONSTANTS
  Values = {v1, v2}
  Zero = z
  Cap = 2
  Modes = {"truncate", "append", "at_end", "at_begin"}
  Careful = TRUE
  EmptyPuts = FALSE
  MaxPut = 4
  MaxSize = 5
SPECIFICATION Spec
INVARIANT HighWatermarkIsSize
PROPERTY ImplementsOutputSequence
