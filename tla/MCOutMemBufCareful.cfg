CONSTANTS
  Values = {v1, v2}
  Zero = z
  Garbage = g
  InitSize = 2
  MinSize = 3
  Careful = TRUE
  MaxPut = 2
  MaxSize = 4
SPECIFICATION Spec
INVARIANT SliceStable
PROPERTY ImplementsOutputSequence
