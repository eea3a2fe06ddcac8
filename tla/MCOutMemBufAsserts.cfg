\* The assertion of really_touch, in a buffer of two bytes.
CONSTANTS
  Values = {v1}
  Zero = z
  Garbage = g
  InitSize = 2
  MinSize = 3
  Careful = TRUE
  MaxPut = 2
  MaxSize = 4
SPECIFICATION Spec
INVARIANT TouchNeverAborts
