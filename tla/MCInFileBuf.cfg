\* A buffer of two bytes, a file of up to five.
SPECIFICATION ReaderSpec
CONSTANTS
  x = x
  y = y
  FileBytes <- MCBytes
  BufSize = 2
  MaxPos = 5
  CarefulReader = TRUE
PROPERTY ImplementsInputSequence
