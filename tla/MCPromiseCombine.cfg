\* The three combinators over three inputs.
CONSTANTS
  v1 = v1
  v2 = v2
  e1 = e1
  e2 = e2
  N = 3
  Kinds = {"all", "any", "race"}
  Voids = {FALSE}
  Values <- MCValues
  Default = v0
  Errors <- MCErrors
  TimedOut = te
  Invalid = ti
  MaxThens = 0
SYMMETRY Symmetry
SPECIFICATION Spec
INVARIANT CombineOutcome
