\* A chain with two handlers at its end.
CONSTANTS
  v1 = v1
  v2 = v1
  e1 = e1
  e2 = e2
  N = 1
  Kinds = {"race"}
  Voids = {TRUE, FALSE}
  Values <- MCValues
  Default = v0
  Errors <- MCErrors
  TimedOut = te
  Invalid = ti
  MaxThens = 2
SPECIFICATION Spec
INVARIANTS ChainOutcome HandlerOutcome FinallyRuns
PROPERTIES TimeoutFinishes HandlerNotLost
