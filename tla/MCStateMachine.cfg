\* Four posts, two observers and a promise.
SPECIFICATION Spec
CONSTANTS
  States <- MCStates
  Start = "start"
  Events = {"go", "halt"}
  Machine <- MCMachine
  Watchers = {"w1", "w2"}
  Promises = {"p1"}
  Filter <- MCFilter
  Good <- MCGood
  Bad <- MCBad
  MaxPosts = 4
  MaxDepth = 3
INVARIANTS ActionKeepsState ObserversUpToDate NoMissedVerdict
PROPERTY LoneEventHandled
CHECK_DEADLOCK FALSE
