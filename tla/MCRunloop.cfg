\* A thread and the loop dispatch; two events.
SPECIFICATION Spec
CONSTANTS
  Threads = {t1}
  Events = {e1, e2}
  Careful = TRUE
  MaxTasks = 2
  MaxStops = 1
INVARIANTS NoLostWakeup ClosedOnce DeletedIsUnused
PROPERTIES ImplementsTaskQueue OneshotFiresOnce
CHECK_DEADLOCK FALSE
