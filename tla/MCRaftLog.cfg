\* Two terms, two votes, three indices; two crashes and one failed write.
SPECIFICATION Spec
CONSTANTS
  Payloads = {a}
  Votes = {0, 1}
  MaxTerm = 2
  MaxIndex = 3
  MaxFrames = 5
  MaxFaults = 1
  MaxCrashes = 2
  RetryPrune = FALSE
INVARIANTS AckedOnDisk AckedInMemory LogMatchesFile IntegrityCheck NoResurrection
INVARIANTS TypeOK NoAbort RecoveredStateUnlessCut
CHECK_DEADLOCK FALSE
