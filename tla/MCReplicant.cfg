\* Three elections in two terms, with one restart.
SPECIFICATION ReplicantSpec
CONSTANTS
  r1 = r1
  r2 = r2
  r3 = r3
  Replicas <- MCReplicas
  LastTerm <- MCLastTerm
  LastIndex <- MCLastIndex
  MaxTerm = 3
  MaxElections = 3
  MaxRestarts = 1
SYMMETRY SameLog
INVARIANT ElectionSafety
PROPERTY CandidacyIsDurable
