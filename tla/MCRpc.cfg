CONSTANTS
  Owners = {a, b}
  IdHalf = 4
  MaxEarlier = 1
  MaxRequests = 3
  MaxReplies = 2

SPECIFICATION Spec

INVARIANTS
  SettledOnce
  AnswerIsOwn
  TerminateComplete

PROPERTIES
  RequestsSettle
