CONSTANTS
  N = 2
  Protocols = {1, 2}
  KeepAlive = 2
  Limit = 1
  MaxFaults <- FewFaults
  Documents = TRUE
SPECIFICATION Spec
CHECK_DEADLOCK FALSE
INVARIANTS
  ActiveExact
  AnsweredFirst
  AllVisited
  HandlerClosed
  OutputAwaited
