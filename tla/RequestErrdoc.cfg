CONSTANTS
  N = 1
  Protocols = {1}
  KeepAlive = 2
  Limit = 1
  MaxFaults <- FewFaults
  Documents = TRUE
SPECIFICATION FairSpec
CHECK_DEADLOCK FALSE
PROPERTIES  TimeoutDestroys
