CONSTANTS
  N = 1
  Protocols = {1, 2}
  KeepAlive = 2
  Limit = 1
  MaxFaults <- MoreFaults
  Documents = FALSE
SPECIFICATION FairSpec
CHECK_DEADLOCK TRUE
PROPERTIES Served TimeoutDestroys
