CONSTANTS
  Requests <- Few
  PipeSize = 1
  CgiMax = 1
  WriteMax = 1
  DownMax = 1
SPECIFICATION FairSpec
CHECK_DEADLOCK FALSE
INVARIANTS
  ResponseWhole
  NothingLeft
PROPERTIES
  Finishes
  InputEnds
