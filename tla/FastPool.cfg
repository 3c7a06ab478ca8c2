CONSTANTS
  Streams = {s1, s2}
  Apps = {a1, a2}
  MaxApps = 1
  MinApps = 0
  Multiplex = 2
  MaxRequests = 2
  keep = TRUE
  None = None
SPECIFICATION Spec
SYMMETRY SymStreamsApps
INVARIANTS
  SelectionsCounted
  LimitsHold
  ReapedIsTold
  BlamedRightly
  SentOnce
  NoForeignAnswer
  NoProcessLeaked
