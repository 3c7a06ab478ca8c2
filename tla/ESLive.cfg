CONSTANTS
  Dispatchers = {d1, d2}
  Immediate = {}
  Main = d1
  Events = {e1, e2}
  Continuous = {}
  IOEvents = {e2}
  Workers = {w1}
  Posters = {p1}
  Owners = {}
  Service = s
  Cores = 1
  MaxPeriod = 0
  MaxTime = 0
  None = None
  Reserved = Reserved
SPECIFICATION FairSpec
PROPERTIES
  EventsRun
INVARIANTS
  NoForgottenDispatcher
  NoStrandedPending
  QueuedOnce
