CONSTANTS
  Dispatchers = {d1}
  Immediate = {}
  Main = d1
  Events = {e1, e2}
  Continuous = {e2}
  IOEvents = {}
  Workers = {w1, w2}
  Posters = {p1}
  Owners = {}
  Service = s
  Cores = 1
  MaxPeriod = 1
  MaxTime = 1
  None = None
  Reserved = Reserved
SPECIFICATION Spec
SYMMETRY WorkerSym
INVARIANTS
  NoLostWakeup
  NoOversleep
PROPERTIES
  InDueOrder
  
