CONSTANTS
  Dispatchers = {d1, d2}
  Immediate = {}
  Main = d1
  Events = {e1}
  Continuous = {}
  IOEvents = {}
  Workers = {w1}
  Posters = {p1}
  Owners = {o1}
  Service = s
  Cores = 2
  MaxPeriod = 0
  MaxTime = 0
  None = None
  Reserved = Reserved
SPECIFICATION Spec
INVARIANTS
  StopsRunning
