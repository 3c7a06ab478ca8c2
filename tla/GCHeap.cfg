CONSTANTS
  Threads = {t1}
  Main = t1
  NoYielders = {t1}
  Switchers = {t1}
  Foreign = {f1}
  Kinds = {"sticky", "complete", "normal"}
  Blocks = {b1, b2}
  Sweeper = sweeper
  Crowd = 3
  None = None
SPECIFICATION Spec
SYMMETRY SymAll
INVARIANTS
  NoUseAfterFree
  CompleteSwept
  NoLostRequest
