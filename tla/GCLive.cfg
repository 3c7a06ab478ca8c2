CONSTANTS
  Threads = {t1, t2}
  Main = t1
  NoYielders = {}
  Switchers = {}
  Foreign = {}
  Kinds = {"default", "complete"}
  Blocks = {}
  Sweeper = sweeper
  Crowd = 3
  None = None
SPECIFICATION FairSpec
INVARIANTS
  MarkingExcludes
PROPERTIES
  YieldReturns
  CompleteReturns
