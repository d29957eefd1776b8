\* Two threads and three descriptors, of which listings take two; fairness.
SPECIFICATION FairSpec
CONSTANTS
  Threads = {t1, t2}
  Chains <- Bundled
  Garbage = {0}
  Nodes <- Few
  Dangling = {"l"}
  Block = 2
  MaxFds = 3
  MaxChanges = 1
CHECK_DEADLOCK FALSE
PROPERTIES Drained CallEnds
