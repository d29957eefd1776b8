SPECIFICATION FairSpec
CONSTANTS
  c1 = c1
  c2 = c2
  c3 = c3
  Conns = {c1, c2}
  Threads = {t1, t2}
  Fds = {f1, f2}
  None = None
  BufferSize = 2
  Backlog = 1
  ReqLen <- Lengths21
  Malformed = {}
  AppThrows = FALSE
  Lists = {c2}
CONSTRAINT BeforeRace
PROPERTIES Settled ExhaustionEnds
CHECK_DEADLOCK FALSE
