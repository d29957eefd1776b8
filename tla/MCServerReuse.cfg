SPECIFICATION Spec
CONSTANTS
  c1 = c1
  c2 = c2
  c3 = c3
  Conns = {c1, c2, c3}
  Threads = {t1, t2}
  Fds = {f1, f2}
  None = None
  BufferSize = 2
  Backlog = 2
  ReqLen <- Lengths111
  Malformed = {}
  AppThrows = TRUE
  Lists = {c1, c2, c3}
SYMMETRY ConnSymmetry
CONSTRAINT BeforeRace
INVARIANTS OrphanCause
PROPERTIES LostForever
CHECK_DEADLOCK FALSE
