SPECIFICATION Spec
CONSTANTS
  c1 = c1
  c2 = c2
  c3 = c3
  Conns = {c1, c2}
  Threads = {t1, t2}
  Fds = {f1, f2}
  None = None
  BufferSize = 2
  Backlog = 1
  ReqLen <- Lengths31
  Malformed = {c2}
  AppThrows = FALSE
  Lists = {}
SYMMETRY Symmetry
INVARIANTS TypeOK Inv OwnRequestOnly AnsweredOnce ClosedMeansAnswered LogNamesPeer NoVainWait
PROPERTIES ImplementsService
CHECK_DEADLOCK FALSE
