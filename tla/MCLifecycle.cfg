\* Two clients and up to two signals, at any step of any thread; fairness.
SPECIFICATION FairSpec
CONSTANTS
  Clients = {c1, c2}
  Signals <- MCSignals
  MaxSignals = 2
  Main = Main
  Nobody = Nobody
CHECK_DEADLOCK FALSE
INVARIANTS TypeOK DestroyedOnce KeepsNumber LeavesOnlyAbout
PROPERTIES SignalEnds
