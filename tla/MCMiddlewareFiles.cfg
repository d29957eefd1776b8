\* One thread at a time; any file or directory, two changes.
SPECIFICATION Spec
CONSTANTS
  Threads = {t1}
  Chains <- Built
  Garbage = {0, 7, 200, 404}
  Nodes <- All
  Dangling = {"l"}
  Block = 2
  MaxFds = 2
  MaxChanges = 2
CHECK_DEADLOCK FALSE
INVARIANTS TypeOK NotFoundTrue FileTrue ListingTrue CrashCause
PROPERTIES ImplementsReply
