\* Crashes, rejected statements and graph failures; three casts over two hours.
CONSTANTS
  a1 = a1  a2 = a2  b1 = b1  b2 = b2  b3 = b3  w1 = w1  w2 = w2
  None = None
  Agent = {a1, a2}
  Beat = {b1, b2, b3}
  Worker = {w1, w2}
  Casts <- MCCasts
  MaxHour = 2
  Owned = {a1}
  Target <- Targets
  Authorities <- Lists
  Faults = {"crash", "db", "graph"}
SPECIFICATION FairSpec
INVARIANTS OneWorkerPerTask OneOpenTask HeartbeatNeverThrows
PROPERTIES ClosedStaysClosed AgentsComeFree
CHECK_DEADLOCK FALSE
