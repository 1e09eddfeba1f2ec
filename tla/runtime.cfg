\* Two concurrent calls with one key over two definitions, a retry, a time
\* limit, an approval, rejected statements and crashes.
CONSTANTS
  n1 = n1  n2 = n2  c1 = c1  c2 = c2  key = key
  None = None
  Node = {n1, n2}
  Definitions <- Graphs
  MaxIterations = 2
  MaxAttempts <- TwoTries
  Limited = {n1}
  MayAsk <- Asks
  Call = {c1, c2}
  Key = {key}
  KeyOf <- SameKey
  MaxRejections = 1
SPECIFICATION FairSpec
INVARIANTS InputsComeFromFinishedAttempts CompletedRunIsWhole ResultIsRecorded
PROPERTIES StoppedRunIsFrozen EveryCallEnds
CHECK_DEADLOCK FALSE
