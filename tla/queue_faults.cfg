\* A Hermes job with a retry and a laptop job, two Hermes workers, one laptop
\* runner, every fault.
CONSTANTS
  h1 = h1  h2 = h2  l1 = l1  j1 = j1  j2 = j2
  None = None
  Job = {j1, j2}
  LaptopJob = {j2}
  Hermes = {h1, h2}
  Laptop = {l1}
  MaxAttempts <- MixedAttempts
  Priority <- MixedPriority
  DefaultLease = 1
  OverrideLease = 2
  BaseBackoff = 1
  MaxBackoff = 3
  Faults = {"crash", "db", "graph", "stall"}
SYMMETRY HermesSymmetry
SPECIFICATION Spec
INVARIANT AttemptNumbersUnique
PROPERTY ImplementsLedger
