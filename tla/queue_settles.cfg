\* Timely heartbeats and statements; a Hermes job with a retry and a laptop job.
\* Processes crash and restart, finitely often where a property says so.
CONSTANTS
  h1 = h1  h2 = h2  l1 = l1  j1 = j1  j2 = j2
  None = None
  Job = {j1, j2}
  LaptopJob = {j2}
  Hermes = {h1, h2}
  Laptop = {l1}
  MaxAttempts <- MixedAttempts
  Priority <- MixedPriority
  DefaultLease = 2
  OverrideLease = 3
  BaseBackoff = 1
  MaxBackoff = 2
  Faults = {"crash"}
SPECIFICATION FairSpec
INVARIANTS MutualExclusion
PROPERTIES TerminalIsFinal EventuallySettles RunFollowsJob
