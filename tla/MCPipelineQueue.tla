-------------------------- MODULE MCPipelineQueue --------------------------
(* Small instances of the job queue for TLC. *)
EXTENDS PipelineQueueProps, TLC

CONSTANTS h1, h2, l1, j1, j2

HermesSymmetry == Permutations({h1, h2})

\* One Hermes job and two workers: every race of two workers over a row.
OneJob         == {j1}
TwoAttempts    == [j \in Job |-> 2]
SamePriority   == [j \in Job |-> 0]

\* A Hermes job with a retry and a laptop job, which has one attempt only.
MixedAttempts  == [j \in Job |-> IF j \in LaptopJob THEN 1 ELSE 2]
MixedPriority  == [j \in Job |-> IF j = j1 THEN 1 ELSE 0]
=============================================================================
