------------------------ MODULE PipelineQueueProps ------------------------
(***************************************************************************)
(* The properties of the job queue, kept apart from the model of the code.  *)
(***************************************************************************)
EXTENDS PipelineQueue

-----------------------------------------------------------------------------
(* What holds under every fault.                                            *)

\* Every running row has an owner and a lease, so resetStalePipelineJobs will
\* find it again: the clauses of its WHERE for a NULL lease are never needed,
\* although heartbeats, resets and outcomes of superseded workers overwrite
\* the row in any order.
Recoverable ==
  \A j \in Job : status[j] = "running" => lockedBy[j] # None /\ lease[j] # None

\* A process never acts on a copy from the future, and no row exceeds its
\* budget: the claim's attempts < max_attempts holds across all resets.
AttemptsBounded ==
  /\ \A j \in Job : attempts[j] <= MaxAttempts[j]
  /\ \A w \in Worker : pc[w] \in Holding => 1 <= token[w] /\ token[w] <= attempts[holds[w]]

\* retryOrFailPipelineJob decides on the copy it holds, which another claim
\* may have outdated; still no job is marked failed before its last attempt
\* has been handed out.
FailedMeansExhausted ==
  \A j \in Job : status[j] = "failed" => attempts[j] = MaxAttempts[j]

\* Two processes may hold the same job at once, never under the same attempt
\* number, as long as the number comes from the claim (the laptop's complete
\* command reloads it).
FromClaim(w) == pc[w] \in Claimed \cup Working \/ (w \in Hermes /\ pc[w] \in Recording)

AttemptNumbersUnique ==
  \A v, w \in Worker :
    v # w /\ FromClaim(v) /\ FromClaim(w) /\ holds[v] = holds[w] => token[v] # token[w]

\* The worker whose attempt number is the row's own is the one the running row
\* names: the attempt number would identify the owner of every update.
OwnerIsNewest ==
  \A w \in Worker :
    /\ FromClaim(w) 
    /\ status[holds[w]] = "running"
    /\ token[w] = attempts[holds[w]]
    => lockedBy[holds[w]] = w

\* The queue implements the ledger: attempts are granted in order within the
\* budget, and no execution starts twice under one attempt.
Ledger == INSTANCE AttemptLedger WITH granted <- attempts
ImplementsLedger == Ledger!Spec

-----------------------------------------------------------------------------
(* What holds when heartbeats and statements are timely.                    *)

\* At most one live process works on, or records the outcome of, a job.
MutualExclusion ==
  \A v, w \in Worker :
    v # w /\ pc[v] \in Holding /\ pc[w] \in Holding => holds[v] # holds[w]

\* A succeeded or failed job keeps its status: no reset, late heartbeat or
\* other worker revives it.
TerminalIsFinal ==
  [][\A j \in Job : status[j] \in {"succeeded", "failed"} => status'[j] = status[j]]_vars

\* A job still pending that no claim will ever select.
Exhausted(j) == status[j] = "pending" /\ attempts[j] = MaxAttempts[j]
Settled(j)   == status[j] \in {"succeeded", "failed"}

\* If processes crash only finitely often, every enqueued job is settled or
\* has lost its last attempt to a crash.
EventuallySettles ==
  <>[][\A w \in Worker : ~Crash(w)]_vars =>
    \A j \in Job : status[j] = "pending" ~> Settled(j) \/ Exhausted(j)

\* While nothing crashes the run ends as its job does: the statements that
\* settle the two are never separated for good.
RunFollowsJob ==
  [](\A w \in Worker : pc[w] # "down") =>
    \A j \in Job : status[j] = "pending" ~>
      runStatus[j] \in {"succeeded", "failed"} /\ runStatus[j] = status[j]
=============================================================================
