--------------------------- MODULE PipelineQueue ---------------------------
(***************************************************************************)
(* The leased job queue of src/lib/pipeline.ts over the tables              *)
(* pipeline_runs and pipeline_jobs, together with the two kinds of process  *)
(* that drain it: the Hermes workers (src/scripts/hermes-worker.ts, whose   *)
(* dispatch runs inside the worker_dispatch node of the operating graph)    *)
(* and the laptop runner, which claims and completes through one-shot CLI   *)
(* commands (src/scripts/workplane-laptop-job.ts).                          *)
(*                                                                          *)
(* Every SQL statement is one atomic action; nothing groups statements in a *)
(* transaction, so another process, a crash or a database error can come    *)
(* between any two of them.  Completion, retry and heartbeat update WHERE   *)
(* id = $1 only: they name neither the worker nor the attempt, and the      *)
(* model lets a superseded worker reach them.                               *)
(*                                                                          *)
(* Time is kept as ticks still to run: lease[j] is the time until           *)
(* lease_expires_at, wait[j] the time until run_after.                      *)
(***************************************************************************)
EXTENDS Naturals

CONSTANTS
  Job,            \* job ids; each has its own run (run_key = idempotency_key)
  LaptopJob,      \* those of type transcript_collect_laptop
  Hermes,         \* Hermes worker processes
  Laptop,         \* laptop runner processes
  None,           \* SQL NULL
  MaxAttempts,    \* max_attempts of each job
  Priority,       \* priority of each job
  DefaultLease,   \* DEFAULT_PIPELINE_JOB_LEASE_SECONDS, in ticks
  OverrideLease,  \* JOB_LEASE_OVERRIDES.transcript_collect_laptop, in ticks
  BaseBackoff,    \* the 60 seconds of the first retry, in ticks
  MaxBackoff,     \* the 3600 seconds no backoff exceeds, in ticks
  Faults          \* which of "crash", "db", "graph" and "stall" can happen

Worker == Hermes \cup Laptop

ASSUME QueueAssumption ==
  /\ LaptopJob \subseteq Job
  /\ Hermes \cap Laptop = {}
  /\ None \notin Worker \cup Job
  /\ None \notin Nat
  /\ MaxAttempts \in [Job -> Nat \ {0}]
  /\ Priority \in [Job -> Nat]
  /\ DefaultLease \in Nat \ {0}
  /\ OverrideLease \in Nat \ {0}
  /\ BaseBackoff \in Nat
  /\ MaxBackoff \in Nat
  /\ Faults \subseteq {"crash", "db", "graph", "stall"}

VARIABLES
  runStatus,  \* pipeline_runs.status, "absent" before the row exists
  status,     \* pipeline_jobs.status, "absent" before the row exists
  lockedBy,   \* pipeline_jobs.locked_by
  lease,      \* ticks until lease_expires_at, None when it is NULL
  attempts,   \* pipeline_jobs.attempts
  wait,       \* ticks until run_after
  pc,         \* the statement each process is about to issue
  holds,      \* the job whose row the process holds a copy of
  token,      \* the attempts field of that copy
  level,      \* who handles the process's next error: dispatch "node" or "graph"
  inflight,   \* jobs with a heartbeat UPDATE sent and not yet executed
  started     \* history: the <<job, attempt>> pairs whose execution was started

rowVars  == <<status, lockedBy, lease, attempts, wait>>
procVars == <<pc, holds, token, level>>
vars     == <<runStatus, rowVars, procVars, inflight, started>>

RunStatus == {"absent", "queued", "running", "succeeded", "failed"}
JobStatus == {"absent", "pending", "running", "succeeded", "failed"}

\* Statements of a process that has claimed a job but not started its handler.
Claimed   == {"markRun", "override", "dispatch"}
\* The handler (or the laptop's collector script) is running.
Working   == {"executing", "collecting"}
\* Statements that record how the handler ended.
Recording == {"complete", "completeRun", "report", "retry", "failRun", "retryEvent"}
Holding   == Claimed \cup Working \cup Recording

TypeOK ==
  /\ runStatus \in [Job -> RunStatus]
  /\ status    \in [Job -> JobStatus]
  /\ lockedBy  \in [Job -> Worker \cup {None}]
  /\ lease     \in [Job -> Nat \cup {None}]
  /\ attempts  \in [Job -> Nat]
  /\ wait      \in [Job -> Nat]
  /\ pc        \in [Worker -> {"idle", "poll", "down"} \cup Holding]
  /\ holds     \in [Worker -> Job \cup {None}]
  /\ token     \in [Worker -> Nat]
  /\ level     \in [Worker -> {"node", "graph"}]
  /\ inflight  \subseteq Job
  /\ started   \subseteq Job \X Nat
  /\ \A w \in Worker : pc[w] \in Holding => holds[w] \in Job

Init ==
  /\ runStatus = [j \in Job |-> "absent"]
  /\ status    = [j \in Job |-> "absent"]
  /\ lockedBy  = [j \in Job |-> None]
  /\ lease     = [j \in Job |-> None]
  /\ attempts  = [j \in Job |-> 0]
  /\ wait      = [j \in Job |-> 0]
  /\ pc        = [w \in Worker |-> "idle"]
  /\ holds     = [w \in Worker |-> None]
  /\ token     = [w \in Worker |-> 0]
  /\ level     = [w \in Worker |-> "node"]
  /\ inflight  = {}
  /\ started   = {}

-----------------------------------------------------------------------------
(* enqueuePipelineJob: two upserts with a deadline check in front of each.  *)

\* INSERT INTO pipeline_runs; on a run_key that exists only updated_at moves.
EnqueueRun(j) ==
  /\ runStatus[j] = "absent"
  /\ runStatus' = [runStatus EXCEPT ![j] = "queued"]
  /\ UNCHANGED <<rowVars, procVars, inflight, started>>

\* INSERT INTO pipeline_jobs; on an idempotency_key that exists only
\* updated_at moves.  The deadline may pass first, leaving the run alone.
EnqueueJob(j) ==
  /\ runStatus[j] # "absent"
  /\ status[j] = "absent"
  /\ status' = [status EXCEPT ![j] = "pending"]
  /\ UNCHANGED <<runStatus, lockedBy, lease, attempts, wait, procVars, inflight, started>>

-----------------------------------------------------------------------------
(* Claiming.                                                                *)

\* w moves on to the statement p.
Goto(w, p) ==
  /\ pc' = [pc EXCEPT ![w] = p]
  /\ UNCHANGED <<holds, token, level>>

\* w forgets its copy and moves on to p.
Release(w, p) ==
  /\ pc'    = [pc EXCEPT ![w] = p]
  /\ holds' = [holds EXCEPT ![w] = None]
  /\ token' = [token EXCEPT ![w] = 0]
  /\ level' = [level EXCEPT ![w] = "node"]

\* Mutants of Stale: expiry one tick early; no test of the status; only the
\* clauses for a NULL lease.
StaleEarly(j) == status[j] = "running" /\ lease[j] \in {0, 1}
StaleAnyStatus(j) == lease[j] = 0
StaleNullOnly(j) == status[j] = "running" /\ lease[j] = None

\* The rows resetStalePipelineJobs selects: its second and third disjuncts
\* need a running row whose lease is NULL, which Recoverable rules out.
Stale(j) == status[j] = "running" /\ lease[j] = 0

\* resetStalePipelineJobs: one UPDATE over all stale rows of every type.
ResetStale(w) ==
  /\ w \in Hermes
  /\ pc[w] = "idle"
  /\ status'   = [j \in Job |-> IF Stale(j) THEN "pending" ELSE status[j]]
  /\ lockedBy' = [j \in Job |-> IF Stale(j) THEN None ELSE lockedBy[j]]
  /\ lease'    = [j \in Job |-> IF Stale(j) THEN None ELSE lease[j]]
  /\ wait'     = [j \in Job |-> IF Stale(j) THEN 0 ELSE wait[j]]
  /\ Goto(w, "poll")
  /\ UNCHANGED <<runStatus, attempts, inflight, started>>

\* WHERE status = 'pending' AND run_after <= NOW() AND attempts < max_attempts
\* AND type = ANY($2): Hermes and the laptop runner ask for disjoint types.
Claimable(w) ==
  { j \in Job : /\ status[j] = "pending"
                /\ wait[j] = 0
                /\ attempts[j] < MaxAttempts[j]
                /\ (j \in LaptopJob) = (w \in Laptop) }

\* Mutant of NextAttempt: the claim forgets attempts = attempts + 1.
NextAttemptSame(j) == attempts[j]

\* attempts = attempts + 1, returned to the claimer by RETURNING *.
NextAttempt(j) == attempts[j] + 1

\* CLAIM_NEXT_PIPELINE_JOB_SQL gives w the row j; ties of priority, which the
\* query breaks by run_after and id, are left open.
ClaimRow(w, j) ==
  /\ pc[w] = IF w \in Hermes THEN "poll" ELSE "idle"
  /\ \A k \in Claimable(w) : Priority[k] <= Priority[j]
  /\ status'   = [status EXCEPT ![j] = "running"]
  /\ lockedBy' = [lockedBy EXCEPT ![j] = w]
  /\ lease'    = [lease EXCEPT ![j] = DefaultLease]
  /\ attempts' = [attempts EXCEPT ![j] = NextAttempt(j)]

Claim(w) ==
  /\ \E j \in Claimable(w) :
       /\ ClaimRow(w, j)
       /\ holds' = [holds EXCEPT ![w] = j]
       /\ token' = [token EXCEPT ![w] = NextAttempt(j)]
  /\ pc' = [pc EXCEPT ![w] = "markRun"]
  /\ UNCHANGED <<runStatus, wait, level, inflight, started>>

\* The claim returns no row: the worker sleeps and polls again.
FindNothing(w) ==
  /\ w \in Hermes
  /\ pc[w] = "poll"
  /\ Claimable(w) = {}
  /\ Goto(w, "idle")
  /\ UNCHANGED <<runStatus, rowVars, inflight, started>>

\* claimNextPipelineJob's second statement: the run is running, whatever it was.
MarkRun(w) ==
  /\ pc[w] = "markRun"
  /\ runStatus' = [runStatus EXCEPT ![holds[w]] = "running"]
  /\ Goto(w, IF w \in Laptop THEN "override" ELSE "dispatch")
  /\ UNCHANGED <<rowVars, inflight, started>>

\* claimNextPipelineJob's last statement, for the types of JOB_LEASE_OVERRIDES;
\* the claim command then prints the job id and the collector script takes over.
OverrideAndCollect(w) ==
  /\ pc[w] = "override"
  /\ lease' = [lease EXCEPT ![holds[w]] = OverrideLease]
  /\ started' = started \cup {<<holds[w], token[w]>>}
  /\ Goto(w, "collecting")
  /\ UNCHANGED <<runStatus, status, lockedBy, attempts, wait, inflight>>

-----------------------------------------------------------------------------
(* Executing, with the keepalive of executeJobWithKeepalive.                *)

\* The awaited heartbeat before the handler starts.
StartExecution(w) ==
  /\ pc[w] = "dispatch"
  /\ lease' = [lease EXCEPT ![holds[w]] = DefaultLease]
  /\ started' = started \cup {<<holds[w], token[w]>>}
  /\ Goto(w, "executing")
  /\ UNCHANGED <<runStatus, status, lockedBy, attempts, wait, inflight>>

\* setInterval sends a heartbeat and does not await it.
SendHeartbeat(w) ==
  /\ pc[w] = "executing"
  /\ inflight' = inflight \cup {holds[w]}
  /\ UNCHANGED <<runStatus, rowVars, procVars, started>>

\* updatePipelineJobHeartbeat executes: WHERE id = $1, so it extends the lease
\* of whatever the row has become, after its sender finished or died too.
LandHeartbeat(j) ==
  /\ j \in inflight
  /\ inflight' = inflight \ {j}
  /\ lease' = [lease EXCEPT ![j] = DefaultLease]
  /\ UNCHANGED <<runStatus, status, lockedBy, attempts, wait, procVars, started>>

\* The laptop's heartbeat command, with the override lease.
LaptopHeartbeat(w) ==
  /\ pc[w] = "collecting"
  /\ lease' = [lease EXCEPT ![holds[w]] = OverrideLease]
  /\ UNCHANGED <<runStatus, status, lockedBy, attempts, wait, procVars, inflight, started>>

\* The handler returns, or it throws for the third time (retryWithBackoff), or the
\* audit events around it throw.
FinishExecution(w) ==
  /\ pc[w] = "executing"
  /\ \E p \in {"complete", "retry"} : Goto(w, p)
  /\ UNCHANGED <<runStatus, rowVars, inflight, started>>

\* The laptop's complete command reloads the row by id: the copy it then acts
\* on carries the attempts the row has by now.
LaptopReload(w) ==
  /\ w \in Laptop
  /\ pc[w] = "collecting"
  /\ token' = [token EXCEPT ![w] = attempts[holds[w]]]
  /\ \E p \in {"complete", "retry"} : pc' = [pc EXCEPT ![w] = p]
  /\ UNCHANGED <<holds, level, runStatus, rowVars, inflight, started>>

-----------------------------------------------------------------------------
(* Recording the outcome.                                                   *)

\* The job row is unlocked and gets the status s.
Unlock(j, s) ==
  /\ status'   = [status EXCEPT ![j] = s]
  /\ lockedBy' = [lockedBy EXCEPT ![j] = None]
  /\ lease'    = [lease EXCEPT ![j] = None]

\* completePipelineJob, first statement.
CompleteJob(w) ==
  /\ pc[w] = "complete"
  /\ Unlock(holds[w], "succeeded")
  /\ Goto(w, "completeRun")
  /\ UNCHANGED <<runStatus, attempts, wait, inflight, started>>

\* Mutant of CompleteRun: the run is forgotten.
CompleteRunSkipped(w) ==
  /\ pc[w] = "completeRun"
  /\ Goto(w, "report")
  /\ UNCHANGED <<runStatus, rowVars, inflight, started>>

\* completePipelineJob, second statement.
CompleteRun(w) ==
  /\ pc[w] = "completeRun"
  /\ runStatus' = [runStatus EXCEPT ![holds[w]] = "succeeded"]
  /\ Goto(w, "report")
  /\ UNCHANGED <<rowVars, inflight, started>>

\* The event is written and, for Hermes, the graph collects its receipts.
Report(w) ==
  /\ pc[w] = "report"
  /\ Release(w, "idle")
  /\ UNCHANGED <<runStatus, rowVars, inflight, started>>

\* Math.min(3600, Math.max(60, 2 ** Math.max(0, attempts - 1) * 60)).
Backoff(a) ==
  LET doubled == 2 ^ (IF a = 0 THEN 0 ELSE a - 1) * BaseBackoff
  IN  IF doubled \in BaseBackoff .. MaxBackoff THEN doubled ELSE MaxBackoff

\* The status retryOrFailPipelineJob writes: the copy, not the row, decides.
Outcome(w) == IF token[w] < MaxAttempts[holds[w]] THEN "pending" ELSE "failed"

\* retryOrFailPipelineJob, first statement, on the row.
RetryRow(w) ==
  /\ Unlock(holds[w], Outcome(w))
  /\ wait' = IF Outcome(w) = "failed" THEN wait
             ELSE [wait EXCEPT ![holds[w]] = Backoff(token[w])]

RetryOrFail(w) ==
  /\ pc[w] = "retry"
  /\ RetryRow(w)
  /\ Goto(w, IF Outcome(w) = "failed" THEN "failRun" ELSE "retryEvent")
  /\ UNCHANGED <<runStatus, attempts, inflight, started>>

\* retryOrFailPipelineJob, second statement.
FailRun(w) ==
  /\ pc[w] = "failRun"
  /\ runStatus' = [runStatus EXCEPT ![holds[w]] = "failed"]
  /\ Goto(w, "retryEvent")
  /\ UNCHANGED <<rowVars, inflight, started>>

\* The retry_scheduled or failed event is written.
RetryEvent(w) ==
  /\ pc[w] = "retryEvent"
  /\ Release(w, "idle")
  /\ UNCHANGED <<runStatus, rowVars, inflight, started>>

-----------------------------------------------------------------------------
(* Faults and time.                                                         *)

\* The operating graph throws or blocks around the dispatch node: before it
\* (a gate) or after it (writing the receipts of a job already completed).
\* The dispatcher then retries or fails the job itself.
GraphFault(w) ==
  /\ "graph" \in Faults
  /\ w \in Hermes
  /\ pc[w] \in {"dispatch", "report"}
  /\ pc' = [pc EXCEPT ![w] = "retry"]
  /\ level' = [level EXCEPT ![w] = "graph"]
  /\ UNCHANGED <<holds, token, runStatus, rowVars, inflight, started>>

\* Statements whose rejection the dispatch node turns into a retry, and those
\* of that retry, whose rejection the dispatcher answers with one retry more.
Tried   == {"dispatch", "complete", "completeRun", "report"}
Retried == {"retry", "failRun", "retryEvent"}

\* The next statement rejects.  Outside Tried and Retried, and in the
\* dispatcher's own retry, the rejection ends the process.
DbError(w) ==
  /\ "db" \in Faults
  /\ pc[w] \notin Working \cup {"down"}
  /\ \/ /\ w \in Hermes /\ level[w] = "node" /\ pc[w] \in Tried \cup Retried
        /\ pc' = [pc EXCEPT ![w] = "retry"]
        /\ level' = [level EXCEPT ![w] = IF pc[w] \in Tried THEN "node" ELSE "graph"]
        /\ UNCHANGED <<holds, token>>
     \/ /\ ~(w \in Hermes /\ level[w] = "node" /\ pc[w] \in Tried \cup Retried)
        /\ Release(w, "down")
  /\ UNCHANGED <<runStatus, rowVars, inflight, started>>

\* A statement runs and its answer is lost (fetch failed, ECONNRESET, timeout):
\* query() sends it again, up to three times.  A claim sent again takes another
\* job; the first stays running under w, which does not know of it.
ClaimUnanswered(w) ==
  /\ "db" \in Faults
  /\ \E j \in Claimable(w) : ClaimRow(w, j)
  /\ UNCHANGED <<runStatus, wait, procVars, inflight, started>>

\* An outcome sent again overwrites what happened to the row in between.  The
\* other statements only repeat what other processes' statements may do anyway.
OutcomeUnanswered(w) ==
  /\ "db" \in Faults
  /\ \/ pc[w] = "complete" /\ Unlock(holds[w], "succeeded") /\ UNCHANGED wait
     \/ pc[w] = "retry" /\ RetryRow(w)
  /\ UNCHANGED <<runStatus, attempts, procVars, inflight, started>>

\* The process dies; its heartbeats in flight may still land.
Crash(w) ==
  /\ "crash" \in Faults
  /\ pc[w] # "down"
  /\ Release(w, "down")
  /\ UNCHANGED <<runStatus, rowVars, inflight, started>>

Restart(w) ==
  /\ pc[w] = "down"
  /\ Goto(w, "idle")
  /\ UNCHANGED <<runStatus, rowVars, inflight, started>>

\* What keeps a lease from running out under a live worker when nothing
\* stalls: no tick passes between a claim or an outcome and its statements, a
\* heartbeat lands in every tick of an execution (30 s against a 600 s lease),
\* and a collector finishes or heartbeats within its registered lease.
Timely ==
  \A w \in Worker :
    /\ pc[w] \notin Claimed \cup Recording
    /\ pc[w] = "executing" => lease[holds[w]] = DefaultLease
    /\ pc[w] = "collecting" => lease[holds[w]] \notin {None, 0, 1}

Tick ==
  /\ "stall" \in Faults \/ Timely
  /\ \E j \in Job : lease[j] \notin {None, 0} \/ wait[j] # 0
  /\ lease' = [j \in Job |-> IF lease[j] \in {None, 0} THEN lease[j] ELSE lease[j] - 1]
  /\ wait'  = [j \in Job |-> IF wait[j] = 0 THEN 0 ELSE wait[j] - 1]
  /\ UNCHANGED <<runStatus, status, lockedBy, attempts, procVars, inflight, started>>

-----------------------------------------------------------------------------
Step(w) ==
  \/ ResetStale(w) \/ Claim(w) \/ FindNothing(w) \/ MarkRun(w)
  \/ OverrideAndCollect(w) \/ StartExecution(w) \/ FinishExecution(w)
  \/ LaptopReload(w) \/ CompleteJob(w) \/ CompleteRun(w) \/ Report(w)
  \/ RetryOrFail(w) \/ FailRun(w) \/ RetryEvent(w)

Keepalive(w) == SendHeartbeat(w) \/ LaptopHeartbeat(w)

Next ==
  \/ \E j \in Job : EnqueueRun(j) \/ EnqueueJob(j) \/ LandHeartbeat(j)
  \/ \E w \in Worker : Step(w) \/ Keepalive(w) \/ GraphFault(w) \/ DbError(w)
                       \/ ClaimUnanswered(w) \/ OutcomeUnanswered(w)
                       \/ Crash(w) \/ Restart(w)
  \/ Tick

Spec == Init /\ [][Next]_vars

\* The workers loop for ever and are restarted, handlers return or throw, and
\* time passes.  Nobody is obliged to enqueue, to crash or to send a heartbeat.
FairSpec ==
  /\ Spec
  /\ \A w \in Worker : WF_vars(Step(w)) /\ WF_vars(Restart(w))
  /\ WF_vars(Tick)
=============================================================================
