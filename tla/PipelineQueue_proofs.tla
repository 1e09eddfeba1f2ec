----------------------- MODULE PipelineQueue_proofs -----------------------
(***************************************************************************)
(* Proofs about the leased job queue for any number of jobs and processes,  *)
(* any attempt budgets and lease lengths, and every fault.                  *)
(***************************************************************************)
EXTENDS PipelineQueueProps, TLAPS

-----------------------------------------------------------------------------
(* Type correctness.                                                        *)

\* The capped exponential backoff is a delay.
LEMMA BackoffIsNat ==
  ASSUME NEW a \in Nat PROVE Backoff(a) \in Nat
<1> DEFINE doubled == 2 ^ (IF a = 0 THEN 0 ELSE a - 1) * BaseBackoff
<1> SUFFICES (IF doubled \in BaseBackoff .. MaxBackoff THEN doubled ELSE MaxBackoff) \in Nat
  BY DEF Backoff
<1> HIDE DEF doubled
<1> QED
  BY QueueAssumption

\* Every field of every row and of every process keeps its type.
LEMMA TypeStep == TypeOK /\ [Next]_vars => TypeOK'
<1> SUFFICES ASSUME TypeOK, [Next]_vars PROVE TypeOK'
  OBVIOUS
<1> USE DEF TypeOK, RunStatus, JobStatus, Holding, Claimed, Working, Recording
<1>1. CASE UNCHANGED vars
  BY <1>1 DEF vars, rowVars, procVars
<1>2. ASSUME NEW j \in Job, EnqueueRun(j) PROVE TypeOK'
  BY <1>2 DEF EnqueueRun, rowVars, procVars
<1>3. ASSUME NEW j \in Job, EnqueueJob(j) PROVE TypeOK'
  BY <1>3 DEF EnqueueJob, procVars
<1>4. ASSUME NEW j \in Job, LandHeartbeat(j) PROVE TypeOK'
  BY <1>4, QueueAssumption DEF LandHeartbeat, procVars
<1>5. ASSUME NEW w \in Worker, Step(w) PROVE TypeOK'
  <2>1. CASE ResetStale(w)
    BY <2>1 DEF ResetStale, Goto
  <2>2. CASE Claim(w)
    <3>1. PICK j \in Claimable(w) :
            /\ ClaimRow(w, j)
            /\ holds'    = [holds EXCEPT ![w] = j]
            /\ token'    = [token EXCEPT ![w] = NextAttempt(j)]
      BY <2>2 DEF Claim
    <3>2. j \in Job /\ NextAttempt(j) \in Nat
      BY <3>1 DEF Claimable, NextAttempt
    <3> QED
      BY <2>2, <3>1, <3>2, QueueAssumption DEF Claim, ClaimRow
  <2>3. CASE FindNothing(w)
    BY <2>3 DEF FindNothing, Goto, rowVars
  <2>4. CASE MarkRun(w)
    BY <2>4 DEF MarkRun, Goto, rowVars
  <2>5. CASE OverrideAndCollect(w)
    BY <2>5, QueueAssumption DEF OverrideAndCollect, Goto
  <2>6. CASE StartExecution(w)
    BY <2>6, QueueAssumption DEF StartExecution, Goto
  <2>7. CASE FinishExecution(w)
    BY <2>7 DEF FinishExecution, Goto, rowVars
  <2>8. CASE LaptopReload(w)
    BY <2>8 DEF LaptopReload, rowVars
  <2>9. CASE CompleteJob(w)
    BY <2>9 DEF CompleteJob, Unlock, Goto
  <2>10. CASE CompleteRun(w)
    BY <2>10 DEF CompleteRun, Goto, rowVars
  <2>11. CASE Report(w)
    BY <2>11 DEF Report, Release, rowVars
  <2>12. CASE RetryOrFail(w)
    BY <2>12, BackoffIsNat DEF RetryOrFail, RetryRow, Outcome, Unlock, Goto
  <2>13. CASE FailRun(w)
    BY <2>13 DEF FailRun, Goto, rowVars
  <2>14. CASE RetryEvent(w)
    BY <2>14 DEF RetryEvent, Release, rowVars
  <2> QED
    BY <1>5, <2>1, <2>2, <2>3, <2>4, <2>5, <2>6, <2>7, <2>8, <2>9, <2>10,
       <2>11, <2>12, <2>13, <2>14 DEF Step
<1>6. ASSUME NEW w \in Worker, Keepalive(w) PROVE TypeOK'
  BY <1>6, QueueAssumption
  DEF Keepalive, SendHeartbeat, LaptopHeartbeat, rowVars, procVars
<1>7. ASSUME NEW w \in Worker, GraphFault(w) PROVE TypeOK'
  BY <1>7 DEF GraphFault, rowVars
<1>8. ASSUME NEW w \in Worker, DbError(w) PROVE TypeOK'
  BY <1>8 DEF DbError, Release, rowVars, Tried, Retried
<1>9. ASSUME NEW w \in Worker, Crash(w) PROVE TypeOK'
  BY <1>9 DEF Crash, Release, rowVars
<1>10. ASSUME NEW w \in Worker, Restart(w) PROVE TypeOK'
  BY <1>10 DEF Restart, Goto, rowVars
<1>11. CASE Tick
  BY <1>11, QueueAssumption DEF Tick, procVars
<1>12. ASSUME NEW w \in Worker, ClaimUnanswered(w) PROVE TypeOK'
  <2>1. PICK j \in Claimable(w) : ClaimRow(w, j)
    BY <1>12 DEF ClaimUnanswered
  <2>2. j \in Job /\ NextAttempt(j) \in Nat
    BY <2>1 DEF Claimable, NextAttempt
  <2> QED
    BY <1>12, <2>1, <2>2, QueueAssumption DEF ClaimUnanswered, ClaimRow, procVars
<1>13. ASSUME NEW w \in Worker, OutcomeUnanswered(w) PROVE TypeOK'
  BY <1>13, BackoffIsNat DEF OutcomeUnanswered, RetryRow, Outcome, Unlock, procVars
<1> HIDE DEF TypeOK, RunStatus, JobStatus, Holding, Claimed, Working, Recording
<1> QED
  BY <1>1, <1>2, <1>3, <1>4, <1>5, <1>6, <1>7, <1>8, <1>9, <1>10, <1>11, <1>12, <1>13
  DEF Next

\* The initial rows and processes are typed.
LEMMA TypeInit == Init => TypeOK
  BY DEF Init, TypeOK, RunStatus, JobStatus, Holding, Claimed, Working, Recording

\* Every reachable state of the queue is typed, whatever faults happen.
THEOREM TypeCorrect == Spec => []TypeOK
<1> QED
  BY TypeInit, TypeStep, PTL DEF Spec

-----------------------------------------------------------------------------
(* The inductive invariant.  No conjunct of the properties below is         *)
(* inductive by itself: that a failed row is exhausted, for one, rests on   *)
(* every held copy being no newer than its row.                             *)

\* The process goes on with the copy it has, or with none.
CopyKept(v) ==
  /\ pc'[v] \in Holding => /\ pc[v] \in Holding
                           /\ holds'[v] = holds[v]
                           /\ token'[v] = token[v]
  /\ FromClaim(v)' => FromClaim(v)
  /\ pc'[v] \in Claimed => pc[v] \in Claimed

\* The row does not start running, keeps its owner and lease while it runs, and
\* is marked failed only by a process whose copy is at its last attempt.
RowKept(j) ==
  /\ status'[j] = "running" => /\ status[j] = "running"
                               /\ lockedBy'[j] = lockedBy[j]
                               /\ lease[j] # None => lease'[j] # None
  /\ status'[j] = "failed" => \/ status[j] = "failed"
                              \/ \E w \in Worker : /\ pc[w] \in Holding
                                                   /\ holds[w] = j
                                                   /\ MaxAttempts[j] <= token[w]

\* Either no handler starts or that of a claimed copy does, ending the claim.
StartsKept ==
  \/ started' = started
  \/ \E w \in Worker : /\ pc[w] \in Claimed /\ pc'[w] \notin Claimed
                       /\ started' = started \cup {<<holds[w], token[w]>>}

\* What every step but a claim and LaptopReload is, as far as the proofs go.
Quiet ==
  /\ attempts' = attempts
  /\ \A v \in Worker : CopyKept(v)
  /\ \A j \in Job : RowKept(j)
  /\ StartsKept

LEMMA QuietStep ==
  ASSUME TypeOK, NEW w \in Worker, Step(w), ~Claim(w), ~LaptopReload(w)
  PROVE  Quiet
<1> USE DEF TypeOK, RunStatus, JobStatus, Holding, Claimed, Working, Recording,
            Quiet, CopyKept, RowKept, StartsKept, FromClaim
<1>1. CASE ResetStale(w)
  BY <1>1 DEF ResetStale, Goto
<1>2. CASE FindNothing(w)
  BY <1>2 DEF FindNothing, Goto, rowVars
<1>3. CASE MarkRun(w)
  BY <1>3 DEF MarkRun, Goto, rowVars
<1>4. CASE OverrideAndCollect(w)
  BY <1>4, QueueAssumption DEF OverrideAndCollect, Goto
<1>5. CASE StartExecution(w)
  BY <1>5, QueueAssumption DEF StartExecution, Goto
<1>6. CASE FinishExecution(w)
  BY <1>6 DEF FinishExecution, Goto, rowVars
<1>7. CASE CompleteJob(w)
  BY <1>7 DEF CompleteJob, Unlock, Goto
<1>8. CASE CompleteRun(w)
  BY <1>8 DEF CompleteRun, Goto, rowVars
<1>9. CASE Report(w)
  BY <1>9 DEF Report, Release, rowVars
<1>10. CASE RetryOrFail(w)
  <2> DEFINE j == holds[w]
  <2>1. /\ j \in Job
        /\ Outcome(w) \in {"pending", "failed"}
        /\ Outcome(w) = "failed" => MaxAttempts[j] <= token[w]
    BY <1>10, QueueAssumption DEF RetryOrFail, Outcome
  <2>2. /\ status' = [status EXCEPT ![j] = Outcome(w)]
        /\ lockedBy' = [lockedBy EXCEPT ![j] = None]
        /\ lease' = [lease EXCEPT ![j] = None]
        /\ attempts' = attempts /\ holds' = holds /\ token' = token
        /\ started' = started
        /\ \E p \in {"failRun", "retryEvent"} : pc' = [pc EXCEPT ![w] = p]
        /\ pc[w] = "retry"
    BY <1>10 DEF RetryOrFail, RetryRow, Unlock, Goto
  <2>3. ASSUME NEW i \in Job PROVE RowKept(i)
    BY <2>1, <2>2
  <2>4. ASSUME NEW v \in Worker PROVE CopyKept(v)
    BY <2>2
  <2> QED
    BY <2>2, <2>3, <2>4
<1>11. CASE FailRun(w)
  BY <1>11 DEF FailRun, Goto, rowVars
<1>12. CASE RetryEvent(w)
  BY <1>12 DEF RetryEvent, Release, rowVars
<1> QED
  BY <1>1, <1>2, <1>3, <1>4, <1>5, <1>6, <1>7, <1>8, <1>9, <1>10, <1>11, <1>12
  DEF Step

\* Every step of the system is a claim, answered or not, a laptop's reload, or
\* quiet.
LEMMA StepShape ==
  ASSUME TypeOK, [Next]_vars
  PROVE  (\E w \in Worker : Claim(w) \/ ClaimUnanswered(w) \/ LaptopReload(w)) \/ Quiet
<1> SUFFICES ASSUME ~ \E w \in Worker : Claim(w) \/ ClaimUnanswered(w) \/ LaptopReload(w)
             PROVE  Quiet
  OBVIOUS
<1> USE DEF TypeOK, RunStatus, JobStatus, Holding, Claimed, Working, Recording,
            Quiet, CopyKept, RowKept, StartsKept, FromClaim
<1>1. CASE UNCHANGED vars
  BY <1>1 DEF vars, rowVars, procVars
<1>2. ASSUME NEW j \in Job, EnqueueRun(j) PROVE Quiet
  BY <1>2 DEF EnqueueRun, rowVars, procVars
<1>3. ASSUME NEW j \in Job, EnqueueJob(j) PROVE Quiet
  BY <1>3 DEF EnqueueJob, procVars
<1>4. ASSUME NEW j \in Job, LandHeartbeat(j) PROVE Quiet
  BY <1>4, QueueAssumption DEF LandHeartbeat, procVars
<1>5. ASSUME NEW w \in Worker, Step(w) PROVE Quiet
  <2> HIDE DEF Quiet, TypeOK
  <2> QED
    BY <1>5, QuietStep
<1>6. ASSUME NEW w \in Worker, Keepalive(w) PROVE Quiet
  BY <1>6, QueueAssumption
  DEF Keepalive, SendHeartbeat, LaptopHeartbeat, rowVars, procVars
<1>7. ASSUME NEW w \in Worker, GraphFault(w) PROVE Quiet
  BY <1>7 DEF GraphFault, rowVars
<1>8. ASSUME NEW w \in Worker, DbError(w) PROVE Quiet
  BY <1>8 DEF DbError, Release, rowVars, Tried, Retried
<1>9. ASSUME NEW w \in Worker, Crash(w) PROVE Quiet
  BY <1>9 DEF Crash, Release, rowVars
<1>10. ASSUME NEW w \in Worker, Restart(w) PROVE Quiet
  BY <1>10 DEF Restart, Goto, rowVars
<1>11. CASE Tick
  <2>1. ASSUME NEW j \in Job, lease[j] # None PROVE lease'[j] # None
    <3>1. lease[j] \in Nat /\ lease'[j] = IF lease[j] \in {None, 0} THEN lease[j] ELSE lease[j] - 1
      BY <1>11, <2>1 DEF Tick
    <3>2. lease'[j] \in Nat
      BY <2>1, <3>1
    <3> QED
      BY <3>2, QueueAssumption
  <2>2. UNCHANGED <<status, lockedBy, attempts, procVars, started>>
    BY <1>11 DEF Tick
  <2>3. ASSUME NEW j \in Job PROVE RowKept(j)
    BY <2>1, <2>2
  <2>4. ASSUME NEW v \in Worker PROVE CopyKept(v)
    BY <2>2 DEF procVars
  <2> QED
    BY <2>2, <2>3, <2>4
<1>12. ASSUME NEW w \in Worker, OutcomeUnanswered(w) PROVE Quiet
  <2> DEFINE j == holds[w]
  <2>1. /\ j \in Job /\ pc[w] \in Holding
        /\ UNCHANGED <<attempts, procVars, started>>
        /\ \E s \in {"succeeded", "pending", "failed"} :
             /\ s = "failed" => MaxAttempts[j] <= token[w]
             /\ status' = [status EXCEPT ![j] = s]
             /\ lockedBy' = [lockedBy EXCEPT ![j] = None]
             /\ lease' = [lease EXCEPT ![j] = None]
    BY <1>12, QueueAssumption DEF OutcomeUnanswered, RetryRow, Outcome, Unlock
  <2>2. ASSUME NEW i \in Job PROVE RowKept(i)
    BY <2>1
  <2>3. ASSUME NEW v \in Worker PROVE CopyKept(v)
    BY <2>1 DEF procVars
  <2> QED
    BY <2>1, <2>2, <2>3
<1> HIDE DEF TypeOK, RunStatus, JobStatus, Holding, Claimed, Working, Recording,
             Quiet, CopyKept, RowKept, StartsKept, FromClaim
<1> QED
  BY <1>1, <1>2, <1>3, <1>4, <1>5, <1>6, <1>7, <1>8, <1>9, <1>10, <1>11, <1>12
  DEF Next

\* What a claim does: a pending row with attempts left gets w, a lease and the
\* next attempt number, and w a copy of it.
ClaimsRow(w, j) ==
  /\ status[j] = "pending" /\ attempts[j] < MaxAttempts[j]
  /\ status'   = [status EXCEPT ![j] = "running"]
  /\ lockedBy' = [lockedBy EXCEPT ![j] = w]
  /\ lease'    = [lease EXCEPT ![j] = DefaultLease]
  /\ attempts' = [attempts EXCEPT ![j] = attempts[j] + 1]
  /\ holds'    = [holds EXCEPT ![w] = j]
  /\ token'    = [token EXCEPT ![w] = attempts[j] + 1]
  /\ pc'       = [pc EXCEPT ![w] = "markRun"]
  /\ pc[w] \in {"idle", "poll"}
  /\ started'  = started

LEMMA ClaimEffect ==
  ASSUME NEW w \in Worker, Claim(w) PROVE \E j \in Job : ClaimsRow(w, j)
  BY DEF Claim, ClaimRow, Claimable, ClaimsRow, NextAttempt

\* What a claim does whose answer is lost: the row is w's as after a claim, and
\* no process has a copy of it.
ClaimsUnheard(w, j) ==
  /\ status[j] = "pending" /\ attempts[j] < MaxAttempts[j]
  /\ status'   = [status EXCEPT ![j] = "running"]
  /\ lockedBy' = [lockedBy EXCEPT ![j] = w]
  /\ lease'    = [lease EXCEPT ![j] = DefaultLease]
  /\ attempts' = [attempts EXCEPT ![j] = attempts[j] + 1]
  /\ UNCHANGED <<pc, holds, token, started>>

LEMMA UnheardEffect ==
  ASSUME NEW w \in Worker, ClaimUnanswered(w) PROVE \E j \in Job : ClaimsUnheard(w, j)
  BY DEF ClaimUnanswered, ClaimRow, Claimable, ClaimsUnheard, NextAttempt, procVars

\* What a reload does: only the number on the laptop's copy changes, and the
\* copy no longer counts as one from a claim.
LEMMA ReloadEffect ==
  ASSUME NEW w \in Worker, LaptopReload(w)
  PROVE  /\ UNCHANGED <<status, lockedBy, lease, attempts, holds, started>>
         /\ pc[w] = "collecting"
         /\ token' = [token EXCEPT ![w] = attempts[holds[w]]]
         /\ \E p \in {"complete", "retry"} : pc' = [pc EXCEPT ![w] = p]
  BY DEF LaptopReload, rowVars

\* Copies are never newer than their rows, rows never over budget, started
\* attempts never ahead of granted ones, and a claimed attempt not started yet.
LedgerInv ==
  /\ AttemptsBounded
  /\ \A j \in Job, t \in Nat : <<j, t>> \in started => 1 <= t /\ t <= attempts[j]
  /\ \A w \in Worker : pc[w] \in Claimed => <<holds[w], token[w]>> \notin started
  /\ AttemptNumbersUnique

LEMMA LedgerInvStep ==
  ASSUME TypeOK, TypeOK', LedgerInv, [Next]_vars PROVE LedgerInv'
<1> USE DEF TypeOK, LedgerInv, AttemptsBounded, AttemptNumbersUnique
<1> USE DEF Holding, Claimed, Working, Recording
<1>1. CASE Quiet
  <2>1. attempts' = attempts /\ \A v \in Worker : CopyKept(v)
    BY <1>1 DEF Quiet
  <2>2. AttemptsBounded' /\ AttemptNumbersUnique'
    BY <2>1 DEF CopyKept, FromClaim
  <2>3. CASE started' = started
    BY <2>1, <2>2, <2>3 DEF CopyKept
  <2>4. ASSUME NEW w \in Worker, pc[w] \in Claimed, pc'[w] \notin Claimed,
               started' = started \cup {<<holds[w], token[w]>>}
        PROVE  LedgerInv'
    <3>1. holds[w] \in Job /\ 1 <= token[w] /\ token[w] <= attempts[holds[w]]
      BY <2>4
    <3>2. \A j \in Job, t \in Nat : <<j, t>> \in started' => 1 <= t /\ t <= attempts'[j]
      BY <2>1, <2>4, <3>1
    <3>3. ASSUME NEW v \in Worker, pc'[v] \in Claimed
          PROVE  <<holds'[v], token'[v]>> \notin started'
      <4>1. pc[v] \in Claimed /\ holds'[v] = holds[v] /\ token'[v] = token[v] /\ v # w
        BY <2>1, <2>4, <3>3 DEF CopyKept
      <4>2. <<holds[v], token[v]>> # <<holds[w], token[w]>>
        BY <4>1, <2>4 DEF FromClaim
      <4> QED
        BY <4>1, <4>2, <2>4
    <3> QED
      BY <2>2, <3>2, <3>3
  <2> QED
    BY <1>1, <2>3, <2>4 DEF Quiet, StartsKept
<1>2. ASSUME NEW w \in Worker, Claim(w) PROVE LedgerInv'
  <2>1. PICK j \in Job : ClaimsRow(w, j)
    BY <1>2, ClaimEffect
  <2>2. /\ attempts[j] \in Nat /\ attempts'[j] = attempts[j] + 1
        /\ holds'[w] = j /\ token'[w] = attempts'[j]
        /\ \A i \in Job \ {j} : attempts'[i] = attempts[i]
        /\ \A v \in Worker \ {w} : pc'[v] = pc[v] /\ holds'[v] = holds[v] /\ token'[v] = token[v]
        /\ pc'[w] = "markRun" /\ started' = started
    BY <2>1 DEF ClaimsRow
  <2>3. AttemptsBounded'
    <3>1. attempts'[j] <= MaxAttempts[j]
      <4>1. attempts[j] < MaxAttempts[j] /\ MaxAttempts[j] \in Nat
        BY <2>1, QueueAssumption DEF ClaimsRow
      <4> QED
        BY <2>2, <4>1
    <3>2. \A i \in Job : attempts'[i] <= MaxAttempts[i]
      BY <2>2, <3>1
    <3>3. ASSUME NEW v \in Worker, pc'[v] \in Holding
          PROVE  1 <= token'[v] /\ token'[v] <= attempts'[holds'[v]]
      <4>1. CASE v = w
        BY <2>2, <4>1
      <4>2. CASE v # w
        <5>1. holds[v] \in Job /\ 1 <= token[v] /\ token[v] <= attempts[holds[v]]
          BY <2>2, <3>3, <4>2
        <5> QED
          BY SMTT(30), <2>2, <4>2, <5>1
      <4> QED
        BY <4>1, <4>2
    <3> QED
      BY <3>2, <3>3
  <2>4. \A i \in Job, t \in Nat : <<i, t>> \in started' => 1 <= t /\ t <= attempts'[i]
    BY <2>2
  <2>5. ASSUME NEW v \in Worker, pc'[v] \in Claimed
        PROVE  <<holds'[v], token'[v]>> \notin started'
    <3>1. CASE v = w
      <4>1. attempts[j] + 1 \in Nat /\ ~(attempts[j] + 1 <= attempts[j])
        OBVIOUS
      <4>2. <<j, attempts[j] + 1>> \notin started
        BY <4>1
      <4> QED
        BY <2>2, <3>1, <4>2
    <3>2. CASE v # w
      BY <2>2, <2>5, <3>2
    <3> QED
      BY <3>1, <3>2
  <2>6. ASSUME NEW u \in Worker, NEW v \in Worker, u # v,
               FromClaim(u)', FromClaim(v)', holds'[u] = holds'[v]
        PROVE  token'[u] # token'[v]
    <3>1. \A x \in Worker \ {w} : FromClaim(x)' => /\ FromClaim(x) /\ pc[x] \in Holding
                                                   /\ holds'[x] = holds[x]
                                                   /\ token'[x] = token[x]
      BY <2>2 DEF FromClaim
    <3>2. CASE w \notin {u, v}
      BY <2>6, <3>1, <3>2
    <3>3. ASSUME NEW x \in Worker \ {w}, FromClaim(x)', holds'[x] = j
          PROVE  token'[x] # token'[w]
      <4>1. token[x] <= attempts[j]
        BY <3>1, <3>3
      <4> QED
        BY <2>2, <3>1, <3>3, <4>1
    <3> QED
      BY <2>2, <2>6, <3>2, <3>3
  <2> QED
    BY <2>3, <2>4, <2>5, <2>6
<1>3. ASSUME NEW w \in Worker, LaptopReload(w) PROVE LedgerInv'
  <2>1. /\ UNCHANGED <<attempts, holds, started>>
        /\ pc[w] = "collecting"
        /\ token' = [token EXCEPT ![w] = attempts[holds[w]]]
        /\ \E p \in {"complete", "retry"} : pc' = [pc EXCEPT ![w] = p]
    BY <1>3, ReloadEffect
  <2>2. w \notin Hermes
    BY <1>3, QueueAssumption DEF LaptopReload
  <2>3. AttemptsBounded'
    BY <2>1
  <2>4. AttemptNumbersUnique'
    BY <2>1, <2>2 DEF FromClaim
  <2> QED
    BY <2>1, <2>3, <2>4
<1>4. ASSUME NEW w \in Worker, ClaimUnanswered(w) PROVE LedgerInv'
  <2>1. PICK j \in Job : ClaimsUnheard(w, j)
    BY <1>4, UnheardEffect
  <2>2. /\ attempts[j] \in Nat /\ attempts'[j] = attempts[j] + 1
        /\ attempts'[j] <= MaxAttempts[j]
        /\ \A i \in Job \ {j} : attempts'[i] = attempts[i]
        /\ UNCHANGED <<pc, holds, token, started>>
    <3>1. /\ attempts[j] \in Nat /\ attempts'[j] = attempts[j] + 1
          /\ \A i \in Job \ {j} : attempts'[i] = attempts[i]
          /\ UNCHANGED <<pc, holds, token, started>>
      BY <2>1 DEF ClaimsUnheard
    <3>2. attempts[j] < MaxAttempts[j] /\ MaxAttempts[j] \in Nat
      BY <2>1, QueueAssumption DEF ClaimsUnheard
    <3> QED
      BY <3>1, <3>2
  <2>3. ASSUME NEW i \in Job
        PROVE  attempts[i] <= attempts'[i] /\ attempts[i] \in Nat /\ attempts'[i] \in Nat
    <3>1. attempts[i] \in Nat /\ attempts'[i] \in Nat
      OBVIOUS
    <3>2. attempts'[i] = attempts[i] \/ attempts'[i] = attempts[i] + 1
      BY <2>2
    <3> QED
      BY <3>1, <3>2
  <2>4. AttemptsBounded'
    <3>1. \A i \in Job : attempts'[i] <= MaxAttempts[i]
      BY <2>2
    <3>2. ASSUME NEW v \in Worker, pc[v] \in Holding
          PROVE  1 <= token[v] /\ token[v] <= attempts'[holds[v]]
      BY <2>3, <3>2
    <3> QED
      BY <2>2, <3>1, <3>2
  <2>5. \A i \in Job, t \in Nat : <<i, t>> \in started' => 1 <= t /\ t <= attempts'[i]
    BY <2>2, <2>3
  <2>6. AttemptNumbersUnique'
    BY <2>2 DEF FromClaim
  <2> QED
    BY <2>2, <2>4, <2>5, <2>6
<1> HIDE DEF TypeOK, LedgerInv
<1> QED
  BY <1>1, <1>2, <1>3, <1>4, StepShape

-----------------------------------------------------------------------------
(* The rows.                                                                *)

LEMMA RecoverableStep ==
  ASSUME TypeOK, Recoverable, [Next]_vars PROVE Recoverable'
<1>1. CASE Quiet
  BY <1>1 DEF Quiet, RowKept, Recoverable
<1>2. ASSUME NEW w \in Worker, Claim(w) PROVE Recoverable'
  <2>1. PICK j \in Job : ClaimsRow(w, j)
    BY <1>2, ClaimEffect
  <2>2. lockedBy'[j] = w /\ lease'[j] = DefaultLease
    BY <2>1 DEF ClaimsRow, TypeOK
  <2>3. w # None /\ DefaultLease # None
    BY QueueAssumption
  <2> QED
    BY <2>1, <2>2, <2>3 DEF ClaimsRow, TypeOK, Recoverable
<1>3. ASSUME NEW w \in Worker, LaptopReload(w) PROVE Recoverable'
  BY <1>3, ReloadEffect DEF Recoverable
<1>4. ASSUME NEW w \in Worker, ClaimUnanswered(w) PROVE Recoverable'
  <2>1. PICK j \in Job : ClaimsUnheard(w, j)
    BY <1>4, UnheardEffect
  <2>2. w # None /\ DefaultLease # None
    BY QueueAssumption
  <2> QED
    BY <2>1, <2>2 DEF ClaimsUnheard, TypeOK, Recoverable
<1> QED
  BY <1>1, <1>2, <1>3, <1>4, StepShape

LEMMA FailedStep ==
  ASSUME TypeOK, LedgerInv, FailedMeansExhausted, [Next]_vars
  PROVE  FailedMeansExhausted'
<1>1. CASE Quiet
  <2> SUFFICES ASSUME NEW j \in Job, status'[j] = "failed"
               PROVE  attempts'[j] = MaxAttempts[j]
    BY DEF FailedMeansExhausted
  <2>1. attempts' = attempts /\ RowKept(j)
    BY <1>1 DEF Quiet
  <2>2. ASSUME NEW w \in Worker, pc[w] \in Holding, holds[w] = j, MaxAttempts[j] <= token[w]
        PROVE  attempts[j] = MaxAttempts[j]
    <3>1. token[w] <= attempts[j] /\ attempts[j] <= MaxAttempts[j]
      BY <2>2 DEF LedgerInv, AttemptsBounded
    <3>2. token[w] \in Nat /\ attempts[j] \in Nat /\ MaxAttempts[j] \in Nat
      BY QueueAssumption DEF TypeOK
    <3> QED
      BY <2>2, <3>1, <3>2
  <2> QED
    BY <2>1, <2>2 DEF RowKept, FailedMeansExhausted
<1>2. ASSUME NEW w \in Worker, Claim(w) PROVE FailedMeansExhausted'
  <2>1. PICK j \in Job : ClaimsRow(w, j)
    BY <1>2, ClaimEffect
  <2> QED
    BY <2>1 DEF ClaimsRow, TypeOK, FailedMeansExhausted
<1>3. ASSUME NEW w \in Worker, LaptopReload(w) PROVE FailedMeansExhausted'
  BY <1>3, ReloadEffect DEF FailedMeansExhausted
<1>4. ASSUME NEW w \in Worker, ClaimUnanswered(w) PROVE FailedMeansExhausted'
  <2>1. PICK j \in Job : ClaimsUnheard(w, j)
    BY <1>4, UnheardEffect
  <2> QED
    BY <2>1 DEF ClaimsUnheard, TypeOK, FailedMeansExhausted
<1> QED
  BY <1>1, <1>2, <1>3, <1>4, StepShape

LEMMA OwnerStep ==
  ASSUME TypeOK, LedgerInv, OwnerIsNewest, [Next]_vars PROVE OwnerIsNewest'
<1> SUFFICES ASSUME NEW v \in Worker, FromClaim(v)', status'[holds'[v]] = "running",
                    token'[v] = attempts'[holds'[v]]
             PROVE  lockedBy'[holds'[v]] = v
  BY DEF OwnerIsNewest
<1>1. CASE Quiet
  <2>1. /\ FromClaim(v) /\ pc'[v] \in Holding
        /\ attempts' = attempts /\ CopyKept(v)
    BY <1>1 DEF Quiet, CopyKept, FromClaim, Holding
  <2>2. holds'[v] = holds[v] /\ token'[v] = token[v] /\ holds[v] \in Job
    BY <2>1 DEF CopyKept, TypeOK
  <2>3. RowKept(holds[v])
    BY <1>1, <2>2 DEF Quiet
  <2> QED
    BY <2>1, <2>2, <2>3 DEF RowKept, OwnerIsNewest
<1>2. ASSUME NEW w \in Worker, Claim(w) PROVE lockedBy'[holds'[v]] = v
  <2>1. PICK j \in Job : ClaimsRow(w, j)
    BY <1>2, ClaimEffect
  <2>2. CASE v = w
    BY <2>1, <2>2 DEF ClaimsRow, TypeOK
  <2>3. CASE v # w
    <3>1. /\ FromClaim(v) /\ pc[v] \in Holding /\ holds[v] \in Job
          /\ holds'[v] = holds[v] /\ token'[v] = token[v]
      BY <2>1, <2>3 DEF ClaimsRow, TypeOK, FromClaim, Holding
    <3>2. token[v] <= attempts[holds[v]]
      BY <3>1 DEF LedgerInv, AttemptsBounded
    <3>3. holds[v] # j
      BY <2>1, <3>1, <3>2 DEF ClaimsRow, TypeOK
    <3> QED
      BY <2>1, <3>1, <3>3 DEF ClaimsRow, TypeOK, OwnerIsNewest
  <2> QED
    BY <2>2, <2>3
<1>3. ASSUME NEW w \in Worker, LaptopReload(w) PROVE lockedBy'[holds'[v]] = v
  <2>1. /\ UNCHANGED <<status, lockedBy, attempts, holds>>
        /\ token' = [token EXCEPT ![w] = attempts[holds[w]]]
        /\ \E p \in {"complete", "retry"} : pc' = [pc EXCEPT ![w] = p]
    BY <1>3, ReloadEffect
  <2>2. v # w /\ FromClaim(v) /\ token'[v] = token[v]
    BY <1>3, <2>1, QueueAssumption
    DEF LaptopReload, FromClaim, Claimed, Working, Recording, TypeOK
  <2> QED
    BY <2>1, <2>2 DEF OwnerIsNewest
<1>4. ASSUME NEW w \in Worker, ClaimUnanswered(w) PROVE lockedBy'[holds'[v]] = v
  <2>1. PICK j \in Job : ClaimsUnheard(w, j)
    BY <1>4, UnheardEffect
  <2>2. /\ FromClaim(v) /\ pc[v] \in Holding /\ holds[v] \in Job
        /\ holds'[v] = holds[v] /\ token'[v] = token[v]
    BY <2>1 DEF ClaimsUnheard, TypeOK, FromClaim, Holding
  <2>3. token[v] <= attempts[holds[v]]
    BY <2>2 DEF LedgerInv, AttemptsBounded
  <2>4. holds[v] # j
    BY <2>1, <2>2, <2>3 DEF ClaimsUnheard, TypeOK
  <2> QED
    BY <2>1, <2>2, <2>4 DEF ClaimsUnheard, TypeOK, OwnerIsNewest
<1> QED
  BY <1>1, <1>2, <1>3, <1>4, StepShape

-----------------------------------------------------------------------------
(* The theorems.                                                            *)

QueueInv ==
  TypeOK /\ LedgerInv /\ Recoverable /\ FailedMeansExhausted /\ OwnerIsNewest

LEMMA QueueInvInit == Init => QueueInv
<1> SUFFICES ASSUME Init PROVE QueueInv
  OBVIOUS
<1>1. TypeOK
  BY TypeInit
<1>2. LedgerInv
  BY QueueAssumption
  DEF Init, LedgerInv, AttemptsBounded, AttemptNumbersUnique, FromClaim,
      Holding, Claimed, Working, Recording
<1>3. Recoverable /\ FailedMeansExhausted /\ OwnerIsNewest
  BY DEF Init, Recoverable, FailedMeansExhausted, OwnerIsNewest, FromClaim,
         Claimed, Working, Recording
<1> QED
  BY <1>1, <1>2, <1>3 DEF QueueInv

LEMMA QueueInvStep == QueueInv /\ [Next]_vars => QueueInv'
  BY TypeStep, LedgerInvStep, RecoverableStep, FailedStep, OwnerStep DEF QueueInv

LEMMA QueueInvariant == Spec => []QueueInv
  BY QueueInvInit, QueueInvStep, PTL DEF Spec

\* Every running row of the queue can be found by the stale reset.
THEOREM RunningIsRecoverable == Spec => []Recoverable
<1>1. QueueInv => Recoverable
  BY DEF QueueInv
<1> QED
  BY <1>1, QueueInvariant, PTL

\* No row is claimed beyond its budget and no copy is newer than its row.
THEOREM AttemptsStayBounded == Spec => []AttemptsBounded
<1>1. QueueInv => AttemptsBounded
  BY DEF QueueInv, LedgerInv
<1> QED
  BY <1>1, QueueInvariant, PTL

\* No job is marked failed, by any worker however late, before its last attempt
\* has been handed out.
THEOREM FailureIsExhaustion == Spec => []FailedMeansExhausted
<1>1. QueueInv => FailedMeansExhausted
  BY DEF QueueInv
<1> QED
  BY <1>1, QueueInvariant, PTL

\* Processes holding one job hold it under different attempt numbers, and the
\* newest of them is the one the row names.
THEOREM AttemptIsAFence == Spec => [](AttemptNumbersUnique /\ OwnerIsNewest)
<1>1. QueueInv => AttemptNumbersUnique /\ OwnerIsNewest
  BY DEF QueueInv, LedgerInv
<1> QED
  BY <1>1, QueueInvariant, PTL

-----------------------------------------------------------------------------
(* The queue implements the attempt ledger.                                 *)

LEMMA LedgerInit == Init => Ledger!Init
  BY DEF Init, Ledger!Init

LEMMA LedgerStep ==
  ASSUME QueueInv, [Next]_vars PROVE [Ledger!Next]_(Ledger!ledgerVars)
<1> USE DEF QueueInv
<1>1. CASE Quiet
  <2>1. CASE started' = started
    BY <1>1, <2>1 DEF Quiet, Ledger!ledgerVars
  <2>2. ASSUME NEW w \in Worker, pc[w] \in Claimed,
               started' = started \cup {<<holds[w], token[w]>>}
        PROVE  Ledger!Next
    <3>1. /\ holds[w] \in Job /\ token[w] \in Nat
          /\ 1 <= token[w] /\ token[w] <= attempts[holds[w]]
          /\ attempts[holds[w]] <= MaxAttempts[holds[w]]
          /\ attempts[holds[w]] \in Nat /\ MaxAttempts[holds[w]] \in Nat
      BY <2>2, QueueAssumption DEF TypeOK, LedgerInv, AttemptsBounded, Holding
    <3>2. token[w] \in 1 .. attempts[holds[w]] /\ token[w] \in 1 .. MaxAttempts[holds[w]]
      BY <3>1
    <3>3. Ledger!Start(holds[w], token[w])
      BY <1>1, <2>2, <3>2 DEF Ledger!Start, Quiet, LedgerInv
    <3> QED
      BY <3>1, <3>2, <3>3 DEF Ledger!Next
  <2> QED
    BY <1>1, <2>1, <2>2 DEF Quiet, StartsKept
<1>2. ASSUME NEW w \in Worker, Claim(w) PROVE Ledger!Next
  <2>1. PICK j \in Job : ClaimsRow(w, j)
    BY <1>2, ClaimEffect
  <2>2. Ledger!Grant(j)
    BY <2>1 DEF ClaimsRow, Ledger!Grant
  <2> QED
    BY <2>2 DEF Ledger!Next
<1>3. ASSUME NEW w \in Worker, LaptopReload(w) PROVE UNCHANGED Ledger!ledgerVars
  BY <1>3, ReloadEffect DEF Ledger!ledgerVars
<1>4. ASSUME NEW w \in Worker, ClaimUnanswered(w) PROVE Ledger!Next
  <2>1. PICK j \in Job : ClaimsUnheard(w, j)
    BY <1>4, UnheardEffect
  <2>2. Ledger!Grant(j)
    BY <2>1 DEF ClaimsUnheard, Ledger!Grant
  <2> QED
    BY <2>2 DEF Ledger!Next
<1> QED
  BY <1>1, <1>2, <1>3, <1>4, StepShape

\* Whatever the faults, attempts are granted one by one within the budget and
\* no execution is started twice under one attempt.
THEOREM QueueImplementsLedger == Spec => ImplementsLedger
<1>1. Init => Ledger!Init
  BY LedgerInit
<1>2. QueueInv /\ [Next]_vars => [Ledger!Next]_(Ledger!ledgerVars)
  BY LedgerStep
<1> QED
  BY <1>1, <1>2, QueueInvariant, PTL DEF Spec, ImplementsLedger, Ledger!Spec

-----------------------------------------------------------------------------
(* Timely processes.                                                        *)
(*                                                                          *)
(* As long as a process that lives issues its statements and heartbeats in  *)
(* time, and no statement or graph node fails, the row speaks for whoever   *)
(* holds it: it runs under that process with a lease that has not run out   *)
(* until the outcome is written, and the outcome cannot be claimed before   *)
(* the process has let go of the job.                                       *)

\* Crashes are the only fault, a lease outlasts one tick, and a retry waits.
Timing ==
  Faults \subseteq {"crash"} /\ DefaultLease > 1 /\ BaseBackoff > 0 /\ MaxBackoff > 0

\* Between its claim and the statement that records the outcome.
Owning == Claimed \cup Working \cup {"complete", "retry"}

SpeaksFor(w) ==
  LET j == holds[w]
  IN  /\ pc[w] \in Owning => status[j] = "running" /\ lockedBy[j] = w /\ lease[j] \notin {None, 0}
      /\ pc[w] \in {"completeRun", "report"} => status[j] = "succeeded"
      /\ pc[w] = "failRun" => status[j] = "failed"
      /\ pc[w] = "retryEvent" => status[j] = "failed" \/ (status[j] = "pending" /\ wait[j] # 0)

TimelyInv == TypeOK /\ MutualExclusion /\ \A w \in Worker : SpeaksFor(w)

\* No process takes a job, and the rows speak for those who keep one.
LEMMA NobodyTakes ==
  ASSUME TimelyInv, TypeOK',
         \A v \in Worker : pc'[v] \in Holding => pc[v] \in Holding /\ holds'[v] = holds[v],
         \A v \in Worker : pc'[v] \in Holding => SpeaksFor(v)'
  PROVE  TimelyInv'
<1>1. MutualExclusion'
  BY DEF TimelyInv, MutualExclusion
<1>2. ASSUME NEW v \in Worker, pc'[v] \notin Holding PROVE SpeaksFor(v)'
  BY <1>2 DEF SpeaksFor, Owning, Holding, Recording
<1> QED
  BY <1>1, <1>2 DEF TimelyInv

\* A process that holds a job changes its row, and nobody else's.
LEMMA OwnRow ==
  ASSUME TimelyInv, TypeOK', NEW w \in Worker, pc[w] \in Holding,
         \A v \in Worker \ {w} : pc'[v] = pc[v], holds' = holds \/ pc'[w] \notin Holding,
         \A v \in Worker \ {w} : holds'[v] = holds[v],
         \A i \in Job \ {holds[w]} : /\ status'[i] = status[i] /\ lockedBy'[i] = lockedBy[i]
                                     /\ lease'[i] = lease[i] /\ wait'[i] = wait[i],
         SpeaksFor(w)'
  PROVE  TimelyInv'
<1>1. ASSUME NEW v \in Worker, pc'[v] \in Holding, v # w PROVE SpeaksFor(v)'
  <2>1. pc[v] = pc'[v] /\ holds'[v] = holds[v] /\ holds[v] \in Job /\ holds[v] # holds[w]
    BY <1>1 DEF TimelyInv, TypeOK, MutualExclusion
  <2>2. SpeaksFor(v)
    BY DEF TimelyInv
  <2> QED
    BY <2>1, <2>2 DEF SpeaksFor
<1> QED
  BY <1>1, NobodyTakes

\* The backoff is never nothing.
LEMMA BackoffWaits ==
  ASSUME Timing, NEW a \in Nat PROVE Backoff(a) # 0
<1> DEFINE doubled == 2 ^ (IF a = 0 THEN 0 ELSE a - 1) * BaseBackoff
<1> SUFFICES (IF doubled \in BaseBackoff .. MaxBackoff THEN doubled ELSE MaxBackoff) # 0
  BY DEF Backoff
<1> HIDE DEF doubled
<1> QED
  BY QueueAssumption DEF Timing

LEMMA TimelyHolder ==
  ASSUME Timing, TimelyInv, TypeOK', NEW w \in Worker,
         \/ MarkRun(w) \/ OverrideAndCollect(w) \/ StartExecution(w) \/ FinishExecution(w) \/ LaptopReload(w)
         \/ CompleteJob(w) \/ CompleteRun(w) \/ Report(w) \/ RetryOrFail(w) \/ FailRun(w) \/ RetryEvent(w)
         \/ Keepalive(w)
  PROVE  TimelyInv'
<1> USE DEF Holding, Claimed, Working, Recording
<1> DEFINE j == holds[w]
<1>1. TypeOK /\ SpeaksFor(w) /\ DefaultLease \notin {None, 0} /\ OverrideLease \notin {None, 0}
  BY QueueAssumption DEF TimelyInv
<1>2. pc[w] \in Holding /\ j \in Job
  BY <1>1 DEF MarkRun, OverrideAndCollect, StartExecution, FinishExecution, LaptopReload, CompleteJob, CompleteRun,
     Report, RetryOrFail, FailRun, RetryEvent, Keepalive, SendHeartbeat, LaptopHeartbeat, TypeOK
<1>3. CASE MarkRun(w) \/ FinishExecution(w) \/ LaptopReload(w) \/ CompleteRun(w) \/ FailRun(w) \/ SendHeartbeat(w)
  <2>1. UNCHANGED <<rowVars, holds>> /\ \A v \in Worker \ {w} : pc'[v] = pc[v]
    BY <1>1, <1>3 DEF MarkRun, FinishExecution, LaptopReload, CompleteRun, FailRun, SendHeartbeat, Goto, TypeOK,
       procVars
  <2>2. \/ pc[w] \in Owning /\ pc'[w] \in Owning
        \/ pc[w] = "completeRun" /\ pc'[w] = "report"
        \/ pc[w] = "failRun" /\ pc'[w] = "retryEvent"
    BY <1>1, <1>3 DEF MarkRun, FinishExecution, LaptopReload, CompleteRun, FailRun, SendHeartbeat, Goto, TypeOK,
       procVars, Owning
  <2>3. SpeaksFor(w)'
    BY <1>1, <2>1, <2>2 DEF SpeaksFor, Owning, rowVars
  <2> QED
    BY <1>2, <2>1, <2>3, OwnRow DEF rowVars
<1>4. CASE OverrideAndCollect(w) \/ StartExecution(w) \/ LaptopHeartbeat(w)
  <2>1. /\ UNCHANGED <<status, lockedBy, wait, holds>> /\ \A v \in Worker \ {w} : pc'[v] = pc[v]
        /\ pc[w] \in Owning /\ pc'[w] \in Owning
        /\ \E l \in {DefaultLease, OverrideLease} : lease' = [lease EXCEPT ![j] = l]
    BY <1>1, <1>4 DEF OverrideAndCollect, StartExecution, LaptopHeartbeat, Goto, TypeOK, procVars, Owning
  <2>2. lease'[j] \notin {None, 0} /\ \A i \in Job \ {j} : lease'[i] = lease[i]
    BY <1>1, <1>2, <2>1 DEF TypeOK
  <2>3. SpeaksFor(w)'
    BY <1>1, <2>1, <2>2 DEF SpeaksFor, Owning
  <2> QED
    BY <1>2, <2>1, <2>2, <2>3, OwnRow
<1>5. CASE Report(w) \/ RetryEvent(w)
  <2>1. /\ UNCHANGED rowVars /\ (\A v \in Worker \ {w} : pc'[v] = pc[v] /\ holds'[v] = holds[v]) /\ pc'[w] = "idle"
    BY <1>1, <1>5 DEF Report, RetryEvent, Release, TypeOK
  <2>2. SpeaksFor(w)'
    BY <2>1 DEF SpeaksFor, Owning
  <2> QED
    BY <1>2, <2>1, <2>2, OwnRow DEF rowVars
<1>6. CASE CompleteJob(w)
  <2>1. /\ UNCHANGED <<wait, holds>> /\ (\A v \in Worker \ {w} : pc'[v] = pc[v]) /\ pc'[w] = "completeRun"
        /\ status' = [status EXCEPT ![j] = "succeeded"] /\ lockedBy' = [lockedBy EXCEPT ![j] = None]
        /\ lease' = [lease EXCEPT ![j] = None]
    BY <1>1, <1>6 DEF CompleteJob, Unlock, Goto, TypeOK
  <2>2. status'[j] = "succeeded"
    BY <1>1, <1>2, <2>1 DEF TypeOK
  <2>3. SpeaksFor(w)'
    BY <2>1, <2>2 DEF SpeaksFor, Owning
  <2> QED
    BY <1>1, <1>2, <2>1, <2>3, OwnRow DEF TypeOK
<1>7. CASE RetryOrFail(w)
  <2>1. /\ UNCHANGED holds /\ (\A v \in Worker \ {w} : pc'[v] = pc[v])
        /\ pc'[w] = (IF Outcome(w) = "failed" THEN "failRun" ELSE "retryEvent")
        /\ status' = [status EXCEPT ![j] = Outcome(w)] /\ lockedBy' = [lockedBy EXCEPT ![j] = None]
        /\ lease' = [lease EXCEPT ![j] = None]
        /\ wait' = IF Outcome(w) = "failed" THEN wait ELSE [wait EXCEPT ![j] = Backoff(token[w])]
    BY <1>1, <1>7 DEF RetryOrFail, RetryRow, Unlock, Goto, TypeOK
  <2>2. status'[j] = Outcome(w) /\ Outcome(w) \in {"pending", "failed"}
    BY <1>1, <1>2, <2>1 DEF TypeOK, Outcome
  <2>3. Backoff(token[w]) # 0
    BY <1>1, BackoffWaits DEF TypeOK
  <2>4. Outcome(w) = "pending" => wait'[j] # 0
    BY <1>1, <1>2, <2>1, <2>3 DEF TypeOK
  <2>5. SpeaksFor(w)'
    BY <2>1, <2>2, <2>4 DEF SpeaksFor, Owning
  <2> QED
    BY <1>1, <1>2, <2>1, <2>5, OwnRow DEF TypeOK
<1> QED
  BY <1>3, <1>4, <1>5, <1>6, <1>7 DEF Keepalive

\* Whoever claims a job finds nobody holding it.
LEMMA TimelyClaim ==
  ASSUME Timing, TimelyInv, TypeOK', NEW w \in Worker, Claim(w) PROVE TimelyInv'
<1> USE DEF Holding, Claimed, Working, Recording
<1>1. PICK j \in Job : ClaimsRow(w, j) /\ wait[j] = 0
  BY DEF Claim, ClaimRow, Claimable, ClaimsRow, NextAttempt
<1>2. TypeOK /\ DefaultLease \notin {None, 0} /\ \A v \in Worker : SpeaksFor(v)
  BY QueueAssumption DEF TimelyInv
<1>3. /\ status'[j] = "running" /\ lockedBy'[j] = w /\ lease'[j] = DefaultLease /\ holds'[w] = j
      /\ pc'[w] = "markRun" /\ wait' = wait
      /\ \A i \in Job \ {j} : status'[i] = status[i] /\ lockedBy'[i] = lockedBy[i] /\ lease'[i] = lease[i]
      /\ \A v \in Worker \ {w} : pc'[v] = pc[v] /\ holds'[v] = holds[v]
  BY <1>1, <1>2 DEF ClaimsRow, TypeOK, Claim
<1>4. ASSUME NEW v \in Worker, pc[v] \in Holding PROVE holds[v] # j
  BY <1>1, <1>2, <1>4 DEF ClaimsRow, SpeaksFor, Owning
<1>5. MutualExclusion'
  BY <1>2, <1>3, <1>4 DEF TimelyInv, MutualExclusion
<1>6. ASSUME NEW v \in Worker PROVE SpeaksFor(v)'
  <2>1. CASE v = w
    BY <1>2, <1>3, <2>1 DEF SpeaksFor, Owning
  <2>2. CASE v # w /\ pc[v] \in Holding
    <3>1. holds[v] \in Job \ {j} /\ SpeaksFor(v) /\ pc'[v] = pc[v] /\ holds'[v] = holds[v]
      BY <1>2, <1>3, <1>4, <2>2 DEF TypeOK
    <3> QED
      BY <1>3, <3>1 DEF SpeaksFor
  <2>3. CASE v # w /\ pc[v] \notin Holding
    BY <1>3, <2>3 DEF SpeaksFor, Owning
  <2> QED
    BY <2>1, <2>2, <2>3
<1> QED
  BY <1>5, <1>6 DEF TimelyInv

\* Of the rows that are held none is stale, none is new, and time leaves them a lease.
LEMMA TimelyOthers ==
  ASSUME Timing, TimelyInv, TypeOK',
         \/ \E j \in Job : EnqueueRun(j) \/ EnqueueJob(j) \/ LandHeartbeat(j)
         \/ \E w \in Worker : ResetStale(w) \/ FindNothing(w) \/ Restart(w) \/ Crash(w)
         \/ Tick
         \/ UNCHANGED vars
  PROVE  TimelyInv'
<1> USE DEF Holding, Claimed, Working, Recording
<1>1. TypeOK /\ DefaultLease \notin {None, 0} /\ \A v \in Worker : SpeaksFor(v)
  BY QueueAssumption DEF TimelyInv
<1>2. ASSUME NEW w \in Worker, FindNothing(w) \/ Restart(w) \/ Crash(w) PROVE TimelyInv'
  <2>1. UNCHANGED rowVars /\ \A v \in Worker : pc'[v] \in Holding => pc'[v] = pc[v] /\ holds'[v] = holds[v]
    BY <1>1, <1>2 DEF FindNothing, Restart, Crash, Goto, Release, TypeOK
  <2>2. \A v \in Worker : pc'[v] \in Holding => SpeaksFor(v)'
    BY <1>1, <2>1 DEF SpeaksFor, rowVars
  <2> QED
    BY <2>1, <2>2, NobodyTakes
<1>3. ASSUME NEW w \in Worker, ResetStale(w) PROVE TimelyInv'
  <2>1. \A v \in Worker : pc'[v] \in Holding => pc'[v] = pc[v] /\ holds'[v] = holds[v]
    BY <1>1, <1>3 DEF ResetStale, Goto, TypeOK
  <2>2. ASSUME NEW v \in Worker, pc[v] \in Holding, pc'[v] = pc[v], holds'[v] = holds[v] PROVE SpeaksFor(v)'
    <3>1. ~Stale(holds[v]) /\ holds[v] \in Job
      BY <1>1, <2>2 DEF SpeaksFor, Stale, Owning, TypeOK
    <3>2. /\ status'[holds[v]] = status[holds[v]] /\ lockedBy'[holds[v]] = lockedBy[holds[v]]
          /\ lease'[holds[v]] = lease[holds[v]] /\ wait'[holds[v]] = wait[holds[v]]
      BY <1>3, <3>1 DEF ResetStale
    <3> QED
      BY <1>1, <2>2, <3>2 DEF SpeaksFor
  <2> QED
    BY <2>1, <2>2, NobodyTakes
<1>4. ASSUME NEW j \in Job, EnqueueRun(j) \/ EnqueueJob(j) \/ LandHeartbeat(j) PROVE TimelyInv'
  <2>1. /\ UNCHANGED <<procVars, lockedBy, wait>>
        /\ \A i \in Job : status'[i] = status[i] \/ status[i] = "absent"
        /\ \A i \in Job : lease'[i] = lease[i] \/ lease'[i] = DefaultLease
    BY <1>1, <1>4 DEF EnqueueRun, EnqueueJob, LandHeartbeat, TypeOK, rowVars
  <2>2. ASSUME NEW v \in Worker, pc[v] \in Holding PROVE SpeaksFor(v)'
    <3>1. holds[v] \in Job /\ status'[holds[v]] = status[holds[v]]
      BY <1>1, <2>1, <2>2 DEF SpeaksFor, Owning, TypeOK
    <3> QED
      BY <1>1, <2>1, <3>1 DEF SpeaksFor, procVars
  <2> QED
    BY <2>1, <2>2, NobodyTakes DEF procVars
<1>5. CASE Tick
  <2>1. UNCHANGED <<procVars, status, lockedBy>> /\ Timely
    BY <1>5 DEF Tick, Timing
  <2>2. ASSUME NEW v \in Worker, pc[v] \in Holding PROVE SpeaksFor(v)'
    <3> DEFINE j == holds[v]
    <3>1. pc[v] \in Working /\ j \in Job
      BY <1>1, <2>1, <2>2 DEF Timely, TypeOK
    <3>2. lease[j] \in Nat /\ lease[j] \notin {0, 1}
      BY <1>1, <2>1, <3>1, QueueAssumption DEF Timely, Timing, TypeOK
    <3>3. lease'[j] = lease[j] - 1
      BY <1>5, <3>1, <3>2, QueueAssumption DEF Tick
    <3>4. lease'[j] \notin {None, 0}
      BY <3>2, <3>3, QueueAssumption
    <3> QED
      BY <1>1, <2>1, <3>1, <3>4 DEF SpeaksFor, Owning, procVars
  <2> QED
    BY <2>1, <2>2, NobodyTakes DEF procVars
<1>6. CASE UNCHANGED vars
  BY <1>1, <1>6, NobodyTakes DEF vars, rowVars, procVars, SpeaksFor
<1> QED
  BY <1>2, <1>3, <1>4, <1>5, <1>6

\* Without "db" and "graph" among the faults these steps do not happen.
LEMMA OnlyCrashes ==
  ASSUME Timing, NEW w \in Worker
  PROVE  ~GraphFault(w) /\ ~DbError(w) /\ ~ClaimUnanswered(w) /\ ~OutcomeUnanswered(w)
BY DEF Timing, GraphFault, DbError, ClaimUnanswered, OutcomeUnanswered

LEMMA TimelyInit == Init => TimelyInv
<1> SUFFICES ASSUME Init PROVE TimelyInv
  OBVIOUS
<1>1. \A w \in Worker : pc[w] = "idle"
  BY DEF Init
<1> QED
  BY <1>1, TypeInit DEF TimelyInv, MutualExclusion, SpeaksFor, Owning, Holding, Claimed, Working, Recording

LEMMA TimelyStep == ASSUME Timing, TimelyInv, [Next]_vars PROVE TimelyInv'
<1>1. TypeOK'
  BY TypeStep DEF TimelyInv
<1> QED
  BY <1>1, TimelyHolder, TimelyClaim, TimelyOthers, OnlyCrashes DEF Next, Step

\* A settled row is neither stale nor pending, and who holds it is past the
\* statement that settled it.
LEMMA SettledStays ==
  ASSUME Timing, TimelyInv, [Next]_vars, NEW j \in Job, status[j] \in {"succeeded", "failed"}
  PROVE  status'[j] = status[j]
<1>1. TypeOK /\ \A v \in Worker : SpeaksFor(v)
  BY DEF TimelyInv
<1>2. CASE UNCHANGED vars
  BY <1>2 DEF vars, rowVars
<1>3. ASSUME NEW i \in Job, EnqueueRun(i) \/ EnqueueJob(i) \/ LandHeartbeat(i) PROVE status'[j] = status[j]
  BY <1>1, <1>3 DEF EnqueueRun, EnqueueJob, LandHeartbeat, rowVars, TypeOK
<1>4. CASE Tick
  BY <1>4 DEF Tick
<1>5. ASSUME NEW w \in Worker, CompleteJob(w) \/ RetryOrFail(w) PROVE status'[j] = status[j]
  <2>1. pc[w] \in {"complete", "retry"}
    BY <1>5 DEF CompleteJob, RetryOrFail
  <2>2. holds[w] # j
    BY <1>1, <2>1 DEF SpeaksFor, Owning
  <2> QED
    BY <1>1, <1>5, <2>2 DEF CompleteJob, RetryOrFail, RetryRow, Unlock, TypeOK
<1>6. ASSUME NEW w \in Worker, Claim(w) PROVE status'[j] = status[j]
  <2>1. PICK i \in Job : ClaimsRow(w, i)
    BY <1>6, ClaimEffect
  <2> QED
    BY <1>1, <2>1 DEF ClaimsRow, TypeOK
<1>7. ASSUME NEW w \in Worker, ResetStale(w) PROVE status'[j] = status[j]
  BY <1>7 DEF ResetStale, Stale
<1>8. ASSUME NEW w \in Worker,
             \/ FindNothing(w) \/ MarkRun(w) \/ OverrideAndCollect(w) \/ StartExecution(w) \/ FinishExecution(w)
             \/ LaptopReload(w) \/ CompleteRun(w) \/ Report(w) \/ FailRun(w) \/ RetryEvent(w) \/ Keepalive(w)
             \/ Crash(w) \/ Restart(w)
      PROVE  status'[j] = status[j]
  BY <1>8 DEF FindNothing, MarkRun, OverrideAndCollect, StartExecution, FinishExecution, LaptopReload, CompleteRun,
     Report, FailRun, RetryEvent, Keepalive, SendHeartbeat, LaptopHeartbeat, Crash, Restart, rowVars
<1> QED
  BY <1>2, <1>3, <1>4, <1>5, <1>6, <1>7, <1>8, OnlyCrashes DEF Next, Step

\* With timely statements and heartbeats no two living processes ever work on, or
\* record the outcome of, one job, although no update names worker or attempt.
THEOREM TimelyExclusion == ASSUME Timing PROVE Spec => []MutualExclusion
<1>1. TimelyInv => MutualExclusion
  BY DEF TimelyInv
<1> QED
  BY <1>1, TimelyInit, TimelyStep, PTL DEF Spec

\* Under the same condition a job that succeeded or failed stays that way.
THEOREM SettledIsFinal == ASSUME Timing PROVE Spec => TerminalIsFinal
<1>1. Timing /\ TimelyInv /\ [Next]_vars
        => [\A j \in Job : status[j] \in {"succeeded", "failed"} => status'[j] = status[j]]_vars
  BY SettledStays
<1> QED
  BY <1>1, TimelyInit, TimelyStep, PTL DEF Spec, TerminalIsFinal
=============================================================================
