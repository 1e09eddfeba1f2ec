--------------------------- MODULE AttemptLedger ---------------------------
(***************************************************************************)
(* What the leased job queue promises about the work it hands out, whatever *)
(* crashes, stalls or loses its connection: every job has a budget of       *)
(* numbered attempts, attempts are granted one after the other until the    *)
(* budget is spent, and an execution is started at most once under each     *)
(* number (executeJob may call the handler up to three times within one).   *)
(* PipelineQueue implements it with attempts for granted.                   *)
(***************************************************************************)
EXTENDS Naturals

CONSTANTS Job, MaxAttempts

VARIABLES granted,   \* the number of attempts handed out, per job
          started    \* the <<job, attempt>> pairs whose execution was started

ledgerVars == <<granted, started>>

Init ==
  /\ granted = [j \in Job |-> 0]
  /\ started = {}

\* One more numbered attempt of j is handed to some worker.
Grant(j) ==
  /\ granted[j] < MaxAttempts[j]
  /\ granted' = [granted EXCEPT ![j] = @ + 1]
  /\ UNCHANGED started

\* An execution of j is started under the granted attempt number t.
Start(j, t) ==
  /\ t \in 1 .. granted[j]
  /\ <<j, t>> \notin started
  /\ started' = started \cup {<<j, t>>}
  /\ UNCHANGED granted

Next == \E j \in Job : Grant(j) \/ \E t \in 1 .. MaxAttempts[j] : Start(j, t)

Spec == Init /\ [][Next]_ledgerVars
=============================================================================
