-------------------------- MODULE ChannelTasksProps --------------------------
(***************************************************************************)
(* The properties of the channel task queue and of the heartbeat.           *)
(***************************************************************************)
EXTENDS ChannelTasks

\* Two workers never hold one task, and no task's job is started twice, under
\* crashes, rejected statements and graph failures: the budget of one attempt
\* does what the missing lease and owner would have to do.
OneWorkerPerTask ==
  /\ \A v, w \in Worker : v # w /\ holds[v] # None => holds[v] # holds[w]
  /\ \A t \in Task : runs[t] <= 1

\* An agent has at most one pending or running task, although failures of old
\* tasks, upserts of new ones and several heartbeat runs interleave: NOT EXISTS
\* and the idempotency key together leave one way to a second one.  Two runs of
\* different hours whose upserts are under way at once can both find no open
\* task and insert under different keys; two such tasks may be open together,
\* and neither may stand beside a task that was not found free along with it.
OneOpenTask ==
  \A t, u \in Task :
    t[1] = u[1] /\ {status[t], status[u]} \subseteq {"pending", "running"}
      => t = u \/ {t, u} \in raced

\* A closed task is not opened again: a graph that fails after completion
\* marks the row failed, it does not offer the work a second time.
ClosedStaysClosed ==
  [][\A t \in Task : status[t] \in {"succeeded", "failed"}
                       => status'[t] \in {"succeeded", "failed"}]_vars

\* The heartbeat can always move an agent on: no decision it makes leaves a
\* state file in ACTING, which nothing ever completes and from which the next
\* run would throw, taking the agents behind it in the roster along.
HeartbeatNeverThrows ==
  \A a \in Agent : CanEvaluate(machine[a])

\* An agent does not stay behind one open task, which keeps the upsert from
\* giving it another, however failures of the statements, of the job and of the
\* graph fall; unless the worker that holds it is lost: nothing recovers that row.
Abandoned(a) == \E t \in Open(a) : status[t] = "running" /\ \A w \in Worker : holds[w] # t
AgentsComeFree ==
  cast.workers # {} /\ (\A w \in Worker : <>[](pc[w] # "down"))
    => \A a \in Agent : Open(a) # {} ~> Open(a) = {} \/ Abandoned(a)
=============================================================================
