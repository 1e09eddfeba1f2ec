---------------------------- MODULE ChannelTasks ----------------------------
(***************************************************************************)
(* The task queue of the channel heads: the heartbeat script                *)
(* (src/scripts/callscore-agent-heartbeat.ts) walks the roster, moves each  *)
(* agent's state file and upserts its next row of channel_tasks; workers    *)
(* claim, run and close the rows (src/lib/channel-agent-tasks.ts, dispatched *)
(* by src/scripts/hermes-worker.ts).                                        *)
(*                                                                          *)
(* A row is named by its idempotency key, the agent and the hour in which   *)
(* the heartbeat run began; an agent has one task type.  Rows have no lease *)
(* and no reset: what keeps two workers off one row is max_attempts = 1.    *)
(* Nothing keeps two heartbeat runs apart either (cron's and an operator's  *)
(* npm run agents:heartbeat): any of them may be under way at once.         *)
(***************************************************************************)
EXTENDS ChannelDecision, Sequences, FiniteSets

CONSTANTS
  Agent,       \* the agent ids
  Beat,        \* heartbeat runs, each of which may begin once
  Worker,      \* channel-agent workers
  Casts,       \* who takes part, a behaviour being about one of them: the roster
               \* of the souls file in its order, the runs, the dry ones, the workers
  None,        \* no task held
  MaxHour,     \* bound: the hours modelled
  Owned,       \* the agents whose lane the registry calls ready_public_owned
  Target,      \* the target action of each agent's task type
  Authorities, \* the authority list of each agent
  Faults       \* which of "crash", "db" and "graph" can happen

Task == Agent \X (1 .. MaxHour)

ASSUME TaskAssumption ==
  /\ Casts \subseteq [roster : Seq(Agent) \ {<<>>}, beats : SUBSET Beat,
                      dry : SUBSET Beat, workers : SUBSET Worker]
  /\ None \notin Task
  /\ MaxHour \in Nat \ {0}
  /\ Owned \subseteq Agent
  /\ Target \in [Agent -> Values["target"]]
  /\ Authorities \in [Agent -> Seq(Authority)]
  /\ Faults \subseteq {"crash", "db", "graph"}

\* The authorities whose handlers end in the full gate chain.
ChainAuthority == {"read_only_observe", "draft_artifact", "owned_public_publish", "hard_gate"}

\* A lane that can be owned is the channel of a strategist, a channel head, a
\* commerce or research head, a gatekeeper or a sentinel, whose authorities
\* begin with one of those.  What mutates internal state first, the scorer and
\* consensus, is on the channel "general", which the registry never calls ready.
ASSUME LaneAssumption ==
  \A a \in Owned : Authorities[a] = <<>> \/ Authorities[a][1] \in ChainAuthority

VARIABLES
  cast,      \* who takes part
  hour,      \* the hour of the clock
  machine,   \* the state in each agent's state file
  beatPc,    \* the statement each heartbeat run is at
  beatAt,    \* the roster position it has reached
  beatHour,  \* the hour in which it began (nowIso)
  raced,     \* history: the pairs of keys that two upserts at once found free
  status,    \* channel_tasks.status, "absent" before the row exists
  attempts,  \* channel_tasks.attempts
  pc,        \* the statement each worker is at
  holds,     \* the task it claimed
  level,     \* who handles its next error: dispatch "node" or "graph"
  runs       \* history: how often each task's job was started

beatVars   == <<machine, beatPc, beatAt, beatHour, raced>>
rowVars    == <<status, attempts>>
workerVars == <<pc, holds, level>>
vars       == <<cast, hour, beatVars, rowVars, workerVars, runs>>

Status  == {"absent", "pending", "running", "succeeded", "failed"}
Holding == {"claimEvent", "dispatch", "running", "complete", "completeEvent",
            "report", "fail", "failEvent"}

States == {"INITIAL", "EVALUATING", "ACTING", "WAITING", "SUPPRESSED", "GATED",
           "REVIEW", "COMPLETE", "FAILED"}

\* TRANSITIONS of channel-head-state-machine.ts.
Transitions ==
  [ s \in States |->
      CASE s = "INITIAL"              -> {"EVALUATING"}
        [] s = "EVALUATING"           -> {"ACTING", "WAITING", "SUPPRESSED", "GATED", "REVIEW", "FAILED"}
        [] s = "ACTING"               -> {"COMPLETE", "FAILED"}
        [] s \in {"COMPLETE", "FAILED"} -> {"INITIAL", "EVALUATING"}
        [] OTHER                      -> {"EVALUATING", "FAILED"} ]

TypeOK ==
  /\ cast \in Casts
  /\ hour \in 1 .. MaxHour
  /\ machine \in [Agent -> States]
  /\ beatPc \in [Beat -> {"ready", "decide", "task", "insert", "event", "over"}]
  /\ beatAt \in [Beat -> 1 .. Len(cast.roster)]
  /\ beatHour \in [Beat -> 1 .. MaxHour]
  /\ raced \subseteq SUBSET Task
  /\ status \in [Task -> Status]
  /\ attempts \in [Task -> Nat]
  /\ pc \in [Worker -> {"absent", "idle", "down"} \cup Holding]
  /\ holds \in [Worker -> Task \cup {None}]
  /\ level \in [Worker -> {"node", "graph"}]
  /\ runs \in [Task -> Nat]
  /\ \A w \in Worker : pc[w] \in Holding <=> holds[w] # None

Init ==
  /\ cast \in Casts
  /\ hour = 1
  /\ machine = [a \in Agent |-> "INITIAL"]
  /\ beatPc = [b \in Beat |-> IF b \in cast.beats THEN "ready" ELSE "over"]
  /\ beatAt = [b \in Beat |-> 1]
  /\ beatHour = [b \in Beat |-> 1]
  /\ raced = {}
  /\ status = [t \in Task |-> "absent"]
  /\ attempts = [t \in Task |-> 0]
  /\ pc = [w \in Worker |-> IF w \in cast.workers THEN "idle" ELSE "absent"]
  /\ holds = [w \in Worker |-> None]
  /\ level = [w \in Worker |-> "node"]
  /\ runs = [t \in Task |-> 0]

-----------------------------------------------------------------------------
(* The heartbeat.                                                           *)

\* The context buildHeartbeatDecisionArtifacts makes up: everything is well,
\* except that the quality is ambiguous and scores 0.7 against a threshold of
\* 0.8, and that a lane which is not owned is restricted outreach.
HeartbeatContext(a) ==
  [ f \in Fields |->
      CASE f = "target"    -> Target[a]
        [] f = "risk"      -> IF a \in Owned THEN "safe_owned_public" ELSE "restricted_outreach"
        [] f = "gate"      -> IF a \in Owned THEN "NONE" ELSE "SEND_GATE"
        [] f = "boundary"  -> IF a \in Owned THEN {}
                              ELSE {"registry_not_ready", "not_owned_or_managed", "policy_disallows"}
        [] f = "receipt"   -> FALSE
        [] f = "payload"   -> TRUE
        [] f = "lease"     -> "active"
        [] f = "workplane" -> "OK"
        [] f = "quality"   -> "ambiguous"
        [] f = "score"     -> "review"
        [] f \in {"verify", "media", "originality"} -> "pass"
        [] OTHER           -> {} ]

\* Mutant of DecisionToNextState: a review is taken for an act.
DecisionToNextStateActs(d) ==
  IF d = "escalate_non_founder_review" THEN "ACTING" ELSE "WAITING"

DecisionToNextState(d) ==
  CASE d = "act"                         -> "ACTING"
    [] d = "wait"                        -> "WAITING"
    [] d = "suppress"                    -> "SUPPRESSED"
    [] d = "request_gate"                -> "GATED"
    [] d = "escalate_non_founder_review" -> "REVIEW"
    [] OTHER                             -> "FAILED"

\* transitionState(state, "EVALUATING") does not throw.
CanEvaluate(s) == s = "EVALUATING" \/ "EVALUATING" \in Transitions[s]

\* What an agent decides; its context is the same at every heartbeat.
Decision == [a \in Agent |-> RouteDecision(Authorities[a], HeartbeatContext(a)).decision]

Current(b) == cast.roster[beatAt[b]]
Key(b)     == <<Current(b), beatHour[b]>>

BeatGoto(b, p) ==
  /\ beatPc' = [beatPc EXCEPT ![b] = p]
  /\ UNCHANGED <<beatAt, beatHour>>

\* A timer or an operator starts a run, whatever other runs are doing.
BeginBeat(b) ==
  /\ beatPc[b] = "ready"
  /\ beatPc' = [beatPc EXCEPT ![b] = "decide"]
  /\ beatHour' = [beatHour EXCEPT ![b] = hour]
  /\ UNCHANGED <<cast, hour, machine, beatAt, raced, rowVars, workerVars, runs>>

\* The run is over and what it knew is gone.
EndBeat(b) ==
  /\ beatPc'   = [beatPc EXCEPT ![b] = "over"]
  /\ beatAt'   = [beatAt EXCEPT ![b] = 1]
  /\ beatHour' = [beatHour EXCEPT ![b] = 1]

\* The next agent of the roster, or the end of the run.
NextAgent(b) ==
  IF beatAt[b] = Len(cast.roster) THEN EndBeat(b)
  ELSE /\ beatPc' = [beatPc EXCEPT ![b] = "decide"]
       /\ beatAt' = [beatAt EXCEPT ![b] = @ + 1]
       /\ UNCHANGED beatHour

\* The agent is registered, decided and its state file moved to EVALUATING and
\* on; a dry run does all of it but the registration.  A decision that fails
\* its schema or an illegal transition ends the run for the rest of the roster.
Decide(b) ==
  LET a == Current(b)
      d == Decision[a]
  IN  /\ beatPc[b] = "decide"
      /\ IF d # "throws" /\ CanEvaluate(machine[a])
         THEN /\ machine' = [machine EXCEPT ![a] = DecisionToNextState(d)]
              /\ IF b \in cast.dry THEN NextAgent(b) ELSE BeatGoto(b, "task")
         ELSE EndBeat(b) /\ UNCHANGED machine
      /\ UNCHANGED <<cast, hour, raced, rowVars, workerVars, runs>>

\* Mutant of Open: a running task does not count.
OpenPending(a) == { t \in Task : t[1] = a /\ status[t] = "pending" }

Open(a) == { t \in Task : t[1] = a /\ status[t] \in {"pending", "running"} }

\* Runs whose upsert has found no open task of the agent and has not inserted.
FoundFree(a) == { c \in Beat : beatPc[c] = "insert" /\ Current(c) = a }

\* UPSERT_NEXT_CHANNEL_TASK_SQL, first its NOT EXISTS: the statement reads the
\* rows committed when it began, so that what another upsert inserts in the
\* meantime does not stop it.
ReadOpen(b) ==
  /\ beatPc[b] = "task"
  /\ IF Open(Current(b)) = {}
     THEN /\ BeatGoto(b, "insert")
          /\ raced' = raced \cup { {Key(b), Key(c)} : c \in FoundFree(Current(b)) }
     ELSE BeatGoto(b, "event") /\ UNCHANGED raced
  /\ UNCHANGED <<cast, hour, machine, rowVars, workerVars, runs>>

\* Then its INSERT: nothing but updated_at when this hour's key exists by now.
InsertTask(b) ==
  /\ beatPc[b] = "insert"
  /\ status' = [status EXCEPT ![Key(b)] = IF @ = "absent" THEN "pending" ELSE @]
  /\ BeatGoto(b, "event")
  /\ UNCHANGED <<cast, hour, machine, raced, attempts, workerVars, runs>>

BeatEvent(b) ==
  /\ beatPc[b] = "event"
  /\ NextAgent(b)
  /\ UNCHANGED <<cast, hour, machine, raced, rowVars, workerVars, runs>>

\* The script dies or one of its statements rejects: the run is over.  A death
\* halfway through the state file leaves one that loadState takes for INITIAL.
BeatFails(b) ==
  /\ Faults \cap {"crash", "db"} # {}
  /\ beatPc[b] \notin {"ready", "over"}
  /\ EndBeat(b)
  /\ \/ UNCHANGED machine
     \/ /\ "crash" \in Faults /\ beatPc[b] = "decide"
        /\ machine' = [machine EXCEPT ![Current(b)] = "INITIAL"]
  /\ UNCHANGED <<cast, hour, raced, rowVars, workerVars, runs>>

-----------------------------------------------------------------------------
(* The workers.                                                             *)

\* max_attempts of every row the heartbeat inserts, and its mutant.
MaxTaskAttemptsTwo == 2
MaxTaskAttempts == 1

Goto(w, p) ==
  /\ pc' = [pc EXCEPT ![w] = p]
  /\ UNCHANGED <<holds, level>>

Release(w, p) ==
  /\ pc'    = [pc EXCEPT ![w] = p]
  /\ holds' = [holds EXCEPT ![w] = None]
  /\ level' = [level EXCEPT ![w] = "node"]

Claimable == { t \in Task : status[t] = "pending" /\ attempts[t] < MaxTaskAttempts }

\* CLAIM_NEXT_CHANNEL_TASK_SQL: all priorities are 50, run_after is the time
\* of the upsert.  The order is left open: upserts overlap, and a row that one of
\* them touches at that moment is locked and skipped.
ClaimTask(w) ==
  /\ pc[w] = "idle"
  /\ \E t \in Claimable :
       /\ status' = [status EXCEPT ![t] = "running"]
       /\ attempts' = [attempts EXCEPT ![t] = @ + 1]
       /\ holds' = [holds EXCEPT ![w] = t]
  /\ pc' = [pc EXCEPT ![w] = "claimEvent"]
  /\ UNCHANGED <<cast, hour, beatVars, level, runs>>

\* Event rows are not modelled; their statements can reject.
ClaimEvent(w) ==
  /\ pc[w] = "claimEvent"
  /\ Goto(w, "dispatch")
  /\ UNCHANGED <<cast, hour, beatVars, rowVars, runs>>

\* runChannelTask starts the workplane job.
StartTask(w) ==
  /\ pc[w] = "dispatch"
  /\ runs' = [runs EXCEPT ![holds[w]] = @ + 1]
  /\ Goto(w, "running")
  /\ UNCHANGED <<cast, hour, beatVars, rowVars>>

\* The job and its receipt file are done, or one of them throws.
FinishTask(w) ==
  /\ pc[w] = "running"
  /\ \E p \in {"complete", "fail"} : Goto(w, p)
  /\ UNCHANGED <<cast, hour, beatVars, rowVars, runs>>

\* completeChannelTask: WHERE id = $1.
CompleteTask(w) ==
  /\ pc[w] = "complete"
  /\ status' = [status EXCEPT ![holds[w]] = "succeeded"]
  /\ Goto(w, "completeEvent")
  /\ UNCHANGED <<cast, hour, beatVars, attempts, runs>>

CompleteEvent(w) ==
  /\ pc[w] = "completeEvent"
  /\ Goto(w, "report")
  /\ UNCHANGED <<cast, hour, beatVars, rowVars, runs>>

\* The graph collects its receipts and the dispatcher returns.
Report(w) ==
  /\ pc[w] = "report"
  /\ Release(w, "idle")
  /\ UNCHANGED <<cast, hour, beatVars, rowVars, runs>>

\* Mutant of FailTask: a failed task is always offered again.
FailTaskReoffer(w) ==
  /\ pc[w] = "fail"
  /\ status' = [status EXCEPT ![holds[w]] = "pending"]
  /\ Goto(w, "failEvent")
  /\ UNCHANGED <<cast, hour, beatVars, attempts, runs>>

\* failChannelTask: WHERE id = $1, deciding on the row's own attempts.
FailTask(w) ==
  /\ pc[w] = "fail"
  /\ status' = [status EXCEPT ![holds[w]] =
                  IF attempts[holds[w]] >= MaxTaskAttempts THEN "failed" ELSE "pending"]
  /\ Goto(w, "failEvent")
  /\ UNCHANGED <<cast, hour, beatVars, attempts, runs>>

FailEvent(w) ==
  /\ pc[w] = "failEvent"
  /\ Release(w, "idle")
  /\ UNCHANGED <<cast, hour, beatVars, rowVars, runs>>

\* The graph throws or blocks before or after the dispatch node: the
\* dispatcher fails the task itself, completed or not.
GraphFault(w) ==
  /\ "graph" \in Faults
  /\ pc[w] \in {"dispatch", "report"}
  /\ pc' = [pc EXCEPT ![w] = "fail"]
  /\ level' = [level EXCEPT ![w] = "graph"]
  /\ UNCHANGED <<cast, hour, beatVars, rowVars, holds, runs>>

\* A rejected statement: of the completion, the dispatch node fails the task;
\* of that failure, the dispatcher fails it again; any other ends the process.
DbError(w) ==
  /\ "db" \in Faults
  /\ pc[w] \in {"idle", "claimEvent", "complete", "completeEvent", "fail", "failEvent"}
  /\ IF level[w] = "node" /\ pc[w] \notin {"idle", "claimEvent"}
     THEN /\ pc' = [pc EXCEPT ![w] = "fail"]
          /\ level' = [level EXCEPT ![w] =
                         IF pc[w] \in {"fail", "failEvent"} THEN "graph" ELSE "node"]
          /\ UNCHANGED holds
     ELSE Release(w, "down")
  /\ UNCHANGED <<cast, hour, beatVars, rowVars, runs>>

Crash(w) ==
  /\ "crash" \in Faults
  /\ pc[w] \notin {"absent", "down"}
  /\ Release(w, "down")
  /\ UNCHANGED <<cast, hour, beatVars, rowVars, runs>>

Restart(w) ==
  /\ pc[w] = "down"
  /\ Goto(w, "idle")
  /\ UNCHANGED <<cast, hour, beatVars, rowVars, runs>>

NextHour ==
  /\ hour < MaxHour
  /\ hour' = hour + 1
  /\ UNCHANGED <<cast, beatVars, rowVars, workerVars, runs>>

-----------------------------------------------------------------------------
Heartbeat(b) == Decide(b) \/ ReadOpen(b) \/ InsertTask(b) \/ BeatEvent(b)

Step(w) ==
  \/ ClaimTask(w) \/ ClaimEvent(w) \/ StartTask(w) \/ FinishTask(w) \/ CompleteTask(w)
  \/ CompleteEvent(w) \/ Report(w) \/ FailTask(w) \/ FailEvent(w)

Next ==
  \/ \E b \in Beat : BeginBeat(b) \/ Heartbeat(b) \/ BeatFails(b)
  \/ \E w \in Worker : Step(w) \/ GraphFault(w) \/ DbError(w) \/ Crash(w) \/ Restart(w)
  \/ NextHour

Spec == Init /\ [][Next]_vars

\* The workers poll for ever and docker restarts them; jobs return or throw.
\* Nobody is obliged to start a heartbeat run, which then finishes.
FairSpec ==
  /\ Spec
  /\ \A b \in Beat : WF_vars(Heartbeat(b))
  /\ \A w \in Worker : WF_vars(Step(w)) /\ WF_vars(Restart(w))
=============================================================================
