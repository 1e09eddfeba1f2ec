--------------------------- MODULE WorkflowRuntime ---------------------------
(***************************************************************************)
(* WorkflowRuntime.run of src/lib/control-plane/runtime.ts over the rows of *)
(* ControlPlaneRepository: the runs, node runs, artifacts and approval      *)
(* gates that one process's calls write, statement by statement.  A call is *)
(* named by the caller; the run row it creates has the call's name.         *)
(*                                                                          *)
(* A statement with its event row either succeeds, or rejects before the    *)
(* row is written, or rejects after (the event's insert fails).  Calls      *)
(* interleave at their awaits; the idempotency store lives in memory.       *)
(***************************************************************************)
EXTENDS TopologicalSort, FiniteSets

CONSTANTS
  Node,          \* node ids
  Definitions,   \* the workflow definitions
  MaxIterations, \* maxIterations
  MaxAttempts,   \* maxAttempts of each node
  Limited,       \* the nodes with a timeoutMs
  MayAsk,        \* the statuses the handler of each node may return
  Call,          \* calls of run
  Key,           \* idempotency keys
  KeyOf,         \* the key of a call, or None
  None,
  MaxRejections  \* bound on the statements that reject

ASSUME RuntimeAssumption ==
  /\ \A d \in Definitions : d.deps \in [Node -> Seq(Node)] /\ d.nodes \in Seq(Node)
  /\ \A d \in Definitions : Sortable(d, MaxIterations) =>
       Sorted(d) \in Seq(Node) /\ TopologicalOrder(d, Sorted(d))
  /\ MaxAttempts \in [Node -> Nat \ {0}]
  /\ KeyOf \in [Call -> Key \cup {None}]
  /\ None \notin Key \cup Call
  /\ MayAsk \in [Node -> SUBSET {"completed", "skipped", "awaiting_approval", "cancelled", "blocked"}]
  /\ MaxRejections \in Nat

VARIABLES
  pc,        \* where each call is
  order,     \* the sorted nodes of its definition
  deps,      \* their dependencies
  at,        \* the position of the loop over them
  attempt,   \* the attempt of the current node
  want,      \* the status the handler asked for, or the final one
  result,    \* the status the call returned
  outputs,   \* dependencyOutputs: the attempt whose artifact a node hands on, 0 for none
  store,     \* the idempotency store: a run and the status of the stored copy
  runStatus, \* workflow_runs.status
  nodeRuns,  \* workflow_node_runs.status by node and attempt
  inputs,    \* input_artifact_ids of a node's latest run, by dependency
  artifacts, \* the artifacts written, by call, node and attempt
  gates,     \* the approval gates requested, by call, node and attempt
  late,      \* handlers still running after their timeout
  rejections \* the statements that rejected so far

callVars == <<pc, order, deps, at, attempt, want, result, outputs>>
rowVars  == <<runStatus, nodeRuns, inputs, artifacts, gates>>
vars     == <<callVars, store, rowVars, late, rejections>>

Attempts == UNION { 1 .. MaxAttempts[n] : n \in Node }
NoOutputs == [n \in Node |-> 0]
Finished  == {"completed", "skipped"}
Stopped   == {"completed", "failed", "cancelled", "blocked", "awaiting_approval"}
Active    == {"start", "node", "handler", "artifact", "mark", "fail", "finish"}

TypeOK ==
  /\ pc \in [Call -> {"idle", "returned", "threw"} \cup Active]
  /\ order \in [Call -> Seq(Node)] /\ deps \in [Call -> [Node -> Seq(Node)]]
  /\ at \in [Call -> Nat] /\ \A c \in Call : at[c] \in 1 .. Len(order[c]) + 1
  /\ attempt \in [Call -> Nat \ {0}]
  /\ want \in [Call -> Stopped \cup Finished \cup {"none"}]
  /\ result \in [Call -> Stopped \cup {"none", "running"}]
  /\ outputs \in [Call -> [Node -> {0} \cup Attempts]]
  /\ store \in [Key -> [run : Call \cup {None}, status : Stopped \cup {"none", "running"}]]
  /\ runStatus \in [Call -> Stopped \cup {"absent", "running"}]
  /\ nodeRuns \in [Call -> [Node \X Attempts -> Stopped \cup Finished \cup {"absent", "running"}]]
  /\ inputs \in [Call -> [Node -> [Node -> {0} \cup Attempts]]]
  /\ artifacts \subseteq Call \X Node \X Attempts
  /\ gates \subseteq Call \X Node \X Attempts
  /\ late \subseteq Call \X Node \X Attempts
  /\ rejections \in 0 .. MaxRejections

Init ==
  /\ pc = [c \in Call |-> "idle"]
  /\ order = [c \in Call |-> <<>>]
  /\ deps = [c \in Call |-> [n \in Node |-> <<>>]]
  /\ at = [c \in Call |-> 1]
  /\ attempt = [c \in Call |-> 1]
  /\ want = [c \in Call |-> "none"]
  /\ result = [c \in Call |-> "none"]
  /\ outputs = [c \in Call |-> NoOutputs]
  /\ store = [k \in Key |-> [run |-> None, status |-> "none"]]
  /\ runStatus = [c \in Call |-> "absent"]
  /\ nodeRuns = [c \in Call |-> [r \in Node \X Attempts |-> "absent"]]
  /\ inputs = [c \in Call |-> [n \in Node |-> NoOutputs]]
  /\ artifacts = {} /\ gates = {} /\ late = {} /\ rejections = 0

-----------------------------------------------------------------------------
\* The nodes whose handler requests an approval gate.
Approves(n) == "awaiting_approval" \in MayAsk[n]

Current(c) == order[c][at[c]]
Row(c)     == <<Current(c), attempt[c]>>
Id(c)      == <<c, Current(c), attempt[c]>>

\* The outcomes of a statement and its event.
Outcomes == {"ok"} \cup (IF rejections < MaxRejections THEN {"before", "after"} ELSE {})
Count(o) == rejections' = IF o = "ok" THEN rejections ELSE rejections + 1
Wrote(o) == o # "before"

Goto(c, p) == pc' = [pc EXCEPT ![c] = p]

SetRow(c, s, o) ==
  nodeRuns' = IF Wrote(o) THEN [nodeRuns EXCEPT ![c][Row(c)] = s] ELSE nodeRuns

\* A call sorts the definition, which may throw, and looks its key up.
Begin(c) ==
  /\ pc[c] = "idle"
  /\ \E d \in Definitions :
       LET found == KeyOf[c] # None /\ store[KeyOf[c]].run # None
       IN  IF ~Sortable(d, MaxIterations) THEN
             /\ Goto(c, "threw")
             /\ UNCHANGED <<order, deps, result>>
           ELSE IF found THEN
             /\ Goto(c, "returned")
             /\ result' = [result EXCEPT ![c] = store[KeyOf[c]].status]
             /\ UNCHANGED <<order, deps>>
           ELSE
             /\ Goto(c, "start")
             /\ order' = [order EXCEPT ![c] = Sorted(d)]
             /\ deps' = [deps EXCEPT ![c] = d.deps]
             /\ UNCHANGED result
  /\ UNCHANGED <<at, attempt, want, outputs, store, rowVars, late, rejections>>

\* The store's entry of a keyed call.
Remember(c, s) ==
  store' = IF KeyOf[c] = None THEN store ELSE [store EXCEPT ![KeyOf[c]] = [run |-> c, status |-> s]]

\* startWorkflowRun, then the store's entry.
StartRun(c) ==
  /\ pc[c] = "start"
  /\ \E o \in Outcomes :
       /\ Count(o)
       /\ runStatus' = IF Wrote(o) THEN [runStatus EXCEPT ![c] = "running"] ELSE runStatus
       /\ IF o = "ok" THEN Goto(c, "node") /\ Remember(c, "running")
                      ELSE Goto(c, "threw") /\ UNCHANGED store
  /\ UNCHANGED <<order, deps, at, attempt, want, result, outputs, nodeRuns, inputs, artifacts, gates, late>>

\* inputArtifactIds: what the dependencies of the current node hand on.
HandedOn(c) ==
  [m \in Node |-> IF m \in ToSet(deps[c][Current(c)]) THEN outputs[c][m] ELSE 0]

\* startNodeRun, outside the try.
StartNode(c) ==
  /\ pc[c] = "node" /\ at[c] <= Len(order[c])
  /\ \E o \in Outcomes :
       /\ Count(o)
       /\ SetRow(c, "running", o)
       /\ inputs' = IF Wrote(o) THEN [inputs EXCEPT ![c][Current(c)] = HandedOn(c)] ELSE inputs
       /\ Goto(c, IF o = "ok" THEN "handler" ELSE "threw")
  /\ UNCHANGED <<order, deps, at, attempt, want, result, outputs, store, runStatus, artifacts, gates, late>>

\* All nodes are through.
AllDone(c) ==
  /\ pc[c] = "node" /\ at[c] > Len(order[c])
  /\ Goto(c, "finish")
  /\ want' = [want EXCEPT ![c] = "completed"]
  /\ UNCHANGED <<order, deps, at, attempt, result, outputs, store, rowVars, late, rejections>>

\* Mutant of HandOnNothing: what an earlier attempt handed on stays.
HandOnStale(c) == UNCHANGED outputs

\* dependencyOutputs of a node without artifacts.
HandOnNothing(c) == outputs' = [outputs EXCEPT ![c][Current(c)] = 0]

\* The handler resolves, with an artifact or without.
HandlerReturns(c) ==
  /\ pc[c] = "handler"
  /\ \E s \in MayAsk[Current(c)] :
       /\ want' = [want EXCEPT ![c] = s]
       /\ gates' = IF s = "awaiting_approval" THEN gates \cup {Id(c)} ELSE gates
  /\ \/ Goto(c, "artifact") /\ UNCHANGED outputs
     \/ Goto(c, "mark") /\ HandOnNothing(c)
  /\ UNCHANGED <<order, deps, at, attempt, result, store, runStatus, nodeRuns, inputs, artifacts, late, rejections>>

\* It throws, returns failed, or its request for a gate rejects.
HandlerThrows(c) ==
  /\ pc[c] = "handler"
  /\ Goto(c, "fail")
  /\ \/ UNCHANGED <<gates, rejections>>
     \/ /\ Approves(Current(c)) /\ "after" \in Outcomes
        /\ Count("after") /\ gates' = gates \cup {Id(c)}
  /\ UNCHANGED <<order, deps, at, attempt, want, result, outputs, store, runStatus, nodeRuns, inputs, artifacts, late>>

\* withTimeout rejects; the handler runs on.
HandlerTimesOut(c) ==
  /\ pc[c] = "handler" /\ Current(c) \in Limited
  /\ Goto(c, "fail")
  /\ late' = late \cup {Id(c)}
  /\ UNCHANGED <<order, deps, at, attempt, want, result, outputs, store, rowVars, rejections>>

\* A handler that was given up ends; an approval may have requested its gate.
LateHandlerEnds(h) ==
  /\ h \in late
  /\ late' = late \ {h}
  /\ gates' \in {gates} \cup (IF Approves(h[2]) THEN {gates \cup {h}} ELSE {})
  /\ UNCHANGED <<callVars, store, runStatus, nodeRuns, inputs, artifacts, rejections>>

\* createLinkedArtifact and attachNodeOutputArtifact.
MakeArtifact(c) ==
  /\ pc[c] = "artifact"
  /\ \E o \in Outcomes :
       /\ Count(o)
       /\ artifacts' = IF Wrote(o) THEN artifacts \cup {Id(c)} ELSE artifacts
       /\ IF o = "ok" THEN Goto(c, "mark") /\ outputs' = [outputs EXCEPT ![c][Current(c)] = attempt[c]]
                      ELSE Goto(c, "fail") /\ UNCHANGED outputs
  /\ UNCHANGED <<order, deps, at, attempt, want, result, store, runStatus, nodeRuns, inputs, gates, late>>

NextNode(c) ==
  /\ Goto(c, "node")
  /\ at' = [at EXCEPT ![c] = @ + 1]
  /\ attempt' = [attempt EXCEPT ![c] = 1]

\* updateNodeRunStatus inside the try: a rejection is a failed attempt.
Mark(c) ==
  /\ pc[c] = "mark"
  /\ \E o \in Outcomes :
       /\ Count(o)
       /\ SetRow(c, want[c], o)
       /\ IF o # "ok" THEN Goto(c, "fail") /\ UNCHANGED <<at, attempt>>
          ELSE IF want[c] \in Finished THEN NextNode(c)
          ELSE Goto(c, "finish") /\ UNCHANGED <<at, attempt>>
  /\ UNCHANGED <<order, deps, want, result, outputs, store, runStatus, inputs, artifacts, gates, late>>

\* Mutants of GiveUp: the loop goes on with the next node, or never gives up.
GiveUpNode(c) == NextNode(c) /\ UNCHANGED want
GiveUpNever(c) == Goto(c, "node") /\ UNCHANGED <<at, attempt, want>>

GiveUp(c) ==
  /\ Goto(c, "finish")
  /\ want' = [want EXCEPT ![c] = "failed"]
  /\ UNCHANGED <<at, attempt>>

Exhausted(c) == attempt[c] = MaxAttempts[Current(c)]

\* The catch: the attempt is marked failed, and tried again while any is left.
FailNode(c) ==
  /\ pc[c] = "fail"
  /\ \E o \in Outcomes :
       /\ Count(o)
       /\ SetRow(c, "failed", o)
       /\ IF o # "ok" THEN Goto(c, "threw") /\ UNCHANGED <<at, attempt, want>>
          ELSE IF Exhausted(c) THEN GiveUp(c)
          ELSE Goto(c, "node") /\ attempt' = [attempt EXCEPT ![c] = @ + 1] /\ UNCHANGED <<at, want>>
  /\ UNCHANGED <<order, deps, result, outputs, store, runStatus, inputs, artifacts, gates, late>>

\* Mutants of FinishRejected: the catch of the loop takes the rejection, or it
\* is swallowed.
FinishRejectedCaught(c) ==
  /\ Goto(c, IF at[c] <= Len(order[c]) /\ want[c] # "failed" THEN "fail" ELSE "threw")
  /\ UNCHANGED <<result, store>>
FinishRejectedSwallowed(c) ==
  /\ Goto(c, "returned")
  /\ result' = [result EXCEPT ![c] = want[c]]
  /\ UNCHANGED store

\* `return finishWorkflow(..)` is not awaited in the try: run itself rejects.
FinishRejected(c) == Goto(c, "threw") /\ UNCHANGED <<result, store>>

\* finishWorkflow: the row, then the store.
Finish(c) ==
  /\ pc[c] = "finish"
  /\ \E o \in Outcomes :
       /\ Count(o)
       /\ runStatus' = IF Wrote(o) THEN [runStatus EXCEPT ![c] = want[c]] ELSE runStatus
       /\ IF o = "ok" THEN /\ Goto(c, "returned")
                           /\ result' = [result EXCEPT ![c] = want[c]]
                           /\ Remember(c, want[c])
                      ELSE FinishRejected(c)
  /\ UNCHANGED <<order, deps, at, attempt, want, outputs, nodeRuns, inputs, artifacts, gates, late>>

\* The process dies with its calls, its late handlers and its store.
Crash ==
  /\ \E c \in Call : pc[c] \in Active
  /\ pc' = [c \in Call |-> IF pc[c] \in Active THEN "threw" ELSE pc[c]]
  /\ store' = [k \in Key |-> [run |-> None, status |-> "none"]]
  /\ late' = {}
  /\ UNCHANGED <<order, deps, at, attempt, want, result, outputs, rowVars, rejections>>

-----------------------------------------------------------------------------
Handler(c) == HandlerReturns(c) \/ HandlerThrows(c) \/ HandlerTimesOut(c)

Step(c) ==
  \/ StartRun(c) \/ StartNode(c) \/ AllDone(c) \/ Handler(c) \/ MakeArtifact(c)
  \/ Mark(c) \/ FailNode(c) \/ Finish(c)

Next ==
  \/ \E c \in Call : Begin(c) \/ Step(c)
  \/ \E h \in late : LateHandlerEnds(h)
  \/ Crash

Spec == Init /\ [][Next]_vars

\* A running call goes on: handlers return, throw or time out, statements end.
FairSpec == Spec /\ \A c \in Call : WF_vars(Step(c))

-----------------------------------------------------------------------------
(* Properties.                                                              *)

\* A node starts after its dependencies, on the artifacts of their finished
\* attempt: an attempt that wrote an artifact and then failed, or whose row
\* was completed and then overwritten, hands nothing on.
InputsComeFromFinishedAttempts ==
  \A c \in Call : \A n \in ToSet(order[c]) :
    (\E k \in Attempts : nodeRuns[c][<<n, k>>] # "absent") =>
      \A m \in ToSet(deps[c][n]) : \E k \in Attempts :
        /\ nodeRuns[c][<<m, k>>] \in Finished
        /\ inputs[c][n][m] \in {0, k}
        /\ inputs[c][n][m] = k => <<c, m, k>> \in artifacts

\* A completed run is whole: every node has one finished attempt and before it
\* only failed ones, although any statement on the way may have rejected.
CompletedRunIsWhole ==
  \A c \in Call : runStatus[c] = "completed" =>
    \A n \in ToSet(order[c]) : \E k \in Attempts :
      /\ nodeRuns[c][<<n, k>>] \in Finished
      /\ \A l \in Attempts \ {k} :
           nodeRuns[c][<<n, l>>] = IF l < k THEN "failed" ELSE "absent"

\* A stopped run is left alone: no node starts, no attempt is marked and no
\* artifact appears after it completed, failed, was cancelled or blocked, or
\* began to wait for an approval.
StoppedRunIsFrozen ==
  [][\A c \in Call : runStatus[c] \in Stopped =>
       /\ runStatus'[c] = runStatus[c] /\ nodeRuns'[c] = nodeRuns[c]
       /\ \A a \in artifacts' \ artifacts : a[1] # c]_vars

\* A result is never ahead of the rows: a status other than running that a
\* call returns, its own or a stored copy's, is that of a run of its key.
ResultIsRecorded ==
  \A c \in Call : result[c] \in Stopped =>
    \E e \in Call : runStatus[e] = result[c] /\ (e = c \/ (KeyOf[c] # None /\ KeyOf[e] = KeyOf[c]))

\* Every call ends, within the attempts of its nodes.
EveryCallEnds ==
  \A c \in Call : pc[c] \in Active ~> pc[c] \in {"returned", "threw"}
=============================================================================
