------------------------ MODULE OperatingGraph_proofs ------------------------
(***************************************************************************)
(* Proofs about one run of the operating graph, for any mutation nodes,      *)
(* orders, goal configurations and inputs.                                   *)
(***************************************************************************)
EXTENDS OperatingGraph, TLAPS

Quiet == blockers = {} /\ errors = {}

\* A mutation node runs in a mode that owns it.
Owned(n) ==
  \/ config.mode = "live_owned_public" /\ n \in ToSet(LiveOrder)
  \/ config.mode = "bounded_write" /\ n \in ToSet(BoundedOrder) /\ config.approval

Cleared == results["hard_gate_preflight"].status = "ok"

\* Behind the preflights nothing has gone wrong yet, and a mutation node that
\* runs has an input, is owned and has not run before.
Way ==
  /\ at = "hard_gate_preflight" => ~Cleared
  /\ at = "external_mutation_preflight" => Quiet /\ Cleared
  /\ at \in Mutation =>
       Quiet /\ Cleared /\ Owned(at) /\ given[at] \in Input /\ results[at].status = "none"
  /\ at \notin Mutation => phase = "run"
  /\ results["operating_summary"].status = "ok" => at = "end" /\ Quiet

\* A node past its first await: it asks for a call, is no dry run, and the runner
\* let it through provisionally; the bridge attached media if any was missing.
Asked ==
  (at \in Mutation /\ phase \in {"bridge", "call"}) =>
    /\ ~config.dryRun /\ NeedsProviderCall(given[at]) /\ Preliminary(at, given[at])
    /\ phase = "call" => \/ input[at] = given[at]
                         \/ MediaMissing(given[at]) /\ input[at] = WithMedia(given[at])

\* What may have left.
Gated(n) ==
  /\ ~config.dryRun /\ Cleared /\ Owned(n)
  /\ given[n].context \in {"own", "foreign"} /\ given[n].request = "whole" /\ given[n].valid
  /\ ~MediaMissing(given[n]) =>
       ~CanonicalBlocks(given[n]) /\ ~CopyBlocks(n, given[n]) /\ ~GuardBlocks(n, given[n])

\* The account of node n: what left is of a node that ran, and nothing was
\* written into the input of one that did not; without trouble the flags are
\* those of what was done.
Account(n) ==
  /\ sends[n] > 0 => Gated(n) /\ results[n].status # "none"
  /\ results[n].status = "none" =>
       ~results[n].flagged /\ (~(at = n /\ phase = "call") => input[n] = given[n] /\ uploads[n] = 0)
  /\ Quiet => (results[n].flagged <=>
                 \/ sends[n] > 0
                 \/ results[n].status # "none" /\ given[n].response \in {"object", "bare"})

GraphInv == TypeOK /\ Way /\ Asked /\ \A n \in Mutation : Account(n)

-----------------------------------------------------------------------------
(* The guard.                                                               *)

\* The runner succeeds on a response, and flags it; what it says is well formed.
LEMMA RunnerSays ==
  ASSUME NEW n, NEW i \in Input
  PROVE  /\ Runner(n, i).status \in {"ok", "blocked", "failed"} /\ Runner(n, i).flagged \in BOOLEAN
         /\ Runner(n, i).status = "ok" => Runner(n, i).flagged /\ i.response \in {"object", "bare"}
BY DEF Runner, Finalize, Blocked, Decision, Input

\* A node let through provisionally passes every gate, unless media is missing.
LEMMA ProvisionalIsGated ==
  ASSUME NEW n, NEW i \in Input, Preliminary(n, i), ~MediaMissing(i)
  PROVE  ~CanonicalBlocks(i) /\ ~CopyBlocks(n, i) /\ ~GuardBlocks(n, i)
<1>1. Runner(n, i).status = "ok" \/ Runner(n, i).code \in Provisional
  BY DEF Preliminary
<1>2. ~(CanonicalBlocks(i) \/ CopyBlocks(n, i) \/ GuardBlocks(n, i))
  BY <1>1 DEF Runner, Finalize, Blocked, Decision, Provisional
<1> QED
  BY <1>2

LEMMA MediaTyped == ASSUME NEW i \in Input PROVE WithMedia(i) \in Input /\ WithMedia(i) = [i EXCEPT !.media = "attached", !.hash = i.hash \/ i.context # "none"]
  BY DEF WithMedia, Input

\* Nodes outside the mutations are not among them.
LEMMA FixedApart == \A n \in Mutation : n \notin Fixed /\ n # "end"
  BY GraphAssumption

-----------------------------------------------------------------------------
(* The steps.                                                               *)

\* The result of a node that is no mutation.
LEMMA FixedStep ==
  ASSUME GraphInv, at \in Fixed \ {"operating_summary"}, UNCHANGED Outside, phase' = phase,
         NEW status \in Status, NEW flagged \in BOOLEAN, NEW claim \in BOOLEAN, NEW lists \in BOOLEAN,
         Patch(at, status, flagged, claim, lists),
         at' \in NodeId \ {"hard_gate_preflight"},
         at' \in Mutation \cup {"external_mutation_preflight"} => Quiet' /\ Cleared',
         at' \in Mutation => Owned(at') /\ Waiting(at')
  PROVE  GraphInv'
<1> USE DEF GraphInv, Outside
<1>1. TypeOK'
  <2>1. at \in NodeId
    BY DEF NodeId
  <2>2. results' \in [NodeId -> [status : Status, flagged : BOOLEAN, claim : BOOLEAN]]
    BY <2>1 DEF TypeOK, Patch
  <2>3. errors' \subseteq blockers' /\ blockers' \subseteq NodeId
    BY <2>1 DEF TypeOK, Patch
  <2> QED
    BY <2>2, <2>3 DEF TypeOK
<1>2. \A n \in NodeId : n # at => results'[n] = results[n]
  BY DEF Patch, TypeOK
<1>3. Quiet' => Quiet
  BY DEF Quiet, Patch
<1>4. at \notin Mutation /\ phase = "run" /\ at # "end"
  BY FixedApart DEF Way, Fixed
<1>5. at' \in Mutation => given[at'] \in Input /\ results'[at'].status = "none"
  <2> SUFFICES ASSUME at' \in Mutation PROVE given[at'] \in Input /\ results'[at'].status = "none"
    OBVIOUS
  <2>1. input[at'] # NoInput /\ results[at'].status = "none"
    BY DEF Waiting, HasInput, NodeAlreadyRan
  <2>2. input[at'] = given[at']
    BY <1>4, <2>1 DEF Account
  <2>3. results'[at'] = results[at']
    BY <1>2, <1>4 DEF NodeId
  <2> QED
    BY <2>1, <2>2, <2>3 DEF TypeOK
<1>6. Way'
  <2>2. results'["operating_summary"] = results["operating_summary"]
    BY <1>2 DEF NodeId, Fixed
  <2>3. results'["operating_summary"].status # "ok"
    BY <1>4, <2>2 DEF Way
  <2> QED
    BY <1>4, <1>5, <2>3 DEF Way, Owned, Fixed, NodeId
<1>7. Asked'
  BY <1>4 DEF Asked
<1>8. ASSUME NEW n \in Mutation PROVE Account(n)'
  <2>1. results'[n] = results[n] /\ Account(n)
    BY <1>2, <1>4 DEF NodeId
  <2>2. Gated(n) => Gated(n)'
    <3>1. Cleared => Cleared'
      BY <1>2 DEF Cleared, Way, NodeId, Fixed
    <3> QED
      BY <3>1 DEF Gated, Owned
  <2> QED
    BY <1>3, <1>4, <2>1, <2>2 DEF Account
<1> QED
  BY <1>1, <1>6, <1>7, <1>8

\* The result of a mutation node, for whatever it did outside.
LEMMA Concluded ==
  ASSUME GraphInv, NEW n \in Mutation, at = n, NEW d, Conclude(n, d),
         d.status \in {"ok", "blocked", "failed"}, d.flagged \in BOOLEAN,
         UNCHANGED <<config, given>>,
         input' \in [Mutation -> Input \cup {NoInput}],
         uploads' \in [Mutation -> 0 .. 1], sends' \in [Mutation -> 0 .. 1],
         \A m \in Mutation \ {n} : input'[m] = input[m] /\ uploads'[m] = uploads[m] /\ sends'[m] = sends[m],
         sends'[n] > 0 => Gated(n),
         d.status = "ok" => d.flagged /\ (sends'[n] > 0 \/ given[n].response \in {"object", "bare"})
  PROVE  GraphInv'
<1> USE DEF GraphInv
<1>1. Patch(n, d.status, d.flagged, FALSE, d.status # "ok") /\ phase' = "run"
      /\ at' = AfterMutation(n, Trouble)
  BY DEF Conclude
<1>2. n \in NodeId /\ n \notin Fixed /\ n # "end"
  BY FixedApart DEF NodeId
<1>3. results' \in [NodeId -> [status : Status, flagged : BOOLEAN, claim : BOOLEAN]]
  BY <1>1, <1>2 DEF TypeOK, Patch, Status
<1>4. /\ \A m \in NodeId : m # n => results'[m] = results[m]
      /\ results'[n] = [status |-> d.status, flagged |-> d.flagged, claim |-> FALSE]
  BY <1>1, <1>2 DEF Patch, TypeOK
<1>5. (Quiet' => Quiet /\ d.status = "ok") /\ errors' \subseteq blockers' /\ blockers' \subseteq NodeId
  BY <1>1, <1>2 DEF Quiet, Patch, TypeOK
<1>6. Quiet /\ Cleared /\ Owned(n)
  BY DEF Way
<1>7. Cleared'
  BY <1>2, <1>4, <1>6 DEF Cleared, NodeId, Fixed
<1>8. \/ at' = "collect_receipts"
      \/ Quiet' /\ n \in Chained /\ at' \in Chained \ {n} /\ Waiting(at')
  <2>1. Quiet' <=> ~Trouble
    BY DEF Quiet, Trouble
  <2> DEFINE rest == { m \in Chained \ {n} : Waiting(m) }
  <2>2. CASE ~Trouble /\ n \in Chained /\ rest # {}
    <3>1. at' = CHOOSE m \in rest : TRUE
      BY <1>1, <2>2 DEF AfterMutation
    <3>2. at' \in rest
      BY <2>2, <3>1
    <3> QED
      BY <2>1, <2>2, <3>2
  <2>3. CASE ~(~Trouble /\ n \in Chained /\ rest # {})
    BY <1>1, <2>3 DEF AfterMutation
  <2> QED
    BY <2>2, <2>3
<1>9. at' \in Mutation =>
        Quiet' /\ Owned(at') /\ given[at'] \in Input /\ results'[at'].status = "none"
  <2> SUFFICES ASSUME at' \in Mutation
               PROVE  Quiet' /\ Owned(at') /\ given[at'] \in Input /\ results'[at'].status = "none"
    OBVIOUS
  <2>1. Quiet' /\ n \in Chained /\ at' \in Chained \ {n} /\ Waiting(at')
    BY <1>8, FixedApart DEF Fixed
  <2>2. Owned(at')
    BY <1>6, <2>1, GraphAssumption DEF Owned
  <2>3. input[at'] # NoInput /\ results[at'].status = "none"
    BY <2>1 DEF Waiting, HasInput, NodeAlreadyRan
  <2>4. input[at'] = given[at'] /\ results'[at'] = results[at']
    BY <1>4, <2>1, <2>3 DEF Account, NodeId
  <2> QED
    BY <2>1, <2>2, <2>3, <2>4 DEF TypeOK
<1>10. at' \in NodeId \ {"hard_gate_preflight", "external_mutation_preflight"}
  BY <1>8, FixedApart, GraphAssumption DEF NodeId, Fixed
<1>11. TypeOK'
  BY <1>1, <1>3, <1>5, <1>10 DEF TypeOK
<1>12. Way'
  <2>1. results'["operating_summary"].status # "ok"
    BY <1>2, <1>4 DEF Way, NodeId, Fixed
  <2> QED
    BY <1>1, <1>7, <1>9, <1>10, <2>1 DEF Way, Owned
<1>13. Asked'
  BY <1>1 DEF Asked
<1>14. ASSUME NEW m \in Mutation PROVE Account(m)'
  <2>1. Gated(m) => Gated(m)'
    BY <1>7 DEF Gated, Owned
  <2>2. CASE m = n
    BY <1>4, <1>5, <2>1, <2>2 DEF Account
  <2>3. CASE m # n
    <3>1. results'[m] = results[m] /\ Account(m)
      BY <1>4, <2>3 DEF NodeId
    <3>2. input'[m] = input[m] /\ uploads'[m] = uploads[m] /\ sends'[m] = sends[m]
      BY <2>3
    <3> QED
      BY <1>1, <1>5, <2>1, <2>3, <3>1, <3>2 DEF Account
  <2> QED
    BY <2>2, <2>3
<1> QED
  BY <1>11, <1>12, <1>13, <1>14

LEMMA PreflightSteps ==
  ASSUME GraphInv, HardGatePreflight \/ ExternalMutationPreflight
  PROVE  GraphInv'
<1> USE DEF GraphInv
<1>1. CASE HardGatePreflight
  <2>1. PICK status \in {"ok", "blocked"} : Patch(at, status, FALSE, FALSE, status = "blocked")
    BY <1>1 DEF HardGatePreflight
  <2>2. /\ at = "hard_gate_preflight" /\ UNCHANGED Outside /\ phase' = phase
        /\ at' = IF Trouble THEN "collect_receipts" ELSE "external_mutation_preflight"
    BY <1>1 DEF HardGatePreflight
  <2>3. at \in NodeId /\ results'[at].status = status
    BY <2>1, <2>2 DEF Patch, TypeOK, NodeId, Fixed
  <2>4. status = "blocked" => Trouble
    BY <2>1 DEF Patch, Trouble
  <2>5. ~Trouble => Quiet' /\ Cleared'
    BY <2>2, <2>3, <2>4 DEF Trouble, Quiet, Cleared
  <2>6. at' \in NodeId \ {"hard_gate_preflight"} /\ at' \notin Mutation
    BY <2>2, FixedApart DEF NodeId, Fixed
  <2>7. at \in Fixed \ {"operating_summary"} /\ status \in Status
    BY <2>2 DEF Fixed, Status
  <2> QED
    BY <2>1, <2>2, <2>5, <2>6, <2>7, FixedStep
<1>2. CASE ExternalMutationPreflight
  <2> DEFINE ok == config.approval \/ config.mode \notin {"approved_publish", "bounded_write"}
             status == IF ok THEN "ok" ELSE "blocked"
  <2>1. /\ at = "external_mutation_preflight" /\ UNCHANGED Outside /\ phase' = phase
        /\ Patch(at, status, FALSE, FALSE, ~ok)
        /\ at' \in IF Trouble THEN {"collect_receipts"} ELSE AfterMutationPreflight
    BY <1>2 DEF ExternalMutationPreflight
  <2>2. Quiet /\ Cleared
    BY <2>1 DEF Way
  <2>3. ~ok => Trouble
    BY <2>1 DEF Patch, Trouble
  <2>4. Cleared' /\ (~Trouble => Quiet')
    BY <2>1, <2>2 DEF Trouble, Quiet, Cleared, Patch, TypeOK, NodeId, Fixed
  <2>5. \/ at' \in {"collect_receipts", "goal_loop"}
        \/ ~Trouble /\ config.mode = "live_owned_public" /\ at' \in FirstWaiting(LiveOrder)
        \/ ~Trouble /\ config.mode = "bounded_write" /\ at' \in FirstWaiting(BoundedOrder)
    <3>1. FirstWaiting(<< >>) = {}
      BY DEF FirstWaiting
    <3>2. CASE config.mode = "live_owned_public"
      BY <2>1, <3>2 DEF AfterMutationPreflight
    <3>3. CASE config.mode = "bounded_write"
      BY <2>1, <3>3 DEF AfterMutationPreflight
    <3>4. CASE config.mode \notin {"live_owned_public", "bounded_write"}
      BY <2>1, <3>1, <3>4 DEF AfterMutationPreflight
    <3> QED
      BY <3>2, <3>3, <3>4
  <2>6. ASSUME NEW list \in Seq(Mutation), at' \in FirstWaiting(list)
        PROVE  at' \in ToSet(list) /\ at' \in Mutation /\ Waiting(at')
    BY <2>6 DEF FirstWaiting, ToSet
  <2>7. at' \in NodeId \ {"hard_gate_preflight", "external_mutation_preflight"}
    BY <2>5, <2>6, FixedApart, GraphAssumption DEF NodeId, Fixed
  <2>8. at' \in Mutation => ~Trouble /\ Owned(at') /\ Waiting(at')
    <3>1. "collect_receipts" \notin Mutation /\ "goal_loop" \notin Mutation
      BY FixedApart DEF Fixed
    <3> QED
      BY <2>3, <2>5, <2>6, <3>1, GraphAssumption DEF Owned
  <2>9. at \in Fixed \ {"operating_summary"} /\ status \in Status
    BY <2>1 DEF Fixed, Status
  <2>10. (~ok) \in BOOLEAN
    OBVIOUS
  <2> HIDE DEF status, ok
  <2> QED
    BY <2>1, <2>4, <2>7, <2>8, <2>9, <2>10, FixedStep
<1> QED
  BY <1>1, <1>2

LEMMA ReportSteps ==
  ASSUME GraphInv, GoalLoop \/ CollectReceipts
  PROVE  GraphInv'
<1> USE DEF GraphInv
<1>1. CASE GoalLoop
  <2>1. PICK status \in {"ok", "blocked", "failed"}, flagged \in BOOLEAN, claim \in BOOLEAN, lists \in BOOLEAN :
          Patch(at, status, flagged, claim, lists)
    BY <1>1 DEF GoalLoop
  <2>2. at = "goal_loop" /\ at' = "collect_receipts" /\ UNCHANGED Outside /\ phase' = phase /\ status \in Status
    BY <1>1 DEF GoalLoop, Status
  <2>3. at \in Fixed \ {"operating_summary"} /\ at' \in NodeId \ {"hard_gate_preflight"} /\ at' \notin Mutation
    BY <2>2, FixedApart DEF NodeId, Fixed
  <2> QED
    BY <2>1, <2>2, <2>3, FixedStep
<1>2. CASE CollectReceipts
  <2>1. /\ at = "collect_receipts" /\ at' = "operating_summary" /\ UNCHANGED Outside /\ phase' = phase
        /\ Patch(at, CollectStatus, AnyFlag, FALSE, Audit)
    BY <1>2 DEF CollectReceipts
  <2>2. CollectStatus \in Status /\ AnyFlag \in BOOLEAN /\ Audit \in BOOLEAN
    BY DEF CollectStatus, Status, AnyFlag, Audit
  <2>3. at \in Fixed \ {"operating_summary"} /\ at' \in NodeId \ {"hard_gate_preflight"} /\ at' \notin Mutation
    BY <2>1, FixedApart DEF NodeId, Fixed
  <2> QED
    BY <2>1, <2>2, <2>3, FixedStep
<1> QED
  BY <1>1, <1>2

LEMMA SummaryStep ==
  ASSUME GraphInv, OperatingSummary
  PROVE  GraphInv'
<1> USE DEF GraphInv, Outside
<1>1. /\ at = "operating_summary" /\ at' = "end" /\ UNCHANGED <<Outside, phase>>
      /\ Patch(at, IF blockers # {} THEN "blocked" ELSE "ok", AnyFlag, FALSE, FALSE)
  BY DEF OperatingSummary
<1>2. /\ at \in NodeId /\ at \notin Mutation /\ phase = "run" /\ AnyFlag \in BOOLEAN
      /\ "end" \notin Mutation
  BY <1>1, FixedApart DEF NodeId, Fixed, Way, AnyFlag
<1>3. /\ \A n \in NodeId : n # at => results'[n] = results[n]
      /\ results'[at].status = IF blockers # {} THEN "blocked" ELSE "ok"
      /\ blockers' = blockers /\ errors' = errors
  BY <1>1, <1>2 DEF Patch, TypeOK
<1>4. TypeOK'
  <2>1. results' \in [NodeId -> [status : Status, flagged : BOOLEAN, claim : BOOLEAN]]
    BY <1>1, <1>2 DEF TypeOK, Patch, Status
  <2> QED
    BY <1>1, <1>3, <2>1 DEF TypeOK
<1>5. Way' /\ Asked'
  BY <1>1, <1>2, <1>3 DEF Way, Asked, Quiet, TypeOK
<1>6. ASSUME NEW n \in Mutation PROVE Account(n)'
  <2>1. results'[n] = results[n] /\ Account(n)
    BY <1>2, <1>3 DEF NodeId
  <2>2. Gated(n) => Gated(n)'
    BY <1>1, <1>3 DEF Gated, Owned, Cleared, NodeId, Fixed
  <2> QED
    BY <1>1, <1>2, <1>3, <2>1, <2>2 DEF Account, Quiet
<1> QED
  BY <1>4, <1>5, <1>6

LEMMA RunMutationStep ==
  ASSUME GraphInv, NEW n \in Mutation, RunMutation(n)
  PROVE  GraphInv'
<1> USE DEF GraphInv
<1>1. at = n /\ phase = "run" /\ UNCHANGED Outside
  BY DEF RunMutation
<1>2. /\ given[n] \in Input /\ input[n] = given[n] /\ results[n].status = "none"
      /\ ~(sends[n] > 0)
  BY <1>1 DEF Way, Account
<1>3. ASSUME NEW d, Conclude(n, d), d = Runner(n, input[n]) \/ d = Blocked("draft_only")
      PROVE  GraphInv'
  <2>1. /\ d.status \in {"ok", "blocked", "failed"} /\ d.flagged \in BOOLEAN
        /\ d.status = "ok" => d.flagged /\ given[n].response \in {"object", "bare"}
    <3>1. CASE d = Runner(n, given[n])
      BY <1>2, <3>1, RunnerSays
    <3>2. CASE d = Blocked("draft_only")
      BY <3>2 DEF Blocked, Decision
    <3> QED
      BY <1>2, <1>3, <3>1, <3>2
  <2>2. /\ UNCHANGED <<config, given>>
        /\ input' \in [Mutation -> Input \cup {NoInput}]
        /\ uploads' \in [Mutation -> 0 .. 1] /\ sends' \in [Mutation -> 0 .. 1]
        /\ \A m \in Mutation \ {n} : input'[m] = input[m] /\ uploads'[m] = uploads[m] /\ sends'[m] = sends[m]
        /\ ~(sends'[n] > 0)
    BY <1>1, <1>2 DEF Outside, TypeOK
  <2> QED
    BY <1>1, <1>3, <2>1, <2>2, Concluded
<1>4. CASE ~NeedsProviderCall(input[n]) \/ config.dryRun \/ ~Preliminary(n, input[n])
  BY <1>3, <1>4 DEF RunMutation
<1>5. CASE NeedsProviderCall(input[n]) /\ ~config.dryRun /\ Preliminary(n, input[n])
  <2>1. phase' = "bridge" /\ UNCHANGED <<at, stateVars, Outside>>
    BY <1>1, <1>5 DEF RunMutation
  <2>2. TypeOK'
    BY <2>1 DEF TypeOK, Outside, stateVars
  <2>3. Way' /\ Asked'
    BY <1>1, <1>2, <1>5, <2>1 DEF Way, Asked, Quiet, Cleared, Owned, Outside, stateVars
  <2>4. ASSUME NEW m \in Mutation PROVE Account(m)'
    BY <1>1, <2>1 DEF Account, Quiet, Gated, Cleared, Owned, Outside, stateVars
  <2> QED
    BY <2>2, <2>3, <2>4
<1> QED
  BY <1>4, <1>5

LEMMA BridgeMediaStep ==
  ASSUME GraphInv, NEW n \in Mutation, BridgeMedia(n)
  PROVE  GraphInv'
<1> USE DEF GraphInv
<1>1. at = n /\ phase = "bridge" /\ UNCHANGED <<config, given, sends>>
  BY DEF BridgeMedia
<1>2. /\ given[n] \in Input /\ input[n] = given[n] /\ results[n].status = "none"
      /\ ~(sends[n] > 0) /\ uploads[n] = 0
  BY <1>1 DEF Way, Account
<1>3. ASSUME phase' = "call", UNCHANGED <<at, stateVars>>,
             uploads' \in [Mutation -> 0 .. 1], input' \in [Mutation -> Input \cup {NoInput}],
             \A m \in Mutation \ {n} : input'[m] = input[m] /\ uploads'[m] = uploads[m],
             \/ input'[n] = given[n]
             \/ MediaMissing(given[n]) /\ input'[n] = WithMedia(given[n])
      PROVE  GraphInv'
  <2>1. TypeOK'
    BY <1>1, <1>3 DEF TypeOK, stateVars
  <2>2. Way'
    BY <1>1, <1>3 DEF Way, Quiet, Cleared, Owned, stateVars
  <2>3. Asked'
    BY <1>1, <1>3 DEF Asked, stateVars
  <2>4. ASSUME NEW m \in Mutation PROVE Account(m)'
    BY <1>1, <1>3 DEF Account, Quiet, Gated, Cleared, Owned, stateVars
  <2> QED
    BY <2>1, <2>2, <2>3, <2>4
<1>4. CASE ~MediaMissing(input[n]) /\ phase' = "call" /\ UNCHANGED <<input, uploads, at, stateVars>>
  BY <1>2, <1>3, <1>4 DEF TypeOK
<1>5. CASE /\ input[n].media \in {"available", "local"}
           /\ phase' = "call"
           /\ input' = [input EXCEPT ![n] = WithMedia(@)]
           /\ uploads' = [uploads EXCEPT ![n] = IF input[n].media = "local" THEN @ + 1 ELSE @]
           /\ UNCHANGED <<at, stateVars>>
  <2>1. input'[n] = WithMedia(given[n]) /\ MediaMissing(given[n])
    BY <1>2, <1>5 DEF TypeOK, MediaMissing
  <2>2. input' \in [Mutation -> Input \cup {NoInput}]
    BY <1>2, <1>5, MediaTyped DEF TypeOK
  <2>3. uploads' \in [Mutation -> 0 .. 1]
    BY <1>2, <1>5 DEF TypeOK
  <2>4. \A m \in Mutation \ {n} : input'[m] = input[m] /\ uploads'[m] = uploads[m]
    BY <1>5 DEF TypeOK
  <2> QED
    BY <1>3, <1>5, <2>1, <2>2, <2>3, <2>4
<1>6. CASE /\ uploads' \in {uploads, [uploads EXCEPT ![n] = @ + 1]}
           /\ Conclude(n, Blocked("media_bridge")) /\ UNCHANGED input
  <2>1. uploads' \in [Mutation -> 0 .. 1] /\ \A m \in Mutation \ {n} : uploads'[m] = uploads[m]
    BY <1>2, <1>6 DEF TypeOK
  <2>2. Blocked("media_bridge").status = "blocked" /\ Blocked("media_bridge").flagged = FALSE
    BY DEF Blocked, Decision
  <2>3. /\ input' \in [Mutation -> Input \cup {NoInput}] /\ sends' \in [Mutation -> 0 .. 1]
        /\ \A m \in Mutation \ {n} : input'[m] = input[m] /\ sends'[m] = sends[m]
        /\ ~(sends'[n] > 0)
    BY <1>1, <1>2, <1>6 DEF TypeOK
  <2> QED
    BY <1>1, <1>6, <2>1, <2>2, <2>3, Concluded
<1> QED
  BY <1>4, <1>5, <1>6 DEF BridgeMedia

\* What the preflight and the provisional decision of a called node amount to.
LEMMA CalledIsGated ==
  ASSUME GraphInv, NEW n \in Mutation, at = n, phase = "call", Preflight(input[n]) = "ok"
  PROVE  Gated(n)
<1> USE DEF GraphInv
<1>1. /\ given[n] \in Input /\ Cleared /\ Owned(n) /\ ~config.dryRun
      /\ NeedsProviderCall(given[n]) /\ Preliminary(n, given[n])
      /\ \/ input[n] = given[n]
         \/ MediaMissing(given[n]) /\ input[n] = WithMedia(given[n])
  BY DEF Way, Asked
<1>2. input[n].context = given[n].context /\ input[n].request = given[n].request /\ input[n].valid = given[n].valid
  <2>1. CASE input[n] = given[n]
    BY <2>1
  <2>2. CASE input[n] = WithMedia(given[n])
    BY <1>1, <2>2 DEF WithMedia, Input
  <2> QED
    BY <1>1, <2>1, <2>2
<1>3. input[n].context \notin {"none", "other", "invalid"} /\ input[n].valid /\ input[n].request # "split"
  BY DEF Preflight
<1>4. given[n].context \in {"own", "foreign"} /\ given[n].request = "whole" /\ given[n].valid
  BY <1>1, <1>2, <1>3 DEF Input, NeedsProviderCall
<1> QED
  BY <1>1, <1>4, ProvisionalIsGated DEF Gated

LEMMA CallProviderStep ==
  ASSUME GraphInv, NEW n \in Mutation, CallProvider(n)
  PROVE  GraphInv'
<1> USE DEF GraphInv
<1>1. at = n /\ phase = "call" /\ UNCHANGED <<config, given, uploads>>
  BY DEF CallProvider
<1>2. /\ given[n] \in Input /\ input[n] \in Input /\ results[n].status = "none"
      /\ ~(sends[n] > 0) /\ sends[n] = 0
  <2>1. given[n] \in Input /\ results[n].status = "none"
    BY <1>1 DEF Way
  <2>2. input[n] \in Input
    BY <1>1, <2>1, MediaTyped DEF Asked
  <2>3. ~(sends[n] > 0)
    BY <2>1 DEF Account
  <2> QED
    BY <2>1, <2>2, <2>3 DEF TypeOK
<1>3. ASSUME NEW d, Conclude(n, d), d.status \in {"blocked", "failed"}, d.flagged \in BOOLEAN, UNCHANGED <<input, sends>>
      PROVE  GraphInv'
  <2>1. /\ input' \in [Mutation -> Input \cup {NoInput}] /\ sends' \in [Mutation -> 0 .. 1]
        /\ uploads' \in [Mutation -> 0 .. 1]
        /\ \A m \in Mutation \ {n} : input'[m] = input[m] /\ uploads'[m] = uploads[m] /\ sends'[m] = sends[m]
        /\ ~(sends'[n] > 0)
    BY <1>1, <1>2, <1>3 DEF TypeOK
  <2> QED
    BY <1>1, <1>3, <2>1, Concluded
<1>4. ASSUME Preflight(input[n]) # "ok",
             Conclude(n, Decision(IF Preflight(input[n]) = "throws" THEN "failed" ELSE "blocked", "preflight", FALSE)),
             UNCHANGED <<input, sends>>
      PROVE  GraphInv'
  <2> DEFINE d == Decision(IF Preflight(input[n]) = "throws" THEN "failed" ELSE "blocked", "preflight", FALSE)
  <2>1. d.status \in {"blocked", "failed"} /\ d.flagged \in BOOLEAN
    BY DEF Decision
  <2> HIDE DEF d
  <2> QED
    BY <1>3, <1>4, <2>1 DEF d
<1>5. ASSUME Preflight(input[n]) = "ok", NEW a \in Answer, NEW done,
             done = [input[n] EXCEPT !.receipt = TRUE, !.response = IF a \in {"refused", "lost"} THEN "failed" ELSE a],
             input' = [input EXCEPT ![n] = done],
             sends' = [sends EXCEPT ![n] = IF a = "refused" THEN @ ELSE @ + 1],
             Conclude(n, AfterCall(n, done))
      PROVE  GraphInv'
  <2>1. done \in Input /\ (done.response # "failed" => a \in {"object", "bare"})
    BY <1>2, <1>5 DEF Input, Answer
  <2>2. /\ AfterCall(n, done).status \in {"ok", "blocked", "failed"} /\ AfterCall(n, done).flagged \in BOOLEAN
        /\ AfterCall(n, done).status = "ok" => AfterCall(n, done).flagged /\ a \in {"object", "bare"}
    <3>1. CASE done.response = "failed"
      BY <3>1 DEF AfterCall, Blocked, Decision
    <3>2. CASE done.response # "failed"
      BY <2>1, <3>2, RunnerSays DEF AfterCall
    <3> QED
      BY <3>1, <3>2
  <2>3. Gated(n)
    BY <1>1, <1>5, CalledIsGated
  <2>4. /\ input' \in [Mutation -> Input \cup {NoInput}]
        /\ \A m \in Mutation \ {n} : input'[m] = input[m] /\ sends'[m] = sends[m] /\ uploads'[m] = uploads[m]
    BY <1>1, <1>5, <2>1 DEF TypeOK
  <2>5. /\ sends' \in [Mutation -> 0 .. 1] /\ uploads' \in [Mutation -> 0 .. 1]
        /\ a \in {"object", "bare"} => sends'[n] > 0
    BY <1>1, <1>2, <1>5 DEF TypeOK
  <2> QED
    BY <1>1, <1>5, <2>2, <2>3, <2>4, <2>5, Concluded
<1> QED
  BY <1>4, <1>5 DEF CallProvider

-----------------------------------------------------------------------------
(* The whole run.                                                           *)

LEMMA InitEstablishes == Init => GraphInv
<1> SUFFICES ASSUME Init PROVE GraphInv
  OBVIOUS
<1>1. /\ given \in [Mutation -> Input \cup {NoInput}] /\ input = given /\ at = "hard_gate_preflight"
      /\ phase = "run" /\ Quiet
      /\ \A n \in NodeId : results[n].status = "none" /\ ~results[n].flagged
      /\ \A n \in Mutation : sends[n] = 0 /\ uploads[n] = 0
  BY GraphAssumption DEF Init, Quiet
<1>2. TypeOK
  BY <1>1 DEF Init, TypeOK, NodeId, Fixed, Status, Quiet
<1>3. at \notin Mutation
  BY <1>1, FixedApart DEF Fixed
<1>4. results["hard_gate_preflight"].status = "none" /\ results["operating_summary"].status = "none"
  BY <1>1 DEF NodeId, Fixed
<1>5. Way /\ Asked
  BY <1>1, <1>3, <1>4 DEF Way, Asked, Cleared
<1>6. ASSUME NEW n \in Mutation PROVE Account(n)
  BY <1>1 DEF Account, NodeId
<1> QED
  BY <1>2, <1>5, <1>6 DEF GraphInv

LEMMA NextKeeps == GraphInv /\ [Next]_vars => GraphInv'
<1> SUFFICES ASSUME GraphInv, [Next]_vars PROVE GraphInv'
  OBVIOUS
<1>1. CASE UNCHANGED vars
  <2> USE <1>1 DEF GraphInv, vars, stateVars
  <2>1. TypeOK' /\ Way' /\ Asked'
    BY DEF TypeOK, Way, Asked, Quiet, Cleared, Owned
  <2>2. ASSUME NEW n \in Mutation PROVE Account(n)'
    BY DEF Account, Gated, Quiet, Cleared, Owned
  <2> QED
    BY <2>1, <2>2
<1> QED
  BY <1>1, PreflightSteps, ReportSteps, SummaryStep, RunMutationStep, BridgeMediaStep, CallProviderStep DEF Next

LEMMA Invariance == Spec => []GraphInv
  BY InitEstablishes, NextKeeps, PTL DEF Spec

\* The types of the run's state; no node sends or uploads twice.
THEOREM TypeCorrect == Spec => []TypeOK
<1>1. GraphInv => TypeOK
  BY DEF GraphInv
<1> QED
  BY Invariance, <1>1, PTL

\* What leaves the graph has passed the gates, for every input that may come in.
THEOREM SendsGated == Spec => []SendsAreGated
<1>1. GraphInv => SendsAreGated
  BY DEF GraphInv, Account, Gated, Cleared, Owned, SendsAreGated
<1> QED
  BY Invariance, <1>1, PTL

\* A run that ends as completed flags the nodes that did something, and no other.
THEOREM ReportsExactly == Spec => []CompletedRunReportsExactly
<1>1. GraphInv => CompletedRunReportsExactly
  BY DEF GraphInv, Way, Account, CompletedRunReportsExactly
<1> QED
  BY Invariance, <1>1, PTL

\* Behind the first blocker or error no provider is called any more, neither for a
\* post nor for its media.
THEOREM QuietAfterTrouble == Spec => NothingLeavesAfterTrouble
<1>1. ASSUME GraphInv, [Next]_vars
      PROVE  [blockers \cup errors # {} => sends' = sends /\ uploads' = uploads]_vars
  <2>1. ASSUME NEW n \in Mutation, BridgeMedia(n) \/ CallProvider(n)
        PROVE  blockers \cup errors = {}
    <3>1. at = n
      BY <2>1 DEF BridgeMedia, CallProvider
    <3> QED
      BY <1>1, <3>1 DEF GraphInv, Way, Quiet
  <2>2. CASE UNCHANGED <<sends, uploads>>
    BY <2>2
  <2>3. CASE \E n \in Mutation : BridgeMedia(n) \/ CallProvider(n)
    BY <2>1, <2>3
  <2>4. Next => UNCHANGED <<sends, uploads>> \/ \E n \in Mutation : BridgeMedia(n) \/ CallProvider(n)
    BY DEF Next, HardGatePreflight, ExternalMutationPreflight, GoalLoop, CollectReceipts, OperatingSummary,
           RunMutation, Outside
  <2>5. UNCHANGED vars => UNCHANGED <<sends, uploads>>
    BY DEF vars
  <2> QED
    BY <1>1, <2>2, <2>3, <2>4, <2>5
<1> QED
  BY Invariance, <1>1, PTL DEF Spec, NothingLeavesAfterTrouble
=============================================================================
