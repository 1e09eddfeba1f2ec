------------------------- MODULE ChannelHeads_proofs -------------------------
(***************************************************************************)
(* Proofs about the channel heads, first of the router, then of the task    *)
(* queue and the heartbeat, which asks the router at every agent.           *)
(*                                                                          *)
(* The router: for every set of contexts and every authority list, what TLC *)
(* checks two fields away from all-clear holds everywhere.                  *)
(*                                                                          *)
(* The queue: the inductive invariant says that a task is either fresh      *)
(* (absent or pending, never attempted, never run, held by nobody) or       *)
(* taken, with exactly one attempt.  A failure therefore always finds the   *)
(* budget used up and closes the task; this is what the safety of the queue *)
(* rests on, the rows having neither lease nor owner.  Of the heartbeat runs *)
(* it says what an upsert that has read and not inserted can rely on.       *)
(*                                                                          *)
(* The heartbeat: what it tells the router never clears the gate chain, so  *)
(* that an agent whose first authority runs the chain never decides to act. *)
(***************************************************************************)
EXTENDS ChannelRouting, ChannelTasksProps, TLAPS

-----------------------------------------------------------------------------
(* The gate chain.                                                          *)

\* A set of positions in the chain has a first one.
LEMMA FirstExists ==
  ASSUME NEW S \in SUBSET (1 .. 9), S # {}
  PROVE  \E i \in S : \A k \in S : i <= k
<1>1. CASE 1 \in S
  BY <1>1
<1>2. CASE 2 \in S /\ 1 \notin S
  BY <1>2
<1>3. CASE 3 \in S /\ 1 \notin S /\ 2 \notin S
  BY <1>3
<1>4. CASE 4 \in S /\ 1 \notin S /\ 2 \notin S /\ 3 \notin S
  BY <1>4
<1>5. CASE 5 \in S /\ 1 \notin S /\ 2 \notin S /\ 3 \notin S /\ 4 \notin S
  BY <1>5
<1>6. CASE S \subseteq {6, 7, 8, 9}
  <2>1. CASE 6 \in S
    BY <1>6, <2>1
  <2>2. CASE 7 \in S /\ 6 \notin S
    BY <1>6, <2>2
  <2>3. CASE 8 \in S /\ 6 \notin S /\ 7 \notin S
    BY <1>6, <2>3
  <2>4. CASE S \subseteq {9}
    <3>1. S = {9}
      BY <2>4
    <3> QED
      BY <3>1
  <2> QED
    BY <1>6, <2>1, <2>2, <2>3, <2>4
<1>7. CASE 1 \notin S /\ 2 \notin S /\ 3 \notin S /\ 4 \notin S /\ 5 \notin S
  <2>1. ASSUME NEW k \in S PROVE k \in {6, 7, 8, 9}
    <3>1. k \in 1 .. 9 /\ k \notin {1, 2, 3, 4, 5}
      BY <1>7
    <3> QED
      BY <3>1
  <2> QED
    BY <1>6, <2>1
<1> QED
  BY <1>1, <1>2, <1>3, <1>4, <1>5, <1>7

Gates(c) ==
  << CheckKillSwitchAndHeartbeat(c), CheckPublicVerify(c),
     CheckCooldownAndWorkplane(c), CheckRiskClass(c),
     CheckOwnedPublicBoundaries(c), CheckEvidenceAndCaps(c),
     CheckMediaAndOriginality(c), CheckQualityThreshold(c),
     CheckReviewThreshold(c) >>

\* The chain is clear only if every gate is; otherwise it answers with one of
\* the decisions that wait, suppress, ask or escalate.
LEMMA ChainIsClear ==
  ASSUME NEW c
  PROVE  \/ EvaluateGates(c) = "clear" /\ \A i \in 1 .. 9 : Gates(c)[i] = "clear"
         \/ EvaluateGates(c) \in {"wait", "suppress", "request_gate", "escalate_non_founder_review"}
<1> DEFINE triggered == { i \in 1 .. 9 : Gates(c)[i] # "clear" }
           first == CHOOSE i \in triggered : \A k \in triggered : i <= k
<1>1. EvaluateGates(c) = IF triggered = {} THEN "clear" ELSE Gates(c)[first]
  BY DEF EvaluateGates, Gates
<1>2. \A i \in 1 .. 9 :
        Gates(c)[i] \in {"clear", "wait", "suppress", "request_gate", "escalate_non_founder_review"}
  BY DEF Gates, CheckKillSwitchAndHeartbeat, CheckPublicVerify, CheckCooldownAndWorkplane,
         CheckRiskClass, CheckOwnedPublicBoundaries, CheckEvidenceAndCaps,
         CheckMediaAndOriginality, CheckQualityThreshold, CheckReviewThreshold
<1>3. triggered \in SUBSET (1 .. 9)
  OBVIOUS
<1>4. CASE triggered = {}
  BY <1>1, <1>4
<1>5. CASE triggered # {}
  <2>1. \E i \in triggered : \A k \in triggered : i <= k
    BY <1>3, <1>5, FirstExists
  <2>2. first \in triggered
    BY <2>1
  <2> QED
    BY <1>1, <1>2, <1>5, <2>2
<1> QED
  BY <1>4, <1>5

\* What all nine gates being clear says of the context.
LEMMA ClearMeans ==
  ASSUME NEW c, EvaluateGates(c) = "clear"
  PROVE  /\ c["kill"] = {} /\ c["lease"] = "active" /\ c["verify"] = "pass"
         /\ c["cooldown"] = {} /\ c["workplane"] # "BLOCKED"
         /\ c["risk"] = "safe_owned_public" /\ c["gate"] = "NONE"
         /\ c["target"] = "publish_owned_public" => c["boundary"] = {}
         /\ c["lacks"] = {}
         /\ {c["media"], c["originality"]} \cap {"missing", "fail"} = {}
         /\ c["quality"] \notin {"fail", "ambiguous"} /\ c["score"] = "high"
<1>1. \A i \in 1 .. 9 : Gates(c)[i] = "clear"
  BY ChainIsClear
<1>2. /\ CheckKillSwitchAndHeartbeat(c) = "clear" /\ CheckPublicVerify(c) = "clear"
      /\ CheckCooldownAndWorkplane(c) = "clear" /\ CheckRiskClass(c) = "clear"
      /\ CheckOwnedPublicBoundaries(c) = "clear" /\ CheckEvidenceAndCaps(c) = "clear"
      /\ CheckMediaAndOriginality(c) = "clear"
      /\ CheckQualityThreshold(c) = "clear" /\ CheckReviewThreshold(c) = "clear"
  <2>1. /\ Gates(c)[1] = "clear" /\ Gates(c)[2] = "clear" /\ Gates(c)[3] = "clear"
        /\ Gates(c)[4] = "clear" /\ Gates(c)[5] = "clear" /\ Gates(c)[6] = "clear"
        /\ Gates(c)[7] = "clear" /\ Gates(c)[8] = "clear" /\ Gates(c)[9] = "clear"
    BY <1>1
  <2> QED
    BY <2>1 DEF Gates
<1> QED
  BY <1>2 DEF CheckKillSwitchAndHeartbeat, CheckPublicVerify, CheckCooldownAndWorkplane,
              CheckRiskClass, CheckOwnedPublicBoundaries, CheckEvidenceAndCaps,
              CheckMediaAndOriginality, CheckQualityThreshold, CheckReviewThreshold

-----------------------------------------------------------------------------
(* The handlers: each either stops or acts, and says why it may.            *)

Stops(r) ==
  \E d \in {"wait", "suppress", "request_gate", "escalate_non_founder_review"} : r = FromGates(d)

\* Act is refused by the schemas under a restricted risk without a receipt.
Acts(c, r, actions) ==
  \/ r = Result("throws", "none")
  \/ /\ \E a \in actions : r = Result("act", a)
     /\ c["risk"] \in Restricted => c["receipt"]

LEMMA ActActs == ASSUME NEW c, NEW a PROVE Acts(c, Act(c, a), {a})
  BY DEF Acts, Act, Result

\* The full chain publishes, or takes the target action, only behind every gate.
LEMMA FullChain ==
  ASSUME NEW c
  PROVE  LET r == DecideChannelHeadAction(c) IN
         \/ Stops(r)
         \/ EvaluateGates(c) = "clear" /\ Acts(c, r, {c["target"]})
<1>1. CASE EvaluateGates(c) = "clear"
  BY <1>1, ActActs DEF DecideChannelHeadAction
<1>2. CASE EvaluateGates(c) # "clear"
  BY <1>2, ChainIsClear DEF DecideChannelHeadAction, Stops
<1> QED
  BY <1>1, <1>2

\* What every handler returns: a stop; an act behind the full chain; or an act
\* of one of the three handlers that skip it, which prepare something internal
\* and look at the kill switches, the heartbeat and the receipt themselves.
Guarded(c, r) ==
  \/ Stops(r)
  \/ EvaluateGates(c) = "clear" /\ Acts(c, r, {c["target"]})
  \/ /\ c["kill"] = {} /\ c["lease"] = "active"
     /\ Acts(c, r, {"draft", "create_approval_packet"})

LEMMA HandlersAreGuarded ==
  ASSUME NEW c, NEW a \in Authority PROVE Guarded(c, Handle(a, c))
<1>1. CASE a \in {"owned_public_publish", "hard_gate"}
  <2>1. Handle(a, c) = DecideChannelHeadAction(c)
    BY <1>1 DEF Handle
  <2> QED
    BY <2>1, FullChain DEF Guarded
<1>2. ASSUME NEW switches PROVE Guarded(c, HandleLight(c, switches))
  BY FullChain DEF HandleLight, Guarded, Stops
<1>3. CASE a = "read_only_observe"
  <2>1. Handle(a, c) = HandleLight(c, {"global", "channel"})
    BY <1>3 DEF Handle
  <2> QED
    BY <1>2, <2>1
<1>4. CASE a = "draft_artifact"
  <2>1. Handle(a, c) = HandleLight(c, {"global", "channel", "paused"})
    BY <1>4 DEF Handle
  <2> QED
    BY <1>2, <2>1
<1>5. CASE a = "internal_enqueue"
  <2>1. Handle(a, c) = HandleInternalEnqueue(c)
    BY <1>5 DEF Handle
  <2> QED
    BY <2>1, ActActs DEF Acts, HandleInternalEnqueue, CheckKillSwitchAndHeartbeat, Guarded, Stops
<1>6. CASE a = "internal_state_mutation"
  <2>1. Handle(a, c) = HandleInternalStateMutation(c)
    BY <1>6 DEF Handle
  <2> QED
    BY <2>1, ActActs DEF Acts, HandleInternalStateMutation, CheckKillSwitchAndHeartbeat, Guarded, Stops
<1>7. CASE a = "gated_external_send"
  <2>1. Handle(a, c) = HandleGatedExternalSend(c)
    BY <1>7 DEF Handle
  <2> QED
    BY <2>1, ActActs DEF Acts, HandleGatedExternalSend, CheckKillSwitchAndHeartbeat, Guarded, Stops
<1> QED
  BY <1>1, <1>3, <1>4, <1>5, <1>6, <1>7 DEF Authority

LEMMA DecisionsAreGuarded ==
  ASSUME NEW c, NEW authorities \in Seq(Authority)
  PROVE  Guarded(c, RouteDecision(authorities, c))
<1>1. CASE authorities = <<>>
  BY <1>1 DEF RouteDecision, Guarded, Stops
<1>2. CASE authorities # <<>>
  <2>1. authorities[1] \in Authority
    BY <1>2
  <2> QED
    BY <1>2, <2>1, HandlersAreGuarded DEF RouteDecision
<1> QED
  BY <1>1, <1>2

\* A stop has a decision that is none of an act's, and no action but a review.
LEMMA StopShape ==
  ASSUME NEW r, Stops(r)
  PROVE  /\ r.decision \in {"wait", "suppress", "request_gate", "escalate_non_founder_review"}
         /\ r.action \in {"none", "create_non_founder_review_item"}
         /\ r = Result(r.decision, r.action)
  BY DEF Stops, FromGates, Result

-----------------------------------------------------------------------------
(* The router as a system.                                                  *)

\* The outcome is the router's answer to this agent and this context.
Routed ==
  /\ context \in Context /\ agent \in AgentLists
  /\ outcome \in {NoOutcome, RouteDecision(agent, context)}

LEMMA RoutedInvariant == RouteSpec => []Routed
<1>1. RouteInit => Routed
  BY DEF RouteInit, Routed
<1>2. Routed /\ [Route]_routeVars => Routed'
  BY DEF Routed, Route, routeVars
<1> QED
  BY <1>1, <1>2, PTL DEF RouteSpec

LEMMA OutcomesAreGuarded ==
  ASSUME Routed
  PROVE  outcome = NoOutcome \/ Guarded(context, outcome)
  BY RoutingAssumption, DecisionsAreGuarded DEF Routed

\* No list of authorities and no context leads past the gate chain to a
\* publication: none of the nine gates of decision-gates.ts objects to it, each
\* read as the code has it (see the property for what a gate lets through).
THEOREM PublicationNeedsEveryGate == RouteSpec => []PublicationIsFullyGated
<1>1. Routed => PublicationIsFullyGated
  <2> SUFFICES ASSUME Routed, Publishes
      PROVE  EvaluateGates(context) = "clear" /\ context["target"] = "publish_owned_public"
    BY ClearMeans DEF PublicationIsFullyGated
  <2>1. outcome # NoOutcome /\ ~Stops(outcome)
    BY StopShape DEF Publishes, NoOutcome, Result
  <2> QED
    BY <2>1, OutcomesAreGuarded DEF Guarded, Acts, Publishes, Result
<1> QED
  BY <1>1, RoutedInvariant, PTL

\* Whatever the context, an act under a risk that is not the safe one prepares
\* something internal at most, and under a restricted one it has its receipt.
THEOREM RestrictedRiskIsGated == RouteSpec => []RestrictedRiskStaysGated
<1>1. Routed => RestrictedRiskStaysGated
  <2> SUFFICES ASSUME Routed, outcome.decision = "act", context["risk"] # "safe_owned_public"
      PROVE  /\ outcome.action \in {"draft", "create_approval_packet"}
             /\ context["risk"] \in Restricted => context["receipt"]
    BY DEF RestrictedRiskStaysGated
  <2>1. outcome # NoOutcome /\ ~Stops(outcome)
    BY StopShape DEF NoOutcome, Result
  <2>2. EvaluateGates(context) # "clear"
    BY ClearMeans
  <2>3. Acts(context, outcome, {"draft", "create_approval_packet"})
    BY <2>1, <2>2, OutcomesAreGuarded DEF Guarded
  <2> QED
    BY <2>3 DEF Acts, Result
<1> QED
  BY <1>1, RoutedInvariant, PTL

\* A kill switch, a pause or a heartbeat that is not live triggers the first
\* gate of the chain, whatever the later ones say.
LEMMA StoppedChain ==
  ASSUME NEW c, c["kill"] # {} \/ c["lease"] # "active" PROVE EvaluateGates(c) = "wait"
<1> DEFINE triggered == { i \in 1 .. 9 : Gates(c)[i] # "clear" }
           first == CHOOSE i \in triggered : \A k \in triggered : i <= k
<1>1. EvaluateGates(c) = IF triggered = {} THEN "clear" ELSE Gates(c)[first]
  BY DEF EvaluateGates, Gates
<1>2. Gates(c)[1] = "wait"
  BY DEF Gates, CheckKillSwitchAndHeartbeat
<1>3. 1 \in triggered /\ \A k \in triggered : 1 <= k
  BY <1>2
<1>4. first \in triggered /\ \A k \in triggered : first <= k
  BY <1>3
<1>5. first = 1
  <2>1. first \in 1 .. 9 /\ first <= 1
    BY <1>3, <1>4
  <2> QED
    BY <2>1
<1> HIDE DEF first
<1> QED
  BY <1>1, <1>2, <1>3, <1>5

LEMMA StoppedHandlersWait ==
  ASSUME NEW c, NEW a \in Authority, c["kill"] # {} \/ c["lease"] # "active"
  PROVE  Handle(a, c) = FromGates("wait")
<1>1. DecideChannelHeadAction(c) = FromGates("wait")
  BY StoppedChain DEF DecideChannelHeadAction
<1>2. CheckKillSwitchAndHeartbeat(c) # "clear"
  BY DEF CheckKillSwitchAndHeartbeat
<1>3. \A switches : HandleLight(c, switches) = FromGates("wait")
  BY <1>1 DEF HandleLight
<1>4. /\ HandleInternalEnqueue(c) = FromGates("wait")
      /\ HandleInternalStateMutation(c) = FromGates("wait")
      /\ HandleGatedExternalSend(c) = FromGates("wait")
  BY <1>2 DEF HandleInternalEnqueue, HandleInternalStateMutation, HandleGatedExternalSend
<1> QED
  BY <1>1, <1>3, <1>4 DEF Handle, Authority

\* Every agent that has an authority waits while it is stopped, although the
\* light handlers look at some of the switches only and at no lease.
THEOREM StoppedAgentsAlwaysWait == RouteSpec => []StoppedAgentsWait
<1>1. Routed => StoppedAgentsWait
  <2> SUFFICES ASSUME Routed, outcome # NoOutcome, agent # <<>>,
                      context["kill"] # {} \/ context["lease"] # "active"
      PROVE  outcome = FromGates("wait")
    BY DEF StoppedAgentsWait
  <2>1. outcome = Handle(agent[1], context)
    BY DEF Routed, RouteDecision
  <2>2. agent[1] \in Authority
    BY RoutingAssumption DEF Routed
  <2> QED
    BY <2>1, <2>2, StoppedHandlersWait
<1> QED
  BY <1>1, RoutedInvariant, PTL

\* Contexts and outcomes are typed.
THEOREM RoutingTypeCorrect == RouteSpec => []RouteTypeOK
<1>1. Routed => RouteTypeOK
  <2> SUFFICES ASSUME Routed PROVE RouteTypeOK
    OBVIOUS
  <2>1. context \in Context /\ agent \in AgentLists
    BY DEF Routed
  <2>2. context["target"] \in Values["target"]
    BY <2>1, RoutingAssumption DEF Fields, Values
  <2>3. outcome \in [decision : DecisionKind, action : ActionKind]
    <3>1. CASE outcome = NoOutcome
      BY <3>1 DEF NoOutcome, Result, DecisionKind, ActionKind
    <3>2. CASE Stops(outcome)
      BY <3>2 DEF Stops, FromGates, Result, DecisionKind, ActionKind
    <3>3. ASSUME NEW actions, Acts(context, outcome, actions), actions \subseteq ActionKind
          PROVE  outcome \in [decision : DecisionKind, action : ActionKind]
      BY <3>3 DEF Acts, Result, DecisionKind, ActionKind
    <3>4. /\ {context["target"]} \subseteq ActionKind
          /\ {"draft", "create_approval_packet"} \subseteq ActionKind
      BY <2>2 DEF ActionKind
    <3>5. Acts(context, outcome, {context["target"]})
             => outcome \in [decision : DecisionKind, action : ActionKind]
      BY <3>3, <3>4
    <3>6. Acts(context, outcome, {"draft", "create_approval_packet"})
             => outcome \in [decision : DecisionKind, action : ActionKind]
      BY <3>3, <3>4
    <3>7. \/ outcome = NoOutcome
          \/ Stops(outcome)
          \/ Acts(context, outcome, {context["target"]})
          \/ Acts(context, outcome, {"draft", "create_approval_packet"})
      BY OutcomesAreGuarded DEF Guarded
    <3> QED
      BY <3>1, <3>2, <3>5, <3>6, <3>7, Zenon
  <2> QED
    BY <2>1, <2>3, RoutingAssumption DEF RouteTypeOK
<1> QED
  BY <1>1, RoutedInvariant, PTL

-----------------------------------------------------------------------------
(* The task queue.                                                          *)

Fresh(t) == status[t] \in {"absent", "pending"}

\* Fresh tasks are untouched, taken ones have used their one attempt.
FreshOrTaken ==
  \A t \in Task : IF Fresh(t) THEN attempts[t] = 0 /\ runs[t] = 0 ELSE attempts[t] = 1

\* Whoever holds a task holds a taken one, alone, and has not started it
\* before the dispatch node does.
HoldersAlone ==
  /\ \A w \in Worker : holds[w] # None => ~Fresh(holds[w])
  /\ \A v, w \in Worker : v # w /\ holds[v] # None => holds[v] # holds[w]
  /\ \A w \in Worker : pc[w] \in {"claimEvent", "dispatch"} => runs[holds[w]] = 0
  /\ \A t \in Task : runs[t] <= 1

\* An upsert is about to insert under key k: an open task of that agent is the
\* one of k or was found free along with k, and so is any other upsert's key.
NothingElseOpen ==
  /\ \A b \in Beat, t \in Task :
       beatPc[b] = "insert" /\ t[1] = Key(b)[1] /\ status[t] \in {"pending", "running"}
         => t = Key(b) \/ {t, Key(b)} \in raced
  /\ \A b, c \in Beat :
       beatPc[b] = "insert" /\ beatPc[c] = "insert" /\ Key(b)[1] = Key(c)[1]
         => Key(b) = Key(c) \/ {Key(b), Key(c)} \in raced

IInv == TypeOK /\ FreshOrTaken /\ HoldersAlone /\ OneOpenTask /\ NothingElseOpen

-----------------------------------------------------------------------------
\* Every decision leads to a state of the machine.
LEMMA NextStateIsState == \A d : DecisionToNextState(d) \in States
BY DEF DecisionToNextState, States

\* The roster names agents, at the positions the runs can be at.
LEMMA CurrentIsAgent ==
  ASSUME TypeOK, NEW b \in Beat
  PROVE  /\ Len(cast.roster) \in Nat /\ Len(cast.roster) >= 1
         /\ Current(b) \in Agent
<1>1. cast.roster \in Seq(Agent) /\ cast.roster # <<>>
  BY TaskAssumption DEF TypeOK
<1>2. Len(cast.roster) \in Nat /\ Len(cast.roster) >= 1
  BY <1>1
<1>3. beatAt[b] \in 1 .. Len(cast.roster)
  BY DEF TypeOK
<1> QED BY <1>1, <1>2, <1>3 DEF Current

\* The key of a row is a task of the agent.
LEMMA KeyIsTask ==
  ASSUME TypeOK, NEW b \in Beat PROVE Key(b) \in Task /\ Key(b)[1] = Current(b)
BY CurrentIsAgent DEF TypeOK, Task, Key

\* A position depends on the run and the roster alone.
LEMMA SameKey ==
  ASSUME NEW b \in Beat, cast' = cast, beatAt'[b] = beatAt[b], beatHour'[b] = beatHour[b]
  PROVE  Key(b)' = Key(b)
BY DEF Key, Current

BeatTyped ==
  /\ beatPc \in [Beat -> {"ready", "decide", "task", "insert", "event", "over"}]
  /\ beatAt \in [Beat -> 1 .. Len(cast.roster)]
  /\ beatHour \in [Beat -> 1 .. MaxHour]

\* A run's own move along its statements and the roster keeps it typed, leaves
\* the other runs where they are, and is not the one into the insertion.
LEMMA MovesAlong ==
  ASSUME TypeOK, NEW b \in Beat, cast' = cast,
         NextAgent(b) \/ EndBeat(b) \/ BeatGoto(b, "task") \/ BeatGoto(b, "event")
  PROVE  /\ BeatTyped'
         /\ \A c \in Beat : beatPc'[c] = "insert" => beatPc[c] = "insert" /\ Key(c)' = Key(c)
<1>1. Len(cast.roster) \in Nat \ {0} /\ MaxHour \in Nat \ {0}
  BY TaskAssumption, CurrentIsAgent
<1>2. PICK p \in {"over", "decide", "task", "event"} : beatPc' = [beatPc EXCEPT ![b] = p]
  BY DEF NextAgent, EndBeat, BeatGoto
<1>3. beatHour' = [beatHour EXCEPT ![b] = 1] \/ beatHour' = beatHour
  BY DEF NextAgent, EndBeat, BeatGoto
<1>4. \/ beatAt' = [beatAt EXCEPT ![b] = 1] \/ beatAt' = beatAt
      \/ beatAt' = [beatAt EXCEPT ![b] = @ + 1] /\ beatAt[b] # Len(cast.roster)
  BY DEF NextAgent, EndBeat, BeatGoto
<1>5. beatPc' \in [Beat -> {"ready", "decide", "task", "insert", "event", "over"}]
  BY <1>2 DEF TypeOK
<1>6. beatAt' \in [Beat -> 1 .. Len(cast'.roster)]
  <2>1. beatAt \in [Beat -> 1 .. Len(cast.roster)] /\ cast'.roster = cast.roster
    BY DEF TypeOK
  <2>2. 1 \in 1 .. Len(cast.roster) /\ (beatAt[b] # Len(cast.roster) => beatAt[b] + 1 \in 1 .. Len(cast.roster))
    BY <1>1, <2>1
  <2> QED BY <1>4, <2>1, <2>2
<1>7. beatHour' \in [Beat -> 1 .. MaxHour]
  <2>1. 1 \in 1 .. MaxHour /\ beatHour \in [Beat -> 1 .. MaxHour]
    BY <1>1 DEF TypeOK
  <2> QED BY <1>3, <2>1
<1>8. ASSUME NEW c \in Beat, beatPc'[c] = "insert" PROVE beatPc[c] = "insert" /\ Key(c)' = Key(c)
  <2>1. c # b
    BY <1>2, <1>8 DEF TypeOK
  <2>2. beatPc[c] = "insert" /\ beatAt'[c] = beatAt[c] /\ beatHour'[c] = beatHour[c]
    BY <1>2, <1>3, <1>4, <1>8, <2>1 DEF TypeOK
  <2> QED BY <2>2, SameKey
<1> QED BY <1>5, <1>6, <1>7, <1>8 DEF BeatTyped

BeatStep(b) == BeginBeat(b) \/ Heartbeat(b) \/ BeatFails(b)

LEMMA BeatKeepsTypes ==
  ASSUME TypeOK, (\E b \in Beat : BeatStep(b)) \/ NextHour
  PROVE  TypeOK'
<1>1. CASE NextHour
  BY <1>1, TaskAssumption DEF NextHour, TypeOK, beatVars, rowVars, workerVars
<1>2. ASSUME NEW b \in Beat, BeatStep(b) PROVE TypeOK'
  <2>0. Current(b) \in Agent /\ Key(b) \in Task
    BY CurrentIsAgent, KeyIsTask
  <2>1. UNCHANGED <<cast, hour, attempts, pc, holds, level, runs>>
    BY <1>2 DEF BeatStep, BeginBeat, Heartbeat, Decide, ReadOpen, InsertTask, BeatEvent, BeatFails,
       rowVars, workerVars
  <2>2. machine' \in [Agent -> States]
    <3>1. \/ machine' = machine
          \/ \E s \in States : machine' = [machine EXCEPT ![Current(b)] = s]
      BY <1>2, NextStateIsState DEF BeatStep, BeginBeat, Heartbeat, Decide, ReadOpen, InsertTask,
         BeatEvent, BeatFails, States
    <3> QED BY <2>0, <3>1 DEF TypeOK
  <2>3. status' \in [Task -> Status]
    <3>1. status' = status \/ \E s \in Status : status' = [status EXCEPT ![Key(b)] = s]
      <4>1. CASE InsertTask(b)
        BY <2>0, <4>1 DEF InsertTask, Status, TypeOK
      <4> QED BY <1>2, <4>1 DEF BeatStep, BeginBeat, Heartbeat, Decide, ReadOpen, BeatEvent, BeatFails, rowVars
    <3> QED BY <2>0, <3>1 DEF TypeOK
  <2>4. raced' \subseteq SUBSET Task
    <3>1. raced' = raced \/ raced' = raced \cup { {Key(b), Key(c)} : c \in FoundFree(Current(b)) }
      BY <1>2 DEF BeatStep, BeginBeat, Heartbeat, Decide, ReadOpen, InsertTask, BeatEvent, BeatFails
    <3>2. \A c \in FoundFree(Current(b)) : {Key(b), Key(c)} \in SUBSET Task
      BY KeyIsTask DEF FoundFree
    <3>3. { {Key(b), Key(c)} : c \in FoundFree(Current(b)) } \subseteq SUBSET Task
      BY <3>2
    <3>4. raced \subseteq SUBSET Task
      BY DEF TypeOK
    <3> QED BY <3>1, <3>3, <3>4
  <2>5. BeatTyped'
    <3>1. CASE BeginBeat(b)
      BY <2>1, <3>1, TaskAssumption DEF BeginBeat, TypeOK, BeatTyped
    <3>2. CASE BeatGoto(b, "insert")
      BY <2>1, <3>2 DEF BeatGoto, TypeOK, BeatTyped
    <3>3. CASE NextAgent(b) \/ EndBeat(b) \/ BeatGoto(b, "task") \/ BeatGoto(b, "event")
      BY <2>1, <3>3, MovesAlong
    <3> QED BY <1>2, <3>1, <3>2, <3>3 DEF BeatStep, Heartbeat, Decide, ReadOpen, InsertTask, BeatEvent, BeatFails
  <2> QED BY <2>1, <2>2, <2>3, <2>4, <2>5 DEF TypeOK, BeatTyped
<1> QED BY <1>1, <1>2

WorkerStep(w) == Step(w) \/ GraphFault(w) \/ DbError(w) \/ Crash(w) \/ Restart(w)

LEMMA WorkerKeepsTypes ==
  ASSUME TypeOK, NEW w \in Worker, WorkerStep(w)
  PROVE  TypeOK'
<1> USE TaskAssumption DEF TypeOK, beatVars, rowVars, Holding, Status, Goto, Release
<1>1. CASE ClaimTask(w)
  <2>1. PICK t \in Task : /\ status' = [status EXCEPT ![t] = "running"]
                          /\ attempts' = [attempts EXCEPT ![t] = @ + 1]
                          /\ holds' = [holds EXCEPT ![w] = t]
    BY <1>1 DEF ClaimTask, Claimable
  <2> QED BY <1>1, <2>1 DEF ClaimTask
<1>2. CASE ClaimEvent(w)      BY <1>2 DEF ClaimEvent
<1>3. CASE StartTask(w)       BY <1>3 DEF StartTask
<1>4. CASE FinishTask(w)      BY <1>4 DEF FinishTask
<1>5. CASE CompleteTask(w)    BY <1>5 DEF CompleteTask
<1>6. CASE CompleteEvent(w)   BY <1>6 DEF CompleteEvent
<1>7. CASE Report(w)          BY <1>7 DEF Report
<1>8. CASE FailTask(w)        BY <1>8 DEF FailTask
<1>9. CASE FailEvent(w)       BY <1>9 DEF FailEvent
<1>10. CASE GraphFault(w)     BY <1>10 DEF GraphFault
<1>11. CASE DbError(w)
  <2>1. CASE level[w] = "node" /\ pc[w] \notin {"idle", "claimEvent"}
    <3>1. /\ pc[w] \in Holding /\ UNCHANGED holds /\ pc' = [pc EXCEPT ![w] = "fail"]
          /\ level' \in [Worker -> {"node", "graph"}]
      BY <1>11, <2>1 DEF DbError
    <3> QED BY <1>11, <2>1, <3>1 DEF DbError
  <2>2. CASE ~(level[w] = "node" /\ pc[w] \notin {"idle", "claimEvent"})
    <3>1. /\ pc' = [pc EXCEPT ![w] = "down"] /\ holds' = [holds EXCEPT ![w] = None]
          /\ level' = [level EXCEPT ![w] = "node"]
          /\ UNCHANGED <<cast, hour, beatVars, rowVars, runs>>
      BY <1>11, <2>2 DEF DbError
    <3> QED BY <3>1
  <2> QED BY <1>11, <2>1, <2>2 DEF DbError
<1>12. CASE Crash(w)          BY <1>12 DEF Crash
<1>13. CASE Restart(w)        BY <1>13 DEF Restart
<1> QED BY <1>1, <1>2, <1>3, <1>4, <1>5, <1>6, <1>7, <1>8, <1>9, <1>10, <1>11, <1>12, <1>13
     DEF WorkerStep, Step

-----------------------------------------------------------------------------
(* The rows.                                                                *)

\* What the heartbeat runs rely on holds as long as no task opens, no upsert
\* reads and no history is lost.
LEMMA NothingNewOpens ==
  ASSUME IInv, raced' = raced,
         \A t \in Task : status'[t] \in {"pending", "running"} => status[t] \in {"pending", "running"},
         \A b \in Beat : beatPc'[b] = "insert" => beatPc[b] = "insert" /\ Key(b)' = Key(b)
  PROVE  OneOpenTask' /\ NothingElseOpen'
<1>1. OneOpenTask'
  BY DEF IInv, OneOpenTask
<1>2. NothingElseOpen'
  BY DEF IInv, NothingElseOpen
<1> QED BY <1>1, <1>2

\* A step that leaves rows, holders and runs as they are, whatever the
\* positions: it does not go back before the start of the task.
LEMMA QuietKeepsRows ==
  ASSUME IInv, TypeOK', UNCHANGED <<rowVars, runs, raced>>,
         \A w \in Worker : holds'[w] \in {holds[w], None},
         \A w \in Worker : pc'[w] \in {"claimEvent", "dispatch"} =>
                             pc[w] \in {"claimEvent", "dispatch"} /\ holds'[w] = holds[w],
         \A b \in Beat : beatPc'[b] = "insert" => beatPc[b] = "insert" /\ Key(b)' = Key(b)
  PROVE  IInv'
<1>1. FreshOrTaken'
  BY DEF IInv, FreshOrTaken, Fresh, rowVars
<1>2. HoldersAlone'
  BY DEF IInv, HoldersAlone, Fresh, rowVars, TypeOK
<1>3. OneOpenTask' /\ NothingElseOpen'
  BY NothingNewOpens DEF rowVars
<1> QED BY <1>1, <1>2, <1>3 DEF IInv

\* The upsert reads: its agent has no open task, and the keys that others are
\* about to insert for the same agent are recorded along with its own.
LEMMA ReadKeepsRows ==
  ASSUME IInv, TypeOK', NEW b \in Beat, ReadOpen(b)
  PROVE  IInv'
<1>0. TypeOK /\ UNCHANGED <<cast, rowVars, workerVars, runs>>
  BY DEF ReadOpen, IInv
<1>1. CASE Open(Current(b)) # {}
  <2>1. BeatGoto(b, "event") /\ UNCHANGED raced
    BY <1>1 DEF ReadOpen
  <2>2. \A c \in Beat : beatPc'[c] = "insert" => beatPc[c] = "insert" /\ Key(c)' = Key(c)
    BY <1>0, <2>1, MovesAlong
  <2> QED BY <1>0, <2>1, <2>2, QuietKeepsRows DEF workerVars
<1>2. CASE Open(Current(b)) = {}
  <2>1. /\ beatPc' = [beatPc EXCEPT ![b] = "insert"] /\ UNCHANGED <<beatAt, beatHour>>
        /\ raced' = raced \cup { {Key(b), Key(c)} : c \in FoundFree(Current(b)) }
    BY <1>2 DEF ReadOpen, BeatGoto
  <2>2. \A c \in Beat : Key(c)' = Key(c)
    BY <1>0, <2>1, SameKey
  <2>3. \A c \in Beat : c # b => beatPc'[c] = beatPc[c]
    BY <1>0, <2>1 DEF TypeOK
  <2>4. \A t \in Task : t[1] = Key(b)[1] => status[t] \notin {"pending", "running"}
    BY <1>0, <1>2, KeyIsTask DEF Open
  <2>5. \A c \in Beat : beatPc[c] = "insert" /\ Key(c)[1] = Key(b)[1] => {Key(b), Key(c)} \in raced'
    BY <1>0, <2>1, KeyIsTask DEF FoundFree
  <2>6. FreshOrTaken' /\ HoldersAlone'
    BY <1>0 DEF IInv, FreshOrTaken, HoldersAlone, Fresh, rowVars, workerVars
  <2>7. OneOpenTask'
    BY <1>0, <2>1 DEF IInv, OneOpenTask, rowVars
  <2>8. NothingElseOpen'
    <3>1. ASSUME NEW c \in Beat, NEW t \in Task, beatPc'[c] = "insert", t[1] = Key(c)[1],
                 status[t] \in {"pending", "running"}
          PROVE  t = Key(c) \/ {t, Key(c)} \in raced'
      <4>1. c # b /\ beatPc[c] = "insert"
        BY <2>3, <2>4, <3>1
      <4> QED BY <2>1, <3>1, <4>1 DEF IInv, NothingElseOpen
    <3>2. ASSUME NEW c \in Beat, NEW e \in Beat, beatPc'[c] = "insert", beatPc'[e] = "insert",
                 Key(c)[1] = Key(e)[1]
          PROVE  Key(c) = Key(e) \/ {Key(c), Key(e)} \in raced'
      <4>1. CASE c = b /\ e = b
        BY <4>1
      <4>2. CASE c = b /\ e # b
        BY <2>3, <2>5, <3>2, <4>2
      <4>3. CASE c # b /\ e = b
        <5>1. {Key(e), Key(c)} \in raced'
          BY <2>3, <2>5, <3>2, <4>3
        <5>2. {Key(e), Key(c)} = {Key(c), Key(e)}
          OBVIOUS
        <5> QED BY <5>1, <5>2
      <4>4. CASE c # b /\ e # b
        BY <2>1, <2>3, <3>2, <4>4 DEF IInv, NothingElseOpen
      <4> QED BY <4>1, <4>2, <4>3, <4>4
    <3> QED BY <1>0, <2>2, <3>1, <3>2 DEF NothingElseOpen, rowVars
  <2> QED BY <2>6, <2>7, <2>8 DEF IInv
<1> QED BY <1>1, <1>2

\* The upsert inserts a fresh row, unless its key is there: what is open beside
\* it, and what is about to be, was found free along with it.
LEMMA InsertKeepsRows ==
  ASSUME IInv, TypeOK', NEW b \in Beat, InsertTask(b)
  PROVE  IInv'
<1> DEFINE k == Key(b)
<1>0. /\ TypeOK /\ k \in Task /\ beatPc[b] = "insert"
      /\ UNCHANGED <<cast, raced, attempts, workerVars, runs>> /\ BeatGoto(b, "event")
  BY KeyIsTask DEF IInv, InsertTask
<1>1. \/ UNCHANGED status
      \/ status[k] = "absent" /\ status' = [status EXCEPT ![k] = "pending"]
  BY <1>0 DEF InsertTask, TypeOK
<1>2. \A c \in Beat : beatPc'[c] = "insert" => beatPc[c] = "insert" /\ Key(c)' = Key(c)
  BY <1>0, MovesAlong
<1>3. CASE UNCHANGED status
  BY <1>0, <1>2, <1>3, QuietKeepsRows DEF rowVars, workerVars
<1>4. CASE status[k] = "absent" /\ status' = [status EXCEPT ![k] = "pending"]
  <2>1. \A t \in Task : Fresh(t)' <=> Fresh(t)
    BY <1>0, <1>4 DEF Fresh, TypeOK
  <2>2. FreshOrTaken'
    BY <1>0, <2>1 DEF IInv, FreshOrTaken
  <2>3. HoldersAlone'
    BY <1>0, <2>1 DEF IInv, HoldersAlone, TypeOK, Fresh, workerVars
  <2>4. \A t \in Task : t # k => status'[t] = status[t]
    BY <1>0, <1>4 DEF TypeOK
  <2>5. \A t \in Task : t[1] = k[1] /\ t # k /\ status[t] \in {"pending", "running"} => {t, k} \in raced'
    BY <1>0 DEF IInv, NothingElseOpen
  <2>6. \A t \in Task : {t, k} = {k, t}
    OBVIOUS
  <2> HIDE DEF k
  <2>7. OneOpenTask'
    <3> SUFFICES ASSUME NEW t \in Task, NEW u \in Task, t[1] = u[1],
                        {status'[t], status'[u]} \subseteq {"pending", "running"}
                 PROVE  t = u \/ {t, u} \in raced'
      BY DEF OneOpenTask
    <3>1. CASE t = k
      BY <1>0, <2>4, <2>5, <2>6, <3>1
    <3>2. CASE u = k
      BY <1>0, <2>4, <2>5, <3>2
    <3>3. CASE t # k /\ u # k
      BY <1>0, <2>4, <3>3 DEF IInv, OneOpenTask
    <3> QED BY <3>1, <3>2, <3>3
  <2>8. NothingElseOpen'
    <3>1. ASSUME NEW c \in Beat, NEW t \in Task, beatPc'[c] = "insert", t[1] = Key(c)[1],
                 status'[t] \in {"pending", "running"}
          PROVE  t = Key(c) \/ {t, Key(c)} \in raced'
      <4>1. CASE t = k
        BY <1>0, <1>2, <3>1, <4>1 DEF IInv, NothingElseOpen, k
      <4>2. CASE t # k
        BY <1>0, <1>2, <2>4, <3>1, <4>2 DEF IInv, NothingElseOpen
      <4> QED BY <4>1, <4>2
    <3>2. \A c, e \in Beat : beatPc'[c] = "insert" /\ beatPc'[e] = "insert" /\ Key(c)[1] = Key(e)[1]
            => Key(c) = Key(e) \/ {Key(c), Key(e)} \in raced'
      BY <1>0, <1>2 DEF IInv, NothingElseOpen
    <3> QED BY <1>2, <3>1, <3>2 DEF NothingElseOpen
  <2> QED BY <2>2, <2>3, <2>7, <2>8 DEF IInv
<1> QED BY <1>1, <1>3, <1>4

\* The worker's steps leave the heartbeat runs where they are.
LEMMA WorkersLeaveRuns ==
  ASSUME NEW w \in Worker, WorkerStep(w)
  PROVE  UNCHANGED <<cast, machine, raced>> /\ \A b \in Beat : beatPc'[b] = beatPc[b] /\ Key(b)' = Key(b)
<1>1. UNCHANGED <<cast, beatVars>>
  BY DEF WorkerStep, Step, ClaimTask, ClaimEvent, StartTask, FinishTask, CompleteTask, CompleteEvent,
     Report, FailTask, FailEvent, GraphFault, DbError, Crash, Restart
<1> QED BY <1>1, SameKey DEF beatVars

\* A claim takes a fresh row, which nobody holds.
LEMMA ClaimKeepsRows ==
  ASSUME IInv, TypeOK', NEW w \in Worker, ClaimTask(w)
  PROVE  IInv'
<1>1. PICK t \in Task : /\ status[t] = "pending"
                        /\ status' = [status EXCEPT ![t] = "running"]
                        /\ attempts' = [attempts EXCEPT ![t] = @ + 1]
                        /\ holds' = [holds EXCEPT ![w] = t]
  BY DEF ClaimTask, Claimable
<1>2. pc' = [pc EXCEPT ![w] = "claimEvent"] /\ UNCHANGED runs
  BY DEF ClaimTask
<1>3. TypeOK /\ attempts[t] = 0 /\ runs[t] = 0 /\ \A v \in Worker : holds[v] # t
  BY <1>1, TaskAssumption DEF IInv, FreshOrTaken, HoldersAlone, Fresh
<1>4. FreshOrTaken'
  BY <1>1, <1>2, <1>3 DEF IInv, FreshOrTaken, Fresh, TypeOK
<1>5. HoldersAlone'
  BY <1>1, <1>2, <1>3 DEF IInv, HoldersAlone, Fresh, TypeOK
<1>6. \A u \in Task : status'[u] \in {"pending", "running"} => status[u] \in {"pending", "running"}
  BY <1>1, <1>3 DEF TypeOK
<1>7. OneOpenTask' /\ NothingElseOpen'
  BY <1>6, WorkersLeaveRuns, NothingNewOpens DEF WorkerStep, Step
<1> QED BY <1>4, <1>5, <1>7 DEF IInv

\* A task is started by its only holder, from the dispatch node, once.
LEMMA StartKeepsRows ==
  ASSUME IInv, TypeOK', NEW w \in Worker, StartTask(w)
  PROVE  IInv'
<1>1. pc[w] = "dispatch" /\ runs' = [runs EXCEPT ![holds[w]] = @ + 1]
      /\ pc' = [pc EXCEPT ![w] = "running"] /\ UNCHANGED <<status, attempts, holds>>
  BY DEF StartTask, Goto, rowVars
<1>2. TypeOK /\ holds[w] # None /\ holds[w] \in Task /\ runs[holds[w]] = 0 /\ ~Fresh(holds[w])
  BY <1>1 DEF IInv, HoldersAlone, TypeOK, Holding
<1>3. FreshOrTaken'
  BY <1>1, <1>2 DEF IInv, FreshOrTaken, Fresh, TypeOK
<1>4. HoldersAlone'
  BY <1>1, <1>2 DEF IInv, HoldersAlone, Fresh, TypeOK, Holding
<1>5. OneOpenTask' /\ NothingElseOpen'
  BY <1>1, WorkersLeaveRuns, NothingNewOpens DEF WorkerStep, Step
<1> QED BY <1>3, <1>4, <1>5 DEF IInv

\* Completion and failure close a row: the budget of a taken one is used up.
LEMMA Closes ==
  ASSUME IInv, NEW w \in Worker, CompleteTask(w) \/ FailTask(w)
  PROVE  /\ holds[w] \in Task
         /\ status' \in {[status EXCEPT ![holds[w]] = s] : s \in {"succeeded", "failed"}}
         /\ UNCHANGED <<attempts, runs, holds>>
         /\ pc' \in {[pc EXCEPT ![w] = p] : p \in {"completeEvent", "failEvent"}}
<1>1. TypeOK /\ holds[w] \in Task /\ holds[w] # None
  BY DEF IInv, TypeOK, Holding, CompleteTask, FailTask
<1>2. attempts[holds[w]] >= MaxTaskAttempts
  BY <1>1 DEF IInv, FreshOrTaken, HoldersAlone, MaxTaskAttempts
<1> QED BY <1>1, <1>2 DEF CompleteTask, FailTask, Goto

LEMMA ClosingKeepsRows ==
  ASSUME IInv, TypeOK', NEW w \in Worker, CompleteTask(w) \/ FailTask(w)
  PROVE  IInv'
<1>1. PICK s \in {"succeeded", "failed"}, p \in {"completeEvent", "failEvent"} :
         /\ holds[w] \in Task
         /\ status' = [status EXCEPT ![holds[w]] = s]
         /\ pc' = [pc EXCEPT ![w] = p]
         /\ UNCHANGED <<attempts, runs, holds>>
  BY Closes
<1>2. TypeOK /\ holds[w] # None /\ ~Fresh(holds[w])
  BY <1>1, TaskAssumption DEF IInv, HoldersAlone
<1>3. FreshOrTaken'
  BY <1>1, <1>2 DEF IInv, FreshOrTaken, Fresh, TypeOK
<1>4. HoldersAlone'
  BY <1>1, <1>2 DEF IInv, HoldersAlone, Fresh, TypeOK
<1>5. \A u \in Task : status'[u] \in {"pending", "running"} => status[u] \in {"pending", "running"}
  BY <1>1, <1>2 DEF TypeOK
<1>6. OneOpenTask' /\ NothingElseOpen'
  BY <1>5, WorkersLeaveRuns, NothingNewOpens DEF WorkerStep, Step
<1> QED BY <1>3, <1>4, <1>6 DEF IInv

-----------------------------------------------------------------------------
LEMMA InitEstablishes == Init => IInv
<1> SUFFICES ASSUME Init PROVE IInv OBVIOUS
<1>1. TypeOK
  <2>1. /\ Len(cast.roster) \in Nat /\ Len(cast.roster) >= 1 /\ MaxHour \in Nat /\ MaxHour >= 1
        /\ cast \in Casts
    <3>1. cast \in Casts /\ cast.roster \in Seq(Agent) /\ cast.roster # <<>>
      BY TaskAssumption DEF Init
    <3> QED BY <3>1, TaskAssumption
  <2>2. /\ hour \in 1 .. MaxHour /\ beatAt \in [Beat -> 1 .. Len(cast.roster)]
        /\ beatHour \in [Beat -> 1 .. MaxHour]
    BY <2>1 DEF Init
  <2>3. /\ machine \in [Agent -> States] /\ raced \subseteq SUBSET Task
        /\ beatPc \in [Beat -> {"ready", "decide", "task", "insert", "event", "over"}]
    BY DEF Init, States
  <2>4. /\ status \in [Task -> Status] /\ attempts \in [Task -> Nat] /\ runs \in [Task -> Nat]
    BY DEF Init, Status
  <2>5. /\ pc \in [Worker -> {"absent", "idle", "down"} \cup Holding]
        /\ holds \in [Worker -> Task \cup {None}]
        /\ level \in [Worker -> {"node", "graph"}]
        /\ \A w \in Worker : pc[w] \in Holding <=> holds[w] # None
    BY DEF Init, Holding
  <2> QED BY <2>1, <2>2, <2>3, <2>4, <2>5 DEF TypeOK
<1>2. FreshOrTaken /\ HoldersAlone
  BY DEF Init, FreshOrTaken, HoldersAlone, Fresh
<1>3. OneOpenTask /\ NothingElseOpen
  BY DEF Init, OneOpenTask, NothingElseOpen
<1> QED BY <1>1, <1>2, <1>3 DEF IInv

LEMMA NextPreserves == IInv /\ [Next]_vars => IInv'
<1> SUFFICES ASSUME IInv, [Next]_vars PROVE IInv' OBVIOUS
<1>0. TypeOK BY DEF IInv
<1>1. ASSUME NEW b \in Beat, BeatStep(b) PROVE IInv'
  <2>1. TypeOK' BY <1>0, <1>1, BeatKeepsTypes
  <2>2. CASE ReadOpen(b)
    BY <2>1, <2>2, ReadKeepsRows
  <2>3. CASE InsertTask(b)
    BY <2>1, <2>3, InsertKeepsRows
  <2>4. CASE BeginBeat(b) \/ Decide(b) \/ BeatEvent(b) \/ BeatFails(b)
    <3>1. UNCHANGED <<cast, rowVars, runs, pc, holds, raced>>
      BY <2>4 DEF BeginBeat, Decide, BeatEvent, BeatFails, workerVars
    <3>2. \A c \in Beat : beatPc'[c] = "insert" => beatPc[c] = "insert" /\ Key(c)' = Key(c)
      <4>1. CASE NextAgent(b) \/ EndBeat(b) \/ BeatGoto(b, "task")
        BY <1>0, <3>1, <4>1, MovesAlong
      <4>2. CASE BeginBeat(b)
        <5>1. \A c \in Beat : beatPc'[c] = "insert" =>
                /\ beatPc[c] = "insert" /\ beatAt'[c] = beatAt[c] /\ beatHour'[c] = beatHour[c]
          BY <1>0, <4>2 DEF BeginBeat, TypeOK
        <5> QED BY <3>1, <5>1, SameKey
      <4> QED BY <2>4, <4>1, <4>2 DEF Decide, BeatEvent, BeatFails
    <3> QED BY <2>1, <3>1, <3>2, QuietKeepsRows
  <2> QED BY <1>1, <2>2, <2>3, <2>4 DEF BeatStep, Heartbeat
<1>2. CASE NextHour \/ UNCHANGED vars
  <2>1. TypeOK'
    BY <1>0, <1>2, BeatKeepsTypes DEF TypeOK, vars, beatVars, rowVars, workerVars
  <2>2. UNCHANGED <<cast, beatVars, rowVars, runs, pc, holds>>
    BY <1>2 DEF NextHour, vars, workerVars
  <2>3. \A b \in Beat : beatPc'[b] = beatPc[b] /\ Key(b)' = Key(b)
    BY <2>2, SameKey DEF beatVars
  <2> QED BY <2>1, <2>2, <2>3, QuietKeepsRows DEF beatVars
<1>3. ASSUME NEW w \in Worker, WorkerStep(w) PROVE IInv'
  <2>1. TypeOK' BY <1>0, <1>3, WorkerKeepsTypes
  <2>2. CASE ClaimTask(w)  BY <2>1, <2>2, ClaimKeepsRows
  <2>3. CASE StartTask(w)  BY <2>1, <2>3, StartKeepsRows
  <2>4. CASE CompleteTask(w) \/ FailTask(w)  BY <2>1, <2>4, ClosingKeepsRows
  <2>5. CASE ClaimEvent(w) \/ FinishTask(w) \/ CompleteEvent(w) \/ Report(w) \/ FailEvent(w)
             \/ GraphFault(w) \/ DbError(w) \/ Crash(w) \/ Restart(w)
    <3>1. UNCHANGED <<rowVars, runs>>
      BY <2>5 DEF ClaimEvent, FinishTask, CompleteEvent, Report, FailEvent, GraphFault, DbError, Crash, Restart
    <3>2. /\ \A v \in Worker : holds'[v] \in {holds[v], None}
          /\ \A v \in Worker : pc'[v] \in {"claimEvent", "dispatch"} =>
                                 pc[v] \in {"claimEvent", "dispatch"} /\ holds'[v] = holds[v]
      BY <1>0, <2>5 DEF ClaimEvent, FinishTask, CompleteEvent, Report, FailEvent, GraphFault, DbError,
                        Crash, Restart, Goto, Release, TypeOK
    <3> QED BY <1>3, <2>1, <3>1, <3>2, WorkersLeaveRuns, QuietKeepsRows
  <2> QED BY <1>3, <2>2, <2>3, <2>4, <2>5 DEF WorkerStep, Step
<1> QED BY <1>1, <1>2, <1>3 DEF Next, BeatStep, WorkerStep

\* The inductive invariant holds in every reachable state.
THEOREM Invariant == Spec => []IInv
BY InitEstablishes, NextPreserves, PTL DEF Spec

\* Rows, state files and processes stay typed.
THEOREM TypeCorrect == Spec => []TypeOK
<1>1. IInv => TypeOK BY DEF IInv
<1> QED BY <1>1, Invariant, PTL

\* Two workers never hold one task and no task's job starts twice.
THEOREM BudgetIsMutualExclusion == Spec => []OneWorkerPerTask
<1>1. IInv => OneWorkerPerTask BY DEF IInv, HoldersAlone, OneWorkerPerTask
<1> QED BY <1>1, Invariant, PTL

\* However many heartbeat runs overlap and whatever the workers do, an agent has
\* two open tasks only if two upserts under way at once found it free for both.
THEOREM OneTaskOpen == Spec => []OneOpenTask
<1>1. IInv => OneOpenTask BY DEF IInv
<1> QED BY <1>1, Invariant, PTL

\* A closed task is never opened again: the upsert touches absent rows, the
\* claim pending ones, and completion and failure close.
THEOREM NothingReopens == Spec => ClosedStaysClosed
<1> DEFINE Closed(s) == s \in {"succeeded", "failed"}
<1>1. ASSUME IInv, [Next]_vars, NEW t \in Task, Closed(status[t]) PROVE Closed(status'[t])
  <2>0. TypeOK BY <1>1 DEF IInv
  <2>1. ASSUME NEW w \in Worker, ClaimTask(w) PROVE Closed(status'[t])
    <3>1. PICK u \in Task : status[u] = "pending" /\ status' = [status EXCEPT ![u] = "running"]
      BY <2>1 DEF ClaimTask, Claimable
    <3> QED BY <1>1, <2>0, <3>1 DEF TypeOK
  <2>2. ASSUME NEW w \in Worker, CompleteTask(w) \/ FailTask(w) PROVE Closed(status'[t])
    <3>1. PICK s \in {"succeeded", "failed"} : status' = [status EXCEPT ![holds[w]] = s]
      BY <1>1, <2>2, Closes
    <3> QED BY <1>1, <2>0, <3>1 DEF TypeOK
  <2>3. ASSUME NEW b \in Beat, InsertTask(b) PROVE Closed(status'[t])
    <3>1. Key(b) \in Task
      BY <2>0, KeyIsTask
    <3> QED BY <1>1, <2>0, <2>3, <3>1 DEF InsertTask, TypeOK
  <2>4. \/ UNCHANGED status
        \/ \E b \in Beat : InsertTask(b)
        \/ \E w \in Worker : ClaimTask(w) \/ CompleteTask(w) \/ FailTask(w)
    BY <1>1 DEF Next, vars, Heartbeat, Step, BeginBeat, Decide, ReadOpen, BeatEvent, BeatFails, NextHour,
         ClaimEvent, StartTask, FinishTask, CompleteEvent, Report, FailEvent, GraphFault, DbError, Crash,
         Restart, rowVars
  <2> QED BY <1>1, <2>1, <2>2, <2>3, <2>4
<1>2. IInv /\ [Next]_vars =>
        [\A t \in Task : status[t] \in {"succeeded", "failed"} => status'[t] \in {"succeeded", "failed"}]_vars
  BY <1>1
<1> QED BY <1>2, Invariant, PTL DEF Spec, ClosedStaysClosed

-----------------------------------------------------------------------------
(* The heartbeat.                                                           *)

\* The heartbeat calls the quality ambiguous: gate 9 stops the chain at the latest.
LEMMA HeartbeatChainStops ==
  ASSUME NEW a \in Agent
  PROVE  DecideChannelHeadAction(HeartbeatContext(a)).decision # "act"
<1> DEFINE c == HeartbeatContext(a)
<1>1. c["quality"] = "ambiguous"
  BY DEF HeartbeatContext, Fields, Values
<1> HIDE DEF c
<1>2. EvaluateGates(c) # "clear"
  BY <1>1, ClearMeans
<1>3. Stops(DecideChannelHeadAction(c))
  BY <1>2, FullChain
<1>4. DecideChannelHeadAction(c).decision # "act"
  BY <1>3, StopShape
<1> QED
  BY <1>4 DEF c

\* In an owned lane the first authority ends in the chain; in any other one the
\* risk is restricted and there is no receipt, which the schemas refuse to act on.
LEMMA HeartbeatNeverActs ==
  ASSUME NEW a \in Agent PROVE Decision[a] # "act"
<1> DEFINE c == HeartbeatContext(a)
           r == RouteDecision(Authorities[a], c)
<1>1. Decision[a] = r.decision
  BY DEF Decision
<1>2. Authorities[a] \in Seq(Authority)
  BY TaskAssumption
<1>3. CASE Authorities[a] = <<>>
  <2>1. r = FromGates("suppress")
    BY <1>3 DEF RouteDecision
  <2> QED
    BY <1>1, <2>1 DEF FromGates, Result
<1>4. CASE a \notin Owned
  <2>1. c["risk"] = "restricted_outreach" /\ c["receipt"] = FALSE
    BY <1>4 DEF HeartbeatContext, Fields, Values
  <2>2. c["risk"] \in Restricted
    BY <2>1 DEF Restricted, RiskClass
  <2>3. Guarded(c, r)
    BY <1>2, DecisionsAreGuarded
  <2>4. ASSUME NEW actions, Acts(c, r, actions) PROVE r.decision # "act"
    BY <2>1, <2>2, <2>4 DEF Acts, Result
  <2>5. Stops(r) => r.decision # "act"
    BY StopShape
  <2> QED
    BY <1>1, <2>3, <2>4, <2>5 DEF Guarded
<1>5. CASE a \in Owned /\ Authorities[a] # <<>>
  <2>1. Authorities[a][1] \in ChainAuthority
    BY <1>5, LaneAssumption
  <2>2. r = Handle(Authorities[a][1], c)
    BY <1>5 DEF RouteDecision
  <2>3. r \in {FromGates("wait"), DecideChannelHeadAction(c)}
    BY <2>1, <2>2 DEF ChainAuthority, Handle, HandleLight
  <2> QED
    BY <1>1, <2>3, HeartbeatChainStops DEF FromGates, Result
<1> QED
  BY <1>3, <1>4, <1>5

\* No state file is ever in ACTING, the only state EVALUATING cannot follow.
NobodyActs == \A a \in Agent : machine[a] # "ACTING"

\* Whatever the roster, its lanes and its timing, and wherever a run ends, the
\* next run can move every agent on.
THEOREM HeartbeatGoesOn == Spec => []HeartbeatNeverThrows
<1>1. Init => NobodyActs
  BY DEF Init, NobodyActs
<1>2. IInv /\ NobodyActs /\ [Next]_vars => NobodyActs'
  <2> SUFFICES ASSUME IInv, NobodyActs, [Next]_vars PROVE NobodyActs'
    OBVIOUS
  <2>0. TypeOK
    BY DEF IInv
  <2>1. CASE UNCHANGED machine
    BY <2>1 DEF NobodyActs
  <2>2. ASSUME NEW b \in Beat, NEW st \in {DecisionToNextState(Decision[Current(b)]), "INITIAL"},
               machine' = [machine EXCEPT ![Current(b)] = st]
        PROVE  NobodyActs'
    <3>1. Current(b) \in Agent /\ Decision[Current(b)] # "act"
      BY <2>0, CurrentIsAgent, HeartbeatNeverActs
    <3>2. st # "ACTING"
      BY <2>2, <3>1 DEF DecisionToNextState
    <3> QED
      BY <2>0, <2>2, <3>1, <3>2 DEF NobodyActs, TypeOK
  <2>3. ASSUME NEW b \in Beat, BeatStep(b) PROVE NobodyActs'
    <3>1. \/ UNCHANGED machine
          \/ machine' = [machine EXCEPT ![Current(b)] = DecisionToNextState(Decision[Current(b)])]
          \/ machine' = [machine EXCEPT ![Current(b)] = "INITIAL"]
      BY <2>3 DEF BeatStep, BeginBeat, Heartbeat, Decide, ReadOpen, InsertTask, BeatEvent, BeatFails
    <3> QED
      BY <2>1, <2>2, <3>1
  <2>4. CASE NextHour \/ UNCHANGED vars
    BY <2>1, <2>4 DEF NextHour, vars, beatVars
  <2>5. ASSUME NEW w \in Worker, WorkerStep(w) PROVE NobodyActs'
    BY <2>1, <2>5, WorkersLeaveRuns
  <2> QED
    BY <2>3, <2>4, <2>5 DEF Next, BeatStep, WorkerStep
<1>3. IInv /\ NobodyActs => HeartbeatNeverThrows
  BY DEF IInv, TypeOK, NobodyActs, HeartbeatNeverThrows, CanEvaluate, Transitions, States
<1> QED
  BY <1>1, <1>2, <1>3, Invariant, PTL DEF Spec
=============================================================================
