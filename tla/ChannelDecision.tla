-------------------------- MODULE ChannelDecision --------------------------
(***************************************************************************)
(* The decision kernel of the channel heads (src/lib/autonomy): a context   *)
(* goes through the router, which hands it to the handler of the agent's    *)
(* first authority; the handler runs gates of its own and most handlers     *)
(* then the full gate chain.  The kernel is a pure function; the one step   *)
(* of this module evaluates it.  Reason codes, hashes, deadlines and scores *)
(* of the decision are left out: no later code branches on them.            *)
(*                                                                          *)
(* A context is a function from Fields.  The fields kill, cooldown,         *)
(* boundary and lacks hold the sets of switches, cooldowns, boundary        *)
(* conditions and evidence parts that are on or missing.                    *)
(***************************************************************************)
EXTENDS Naturals

Authority == {"read_only_observe", "internal_enqueue", "draft_artifact",
              "internal_state_mutation", "owned_public_publish",
              "gated_external_send", "hard_gate"}

RiskClass == {"safe_owned_public", "public_claim_risk", "restricted_outreach",
              "restricted_provider", "restricted_financial",
              "restricted_credentials", "restricted_db_deploy"}

Boundary == {"registry_not_ready", "not_owned_or_managed", "non_zero_spend",
             "action_not_allowed", "action_forbidden", "policy_disallows"}

\* Parts of the evidence that can be missing, and caps that can be used up.
Missing == {"level", "hash", "sources", "claim_bearing", "claims_supported",
            "channel_cap", "total_cap"}

\* The values of each field; score is the quality score's band: below 0.5,
\* below the policy's review threshold, or above both.
Values ==
  [ target      |-> {"publish_owned_public", "monitor_read_only"},
    risk        |-> RiskClass,
    gate        |-> {"NONE", "SEND_GATE"},
    receipt     |-> BOOLEAN,
    kill        |-> SUBSET {"global", "channel", "paused"},
    lease       |-> {"active", "missing", "stale", "no_lease", "expired"},
    verify      |-> {"pass", "fail", "unknown", "unchecked"},
    cooldown    |-> SUBSET {"channel", "provider_error", "duplicate_payload"},
    workplane   |-> {"OK", "WARN", "BLOCKED", "UNKNOWN"},
    boundary    |-> SUBSET Boundary,
    lacks       |-> SUBSET Missing,
    payload     |-> BOOLEAN,
    media       |-> {"pass", "fail", "missing", "unknown"},
    originality |-> {"pass", "fail", "missing", "unknown"},
    quality     |-> {"pass", "fail", "ambiguous", "unknown"},
    score       |-> {"low", "review", "high"} ]

Fields == DOMAIN Values

-----------------------------------------------------------------------------
(* The gates of decision-gates.ts: "clear" or the decision of the gate.     *)

\* Mutant of CheckKillSwitchAndHeartbeat: the lease may have run out.
CheckKillSwitchLeaseIgnored(c) ==
  IF c["kill"] # {} \/ c["lease"] \in {"missing", "stale", "no_lease"} THEN "wait" ELSE "clear"

\* Gate 1.
CheckKillSwitchAndHeartbeat(c) ==
  IF c["kill"] # {} \/ c["lease"] # "active" THEN "wait" ELSE "clear"

\* Gate 2.
CheckPublicVerify(c) ==
  IF c["verify"] # "pass" THEN "suppress" ELSE "clear"

\* Gate 3.
CheckCooldownAndWorkplane(c) ==
  IF c["cooldown"] # {} \/ c["workplane"] = "BLOCKED" THEN "wait" ELSE "clear"

\* Gate 4, with classifyChannelHeadRisk: any class but the safe one names a
\* gate, and so may the registry.
CheckRiskClass(c) ==
  IF c["risk"] # "safe_owned_public" \/ c["gate"] # "NONE" THEN "request_gate" ELSE "clear"

\* Gate 5.
CheckOwnedPublicBoundaries(c) ==
  IF c["target"] = "publish_owned_public" /\ c["boundary"] # {} THEN "suppress" ELSE "clear"

\* Gate 6.
CheckEvidenceAndCaps(c) ==
  IF c["lacks"] # {} THEN "suppress" ELSE "clear"

\* Mutant of CheckMediaAndOriginality: the originality is not looked at.
CheckMediaOnly(c) ==
  IF c["media"] \in {"missing", "fail"} THEN "suppress" ELSE "clear"

\* Gate 7: a status that is neither missing nor failed goes through.
CheckMediaAndOriginality(c) ==
  IF {c["media"], c["originality"]} \cap {"missing", "fail"} # {} THEN "suppress" ELSE "clear"

\* Gate 8.
CheckQualityThreshold(c) ==
  IF c["quality"] = "fail" \/ c["score"] = "low" THEN "suppress" ELSE "clear"

\* Gate 9.
CheckReviewThreshold(c) ==
  IF c["quality"] = "ambiguous" \/ c["score"] # "high"
  THEN "escalate_non_founder_review" ELSE "clear"

\* The full chain: the first gate that triggers decides.
EvaluateGates(c) ==
  LET gates == << CheckKillSwitchAndHeartbeat(c), CheckPublicVerify(c),
                  CheckCooldownAndWorkplane(c), CheckRiskClass(c),
                  CheckOwnedPublicBoundaries(c), CheckEvidenceAndCaps(c),
                  CheckMediaAndOriginality(c), CheckQualityThreshold(c),
                  CheckReviewThreshold(c) >>
      triggered == { i \in 1 .. 9 : gates[i] # "clear" }
  IN  IF triggered = {} THEN "clear"
      ELSE gates[CHOOSE i \in triggered : \A k \in triggered : i <= k]

-----------------------------------------------------------------------------
(* Handlers and the router.                                                 *)

Result(d, a) == [decision |-> d, action |-> a]

\* makeDecisionFromGates: a triggered gate proposes nothing but a review item.
FromGates(d) ==
  Result(d, IF d = "escalate_non_founder_review" THEN "create_non_founder_review_item" ELSE "none")

Restricted == RiskClass \ {"safe_owned_public", "public_claim_risk"}

\* The schemas of contracts.ts reject an act under a restricted risk without a
\* gate receipt: parse throws and there is no decision.
Act(c, a) ==
  IF c["risk"] \in Restricted /\ ~c["receipt"] THEN Result("throws", "none") ELSE Result("act", a)

\* decideChannelHeadAction: the full chain, then the target action itself.
DecideChannelHeadAction(c) ==
  LET d == EvaluateGates(c)
  IN  IF d = "clear" THEN Act(c, c["target"]) ELSE FromGates(d)

\* The gates observers and drafters run first; only drafters look at the pause.
CheckLightGates(c, switches) ==
  IF \/ c["kill"] \cap switches # {}
     \/ c["lease"] \in {"missing", "stale"}
     \/ c["workplane"] = "BLOCKED"
  THEN "wait" ELSE "clear"

HandleLight(c, switches) ==
  IF CheckLightGates(c, switches) # "clear" THEN FromGates("wait") ELSE DecideChannelHeadAction(c)

HandleInternalEnqueue(c) ==
  IF CheckKillSwitchAndHeartbeat(c) # "clear" \/ c["workplane"] = "BLOCKED"
  THEN FromGates("wait") ELSE Act(c, "draft")

HandleInternalStateMutation(c) ==
  IF CheckKillSwitchAndHeartbeat(c) # "clear" \/ c["workplane"] = "BLOCKED"
  THEN FromGates("wait")
  ELSE IF c["risk"] \in Restricted /\ ~c["receipt"] THEN FromGates("request_gate")
  ELSE IF "hash" \in c["lacks"] /\ ~c["payload"] THEN FromGates("suppress")
  ELSE Act(c, "draft")

\* Neither a duplicate payload nor the public verification is looked at.
HandleGatedExternalSend(c) ==
  IF \/ CheckKillSwitchAndHeartbeat(c) # "clear"
     \/ c["workplane"] = "BLOCKED"
     \/ c["cooldown"] \cap {"channel", "provider_error"} # {}
  THEN FromGates("wait")
  ELSE IF \/ c["gate"] # "NONE" /\ ~c["receipt"]
          \/ c["risk"] = "restricted_outreach" /\ c["lacks"] \cap {"hash", "level"} # {}
  THEN FromGates("request_gate")
  ELSE IF "hash" \in c["lacks"] THEN FromGates("suppress")
  ELSE Act(c, "create_approval_packet")

Handle(a, c) ==
  CASE a \in {"owned_public_publish", "hard_gate"} -> DecideChannelHeadAction(c)
    [] a = "read_only_observe"       -> HandleLight(c, {"global", "channel"})
    [] a = "draft_artifact"          -> HandleLight(c, {"global", "channel", "paused"})
    [] a = "internal_enqueue"        -> HandleInternalEnqueue(c)
    [] a = "internal_state_mutation" -> HandleInternalStateMutation(c)
    [] a = "gated_external_send"     -> HandleGatedExternalSend(c)

\* routeDecision: the first authority decides, every authority has a handler,
\* and an agent without authorities is suppressed.
RouteDecision(authorities, c) ==
  IF authorities = <<>> THEN FromGates("suppress") ELSE Handle(authorities[1], c)
=============================================================================
