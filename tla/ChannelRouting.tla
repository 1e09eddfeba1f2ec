--------------------------- MODULE ChannelRouting ---------------------------
(***************************************************************************)
(* The router applied to every context and agent: routeDecision as one      *)
(* step, and what the decisions promise whatever the context is.            *)
(***************************************************************************)
EXTENDS ChannelDecision, Sequences

CONSTANTS
  Context,       \* the contexts considered, functions from Fields
  AgentLists    \* the authority lists of the agent classes

ASSUME RoutingAssumption ==
  /\ \A c \in Context : DOMAIN c = Fields /\ \A f \in Fields : c[f] \in Values[f]
  /\ AgentLists \subseteq Seq(Authority)

VARIABLES context, agent, outcome

routeVars == <<context, agent, outcome>>

NoOutcome == Result("undecided", "none")

RouteInit ==
  /\ context \in Context
  /\ agent \in AgentLists
  /\ outcome = NoOutcome

Route ==
  /\ outcome = NoOutcome
  /\ outcome' = RouteDecision(agent, context)
  /\ UNCHANGED <<context, agent>>

RouteSpec == RouteInit /\ [][Route]_routeVars

-----------------------------------------------------------------------------
DecisionKind == {"undecided", "throws", "act", "wait", "suppress", "request_gate", "escalate_non_founder_review"}
ActionKind   == {"none", "draft", "create_approval_packet", "create_non_founder_review_item"}
              \cup Values["target"]

RouteTypeOK ==
  /\ \A f \in Fields : context[f] \in Values[f]
  /\ agent \in AgentLists
  /\ outcome \in [decision : DecisionKind, action : ActionKind]

Publishes == outcome.action = "publish_owned_public"

\* A publication is proposed only when none of the nine gates of the chain
\* objects: no handler, of which some run a part of the gates or others before
\* the chain, opens a way around it (decision-handlers/*.ts against
\* decision-gates.ts).  One line per gate, in the order of the chain, with what
\* the gate objects to: gate 3 to a BLOCKED workplane only, gate 7 to media and
\* originality that are missing or failed, gate 8 to a quality that failed.  A
\* workplane of status WARN or UNKNOWN therefore passes, although the contract
\* of the heartbeat lists "Workplane status is `OK`" among its preflights
\* (docs/ops/callscore-full-autonomy-heartbeat-contract.md:127).
PublicationIsFullyGated ==
  Publishes =>
    /\ context["kill"] = {} /\ context["lease"] = "active"
    /\ context["verify"] = "pass"
    /\ context["cooldown"] = {} /\ context["workplane"] # "BLOCKED"
    /\ context["risk"] = "safe_owned_public" /\ context["gate"] = "NONE"
    /\ context["boundary"] = {}
    /\ context["lacks"] = {}
    /\ {context["media"], context["originality"]} \cap {"missing", "fail"} = {}
    /\ context["quality"] # "fail" /\ context["score"] # "low"
    /\ context["quality"] # "ambiguous" /\ context["score"] = "high"

\* A kill switch, a pause or a heartbeat that is missing, stale or without a
\* live lease stops every agent that has an authority, although the observer
\* ignores the pause and both light handlers ignore the lease in their own
\* gates ("Missing heartbeat before dispatch blocks external mutation",
\* docs/ops/callscore-full-autonomy-heartbeat-contract.md:111).
StoppedAgentsWait ==
  outcome # NoOutcome /\ agent # <<>> /\ (context["kill"] # {} \/ context["lease"] # "active")
    => outcome = FromGates("wait")

\* An act under a risk that is not the safe one prepares something internal at
\* most, and under a restricted risk it holds a gate receipt, although each
\* handler has its own idea of when the receipt is asked for.
RestrictedRiskStaysGated ==
  outcome.decision = "act" /\ context["risk"] # "safe_owned_public" =>
    /\ outcome.action \in {"draft", "create_approval_packet"}
    /\ context["risk"] \in Restricted => context["receipt"]
=============================================================================
