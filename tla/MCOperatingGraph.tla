-------------------------- MODULE MCOperatingGraph --------------------------
(* The two chained nodes of the owned posts, a live node that asks for an   *)
(* approval, and a node of bounded writes, on inputs with at most two       *)
(* fields away from one that is sent at once.  Only posts can lack media.    *)
EXTENDS OperatingGraph

CONSTANTS X, LinkedIn, Whop, PostHog

Nodes == {X, LinkedIn, Whop, PostHog}
Live == <<Whop, X, LinkedIn>>
Bounded == <<PostHog>>
Posts == {X, LinkedIn}
Copies == {Whop}
Approvals == {Whop, PostHog}

Ready ==
  [ context |-> "own", request |-> "whole", valid |-> TRUE, hash |-> TRUE, canonical |-> "none",
    media |-> "free", approval |-> TRUE, response |-> "none", receipt |-> FALSE ]

Packaged == [Ready EXCEPT !.canonical = "approved"]

Illustrated == [Ready EXCEPT !.media = "local", !.canonical = "approved"]

Values ==
  [ context   |-> {"own", "foreign", "other", "invalid", "none"},
    request   |-> {"whole", "split", "empty", "toolless"},
    valid     |-> BOOLEAN, hash |-> BOOLEAN,
    canonical |-> {"none", "approved", "blocked"},
    media     |-> {"free", "attached", "available", "local", "absent"},
    approval  |-> BOOLEAN,
    response  |-> {"none", "object", "bare", "failed"},
    receipt   |-> BOOLEAN ]

Near(base) ==
  UNION { { [base EXCEPT ![f] = v, ![g] = w] : v \in Values[f], w \in Values[g] }
          : f \in DOMAIN Values, g \in DOMAIN Values }

\* Near inputs of one node, beside an ordinary one of each node that may follow.
Given ==
  LET none == [n \in Nodes |-> NoInput]
  IN  { [none EXCEPT ![n] = i, ![LinkedIn] = j] : n \in {Whop, PostHog},
          i \in { r \in Near(Ready) \cup Near(Packaged) : r.media \in {"free", "attached"} },
          j \in {NoInput, Ready} }
      \cup { [none EXCEPT ![X] = i, ![LinkedIn] = j] :
          i \in Near(Ready) \cup Near(Illustrated), j \in {NoInput, Ready} }
      \cup { [none EXCEPT ![X] = j, ![LinkedIn] = i] :
          i \in Near(Illustrated), j \in {NoInput, Ready, Illustrated} }
      \cup {none}

Configs ==
  { c \in [mode : Mode, dryRun : BOOLEAN, approval : BOOLEAN] :
      c.mode \in {"dry_run", "draft_only"} => c.dryRun }
=============================================================================
