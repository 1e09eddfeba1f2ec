-------------------------- MODULE MCChannelRouting --------------------------
(* The router on the contexts with at most two fields away from all-clear,  *)
(* under every risk class.                                                  *)
EXTENDS ChannelRouting, FiniteSets

\* Sets of switches, cooldowns and missing parts are taken one at a time.
FewValues ==
  [ f \in Fields |-> IF f \in {"kill", "cooldown", "boundary", "lacks"}
                     THEN { v \in Values[f] : Cardinality(v) <= 1 } ELSE Values[f] ]

AllClear ==
  [ f \in Fields |->
      CASE f = "target"    -> "publish_owned_public"
        [] f = "risk"      -> "safe_owned_public"
        [] f = "gate"      -> "NONE"
        [] f = "receipt"   -> FALSE
        [] f = "payload"   -> TRUE
        [] f = "lease"     -> "active"
        [] f = "workplane" -> "OK"
        [] f = "score"     -> "high"
        [] f \in {"verify", "media", "originality", "quality"} -> "pass"
        [] OTHER           -> {} ]

Near ==
  UNION { { [AllClear EXCEPT !["risk"] = r, ![f] = v, ![g] = w] :
              r \in RiskClass, v \in FewValues[f], w \in FewValues[g] }
          : f \in Fields, g \in Fields }

\* The lists of action-authority.ts that begin differently, and the handlers
\* no class puts first.
Lists ==
  { <<>>,
    <<"read_only_observe", "internal_enqueue">>,
    <<"draft_artifact", "owned_public_publish">>,
    <<"internal_state_mutation">>,
    <<"hard_gate">>,
    <<"internal_enqueue">>,
    <<"owned_public_publish">>,
    <<"gated_external_send">> }
=============================================================================
