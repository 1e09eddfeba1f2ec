--------------------------- MODULE MCChannelTasks ---------------------------
(* Small instances of the channel task queue. *)
EXTENDS ChannelTasksProps

CONSTANTS a1, a2, b1, b2, b3, w1, w2

\* An owned lane whose head drafts before it publishes, and a scorer whose
\* lane is not in the registry.
Targets == [a \in Agent |-> IF a = a1 THEN "publish_owned_public" ELSE "monitor_read_only"]
Lists   == [a \in Agent |-> IF a = a1 THEN <<"draft_artifact", "owned_public_publish">>
                            ELSE <<"internal_state_mutation">>]

\* A run and a dry one over both agents, beside two workers; three runs over
\* both, without a worker; two and three runs over one agent, beside two workers
\* and one.
MCCasts ==
  { [roster |-> <<a1, a2>>, beats |-> {b1, b2}, dry |-> {b2}, workers |-> {w1, w2}],
    [roster |-> <<a1, a2>>, beats |-> {b1, b2, b3}, dry |-> {}, workers |-> {}],
    [roster |-> <<a1>>, beats |-> {b1, b2}, dry |-> {}, workers |-> {w1, w2}],
    [roster |-> <<a1>>, beats |-> {b1, b2, b3}, dry |-> {}, workers |-> {w1}] }
=============================================================================
