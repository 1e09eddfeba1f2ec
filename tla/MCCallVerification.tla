------------------------- MODULE MCCallVerification -------------------------
(* Three calls and two runners: a worker, the quality gate, two promotions. *)
EXTENDS CallVerification

CONSTANTS c1, c2, c3, worker, gate, p1, p2

MCCasts == {{worker, gate}, {worker, p1}, {p1, p2}}

MCModel == [r \in {worker, gate} |-> IF r = gate THEN "other" ELSE "default"]

\* Promotions among themselves find the calls approved, the others find nothing.
MCInit ==
  /\ Init
  /\ \A c \in First : verdict[c] = [m \in Models |-> IF cast = {p1, p2} /\ m = "default"
                                                   THEN "approve" ELSE None]
MCSpec == MCInit /\ [][Next]_vars /\ Fairness
=============================================================================
