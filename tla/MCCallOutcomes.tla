--------------------------- MODULE MCCallOutcomes ---------------------------
(* Two calls of one video, on a coin that may lack candles and one that does *)
(* not, and the processes of the pipeline, the worker and an operator.       *)
EXTENDS CallOutcomes

CONSTANTS script, daily, worker, setBased, repair, audit, scores, weekly

MCSymbol == [c \in {1, 2} |-> IF c = 1 THEN "A" ELSE "B"]

\* The exchange has every candle, a later one only for one key, or none for a coin.
Everywhere == [k \in {"A", "B", "BTC"} \X {"call", "30d", "90d"} |-> "before"]
MCMarkets == {
  [Everywhere EXCEPT ![<<"B", "30d">>] = "after"],
  [Everywhere EXCEPT ![<<"A", "call">>] = "none", ![<<"A", "30d">>] = "none", ![<<"A", "90d">>] = "none"],
  [Everywhere EXCEPT ![<<"A", "call">>] = "after", ![<<"A", "30d">>] = "after", ![<<"BTC", "30d">>] = "none"]}

MCLimit == [p \in {script, daily, worker, setBased, repair, audit, scores, weekly} |->
              IF p = script THEN 1 ELSE 2]

MCPeriods == <<"all_time", "30d">>

MCCasts == {{script, worker}, {script, setBased}, {script, daily}, {script, repair},
            {audit, scores}, {scores, weekly}, {script, audit}, {script, scores}}

\* What a cast does not read starts with one value; with a recomputation, rows
\* start grown.
MCInit ==
  /\ Init
  /\ cast \cap Auditor = {} => verdict = [c \in Call |-> "REJECT"]
  /\ cast \cap Recompute = {} => confident = Call
  /\ cast \subseteq Recompute => age = 2
  /\ cast \cap Recompute # {} => market[<<"A", "30d">>] # "none"
  /\ worker \in cast => market[<<"B", "30d">>] = "after"
  /\ cast = {script, scores} => confident = Call
  /\ trouble = IF worker \in cast \/ cast = {script, scores} THEN MaxTrouble ELSE 0
  /\ cast \cap Auditor # {} => age = 2 /\ \A c \in confident : verdict[c] = "REJECT"
MCSpec == MCInit /\ [][Next]_vars /\ Fairness
=============================================================================
