--------------------------- MODULE MCDataPipeline ---------------------------
(* Two videos of one creator, and up to two runs beside each other. *)
EXTENDS DataPipeline

CONSTANTS loop, orphan, dry, extract, promote, daily

MCCreatorOf == [v \in {1, 2} |-> "one"]

Run0 == [write |-> TRUE, dir |-> "audit", reviewed |-> {}, allowed |-> {}, skip |-> {}]
Some == {"new_calls", "removed_calls"}

\* Cycles of the loop; a first run by hand whose promotion is left to a second,
\* which works in the same directory and extracts again or not.
MCArgs == [r \in {loop, orphan, dry, extract, promote, daily} |->
  CASE r = loop -> {[Run0 EXCEPT !.dir = "cycle"]}
    [] r = orphan -> {[Run0 EXCEPT !.dir = "orphan", !.reviewed = {2}, !.allowed = Some]}
    [] r = dry -> {[Run0 EXCEPT !.write = FALSE]}
    [] r = extract -> {[Run0 EXCEPT !.skip = {"shadow-promote"}]}
    [] r = promote -> {[Run0 EXCEPT !.reviewed = {2}, !.allowed = Some, !.skip = s] :
                         s \in {{}, {"shadow-extract", "shadow-diff"}}}
    [] r = daily -> {[Run0 EXCEPT !.dir = "daily"]}]

MCLimit == [s \in {"listing", "transcripts", "extract", "shadow"} |->
              IF s = "listing" THEN 2 ELSE 1]

MCCasts == {{loop}, {daily}, {dry}, {extract, promote}, {daily, promote}, {loop, orphan}}

\* A run alone starts with nothing; two start when both videos have transcripts,
\* the older one is extracted, and nothing fails any more.
MCInit ==
  /\ Init
  /\ IF Cardinality(cast) = 1
     THEN published = 1 /\ known = {}
     ELSE /\ captioned = Video /\ bad = {} /\ trouble = MaxTrouble
          /\ transcript = <<MaxVersion, 1>> /\ poor = {} /\ extracted = {1} /\ calls[1].content = Empty
MCSpec == MCInit /\ [][Next]_vars /\ Fairness
=============================================================================
