-------------------------- MODULE CallVerification --------------------------
(***************************************************************************)
(* The verifier of extracted calls (src/lib/ml-verifier.ts) and the gated   *)
(* promotion of what it approves (src/lib/ml-promotion.ts), run as jobs of   *)
(* the pipeline queue by Hermes workers, the verifier also by the quality    *)
(* gate script, beside extractions that replace the calls of a video and     *)
(* audits that write their confidence.                                       *)
(*                                                                         *)
(* Leases, resets and retries of the jobs themselves are PipelineQueue;     *)
(* here a runner takes a job up at any time, two may have the same one.     *)
(***************************************************************************)
EXTENDS Naturals, Sequences, FiniteSets

CONSTANTS
  Call,         \* ids, never used twice
  None,         \* no verdict, no answer
  First,        \* calls of low confidence to begin with
  ScoreReady,   \* calls that would be scored but for their confidence
  Ambiguous,    \* calls of an ambiguous ticker
  Recent,       \* calls of the last 180 days
  Quoted,       \* calls whose quote is found in the transcript
  Sound,        \* calls an audit finds sound
  Verifier,     \* runners of verifier batches
  Gate,         \* ... which are the quality gate
  Model,        \* Model[r]: provider and model a runner of batches is given
  Promoter,     \* runners of promotion jobs
  Casts,        \* which runners take part together
  BatchSize,    \* batch_size
  Limit,        \* limit of a promotion
  Tries,        \* maxAttempts of retryWithBackoff
  MaxAudits,    \* bound: rows of ml_promotion_audit
  MaxTrouble    \* bound: crashes, rejected statements and lost replies

Runner == Verifier \cup Promoter
Models == {Model[r] : r \in Verifier}

ASSUME VerificationAssumption ==
  /\ IsFiniteSet(Call) /\ First \subseteq Call /\ IsFiniteSet(Promoter)
  /\ \A c \in Casts : c \subseteq Runner
  /\ Gate \subseteq Verifier /\ Verifier \cap Promoter = {}
  /\ {BatchSize, Limit, Tries} \subseteq Nat \ {0} /\ {MaxAudits, MaxTrouble} \subseteq Nat

VARIABLES
  cast,     \* the runners that take part
  state,    \* state[c]: absent, live or gone (deleted with its video's calls)
  ready,    \* calls whose extraction_confidence reaches the threshold
  verdict,  \* verdict[c][m]: the row of ml_verification_runs, if any
  pc,       \* the statement each runner is at, "idle" between jobs
  tries,    \* which attempt of retryWithBackoff it is in
  todo,     \* the candidates it selected and has not dealt with
  answer,   \* the verifier's answer about one of them
  mode,     \* of a promotion: "write", "blocked" by its gates, or "dry"
  mine,     \* its row of the audit
  audit,    \* ml_promotion_audit
  raises,   \* history: how often a promotion took the call over the threshold
  trouble   \* how much has gone wrong

callVars == <<state, ready, verdict>>
jobVars  == <<pc, tries, todo, answer, mode, mine>>
vars     == <<cast, callVars, jobVars, audit, raises, trouble>>

Live == {c \in Call : state[c] = "live"}
Answers == {"approve", "review", "failed"}
AuditRow == [status : {"running", "blocked", "dry_run", "succeeded", "failed"}, ids : SUBSET Call]

TypeOK ==
  /\ cast \in Casts
  /\ state \in [Call -> {"absent", "live", "gone"}]
  /\ ready \subseteq Call
  /\ verdict \in [Call -> [Models -> {None, "approve", "review"}]]
  /\ pc \in [Runner -> {"idle", "select", "think", "insert", "audit", "promote", "record",
                        "fail", "block", "event"}]
  /\ tries \in [Runner -> 1..Tries]
  /\ todo \in [Runner -> SUBSET Call]
  /\ answer \in [Runner -> {None} \cup (Call \X Answers)]
  /\ mode \in [Runner -> {"write", "blocked", "dry"}]
  /\ mine \in [Runner -> 0..MaxAudits]
  /\ audit \in Seq(AuditRow) /\ Len(audit) <= MaxAudits
  /\ raises \in [Call -> 0..MaxAudits]
  /\ trouble \in 0..MaxTrouble

Init ==
  /\ cast \in Casts
  /\ state = [c \in Call |-> IF c \in First THEN "live" ELSE "absent"]
  /\ ready = {}
  /\ verdict \in [Call -> [Models -> {None, "approve", "review"}]]
  /\ \A c \in Call \ First, m \in Models : verdict[c][m] = None
  /\ pc = [r \in Runner |-> "idle"]
  /\ tries = [r \in Runner |-> 1]
  /\ todo = [r \in Runner |-> {}]
  /\ answer = [r \in Runner |-> None]
  /\ mode = [r \in Runner |-> "write"]
  /\ mine = [r \in Runner |-> 0]
  /\ audit = <<>>
  /\ raises = [c \in Call |-> 0]
  /\ trouble = 0

Goto(r, p) == pc' = [pc EXCEPT ![r] = p] /\ UNCHANGED <<tries, todo, answer, mode, mine>>

\* A handler is at its end or its beginning.
Leave(r, p, n, md) ==
  /\ pc' = [pc EXCEPT ![r] = p]
  /\ tries' = [tries EXCEPT ![r] = n]
  /\ todo' = [todo EXCEPT ![r] = {}]
  /\ answer' = [answer EXCEPT ![r] = None]
  /\ mode' = [mode EXCEPT ![r] = md]
  /\ mine' = [mine EXCEPT ![r] = 0]
End(r) == Leave(r, "idle", 1, "write")

\* executeJob runs a handler that throws again from its beginning; the quality
\* gate does not, its process ends.
Throw(r) ==
  IF r \in Gate \/ tries[r] = Tries
  THEN End(r)
  ELSE Leave(r, "select", tries[r] + 1, mode[r])

-----------------------------------------------------------------------------
(* The calls.                                                               *)

\* Extraction replaces a call of a video or finds one in a new video; its
\* verdicts go with it.
ReplaceCall ==
  \E d \in {c \in Call : state[c] = "absent"}, old \in SUBSET Live :
    /\ Cardinality(old) <= 1
    /\ state' = [c \in Call |-> CASE c \in old -> "gone" [] c = d -> "live" [] OTHER -> state[c]]
    /\ verdict' = [c \in Call |-> IF c \in old THEN [m \in Models |-> None] ELSE verdict[c]]
    /\ \E high \in BOOLEAN : ready' = (ready \ old) \cup (IF high THEN {d} ELSE {})
    /\ UNCHANGED <<cast, jobVars, audit, raises, trouble>>

\* audit-recompute writes the confidence its rules give, whatever it was.
AuditCall ==
  \E c \in Live :
    /\ ready' = IF c \in Sound THEN ready \cup {c} ELSE ready \ {c}
    /\ UNCHANGED <<cast, state, verdict, jobVars, audit, raises, trouble>>

-----------------------------------------------------------------------------
(* A batch of the verifier.                                                 *)

\* candidate_priority, 4 for no candidate.
Bucket(c) == CASE c \in ScoreReady \ ready -> 1
               [] c \in Ambiguous          -> 2
               [] c \in Recent \ ready     -> 3
               [] OTHER                    -> 4

Unverified(c) == \A m \in Models : verdict[c][m] = None
Candidates == {c \in Live : Bucket(c) < 4 /\ Unverified(c)}

StartBatch(r) ==
  /\ pc[r] = "idle"
  /\ Goto(r, "select")
  /\ UNCHANGED <<cast, callVars, audit, raises, trouble>>

\* The first candidates by bucket; the order within a bucket is left open.
SelectBatch(r) ==
  /\ pc[r] = "select" /\ r \in Verifier
  /\ \E s \in SUBSET Candidates :
       /\ Cardinality(s) = BatchSize \/ (Cardinality(s) < BatchSize /\ s = Candidates)
       /\ \A c \in s, d \in Candidates \ s : Bucket(c) <= Bucket(d)
       /\ todo' = [todo EXCEPT ![r] = s]
       /\ pc' = [pc EXCEPT ![r] = IF s = {} THEN "event" ELSE "think"]
  /\ UNCHANGED <<cast, callVars, tries, answer, mode, mine, audit, raises, trouble>>

\* deterministicPreCheck: the quote is too short or not in the transcript.
SkipsModel(c) == c \notin Quoted

\* The next candidate: a review without asking, or the model is asked, which
\* approves, does not, or fails for good (after its own retries).
Think(r) ==
  /\ pc[r] = "think"
  /\ \E c \in todo[r], a \in Answers :
       /\ SkipsModel(c) => a = "review"
       /\ answer' = [answer EXCEPT ![r] = <<c, a>>]
       /\ todo' = [todo EXCEPT ![r] = @ \ {c}]
  /\ pc' = [pc EXCEPT ![r] = "insert"]
  /\ UNCHANGED <<cast, callVars, tries, mode, mine, audit, raises, trouble>>

\* Mutant of Stored: what the model failed on is skipped.
StoredUnlessFailed(a) == IF a = "failed" THEN None ELSE a

\* A failure of the model is stored as a review.
Stored(a) == IF a = "failed" THEN "review" ELSE a

\* insertVerificationRun, an upsert. The row of a call that is gone violates its
\* foreign key: the batch is thrown back.
InsertVerdict(r) ==
  LET c == answer[r][1]
  IN  /\ pc[r] = "insert"
      /\ IF state[c] = "live"
         THEN /\ verdict' = [verdict EXCEPT ![c][Model[r]] = Stored(answer[r][2])]
              /\ answer' = [answer EXCEPT ![r] = None]
              /\ pc' = [pc EXCEPT ![r] = IF todo[r] = {} THEN "event" ELSE "think"]
              /\ UNCHANGED <<tries, todo, mode, mine>>
         ELSE UNCHANGED verdict /\ Throw(r)
      /\ UNCHANGED <<cast, state, ready, audit, raises, trouble>>

-----------------------------------------------------------------------------
(* A promotion.                                                             *)

\* A call's latest approving row, whatever other models say of it.
Approved(c) == \E m \in Models : verdict[c][m] = "approve"
Promotable == {c \in Live \ ready : Approved(c)}

StartPromotion(r) ==
  /\ pc[r] = "idle" /\ Len(audit) < MaxAudits
  /\ \E md \in {"write", "blocked", "dry"} : mode' = [mode EXCEPT ![r] = md]
  /\ pc' = [pc EXCEPT ![r] = "select"]
  /\ UNCHANGED <<cast, callVars, tries, todo, answer, mine, audit, raises, trouble>>

SelectPromotable(r) ==
  /\ pc[r] = "select" /\ r \in Promoter
  /\ \E s \in SUBSET Promotable :
       /\ Cardinality(s) = Limit \/ (Cardinality(s) < Limit /\ s = Promotable)
       /\ todo' = [todo EXCEPT ![r] = s]
  /\ pc' = [pc EXCEPT ![r] = "audit"]
  /\ UNCHANGED <<cast, callVars, tries, answer, mode, mine, audit, raises, trouble>>

\* insertAuditStart; a blocked promotion then updates its row, and throws.
InsertAudit(r) ==
  /\ pc[r] = "audit" /\ Len(audit) < MaxAudits
  /\ audit' = Append(audit, [status |-> CASE mode[r] = "write" -> "running"
                                          [] mode[r] = "blocked" -> "blocked"
                                          [] mode[r] = "dry" -> "dry_run", ids |-> {}])
  /\ mine' = [mine EXCEPT ![r] = Len(audit) + 1]
  /\ pc' = [pc EXCEPT ![r] = CASE mode[r] = "write" -> "promote"
                                [] mode[r] = "blocked" -> "block"
                                [] mode[r] = "dry" -> "event"]
  /\ UNCHANGED <<cast, callVars, tries, todo, answer, mode, raises, trouble>>

\* updateAudit and the event of a blocked promotion.
Blocked(r) ==
  /\ pc[r] = "block"
  /\ Throw(r)
  /\ UNCHANGED <<cast, callVars, audit, raises, trouble>>

\* Mutant of Raised: the UPDATE does not look at the confidence.
RaisedAgain(r) == {c \in todo[r] \cap Live : Approved(c)}

\* The calls the UPDATE of promoteCandidates finds.
Raised(r) == {c \in todo[r] \cap Live : Approved(c) /\ c \notin ready}

\* promoteCandidates; the calls it returns are kept in todo.
Promote(r) ==
  /\ pc[r] = "promote"
  /\ ready' = ready \cup Raised(r)
  /\ raises' = [c \in Call |-> IF c \in Raised(r) \ ready THEN raises[c] + 1 ELSE raises[c]]
  /\ todo' = [todo EXCEPT ![r] = Raised(r)]
  /\ pc' = [pc EXCEPT ![r] = "record"]
  /\ UNCHANGED <<cast, state, verdict, tries, answer, mode, mine, audit, trouble>>

\* updateAudit: all of the row's outcome is written anew.
UpdateAudit(r, status, ids) ==
  audit' = [audit EXCEPT ![mine[r]] = [status |-> status, ids |-> ids]]

RecordPromotion(r) ==
  /\ pc[r] = "record"
  /\ UpdateAudit(r, "succeeded", todo[r])
  /\ Goto(r, "event")
  /\ UNCHANGED <<cast, callVars, raises, trouble>>

\* The catch of runMlPromotionJob, whose row lists no calls.
FailPromotion(r) ==
  /\ pc[r] = "fail"
  /\ UpdateAudit(r, "failed", {})
  /\ Throw(r)
  /\ UNCHANGED <<cast, callVars, raises, trouble>>

\* The last event of a batch or a promotion is written.
Finish(r) ==
  /\ pc[r] = "event"
  /\ End(r)
  /\ UNCHANGED <<cast, callVars, audit, raises, trouble>>

-----------------------------------------------------------------------------
(* What goes wrong.                                                         *)

Trouble == trouble < MaxTrouble /\ trouble' = trouble + 1

\* A statement rejects: that of a promotion which writes is caught.
Reject(r) ==
  /\ Trouble
  /\ pc[r] \notin {"idle", "think"}
  /\ IF mode[r] = "write" /\ pc[r] \in {"promote", "record", "event"} /\ r \in Promoter
     THEN Goto(r, "fail") ELSE Throw(r)
  /\ UNCHANGED <<cast, callVars, audit, raises>>

\* The reply to the UPDATE is lost: query sends it again, and it finds nothing or
\* is given up.
LoseReply(r) ==
  /\ Trouble
  /\ pc[r] = "promote"
  /\ ready' = ready \cup Raised(r)
  /\ raises' = [c \in Call |-> IF c \in Raised(r) \ ready THEN raises[c] + 1 ELSE raises[c]]
  /\ todo' = [todo EXCEPT ![r] = {}]
  /\ \E p \in {"record", "fail"} : pc' = [pc EXCEPT ![r] = p]
  /\ UNCHANGED <<cast, state, verdict, tries, answer, mode, mine, audit>>

Crash(r) ==
  /\ Trouble
  /\ pc[r] # "idle"
  /\ End(r)
  /\ UNCHANGED <<cast, callVars, audit, raises>>

-----------------------------------------------------------------------------
BatchStep(r) == StartBatch(r) \/ SelectBatch(r) \/ Think(r) \/ InsertVerdict(r) \/ Finish(r)
PromotionStep(r) ==
  \/ StartPromotion(r) \/ SelectPromotable(r) \/ InsertAudit(r) \/ Blocked(r) \/ Promote(r)
  \/ RecordPromotion(r) \/ FailPromotion(r) \/ Finish(r)

Next ==
  \/ ReplaceCall \/ AuditCall
  \/ \E r \in cast \cap Verifier : BatchStep(r)
  \/ \E r \in cast \cap Promoter : PromotionStep(r) \/ LoseReply(r)
  \/ \E r \in cast : Reject(r) \/ Crash(r)

\* Every night enqueues a batch, which some worker takes up and finishes: a model
\* that hangs is given up. Nobody is obliged to promote or to run the gate.
Fairness == \A r \in Verifier \ Gate : WF_vars(r \in cast /\ BatchStep(r))

Spec == Init /\ [][Next]_vars /\ Fairness

-----------------------------------------------------------------------------
(* What verification and promotion promise.                                 *)

\* The audit accounts for every raise: as many succeeded rows list a call as
\* promotions raised it, but for those about to be recorded; promotions, audits
\* and replacements run beside each other and retries start over. What goes wrong
\* between the UPDATE and its record can only lose an entry, never invent one.
Listing(c) == {i \in 1..Len(audit) : audit[i].status = "succeeded" /\ c \in audit[i].ids}
Recording(c) == {r \in Promoter : pc[r] = "record" /\ c \in todo[r]}
AuditsAreExact ==
  \A c \in Call :
    LET known == Cardinality(Listing(c)) + Cardinality(Recording(c))
    IN  known <= raises[c] /\ (trouble = 0 => known = raises[c])

\* A call that stays a candidate gets its verdict, although batches take up the
\* same calls, replaced calls throw them back and the model may fail each time.
EveryCandidateVerified ==
  cast \cap (Verifier \ Gate) # {} => \A c \in Call : c \in Candidates ~> c \notin Candidates
=============================================================================
