---------------------------- MODULE CallOutcomes ----------------------------
(***************************************************************************)
(* How a stored call gets its outcome and its creator a score: candles, the *)
(* price repair, the price matchers, the confidence audit and the          *)
(* recomputation of scores and leaderboards, all working on the same rows  *)
(* of calls, candles, creator_stats and creators.                          *)
(*                                                                         *)
(* A column of a call is a price: <<"coin" or "btc", moment>>. Returns and *)
(* alphas follow from the prices of the same write and are not kept apart. *)
(* A statement is a step; nothing but the advisory lock of the matchers    *)
(* spans two statements.                                                   *)
(***************************************************************************)
EXTENDS Naturals, Sequences, FiniteSets

CONSTANTS
  Call,          \* ids of the calls, 1..n; all of one video, so of one date
  Symbol,        \* Symbol[c]: the coin of a call
  Btc,           \* the symbol BTCUSDT
  Target,        \* calls with a target price
  Listed,        \* symbols that the candle refresh covers
  Markets,       \* what the exchange may have: sets of functions from keys to places
  Matcher,       \* runs of the price matcher
  Fallback,      \* matchers and repairs that may ask the exchange (--fetch-binance)
  LongLived,     \* matchers inside the Hermes worker, whose cache outlives a run
  SetBased,      \* runs of the set-based matcher
  Repair,        \* runs of the price repair
  Recompute,     \* runs of a full recomputation
  Auditor,       \* those of them that audit low confidences first
  Limit,         \* Limit[p]: the --limit of a matcher, repair or audit
  Batch,         \* --batch-size
  Periods,       \* the periods of the leaderboard, all_time first
  Casts,         \* which processes take part together
  MaxTrouble     \* bound: crashes, refusals, lost locks, failed statements

Process == Matcher \cup Repair \cup Recompute
None == "none"

ASSUME OutcomeAssumption ==
  /\ Call \subseteq Nat /\ IsFiniteSet(Call)
  /\ Target \subseteq Call
  /\ SetBased \cup LongLived \subseteq Matcher /\ Auditor \subseteq Recompute
  /\ Matcher \cap Recompute = {} /\ Repair \cap (Matcher \cup Recompute) = {} /\ None \notin Matcher
  /\ Periods \in Seq(STRING) /\ Periods # <<>>
  /\ Limit \in [Process -> Nat \ {0}] /\ Batch \in Nat \ {0} /\ MaxTrouble \in Nat

Moments == <<"call", "30d", "90d">>
Coins == {Symbol[c] : c \in Call} \cup {Btc}
Key == Coins \X {"call", "30d", "90d"}
Column == {"coin", "btc"} \X {"call", "30d", "90d"}

\* The candle a column of a call is taken from.
KeyOf(c, column) == <<IF column[1] = "coin" THEN Symbol[c] ELSE Btc, column[2]>>

VARIABLES
  age,       \* horizons of the calls that have elapsed: none, 30d, 90d too
  market,    \* market[k]: the exchange's candle nearest to k: "before", "after" or none
  candles,   \* pairs <<key, place>> in the candles table
  price,     \* price[c]: the columns of c that are filled
  hit,       \* calls whose hit_target is filled
  confident, \* calls at or above the confidence threshold
  verdict,   \* verdict[c]: what the rules would decide of c
  decision,  \* decision[c]: the recorded decision
  score,     \* score[c]: "zero", "noAlpha" or "full"
  stats,     \* stats[i]: rows of the i-th period, [present, scores, ranked]
  snapshot,  \* the creators' own copy: [scores, ranked]
  lock,      \* the matcher whose session holds the advisory lock
  cast,      \* the processes that take part
  pc, work, copy, cursor, seen,
  cache,     \* cache[m]: pairs <<key, found>> a matcher's process remembers
  trouble,
  cut        \* history: an audit or a recomputation ended before its end

rowVars == <<price, hit, confident, decision, score>>
boardVars == <<stats, snapshot>>
runVars == <<pc, work, copy, cursor, seen>>
worldVars == <<age, market, candles, verdict, cast>>
vars == <<worldVars, rowVars, boardVars, runVars, lock, cache, trouble, cut>>

-----------------------------------------------------------------------------
(* What a row says.                                                        *)

\* hasHorizonElapsed, over the moments of a call.
Elapsed(moment) == \E i \in 1..(age + 1) : Moments[i] = moment
ElapsedColumns == {column \in Column : Elapsed(column[2])}

\* Mutant: only the price at the call counts as missing.
IncompletePrice(c) == <<"coin", "call">> \notin price[c]

\* The selection of the matchers: a column that could be filled is not.
Incomplete(c) ==
  \/ ElapsedColumns \ price[c] # {}
  \/ c \in Target /\ Elapsed("90d") /\ c \notin hit

\* A call can be scored, apart from its confidence.
ScoreReady(c) ==
  /\ {<<"coin", "call">>, <<"coin", "30d">>} \subseteq price[c] /\ Elapsed("30d")
  /\ c \in Target => Elapsed("90d") /\ <<"coin", "90d">> \in price[c] /\ c \in hit

Eligible(c) == c \in confident /\ ScoreReady(c)

\* computePublicScore, which gives no points for alpha without the btc prices.
ScoreOf(c) ==
  IF ~Eligible(c) THEN "zero"
  ELSE IF {<<"btc", "call">>, <<"btc", "30d">>} \subseteq price[c] THEN "full" ELSE "noAlpha"

\* What a period's rows are computed from.
Scores == {<<c, score[c]>> : c \in {d \in Call : Eligible(d)}}

\* ORDER BY id LIMIT n.
Lowest(calls, n) == {c \in calls : Cardinality({d \in calls : d < c}) < n}

-----------------------------------------------------------------------------
NoCopy == [c \in Call |-> {}]

\* Rows start empty, or as a run on grown calls has left them.
Init ==
  /\ market \in Markets
  /\ \E grown \in BOOLEAN :
       /\ age = IF grown THEN 2 ELSE 0
       /\ candles = IF grown THEN {<<k, market[k]>> : k \in {x \in Key : market[x] # None}} ELSE {}
       /\ price = [c \in Call |-> IF grown /\ market[KeyOf(c, <<"coin", "call">>)] # None
                                  THEN {x \in Column : market[KeyOf(c, x)] # None} ELSE {}]
       /\ hit = {c \in Call : price[c] # {}}
  /\ confident \in SUBSET Call
  /\ verdict \in [Call -> {"PROMOTE", "REJECT"}]
  /\ decision = [c \in Call |-> None]
  /\ score = [c \in Call |-> "zero"]
  /\ stats = [i \in 1..Len(Periods) |-> [present |-> TRUE, scores |-> {}, ranked |-> TRUE]]
  /\ snapshot = [scores |-> {}, ranked |-> TRUE]
  /\ lock = None
  /\ cast \in Casts
  /\ pc = [p \in Process |-> "idle"] /\ work = [p \in Process |-> {}]
  /\ copy = [p \in Process |-> NoCopy]
  /\ cursor = [p \in Process |-> 0] /\ seen = [p \in Process |-> 0]
  /\ cache = [m \in Matcher |-> {}]
  /\ trouble \in 0..MaxTrouble /\ cut = FALSE

Goto(p, label) == pc' = [pc EXCEPT ![p] = label]

\* One more of the events the bound counts.
Trouble == trouble < MaxTrouble /\ trouble' = trouble + 1

-----------------------------------------------------------------------------
(* Time and candles.                                                       *)

HorizonPasses ==
  /\ age < 2 /\ age' = age + 1
  /\ UNCHANGED <<market, candles, verdict, cast, rowVars, boardVars, runVars, lock, cache,
                 trouble, cut>>

\* refresh-candles fetches a symbol's candles up to now.
RefreshSymbol(s) ==
  /\ candles' = candles \cup
       {<<k, market[k]>> : k \in {x \in Key : x[1] = s /\ Elapsed(x[2]) /\ market[x] # None}}
  /\ UNCHANGED <<age, market, verdict, cast, rowVars, boardVars, runVars, lock, cache, trouble,
                 cut>>

-----------------------------------------------------------------------------
(* The price repair: prices at the call, one call after the other.         *)

RepairStart(r) ==
  /\ r \in Repair \cap cast /\ pc[r] = "idle"
  /\ LET missing == Lowest({c \in Call : <<"coin", "call">> \notin price[c]}, Limit[r])
     IN missing # {} /\ work' = [work EXCEPT ![r] = missing]
  /\ Goto(r, "repair")
  /\ UNCHANGED <<worldVars, rowVars, boardVars, copy, cursor, seen, lock, cache, trouble, cut>>

\* findNearestCandle takes a local candle on either side of the call, or the
\* exchange's nearest, which it stores.
FindNearestCandle(r) ==
  /\ pc[r] = "repair" /\ work[r] # {}
  /\ \E c \in Lowest(work[r], 1) :
       LET k == KeyOf(c, <<"coin", "call">>)
           local == \E place \in {"before", "after"} : <<k, place>> \in candles
           fetched == ~local /\ r \in Fallback /\ market[k] # None
       IN /\ candles' = IF fetched THEN candles \cup {<<k, market[k]>>} ELSE candles
          /\ IF local \/ fetched
             THEN Goto(r, "attach") /\ UNCHANGED work
             ELSE work' = [work EXCEPT ![r] = @ \ {c}] /\ UNCHANGED pc
  /\ UNCHANGED <<age, market, verdict, cast, rowVars, boardVars, copy, cursor, seen, lock, cache,
                 trouble, cut>>

\* The UPDATE still asks that the price is missing.
AttachPrice(r) ==
  /\ pc[r] = "attach"
  /\ \E c \in Lowest(work[r], 1) :
       /\ price' = [price EXCEPT ![c] = @ \cup {<<"coin", "call">>}]
       /\ work' = [work EXCEPT ![r] = @ \ {c}]
  /\ Goto(r, "repair")
  /\ UNCHANGED <<worldVars, hit, confident, decision, score, boardVars, copy, cursor, seen, lock,
                 cache, trouble, cut>>

RepairEnd(r) ==
  /\ r \in Repair /\ pc[r] = "repair" /\ work[r] = {}
  /\ Goto(r, "idle")
  /\ UNCHANGED <<worldVars, rowVars, boardVars, work, copy, cursor, seen, lock, cache, trouble, cut>>

-----------------------------------------------------------------------------
(* The matchers.                                                           *)

\* Mutant: the lock is asked for, its answer ignored.
AcquireAnyway(m) ==
  /\ m \in Matcher \cap cast /\ pc[m] = "idle"
  /\ \E c \in Call : Incomplete(c)
  /\ lock' = m
  /\ cursor' = [cursor EXCEPT ![m] = 0] /\ seen' = [seen EXCEPT ![m] = 0]
  /\ Goto(m, IF m \in SetBased THEN "statement" ELSE "select")
  /\ UNCHANGED <<worldVars, rowVars, boardVars, work, copy, cache, trouble, cut>>

\* A matcher that finds the lock taken ends at once and successfully.
Acquire(m) ==
  /\ m \in Matcher \cap cast /\ pc[m] = "idle" /\ lock = None
  /\ \E c \in Call : Incomplete(c)
  /\ lock' = m
  /\ cursor' = [cursor EXCEPT ![m] = 0] /\ seen' = [seen EXCEPT ![m] = 0]
  /\ Goto(m, IF m \in SetBased THEN "statement" ELSE "select")
  /\ UNCHANGED <<worldVars, rowVars, boardVars, work, copy, cache, trouble, cut>>

\* The next batch after the cursor, as far as the limit goes.
SelectBatch(m) ==
  /\ pc[m] = "select"
  /\ LET rest == {c \in Call : c > cursor[m] /\ Incomplete(c)}
         room == IF Limit[m] - seen[m] < Batch THEN Limit[m] - seen[m] ELSE Batch
         batch == Lowest(rest, room)
     IN IF batch = {}
        THEN Goto(m, "unlock") /\ UNCHANGED <<work, cursor, seen>>
        ELSE /\ work' = [work EXCEPT ![m] = batch]
             /\ seen' = [seen EXCEPT ![m] = @ + Cardinality(batch)]
             /\ cursor' = [cursor EXCEPT ![m] = CHOOSE c \in batch : \A d \in batch : d <= c]
             /\ Goto(m, "match")
  /\ UNCHANGED <<worldVars, rowVars, boardVars, copy, lock, cache, trouble, cut>>

\* getCandleAt, of a key: what the process remembers, else a candle at or
\* before the moment, else the exchange unless it is among those refused with a 4xx status.
Remembered(m, k) == \E found \in BOOLEAN : <<k, found>> \in cache[m]
Fetches(m, k, refused) ==
  /\ ~Remembered(m, k) /\ <<k, "before">> \notin candles
  /\ m \in Fallback /\ k \notin refused /\ market[k] # None
GetCandleAt(m, k, refused) ==
  IF Remembered(m, k) THEN <<k, TRUE>> \in cache[m]
  ELSE <<k, "before">> \in candles \/ Fetches(m, k, refused)

\* processCall up to its UPDATE: a call without a coin price is skipped, what
\* was fetched and remembered stays. hit_target is computed once 90 days are
\* over, so a copy says by <<"coin", "hit">> that it is to be set.
Lookup(m, c, refused) ==
  /\ m \notin SetBased /\ pc[m] = "match" /\ c \in work[m] /\ copy[m][c] = {}
  /\ LET needed == {KeyOf(c, x) : x \in ElapsedColumns}
         columns == {x \in ElapsedColumns : GetCandleAt(m, KeyOf(c, x), refused)}
     IN /\ IF refused = {} THEN UNCHANGED trouble
           ELSE (\A k \in refused : k \in needed /\ Fetches(m, k, {})) /\ Trouble
        /\ candles' = candles \cup {<<k, market[k]>> : k \in {x \in needed : Fetches(m, x, refused)}}
        /\ cache' = [cache EXCEPT ![m] = @ \cup {<<k, GetCandleAt(m, k, refused)>> : k \in needed}]
        /\ IF <<"coin", "call">> \in columns
           THEN /\ copy' = [copy EXCEPT ![m][c] =
                              columns \cup (IF Elapsed("90d") THEN {<<"coin", "hit">>} ELSE {})]
                /\ UNCHANGED work
           ELSE work' = [work EXCEPT ![m] = @ \ {c}] /\ UNCHANGED copy
  /\ UNCHANGED <<age, market, verdict, cast, rowVars, boardVars, pc, cursor, seen, lock, cut>>

\* The exchange or the database rejects: the call counts as skipped.
LookupThrows(m, c) ==
  /\ m \notin SetBased /\ pc[m] = "match" /\ c \in work[m] /\ Trouble
  /\ work' = [work EXCEPT ![m] = @ \ {c}]
  /\ copy' = [copy EXCEPT ![m][c] = {}]
  /\ UNCHANGED <<worldVars, rowVars, boardVars, pc, cursor, seen, lock, cache, cut>>

\* The UPDATE writes every outcome column, those it found nothing for as NULL.
WriteRow(m, c) ==
  /\ pc[m] = "match" /\ c \in work[m] /\ copy[m][c] # {}
  /\ price' = [price EXCEPT ![c] = copy[m][c] \cap Column]
  /\ hit' = IF <<"coin", "hit">> \in copy[m][c] THEN hit \cup {c} ELSE hit \ {c}
  /\ work' = [work EXCEPT ![m] = @ \ {c}]
  /\ copy' = [copy EXCEPT ![m][c] = {}]
  /\ UNCHANGED <<worldVars, confident, decision, score, boardVars, pc, cursor, seen, lock, cache,
                 trouble, cut>>

EndBatch(m) ==
  /\ m \in Matcher /\ pc[m] = "match" /\ work[m] = {}
  /\ Goto(m, "select")
  /\ UNCHANGED <<worldVars, rowVars, boardVars, work, copy, cursor, seen, lock, cache, trouble, cut>>

\* The set-based matcher is one statement over the candles table. It never
\* asks the exchange and always computes hit_target.
SetBasedStatement(m) ==
  /\ pc[m] = "statement"
  /\ LET found(c) == {x \in ElapsedColumns : <<KeyOf(c, x), "before">> \in candles}
         matched == {c \in Lowest({d \in Call : Incomplete(d)}, Limit[m]) :
                       <<"coin", "call">> \in found(c)}
     IN /\ price' = [c \in Call |-> IF c \in matched THEN found(c) ELSE price[c]]
        /\ hit' = hit \cup matched
  /\ Goto(m, "unlock")
  /\ UNCHANGED <<worldVars, confident, decision, score, boardVars, work, copy, cursor, seen, lock,
                 cache, trouble, cut>>

\* The unlock frees the lock if it runs in the session that holds it. A script
\* ends and forgets what it looked up; the worker remembers.
Unlock(m) ==
  /\ pc[m] = "unlock"
  /\ \/ lock' = (IF lock = m THEN None ELSE lock) /\ UNCHANGED trouble
     \/ lock = m /\ Trouble /\ UNCHANGED lock
  /\ cache' = IF m \in LongLived THEN cache ELSE [cache EXCEPT ![m] = {}]
  /\ Goto(m, "idle")
  /\ UNCHANGED <<worldVars, rowVars, boardVars, work, copy, cursor, seen, cut>>

\* The session that holds the lock ends: it was left behind, or the pool (or a
\* driver with a session per statement) closed it under a running matcher.
SessionEnds ==
  /\ lock # None /\ lock' = None
  /\ IF pc[lock] = "idle" THEN UNCHANGED trouble ELSE Trouble
  /\ UNCHANGED <<worldVars, rowVars, boardVars, runVars, cache, cut>>

-----------------------------------------------------------------------------
(* The audit of low confidences.                                           *)

AuditStart(r) ==
  /\ r \in Auditor \cap cast /\ pc[r] = "idle"
  /\ LET rows == {c \in Call : c \notin confident /\ ScoreReady(c) /\ decision[c] = None}
     IN rows # {} /\ work' = [work EXCEPT ![r] = Lowest(rows, Limit[r])]
  /\ copy' = [copy EXCEPT ![r] = [c \in Call |-> IF c \in work'[r] THEN {verdict[c]} ELSE {}]]
  /\ Goto(r, "persist")
  /\ UNCHANGED <<worldVars, rowVars, boardVars, cursor, seen, lock, cache, trouble, cut>>

\* persistValidationDecisions: a statement per row.
PersistDecision(r) ==
  /\ pc[r] = "persist" /\ work[r] # {}
  /\ \E c \in Lowest(work[r], 1) :
       /\ decision' = [decision EXCEPT ![c] = verdict[c]]
       /\ work' = [work EXCEPT ![r] = @ \ {c}]
  /\ UNCHANGED <<worldVars, price, hit, confident, score, boardVars, pc, copy, cursor, seen, lock,
                 cache, trouble, cut>>

\* Mutant: the rows to write are asked again whether they can be scored.
WritableIfReady(r) == {c \in Call : copy[r][c] = {"PROMOTE"} /\ ScoreReady(c)}

\* The rows of an audit that may be written.
Writable(r) == {c \in Call : copy[r][c] = {"PROMOTE"}}

\* applyAuditResults raises the confidence of the promoted rows and zeroes
\* their scores; with any row written a full recomputation follows.
ApplyAuditResults(r) ==
  /\ pc[r] = "persist" /\ work[r] = {}
  /\ confident' = confident \cup Writable(r)
  /\ score' = [c \in Call |-> IF c \in Writable(r) THEN "zero" ELSE score[c]]
  /\ copy' = [copy EXCEPT ![r] = NoCopy]
  /\ Goto(r, IF Writable(r) = {} THEN "idle" ELSE "read")
  /\ UNCHANGED <<worldVars, price, hit, decision, boardVars, work, cursor, seen, lock, cache,
                 trouble, cut>>

-----------------------------------------------------------------------------
(* recomputeAllStats.                                                      *)

RecomputeStart(r) ==
  /\ r \in (Recompute \ Auditor) \cap cast /\ pc[r] = "idle" /\ Goto(r, "read")
  /\ UNCHANGED <<worldVars, rowVars, boardVars, work, copy, cursor, seen, lock, cache, trouble, cut>>

\* All rows are read once, ...
ReadScores(r) ==
  /\ pc[r] = "read"
  /\ copy' = [copy EXCEPT ![r] = [c \in Call |-> {ScoreOf(c)}]]
  /\ work' = [work EXCEPT ![r] = Call]
  /\ Goto(r, "write")
  /\ UNCHANGED <<worldVars, rowVars, boardVars, cursor, seen, lock, cache, trouble, cut>>

\* Mutant: the loop over the batches ends after the first.
WriteFirstBatch(r) ==
  /\ pc[r] = "write"
  /\ LET batch == Lowest(work[r], Batch)
     IN score' = [c \in Call |-> IF c \in batch THEN CHOOSE s \in copy[r][c] : TRUE ELSE score[c]]
  /\ work' = [work EXCEPT ![r] = {}]
  /\ Goto(r, "delete") /\ cursor' = [cursor EXCEPT ![r] = 1]
  /\ copy' = [copy EXCEPT ![r] = NoCopy]
  /\ UNCHANGED <<worldVars, price, hit, confident, decision, boardVars, seen, lock, cache, trouble,
                 cut>>

\* ... and their scores written in batches.
WriteScores(r) ==
  /\ pc[r] = "write"
  /\ LET batch == Lowest(work[r], Batch)
     IN /\ score' = [c \in Call |-> IF c \in batch THEN CHOOSE s \in copy[r][c] : TRUE ELSE score[c]]
        /\ work' = [work EXCEPT ![r] = @ \ batch]
  /\ IF work'[r] = {}
     THEN /\ Goto(r, "delete") /\ cursor' = [cursor EXCEPT ![r] = 1]
          /\ copy' = [copy EXCEPT ![r] = NoCopy]
     ELSE UNCHANGED <<pc, cursor, copy>>
  /\ UNCHANGED <<worldVars, price, hit, confident, decision, boardVars, seen, lock, cache, trouble,
                 cut>>

\* Mutant: the deletion forgets which period it is for.
DeletePeriods(r) ==
  /\ pc[r] = "delete"
  /\ stats' = [i \in 1..Len(Periods) |-> [present |-> FALSE, scores |-> {}, ranked |-> FALSE]]
  /\ Goto(r, "insert")
  /\ UNCHANGED <<worldVars, rowVars, snapshot, work, copy, cursor, seen, lock, cache, trouble, cut>>

\* A period is deleted, inserted again and ranked in three statements. The
\* insertion meets a unique constraint when another run has inserted meanwhile.
DeletePeriod(r) ==
  /\ pc[r] = "delete"
  /\ stats' = [stats EXCEPT ![cursor[r]] = [present |-> FALSE, scores |-> {}, ranked |-> FALSE]]
  /\ Goto(r, "insert")
  /\ UNCHANGED <<worldVars, rowVars, snapshot, work, copy, cursor, seen, lock, cache, trouble, cut>>

InsertPeriod(r) ==
  /\ pc[r] = "insert"
  /\ IF stats[cursor[r]].present
     THEN /\ Goto(r, "idle") /\ cursor' = [cursor EXCEPT ![r] = 0]
          /\ UNCHANGED stats
     ELSE /\ stats' = [stats EXCEPT ![cursor[r]] = [present |-> TRUE, scores |-> Scores, ranked |-> FALSE]]
          /\ Goto(r, "rank") /\ UNCHANGED cursor
  /\ UNCHANGED <<worldVars, rowVars, snapshot, work, copy, seen, lock, cache, trouble, cut>>

RankPeriod(r) ==
  /\ pc[r] = "rank"
  /\ stats' = [stats EXCEPT ![cursor[r]].ranked = @ \/ stats[cursor[r]].present]
  /\ cursor' = [cursor EXCEPT ![r] = IF @ < Len(Periods) THEN @ + 1 ELSE 0]
  /\ Goto(r, IF cursor[r] < Len(Periods) THEN "delete" ELSE "sync")
  /\ UNCHANGED <<worldVars, rowVars, snapshot, work, copy, seen, lock, cache, trouble, cut>>

\* The creators get the numbers of all_time, if it has rows at the moment.
SyncCreatorSnapshots(r) ==
  /\ pc[r] = "sync"
  /\ snapshot' = IF stats[1].present
                 THEN [scores |-> stats[1].scores, ranked |-> stats[1].ranked] ELSE snapshot
  /\ Goto(r, "idle")
  /\ UNCHANGED <<worldVars, rowVars, stats, work, copy, cursor, seen, lock, cache, trouble, cut>>

-----------------------------------------------------------------------------
\* A process dies, or a statement outside the matchers' loop is rejected, which
\* ends its process just the same.
Crash(p) ==
  /\ pc[p] # "idle" /\ Trouble
  /\ cut' = (cut \/ p \in Recompute)
  /\ Goto(p, "idle")
  /\ work' = [work EXCEPT ![p] = {}] /\ copy' = [copy EXCEPT ![p] = NoCopy]
  /\ cursor' = [cursor EXCEPT ![p] = 0] /\ seen' = [seen EXCEPT ![p] = 0]
  /\ cache' = IF p \in Matcher THEN [cache EXCEPT ![p] = {}] ELSE cache
  /\ UNCHANGED <<worldVars, rowVars, boardVars, lock>>

Match(m) ==
  \/ SelectBatch(m) \/ EndBatch(m) \/ SetBasedStatement(m) \/ Unlock(m)
  \/ \E c \in work[m] : Lookup(m, c, {}) \/ WriteRow(m, c)
RepairStep(r) == FindNearestCandle(r) \/ AttachPrice(r) \/ RepairEnd(r)
RecomputeStep(r) ==
  \/ PersistDecision(r) \/ ApplyAuditResults(r) \/ ReadScores(r) \/ WriteScores(r)
  \/ DeletePeriod(r) \/ InsertPeriod(r) \/ RankPeriod(r) \/ SyncCreatorSnapshots(r)

Next ==
  \/ HorizonPasses \/ SessionEnds
  \/ \E s \in Listed : RefreshSymbol(s)
  \/ \E m \in Matcher :
       \/ Acquire(m) \/ Match(m)
       \/ \E c \in work[m] : LookupThrows(m, c) \/ \E k \in Key : Lookup(m, c, {k})
  \/ \E r \in Repair : RepairStart(r) \/ RepairStep(r)
  \/ \E r \in Recompute : AuditStart(r) \/ RecomputeStart(r) \/ RecomputeStep(r)
  \/ \E p \in Process : Crash(p)

\* Scripts of the pipeline: they are started again and again, ask the exchange
\* and forget what they looked up.
Scripts == (Matcher \cap Fallback) \ (LongLived \cup SetBased)

\* A process that has started goes on. Cron starts recomputations and audits
\* again and again, and its matchers meet a free lock again and again. A session
\* without a user is closed.
Fairness ==
  /\ \A m \in Matcher : WF_vars(Match(m)) /\ (m \in Scripts => SF_vars(Acquire(m)))
  /\ \A r \in Repair : WF_vars(RepairStep(r))
  /\ \A r \in Recompute : WF_vars(RecomputeStep(r)) /\ WF_vars(RecomputeStart(r))
  /\ WF_vars(SessionEnds /\ pc[lock] = "idle")

Spec == Init /\ [][Next]_vars /\ Fairness

-----------------------------------------------------------------------------
(* What the stages promise together.                                       *)

\* An outcome is kept as long as only the pipeline's scripts match, the
\* exchange refuses nothing and the lock holds: then no stale lookup of one
\* matcher can overwrite what another has written meanwhile.
KeptByScripts ==
  [][trouble' = 0 /\ cast \cap Matcher \subseteq Scripts
       => \A c \in Call : price[c] \subseteq price'[c]]_vars

\* Every decision to promote raises the confidence it was made for, whatever
\* happens to the row between the two statements, unless the audit was cut short.
PromotionsAreApplied ==
  \A c \in Call : decision[c] = "PROMOTE" =>
    c \in confident \/ cut \/ \E r \in Auditor : c \in Writable(r)

\* Once recomputations have ended, and none was cut short, every period has its
\* rows, they are ranked, and the creators show the numbers of all_time: however
\* the statements of two runs fell between each other.
LeaderboardWhole ==
  (~cut /\ \A r \in Recompute : pc[r] = "idle") =>
    /\ \A i \in 1..Len(Periods) : stats[i].present /\ stats[i].ranked
    /\ snapshot = [scores |-> stats[1].scores, ranked |-> stats[1].ranked]

\* A call that the exchange has prices for gets all of its outcomes, however
\* often others overwrite its row, unless calls before it that can never be
\* matched use up the limit of every script.
Hopeless(c) == \E x \in Column : market[KeyOf(c, x)] = None
EveryCallMatched ==
  \A c \in Call :
    (~Hopeless(c) /\ \E m \in cast \cap Scripts :
                       Cardinality({d \in Call : d < c /\ Hopeless(d)}) < Limit[m])
      => <>[](ElapsedColumns \subseteq price[c] /\ (c \in Target /\ Elapsed("90d") => c \in hit))

\* When rows stop changing, scores follow: a recomputation that read before the
\* last change and wrote after it is corrected by the next.
ScoresSettle ==
  (cast \cap (Recompute \ Auditor) # {} /\ <>[][UNCHANGED <<age, price, hit, confident>>]_vars)
    => <>[](\A c \in Call : score[c] = ScoreOf(c))
=============================================================================
