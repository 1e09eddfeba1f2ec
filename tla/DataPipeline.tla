---------------------------- MODULE DataPipeline ----------------------------
(***************************************************************************)
(* From a published video to counted calls: the stages of the data pipeline *)
(* and of the daily pipeline, run by several orchestrators beside each      *)
(* other on the same videos, calls and artifact files.                      *)
(*                                                                         *)
(* An orchestrator starts one stage after the other, each a process of its  *)
(* own. A stage that walks through videos takes a step per video. The       *)
(* stages that work on prices and scores of calls are CallOutcomes; here    *)
(* they succeed or fail.                                                    *)
(***************************************************************************)
EXTENDS Naturals, Sequences, FiniteSets

CONSTANTS
  Videos,        \* ids 1..Videos; later ones are newer
  CreatorOf,     \* CreatorOf[v]
  Long,          \* videos whose transcript has more chunks than are extracted
  Content,       \* what an extraction may return
  Empty,         \* ... the one without calls
  Loop, Once, Daily,  \* runs of the continuous loop, by hand, of the daily pipeline
  Args,          \* Args[r]: arguments a run may be started with
  Limit,         \* Limit[s]: videos a stage takes
  Promotions,    \* --limit-promotions
  Casts,         \* which runs take part together
  MaxVersion,    \* bound: transcripts of a video
  MaxTrouble     \* bound: crashes, failing commands, extractions and providers

Video == 1..Videos
Run == Loop \cup Once \cup Daily
Creators == {CreatorOf[v] : v \in Video}
None == "none"

PROMOTABLE_STATUSES == {"no_accepted_calls", "unchanged", "new_calls", "changed_calls", "removed_calls"}

ASSUME PipelineAssumption ==
  /\ Videos \in Nat \ {0} /\ Long \subseteq Video
  /\ Empty \in Content
  /\ \A r \in Run : Args[r] \subseteq
       [write : BOOLEAN, dir : {a.dir : a \in Args[r]}, reviewed : SUBSET Video,
        allowed : SUBSET PROMOTABLE_STATUSES, skip : SUBSET STRING]
  /\ Promotions \in Nat /\ MaxVersion \in Nat \ {0} /\ MaxTrouble \in Nat

\* "checks" stands for secret-hygiene to evaluation-backfill, "audits" for
\* blocker-audit to verify-public-surface.
STAGES == <<"checks", "ready-extract", "discover", "transcripts", "shadow-extract",
            "shadow-validate", "shadow-diff", "shadow-promote", "compute-scores", "audits">>
DAILY_STAGES == <<"discover", "slow-transcripts", "extract-local", "match-prices",
                  "compute-scores", "freshness-check">>
Plain == {"checks", "audits", "match-prices", "freshness-check"}

VARIABLES
  captioned,   \* videos a transcript can be had for
  bad,         \* videos every model fails on
  cast,        \* the runs that take part
  published,   \* videos 1..published are out
  known,       \* rows of videos
  transcript,  \* transcript[v]: version, 0 for NULL
  poor,        \* videos whose transcript_quality is at most 0.2
  extracted,   \* calls_extracted
  tried,       \* videos whose last failed attempt is less than a cooldown ago
  calls,       \* calls[v]: [by, of, content]: the writer, the transcript, the calls
  scored,      \* calls as the last compute-scores saw them
  shadow,      \* shadow[d]: records of shadow-extractions.jsonl in directory d
  diff,        \* diff[d]: records of shadow-diff.jsonl
  locks,       \* holders of the lock files "daily" and "transcripts"
  stage,       \* stage[r]: index in the run's stages, 0 when it does not run
  phase,       \* "start" or "work" within a stage
  args, todo, loaded, plan,
  trouble,
  shared,      \* history: directories two runs have worked in at a time
  raced        \* history: videos promoted, or given another transcript, while
               \* an extraction that had loaded them was under way

envVars == <<captioned, bad, cast>>
rowVars == <<published, known, transcript, poor, extracted, tried, calls, scored>>
fileVars == <<shadow, diff>>
runVars == <<stage, phase, args, todo, loaded, plan>>
vars == <<envVars, rowVars, fileVars, locks, runVars, trouble, shared, raced>>

-----------------------------------------------------------------------------
Stages(r) == IF r \in Daily THEN DAILY_STAGES ELSE STAGES
In(r, s) == stage[r] # 0 /\ Stages(r)[stage[r]] = s
Writes(r) == args[r].write
Dir(r) == args[r].dir

\* The next stage that is not skipped; 0 after the last.
NextStage(r, skip, after) ==
  LET left == {i \in after + 1..Len(Stages(r)) : Stages(r)[i] \notin skip}
  IN IF left = {} THEN 0 ELSE CHOOSE i \in left : \A j \in left : i <= j

\* Mutant: the loop promotes in every cycle.
CycleArgsPromoting(a) == a

\* The loop's cycles leave promotion out unless reviewed videos are named.
CycleArgs(a) ==
  IF a.write /\ a.reviewed = {} THEN [a EXCEPT !.skip = @ \cup {"shadow-promote"}] ELSE a

\* ORDER BY published_at DESC LIMIT n.
Newest(videos, n) == {v \in videos : Cardinality({w \in videos : w > v}) < n}

\* What the channels show: their newest videos.
Listed == UNION {Newest({v \in 1..published : CreatorOf[v] = c}, Limit["listing"]) : c \in Creators}

\* Mutant: the extractors take extracted videos too.
PendingAnyway == {v \in known : transcript[v] # 0 /\ v \notin poor}

\* The rows the extractors take. A poor transcript is none to them.
Transcribed == {v \in known : transcript[v] # 0 /\ v \notin poor}
Pending == Transcribed \ extracted

\* The rows backfill-transcripts takes.
Missing == {v \in known : transcript[v] = 0 /\ v \notin tried}

\* An extraction of v is under way.
UnderWay(v) == \E r \in Run : (In(r, "ready-extract") \/ In(r, "extract-local")) /\ v \in todo[r]

\* diffVideoShadow, and the reasons for a manual review.
DiffStatus(record, existing) ==
  IF record.error # None \/ record.video \in Long THEN "manual_review"
  ELSE IF existing = record.content
       THEN IF existing = Empty THEN "no_accepted_calls" ELSE "unchanged"
  ELSE IF existing = Empty THEN "new_calls"
  ELSE IF record.content = Empty THEN "removed_calls"
  ELSE "changed_calls"

\* The last record of a video is the one that counts.
ShadowByVideo(d, v) ==
  LET found == {i \in 1..Len(shadow[d]) : shadow[d][i].video = v}
  IN IF found = {} THEN None ELSE shadow[d][CHOOSE i \in found : \A j \in found : j <= i]

NoCalls == [by |-> "nobody", of |-> 0, content |-> Empty]
NothingLoaded == [v \in Video |-> 0]
NotStarted == [write |-> FALSE, dir |-> None, reviewed |-> {}, allowed |-> {}, skip |-> {}]
Dirs == {a.dir : a \in UNION {Args[r] : r \in Loop \cup Once}}

Init ==
  /\ captioned \in SUBSET Video /\ bad \in SUBSET captioned /\ cast \in Casts
  /\ published \in Video /\ known \in SUBSET (1..published)
  /\ transcript \in [Video -> 0..MaxVersion]
  /\ \A v \in Video : transcript[v] # 0 => v \in known \cap captioned
  /\ poor \in SUBSET {v \in Video : transcript[v] # 0}
  /\ extracted \in SUBSET {v \in Video : transcript[v] # 0} /\ tried = {}
  /\ \E found \in Content :
       calls = [v \in Video |->
         IF v \in extracted THEN [by |-> "extractor", of |-> transcript[v], content |-> found] ELSE NoCalls]
  /\ scored = calls
  /\ shadow = [d \in Dirs |-> <<>>] /\ diff = [d \in Dirs |-> <<>>]
  /\ locks = [f \in {"daily", "transcripts"} |-> None]
  /\ stage = [r \in Run |-> 0] /\ phase = [r \in Run |-> "start"]
  /\ args = [r \in Run |-> NotStarted]
  /\ todo = [r \in Run |-> {}] /\ loaded = [r \in Run |-> NothingLoaded]
  /\ plan = [r \in Run |-> <<>>]
  /\ trouble \in 0..MaxTrouble /\ shared = {} /\ raced = {}

Trouble == trouble < MaxTrouble /\ trouble' = trouble + 1

\* The stage is over: the next one starts, or the run ends and removes its lock.
Advance(r, files) ==
  LET i == NextStage(r, args[r].skip, stage[r])
  IN /\ stage' = [stage EXCEPT ![r] = i]
     /\ phase' = [phase EXCEPT ![r] = "start"]
     /\ locks' = IF i = 0 /\ r \in Daily THEN [files EXCEPT !["daily"] = None] ELSE files

\* The run ends before its last stage.
Stop(r, files) ==
  /\ stage' = [stage EXCEPT ![r] = 0]
  /\ phase' = [phase EXCEPT ![r] = "start"]
  /\ locks' = IF r \in Daily THEN [files EXCEPT !["daily"] = None] ELSE files

\* A stage's process has loaded the videos it is to work on.
Loads(r, videos) ==
  /\ todo' = [todo EXCEPT ![r] = videos]
  /\ loaded' = [loaded EXCEPT ![r] = transcript]
  /\ phase' = [phase EXCEPT ![r] = "work"]

\* What a stage's process held is gone with it.
Forgets(r) ==
  /\ todo' = [todo EXCEPT ![r] = {}]
  /\ loaded' = [loaded EXCEPT ![r] = NothingLoaded]
  /\ plan' = [plan EXCEPT ![r] = <<>>]

Drops(r, v) == todo' = [todo EXCEPT ![r] = @ \ {v}]
NewestFirst(r, v) == v \in todo[r] /\ \A w \in todo[r] : w <= v

-----------------------------------------------------------------------------
(* The world.                                                              *)

Publish ==
  /\ published < Videos /\ published' = published + 1
  /\ UNCHANGED <<envVars, poor, known, transcript, extracted, tried, calls, scored, fileVars, locks,
                 runVars, trouble, shared, raced>>

\* The cooldown of the videos tried is over.
CooldownPasses ==
  /\ tried # {} /\ tried' = {}
  /\ UNCHANGED <<envVars, poor, published, known, transcript, extracted, calls, scored, fileVars, locks,
                 runVars, trouble, shared, raced>>

\* Mutant: a new transcript leaves the video marked.
IngestKeepingMark(v) ==
  /\ v \in known \cap captioned /\ transcript[v] < MaxVersion
  /\ transcript' = [transcript EXCEPT ![v] = @ + 1]
  /\ poor' \in {poor \ {v}, poor \cup {v}}
  /\ raced' = IF UnderWay(v) THEN raced \cup {v} ELSE raced
  /\ UNCHANGED <<envVars, published, known, extracted, tried, calls, scored, fileVars, locks, runVars, trouble, shared>>

\* ingest-transcript-result: a collector delivers a transcript and says what it
\* is worth, with --overwrite also for a video that has one.
IngestTranscript(v) ==
  /\ v \in known \cap captioned /\ transcript[v] < MaxVersion
  /\ transcript' = [transcript EXCEPT ![v] = @ + 1]
  /\ extracted' = extracted \ {v}
  /\ poor' \in {poor \ {v}, poor \cup {v}}
  /\ raced' = IF UnderWay(v) THEN raced \cup {v} ELSE raced
  /\ UNCHANGED <<envVars, published, known, tried, calls, scored, fileVars, locks, runVars, trouble, shared>>

\* ... or reports that there is none, which counts as an attempt.
IngestFailure(v) ==
  /\ v \in known \ captioned /\ v \notin tried
  /\ tried' = tried \cup {v}
  /\ UNCHANGED <<envVars, poor, published, known, transcript, extracted, calls, scored, fileVars, locks,
                 runVars, trouble, shared, raced>>

-----------------------------------------------------------------------------
(* The orchestrators.                                                      *)

\* A run by hand is one invocation. A cycle of the loop works in a directory, under
\* a run id, of its own; a directory stands for both. A daily run that meets the
\* lock file ends at once.
StartRun(r) ==
  /\ r \in cast /\ stage[r] = 0
  /\ r \in Daily => locks["daily"] = None
  /\ r \in Once => args[r] = NotStarted
  /\ \E a \in Args[r] :
       LET given == IF r \in Loop THEN CycleArgs(a) ELSE a
       IN /\ args' = [args EXCEPT ![r] = given]
          /\ stage' = [stage EXCEPT ![r] = NextStage(r, given.skip, 0)]
          /\ shadow' = IF r \in Loop THEN [shadow EXCEPT ![a.dir] = <<>>] ELSE shadow
          /\ diff' = IF r \in Loop THEN [diff EXCEPT ![a.dir] = <<>>] ELSE diff
          /\ shared' = IF \E q \in Run : stage[q] # 0 /\ Dir(q) = a.dir
                       THEN shared \cup {a.dir} ELSE shared
  /\ locks' = IF r \in Daily THEN [locks EXCEPT !["daily"] = r] ELSE locks
  /\ UNCHANGED <<envVars, rowVars, phase, todo, loaded, plan, trouble, raced>>

PlainStage(r) ==
  /\ \E s \in Plain : In(r, s)
  /\ Advance(r, locks)
  /\ UNCHANGED <<envVars, rowVars, fileVars, args, todo, loaded, plan, trouble, shared, raced>>

\* A stage's process fails: the data pipeline stops there, the daily one only
\* when it could not discover.
StageFails(r) ==
  /\ stage[r] # 0 /\ Trouble
  /\ LET files == [f \in DOMAIN locks |->
                     IF f = "transcripts" /\ locks[f] = r THEN None ELSE locks[f]]
     IN IF r \in Daily /\ ~In(r, "discover") THEN Advance(r, files) ELSE Stop(r, files)
  /\ Forgets(r)
  /\ UNCHANGED <<envVars, rowVars, fileVars, args, shared, raced>>

\* The orchestrator and its stage are killed; lock files stay.
Crash(r) ==
  /\ stage[r] # 0 /\ Trouble
  /\ stage' = [stage EXCEPT ![r] = 0] /\ phase' = [phase EXCEPT ![r] = "start"]
  /\ Forgets(r)
  /\ UNCHANGED <<envVars, rowVars, fileVars, locks, args, shared, raced>>

\* A stage has worked through its videos.
EndStage(r) ==
  /\ phase[r] = "work" /\ todo[r] = {} /\ plan[r] = <<>>
  /\ Advance(r, [f \in DOMAIN locks |->
                   IF f = "transcripts" /\ locks[f] = r THEN None ELSE locks[f]])
  /\ Forgets(r)
  /\ UNCHANGED <<envVars, rowVars, fileVars, args, trouble, shared, raced>>

-----------------------------------------------------------------------------
(* Videos and transcripts.                                                 *)

Discover(r) ==
  /\ In(r, "discover")
  /\ known' = IF Writes(r) THEN known \cup Listed ELSE known
  /\ Advance(r, locks)
  /\ UNCHANGED <<envVars, poor, published, transcript, extracted, tried, calls, scored, fileVars, args,
                 todo, loaded, plan, trouble, shared, raced>>

\* scrape-transcripts-v2 lists the channels itself and adds rows that are missing.
LoadListed(r) ==
  /\ In(r, "transcripts") /\ phase[r] = "start"
  /\ Loads(r, Listed)
  /\ UNCHANGED <<envVars, rowVars, fileVars, locks, stage, args, plan, trouble, shared, raced>>

\* The upsert keeps a transcript that has arrived meanwhile, and of the two
\* qualities the better.
ScrapeTranscript(r) ==
  /\ In(r, "transcripts") /\ phase[r] = "work"
  /\ \E v \in todo[r] :
       /\ Drops(r, v)
       /\ IF v \in captioned /\ Writes(r)
          THEN /\ known' = known \cup {v}
               /\ transcript' = [transcript EXCEPT ![v] = IF @ = 0 THEN 1 ELSE @]
               /\ poor' \in {poor \ {v}, IF transcript[v] = 0 THEN poor \cup {v} ELSE poor}
          ELSE UNCHANGED <<known, transcript, poor>>
  /\ UNCHANGED <<envVars, published, extracted, tried, calls, scored, fileVars, locks, stage, phase,
                 args, loaded, plan, trouble, shared, raced>>

\* backfill-transcripts ends at once when its own lock file is there.
LoadMissing(r) ==
  /\ In(r, "slow-transcripts") /\ phase[r] = "start"
  /\ IF locks["transcripts"] = None
     THEN /\ locks' = [locks EXCEPT !["transcripts"] = r]
          /\ Loads(r, Newest(Missing, Limit["transcripts"])) /\ UNCHANGED stage
     ELSE Advance(r, locks) /\ UNCHANGED <<todo, loaded>>
  /\ UNCHANGED <<envVars, rowVars, fileVars, args, plan, trouble, shared, raced>>

\* A failed attempt puts the video on cooldown; one that is handed over to a
\* collector leaves no mark.
FetchTranscript(r) ==
  /\ In(r, "slow-transcripts") /\ phase[r] = "work"
  /\ \E v \in todo[r] :
       /\ NewestFirst(r, v) /\ Drops(r, v)
       /\ IF ~Writes(r) \/ transcript[v] # 0 THEN UNCHANGED <<transcript, poor, extracted, tried>>
          ELSE IF v \in captioned
               THEN /\ transcript' = [transcript EXCEPT ![v] = 1]
                    /\ poor' \in {poor \ {v}, poor \cup {v}}
                    /\ extracted' = extracted \ {v} /\ UNCHANGED tried
               ELSE /\ tried' \in {tried, tried \cup {v}}
                    /\ UNCHANGED <<transcript, poor, extracted>>
  /\ UNCHANGED <<envVars, published, known, calls, scored, fileVars, locks, stage, phase, args,
                 loaded, plan, trouble, shared, raced>>

\* The provider blocks: the attempt is marked, the rest waits for the next run.
ProviderBlocks(r) ==
  /\ In(r, "slow-transcripts") /\ phase[r] = "work" /\ todo[r] # {} /\ Trouble
  /\ \E v \in todo[r] :
       /\ NewestFirst(r, v)
       /\ tried' = IF Writes(r) /\ transcript[v] = 0 THEN tried \cup {v} ELSE tried
  /\ todo' = [todo EXCEPT ![r] = {}]
  /\ UNCHANGED <<envVars, poor, published, known, transcript, extracted, calls, scored, fileVars, locks,
                 stage, phase, args, loaded, plan, shared, raced>>

-----------------------------------------------------------------------------
(* Extraction.                                                             *)

LoadPending(r) ==
  /\ In(r, "ready-extract") \/ In(r, "extract-local")
  /\ phase[r] = "start"
  /\ Loads(r, Newest(Pending, Limit["extract"]))
  /\ UNCHANGED <<envVars, rowVars, fileVars, locks, stage, args, plan, trouble, shared, raced>>

\* One transaction replaces the calls of a video and marks it. The local
\* extractor knows no dry run.
ExtractVideo(r) ==
  /\ phase[r] = "work"
  /\ In(r, "ready-extract") \/ In(r, "extract-local")
  /\ \E v \in todo[r], found \in Content :
       /\ NewestFirst(r, v) /\ Drops(r, v)
       /\ In(r, "ready-extract") => v \notin bad
       /\ IF Writes(r) \/ In(r, "extract-local")
          THEN /\ calls' = [calls EXCEPT ![v] = [by |-> "extractor", of |-> loaded[r][v], content |-> found]]
               /\ extracted' = extracted \cup {v}
          ELSE UNCHANGED <<calls, extracted>>
  /\ UNCHANGED <<envVars, poor, published, known, transcript, tried, scored, fileVars, locks, stage, phase,
                 args, loaded, plan, trouble, shared, raced>>

\* A video that no model attempt succeeds on is left for the next run.
ExtractionFails(r) ==
  /\ phase[r] = "work" /\ In(r, "ready-extract")
  /\ \E v \in todo[r] :
       /\ NewestFirst(r, v) /\ Drops(r, v)
       /\ IF v \in bad THEN UNCHANGED trouble ELSE Trouble
  /\ UNCHANGED <<envVars, rowVars, fileVars, locks, stage, phase, args, loaded, plan, shared, raced>>

-----------------------------------------------------------------------------
(* Shadow extraction, its validation, comparison and promotion.            *)

LoadShadowVideos(r) ==
  /\ In(r, "shadow-extract") /\ phase[r] = "start"
  /\ Loads(r, UNION {Newest({v \in Transcribed : CreatorOf[v] = c}, Limit["shadow"]) : c \in Creators})
  /\ UNCHANGED <<envVars, rowVars, fileVars, locks, stage, args, plan, trouble, shared, raced>>

Record(v, of, found, error) == [video |-> v, of |-> of, content |-> found, error |-> error]

\* Creators and videos are worked on side by side; a failure is a record too.
ShadowVideo(r) ==
  /\ In(r, "shadow-extract") /\ phase[r] = "work"
  /\ \E v \in todo[r] :
       /\ Drops(r, v)
       /\ \E record \in
            IF ~Writes(r) THEN {Record(v, loaded[r][v], Empty, "dry_run")}
            ELSE {Record(v, loaded[r][v], Empty, "failed")} \cup
                 {Record(v, loaded[r][v], found, None) : found \in Content} :
            /\ v \in bad /\ Writes(r) => record.error = "failed"
            /\ IF record.error = "failed" /\ v \notin bad THEN Trouble ELSE UNCHANGED trouble
            /\ shadow' = [shadow EXCEPT ![Dir(r)] = Append(@, record)]
  /\ UNCHANGED <<envVars, rowVars, diff, locks, stage, phase, args, loaded, plan, shared, raced>>

\* Mutant: a video may have several records.
ValidRecordsRepeated(d, c) ==
  LET mine == {i \in 1..Len(shadow[d]) : CreatorOf[shadow[d][i].video] = c}
  IN mine # {} /\ \A i \in mine : shadow[d][i].error # "failed"

\* What validateShadowRecords asks of the records of one creator.
ValidRecords(d, c) ==
  LET mine == {i \in 1..Len(shadow[d]) : CreatorOf[shadow[d][i].video] = c}
  IN /\ mine # {}
     /\ \A i \in mine : shadow[d][i].error # "failed"
     /\ \A i, j \in mine : shadow[d][i].video = shadow[d][j].video => i = j

ShadowValidate(r) ==
  /\ In(r, "shadow-validate")
  /\ IF \A c \in Creators : ValidRecords(Dir(r), c) THEN Advance(r, locks) ELSE Stop(r, locks)
  /\ UNCHANGED <<envVars, rowVars, fileVars, args, todo, loaded, plan, trouble, shared, raced>>

\* Every record is compared with the calls stored now.
ShadowDiff(r) ==
  /\ In(r, "shadow-diff")
  /\ LET d == Dir(r)
         compared(record) == [video |-> record.video, accepted |-> record.content,
                              status |-> DiffStatus(record, calls[record.video].content)]
     IN IF shadow[d] = <<>> THEN Stop(r, locks) /\ UNCHANGED diff
        ELSE /\ diff' = [diff EXCEPT ![d] = @ \o [i \in 1..Len(shadow[d]) |-> compared(shadow[d][i])]]
             /\ Advance(r, locks)
  /\ UNCHANGED <<envVars, rowVars, shadow, args, todo, loaded, plan, trouble, shared, raced>>

\* assertWriteGuardrails.
Guarded(a) == a.write => a.allowed # {} /\ a.reviewed # {}

\* Both files are read once.
LoadPromotions(r) ==
  /\ In(r, "shadow-promote") /\ phase[r] = "start"
  /\ LET d == Dir(r)
         n == IF Len(diff[d]) < Promotions THEN Len(diff[d]) ELSE Promotions
         pair(i) == [diff |-> diff[d][i], shadow |-> ShadowByVideo(d, diff[d][i].video)]
     IN IF ~Guarded(args[r]) \/ shadow[d] = <<>> \/ diff[d] = <<>>
        THEN Stop(r, locks) /\ UNCHANGED plan
        ELSE /\ plan' = [plan EXCEPT ![r] = [i \in 1..n |-> pair(i)]]
             /\ phase' = [phase EXCEPT ![r] = "work"] /\ UNCHANGED <<stage, locks>>
  /\ UNCHANGED <<envVars, rowVars, fileVars, args, todo, loaded, trouble, shared, raced>>

Promotable(a, entry) ==
  /\ entry.diff.status # "manual_review"
  /\ a.reviewed # {} => entry.diff.video \in a.reviewed
  /\ a.allowed # {} => entry.diff.status \in a.allowed
  /\ entry.shadow.error = None

\* The pipeline does not mark the video as extracted.
PromoteNext(r) ==
  /\ In(r, "shadow-promote") /\ phase[r] = "work" /\ plan[r] # <<>>
  /\ LET entry == Head(plan[r]) v == entry.diff.video
     IN IF Promotable(args[r], entry) /\ Writes(r)
        THEN /\ calls' = [calls EXCEPT ![v] = [by |-> "promotion", of |-> entry.shadow.of,
                                              content |-> entry.shadow.content]]
             /\ raced' = IF UnderWay(v) THEN raced \cup {v} ELSE raced
        ELSE UNCHANGED <<calls, raced>>
  /\ plan' = [plan EXCEPT ![r] = Tail(@)]
  /\ UNCHANGED <<envVars, poor, published, known, transcript, extracted, tried, scored, fileVars, locks,
                 stage, phase, args, todo, loaded, trouble, shared>>

ComputeScores(r) ==
  /\ In(r, "compute-scores")
  /\ scored' = IF Writes(r) \/ r \in Daily THEN calls ELSE scored
  /\ Advance(r, locks)
  /\ UNCHANGED <<envVars, poor, published, known, transcript, extracted, tried, calls, fileVars, args,
                 todo, loaded, plan, trouble, shared, raced>>

-----------------------------------------------------------------------------
Proceed(r) ==
  \/ PlainStage(r) \/ EndStage(r) \/ Discover(r) \/ LoadListed(r) \/ ScrapeTranscript(r)
  \/ LoadMissing(r) \/ FetchTranscript(r) \/ LoadPending(r) \/ ExtractVideo(r)
  \/ LoadShadowVideos(r) \/ ShadowVideo(r) \/ ShadowValidate(r) \/ ShadowDiff(r)
  \/ LoadPromotions(r) \/ PromoteNext(r) \/ ComputeScores(r)
  \/ ExtractionFails(r)

Next ==
  \/ Publish \/ CooldownPasses
  \/ \E v \in Video : IngestTranscript(v) \/ IngestFailure(v)
  \/ \E r \in Run : StartRun(r) \/ Proceed(r) \/ StageFails(r) \/ Crash(r) \/ ProviderBlocks(r)

\* The loop and the daily timer start runs again and again, a started run goes
\* on, and videos come out and cool down.
Fairness ==
  /\ \A r \in Run : WF_vars(Proceed(r))
  /\ \A r \in Loop \cup Daily : WF_vars(StartRun(r))
  /\ WF_vars(CooldownPasses)

Spec == Init /\ [][Next]_vars /\ Fairness

-----------------------------------------------------------------------------
(* What the stages promise together.                                       *)

\* A promotion writes what a comparison of an allowed status was about, to a
\* reviewed video: the last shadow record is the one that was compared, because
\* a run that would add a second record of a video is stopped by its validation.
\* Two runs in one directory, or a run told to skip validation, are excepted.
PromotionWasReviewed ==
  [][\A r \in Run, v \in Video :
       (In(r, "shadow-promote") /\ plan'[r] # plan[r] /\ calls'[v] # calls[v]) =>
         /\ v \in args[r].reviewed
         /\ Dir(r) \in shared \/ "shadow-validate" \in args[r].skip \/ \E i \in 1..Len(diff[Dir(r)]) :
              LET d == diff[Dir(r)][i]
              IN d.video = v /\ d.status \in args[r].allowed /\ d.accepted = calls'[v].content]_vars

\* Promoted calls of an extracted video stay until the next promotion or another
\* transcript, whatever extractions run meanwhile, unless one of them had already
\* loaded the video.
PromotionsAreKept ==
  [][\A v \in Video : (calls[v].by = "promotion" /\ calls'[v].by # "promotion") =>
       v \notin extracted \/ v \in raced]_vars

\* An extracted video's calls are those of its transcript, unless the transcript
\* was replaced while an extraction or a review of the older one was under way.
ExtractedIsCurrent ==
  \A v \in extracted \ raced : calls[v].by = "extractor" => calls[v].of = transcript[v]

LockLeft == \E f \in DOMAIN locks : locks[f] # None /\ stage[locks[f]] = 0
Obstructed(v) ==
  Cardinality({w \in Video : w > v /\ w \notin captioned}) >= Limit["transcripts"]
ListedAtLast(v) ==
  Cardinality({w \in Video : w > v /\ CreatorOf[w] = CreatorOf[v]}) < Limit["listing"]

\* What it takes to count a video: its transcript is not there yet or not poor,
\* for a poor one is neither fetched again nor extracted, and it can come through
\* a daily pipeline that finds no lock file left behind, unless as many newer
\* videos without captions as a backfill takes stand before it; or through a
\* loop that writes, if no video defeats the models and every creator has a
\* video to show.
Countable(v) ==
  /\ published = Videos /\ ListedAtLast(v) /\ v \in captioned \ poor
  /\ \/ cast \cap Daily # {} /\ ~LockLeft /\ ~Obstructed(v)
     \/ /\ cast \cap Loop # {} /\ bad = {} /\ \A a \in UNION {Args[r] : r \in Loop} : a.write
        /\ \A c \in Creators : \E w \in captioned \ poor : CreatorOf[w] = c

\* A video that can be counted for good is extracted and counted again and again,
\* whichever runs fall between each other.
EveryVideoCounts ==
  \A v \in Video : <>[]Countable(v) => []<>(v \in extracted /\ scored[v] = calls[v])
=============================================================================
