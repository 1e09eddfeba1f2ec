------------------------ MODULE DataPipeline_proofs ------------------------
(***************************************************************************)
(* Proofs about the data pipeline for any number of videos, creators, runs   *)
(* of any kind, with any arguments and limits, and every fault.              *)
(***************************************************************************)
EXTENDS DataPipeline, SequenceTheorems, WellFoundedInduction, TLAPS

\* The stages that walk through videos, and among them those that extract.
WALKING == {"transcripts", "slow-transcripts", "ready-extract", "extract-local", "shadow-extract"}
EXTRACTING == {"ready-extract", "extract-local"}
Walking(r) == \E s \in WALKING : In(r, s)
Extracting(r) == \E s \in EXTRACTING : In(r, s)

Typed ==
  /\ published \in Video /\ known \subseteq Video /\ extracted \subseteq Video
  /\ transcript \in [Video -> Nat]
  /\ calls = [v \in Video |-> calls[v]]
  /\ stage = [r \in Run |-> stage[r]] /\ phase = [r \in Run |-> phase[r]]
  /\ todo \in [Run -> SUBSET Video] /\ loaded \in [Run -> [Video -> Nat]]

\* Only a stage that walks through videos has a list of them.
ListsBelong == \A r \in Run : todo[r] # {} => phase[r] = "work" /\ Walking(r)

\* What an extraction still has to do: its list was loaded from transcribed
\* videos, with the transcripts they still have, and none of them is a promoted
\* and extracted one; raced names the exceptions.
ListsAreFresh ==
  \A r \in Run : \A v \in todo[r] : Extracting(r) =>
    /\ transcript[v] # 0
    /\ v \notin raced => loaded[r][v] = transcript[v]
    /\ v \notin raced => v \notin extracted \/ calls[v].by # "promotion"

ExtractedIsTranscribed == \A v \in extracted : transcript[v] # 0

PipelineInv ==
  Typed /\ ListsBelong /\ ListsAreFresh /\ ExtractedIsTranscribed /\ ExtractedIsCurrent

-----------------------------------------------------------------------------
(* What a step does to a run, as far as the invariant sees it.              *)

Keeps(r) ==
  /\ stage'[r] = stage[r] /\ phase'[r] = phase[r] /\ loaded'[r] = loaded[r]
  /\ todo'[r] \subseteq todo[r]

\* No row of the invariant changes, and each run keeps its list, works part of it
\* off, or has none afterwards.
Quiet ==
  /\ UNCHANGED <<transcript, extracted, calls, raced>>
  /\ \A r \in Run : Keeps(r) \/ todo'[r] = {}

\* A quiet step preserves the invariant.
LEMMA QuietKeeps == PipelineInv /\ Quiet /\ Typed' => PipelineInv'
<1> SUFFICES ASSUME PipelineInv, Quiet, Typed' PROVE PipelineInv'
  OBVIOUS
<1>1. ASSUME NEW r \in Run, todo'[r] # {}
      PROVE  Keeps(r) /\ todo[r] # {}
  BY <1>1 DEF Quiet, Keeps
<1>2. ASSUME NEW r \in Run, NEW s, Keeps(r)
      PROVE  In(r, s)' = In(r, s)
  BY <1>2 DEF In, Keeps, Stages
<1>3. ListsBelong'
  <2> SUFFICES ASSUME NEW r \in Run, todo'[r] # {} PROVE phase'[r] = "work" /\ Walking(r)'
    BY DEF ListsBelong
  <2>1. Keeps(r) /\ phase[r] = "work" /\ Walking(r)
    BY <1>1 DEF PipelineInv, ListsBelong
  <2>2. PICK s \in WALKING : In(r, s)
    BY <2>1 DEF Walking
  <2> QED
    BY <1>2, <2>1, <2>2 DEF Walking, Keeps, WALKING
<1>4. ListsAreFresh'
  <2> SUFFICES ASSUME NEW r \in Run, NEW v \in todo'[r], Extracting(r)'
               PROVE  /\ transcript'[v] # 0
                      /\ v \notin raced' => loaded'[r][v] = transcript'[v]
                      /\ v \notin raced' => v \notin extracted' \/ calls'[v].by # "promotion"
    BY DEF ListsAreFresh
  <2>1. Keeps(r) /\ v \in todo[r]
    BY <1>1 DEF Keeps
  <2>2. Extracting(r)
    BY <1>2, <2>1 DEF Extracting, EXTRACTING
  <2> QED
    BY <2>1, <2>2 DEF PipelineInv, ListsAreFresh, Quiet, Keeps
<1>5. ExtractedIsTranscribed' /\ ExtractedIsCurrent'
  BY DEF PipelineInv, ExtractedIsTranscribed, ExtractedIsCurrent, Quiet
<1> QED
  BY <1>3, <1>4, <1>5 DEF PipelineInv

\* Lists of videos hold videos.
LEMMA ListedAreVideos == Typed => Listed \subseteq Video
<1> SUFFICES ASSUME Typed, NEW v \in Listed PROVE v \in Video
  OBVIOUS
<1>1. PICK c \in Creators :
        v \in Newest({w \in 1..published : CreatorOf[w] = c}, Limit["listing"])
  BY DEF Listed
<1>2. v \in 1..published
  BY <1>1 DEF Newest
<1> QED
  BY <1>2, PipelineAssumption DEF Typed, Video

-----------------------------------------------------------------------------
(* The actions.                                                             *)

LEMMA InvInit == Init => PipelineInv
<1> SUFFICES ASSUME Init PROVE PipelineInv
  OBVIOUS
<1>1. Typed
  BY PipelineAssumption DEF Init, Typed, Video, NothingLoaded
<1>2. ListsBelong /\ ListsAreFresh
  BY DEF Init, ListsBelong, ListsAreFresh
<1>3. ExtractedIsTranscribed
  BY DEF Init, ExtractedIsTranscribed
<1>4. ExtractedIsCurrent
  BY DEF Init, ExtractedIsCurrent, Video
<1> QED
  BY <1>1, <1>2, <1>3, <1>4 DEF PipelineInv

\* The world outside the runs.
LEMMA WorldStep ==
  ASSUME PipelineInv, Publish \/ CooldownPasses \/ \E v \in Video : IngestFailure(v)
  PROVE  PipelineInv'
<1> USE DEF envVars, rowVars, fileVars, runVars
<1>1. Quiet
  BY DEF Publish, CooldownPasses, IngestFailure, Quiet, Keeps
<1>2. Typed'
  BY PipelineAssumption DEF Publish, CooldownPasses, IngestFailure, PipelineInv, Typed, Video
<1> QED
  BY <1>1, <1>2, QuietKeeps

LEMMA IngestStep ==
  ASSUME PipelineInv, NEW v \in Video, IngestTranscript(v)
  PROVE  PipelineInv'
<1> USE DEF envVars, rowVars, fileVars, runVars
<1>1. Typed'
  BY DEF IngestTranscript, PipelineInv, Typed
<1>2. ListsBelong'
  BY DEF IngestTranscript, PipelineInv, ListsBelong, Walking, In
<1>3. ListsAreFresh'
  <2> SUFFICES ASSUME NEW r \in Run, NEW w \in todo[r], Extracting(r)
               PROVE  /\ transcript'[w] # 0
                      /\ w \notin raced' => loaded[r][w] = transcript'[w]
                      /\ w \notin raced' => w \notin extracted' \/ calls[w].by # "promotion"
    BY DEF IngestTranscript, ListsAreFresh, Extracting, In
  <2>1. CASE w = v
    <3>1. v \in raced'
      BY <2>1 DEF IngestTranscript, UnderWay, Extracting, EXTRACTING
    <3> QED
      BY <2>1, <3>1 DEF IngestTranscript, PipelineInv, Typed
  <2>2. CASE w # v
    BY <2>2 DEF IngestTranscript, PipelineInv, Typed, ListsAreFresh
  <2> QED
    BY <2>1, <2>2
<1>4. ExtractedIsTranscribed' /\ ExtractedIsCurrent'
  BY DEF IngestTranscript, PipelineInv, Typed, ExtractedIsTranscribed, ExtractedIsCurrent
<1> QED
  BY <1>1, <1>2, <1>3, <1>4 DEF PipelineInv

\* The orchestrators.
LEMMA RunStep ==
  ASSUME PipelineInv, NEW r \in Run,
         StartRun(r) \/ PlainStage(r) \/ StageFails(r) \/ Crash(r) \/ EndStage(r)
  PROVE  PipelineInv'
<1> USE DEF envVars, rowVars, fileVars, runVars
<1>1. Typed'
  <2>1. UNCHANGED rowVars /\ (UNCHANGED <<todo, loaded>> \/ Forgets(r))
    BY DEF StartRun, PlainStage, StageFails, Crash, EndStage
  <2>2. /\ \E i : stage' = [stage EXCEPT ![r] = i]
        /\ phase' = phase \/ phase' = [phase EXCEPT ![r] = "start"]
    BY DEF StartRun, PlainStage, StageFails, Crash, EndStage, Advance, Stop
  <2>3. stage' = [q \in Run |-> stage'[q]] /\ phase' = [q \in Run |-> phase'[q]]
    BY <2>2 DEF PipelineInv, Typed
  <2>4. NothingLoaded \in [Video -> Nat]
    BY DEF NothingLoaded
  <2>5. CASE UNCHANGED <<todo, loaded>>
    BY <2>1, <2>3, <2>5 DEF PipelineInv, Typed
  <2>6. CASE Forgets(r)
    <3>1. todo' \in [Run -> SUBSET Video]
      BY <2>6 DEF Forgets, PipelineInv, Typed
    <3>2. loaded' \in [Run -> [Video -> Nat]]
      BY <2>4, <2>6 DEF Forgets, PipelineInv, Typed
    <3> QED
      BY <2>1, <2>3, <3>1, <3>2 DEF PipelineInv, Typed
  <2> QED
    BY <2>1, <2>5, <2>6
<1>2. Quiet
  <2>1. \A q \in Run \ {r} : Keeps(q)
    BY DEF StartRun, PlainStage, StageFails, Crash, EndStage, Advance, Stop, Forgets, Keeps,
           PipelineInv, Typed
  <2>2. todo'[r] = {}
    <3>1. CASE StartRun(r)
      BY <3>1 DEF StartRun, PipelineInv, Typed, ListsBelong, Walking, In
    <3>2. CASE PlainStage(r)
      BY <3>2 DEF PlainStage, Plain, PipelineInv, Typed, ListsBelong, Walking, WALKING, In
    <3>3. CASE StageFails(r) \/ Crash(r) \/ EndStage(r)
      BY <3>3 DEF StageFails, Crash, EndStage, Forgets, PipelineInv, Typed
    <3> QED
      BY <3>1, <3>2, <3>3
  <2>3. UNCHANGED <<transcript, extracted, calls, raced>>
    BY DEF StartRun, PlainStage, StageFails, Crash, EndStage
  <2> QED
    BY <2>1, <2>2, <2>3 DEF Quiet
<1> QED
  BY <1>1, <1>2, QuietKeeps
\* Stages that walk through no videos, and the steps that only shorten a list.
LEMMA QuietStageStep ==
  ASSUME PipelineInv, NEW r \in Run,
         \/ Discover(r) \/ ShadowVideo(r) \/ ShadowValidate(r) \/ ShadowDiff(r)
         \/ LoadPromotions(r) \/ ComputeScores(r) \/ ExtractionFails(r) \/ ProviderBlocks(r)
  PROVE  PipelineInv'
<1> USE DEF envVars, rowVars, fileVars, runVars
<1>1. /\ UNCHANGED <<published, transcript, extracted, calls, loaded, raced>>
      /\ known' = known \/ known' = known \cup Listed
  BY DEF Discover, ShadowVideo, ShadowValidate, ShadowDiff, LoadPromotions, ComputeScores,
         ExtractionFails, ProviderBlocks
<1>2. CASE \/ Discover(r) \/ ShadowValidate(r) \/ ShadowDiff(r) \/ LoadPromotions(r) \/ ComputeScores(r)
  <2>1. /\ \E i : stage' = [stage EXCEPT ![r] = i] \/ stage' = stage
        /\ \E s : phase' = [phase EXCEPT ![r] = s]
        /\ UNCHANGED todo
    BY ZenonT(40), <1>2 DEF Discover, ShadowValidate, ShadowDiff, LoadPromotions, ComputeScores, Advance, Stop
  <2>2. todo[r] = {}
    BY <1>2 DEF Discover, ShadowValidate, ShadowDiff, LoadPromotions, ComputeScores,
                PipelineInv, ListsBelong, Walking, WALKING, In
  <2>3. Typed'
    BY <1>1, <2>1, ListedAreVideos DEF PipelineInv, Typed
  <2>4. Quiet
    BY <1>1, <2>1, <2>2 DEF Quiet, Keeps, PipelineInv, Typed
  <2> QED
    BY <2>3, <2>4, QuietKeeps
<1>3. CASE ShadowVideo(r) \/ ExtractionFails(r) \/ ProviderBlocks(r)
  <2>1. /\ UNCHANGED <<stage, phase>>
        /\ \E w : todo' = [todo EXCEPT ![r] = @ \ {w}] \/ todo' = [todo EXCEPT ![r] = {}]
    BY <1>3 DEF ShadowVideo, ExtractionFails, ProviderBlocks, Drops
  <2>2. Typed'
    BY <1>1, <2>1, ListedAreVideos DEF PipelineInv, Typed
  <2>3. Quiet
    BY <1>1, <2>1 DEF Quiet, Keeps, PipelineInv, Typed
  <2> QED
    BY <2>2, <2>3, QuietKeeps
<1> QED
  BY SMTT(30), <1>2, <1>3

\* A stage loads its videos; an extraction's are pending ones.
LEMMA LoadsKeeps ==
  ASSUME PipelineInv, NEW r \in Run, NEW videos \in SUBSET Video,
         Walking(r), Extracting(r) => videos \subseteq Pending,
         Loads(r, videos), UNCHANGED <<rowVars, stage, raced>>
  PROVE  PipelineInv'
<1> USE DEF rowVars
<1>1. /\ todo' = [todo EXCEPT ![r] = videos] /\ loaded' = [loaded EXCEPT ![r] = transcript]
      /\ phase' = [phase EXCEPT ![r] = "work"]
  BY DEF Loads
<1>2. Typed'
  BY <1>1 DEF PipelineInv, Typed
<1>3. \A q \in Run : (Walking(q)' = Walking(q)) /\ (Extracting(q)' = Extracting(q))
  BY DEF Walking, Extracting, In
<1>4. ListsBelong'
  BY <1>1, <1>3 DEF PipelineInv, Typed, ListsBelong
<1>5. ListsAreFresh'
  <2> SUFFICES ASSUME NEW q \in Run, NEW v \in todo'[q], Extracting(q)
               PROVE  /\ transcript[v] # 0
                      /\ v \notin raced => loaded'[q][v] = transcript[v]
                      /\ v \notin raced => v \notin extracted \/ calls[v].by # "promotion"
    BY <1>3 DEF ListsAreFresh
  <2>1. CASE q = r
    <3>1. v \in Pending /\ loaded'[q] = transcript
      BY <1>1, <2>1 DEF PipelineInv, Typed
    <3> QED
      BY <3>1 DEF Pending, Transcribed
  <2>2. CASE q # r
    <3>1. v \in todo[q] /\ loaded'[q] = loaded[q]
      BY <1>1, <2>2 DEF PipelineInv, Typed
    <3> QED
      BY <3>1 DEF PipelineInv, ListsAreFresh
  <2> QED
    BY <2>1, <2>2
<1>6. ExtractedIsTranscribed' /\ ExtractedIsCurrent'
  BY DEF PipelineInv, ExtractedIsTranscribed, ExtractedIsCurrent
<1> QED
  BY <1>2, <1>4, <1>5, <1>6 DEF PipelineInv

LEMMA LoadStep ==
  ASSUME PipelineInv, NEW r \in Run,
         LoadListed(r) \/ LoadMissing(r) \/ LoadPending(r) \/ LoadShadowVideos(r)
  PROVE  PipelineInv'
<1> USE DEF envVars, rowVars, fileVars
<1>1. CASE LoadListed(r)
  <2>1. Listed \in SUBSET Video
    BY ListedAreVideos DEF PipelineInv
  <2>2. Walking(r) /\ ~Extracting(r)
    BY <1>1 DEF LoadListed, Walking, WALKING, Extracting, EXTRACTING, In
  <2> QED
    BY <1>1, <2>1, <2>2, LoadsKeeps DEF LoadListed
<1>2. CASE LoadMissing(r)
  <2>1. Walking(r) /\ ~Extracting(r)
    BY <1>2 DEF LoadMissing, Walking, WALKING, Extracting, EXTRACTING, In
  <2>2. Newest(Missing, Limit["transcripts"]) \in SUBSET Video
    BY DEF Newest, Missing, PipelineInv, Typed
  <2>3. CASE locks["transcripts"] = None
    BY <1>2, <2>1, <2>2, <2>3, LoadsKeeps DEF LoadMissing
  <2>4. CASE locks["transcripts"] # None
    <3>1. /\ \E i : stage' = [stage EXCEPT ![r] = i]
          /\ phase' = [phase EXCEPT ![r] = "start"]
          /\ UNCHANGED <<published, known, transcript, extracted, calls, todo, loaded, raced>>
      BY <1>2, <2>4 DEF LoadMissing, Advance
    <3>2. todo[r] = {}
      BY <1>2 DEF LoadMissing, PipelineInv, ListsBelong
    <3>3. Typed'
      BY <3>1 DEF PipelineInv, Typed
    <3>4. Quiet
      BY <3>1, <3>2 DEF Quiet, Keeps, PipelineInv, Typed
    <3> QED
      BY <3>3, <3>4, QuietKeeps
  <2> QED
    BY <2>3, <2>4
<1>3. CASE LoadPending(r)
  <2>1. Walking(r)
    BY <1>3 DEF LoadPending, Walking, WALKING
  <2>2. Newest(Pending, Limit["extract"]) \subseteq Pending /\ Pending \subseteq Video
    BY DEF Newest, Pending, Transcribed, PipelineInv, Typed
  <2> QED
    BY <1>3, <2>1, <2>2, LoadsKeeps DEF LoadPending
<1>4. CASE LoadShadowVideos(r)
  <2> DEFINE videos == UNION {Newest({v \in Transcribed : CreatorOf[v] = c}, Limit["shadow"]) : c \in Creators}
  <2>1. videos \in SUBSET Video
    BY DEF Newest, Transcribed, PipelineInv, Typed
  <2>2. Walking(r) /\ ~Extracting(r)
    BY <1>4 DEF LoadShadowVideos, Walking, WALKING, Extracting, EXTRACTING, In
  <2>3. Loads(r, videos) /\ UNCHANGED <<rowVars, stage, raced>>
    BY <1>4 DEF LoadShadowVideos
  <2> QED
    BY <2>1, <2>2, <2>3, LoadsKeeps
<1> QED
  BY <1>1, <1>2, <1>3, <1>4
\* A first transcript arrives for a video; it is in no extraction's list.
LEMMA FirstTranscriptKeeps ==
  ASSUME PipelineInv, Typed', NEW v \in Video, NEW r \in Run,
         transcript[v] = 0,
         transcript' = transcript \/ transcript' = [transcript EXCEPT ![v] = 1],
         extracted' = extracted \/ extracted' = extracted \ {v},
         todo' = [todo EXCEPT ![r] = @ \ {v}],
         UNCHANGED <<calls, stage, phase, loaded, raced>>
  PROVE  PipelineInv'
<1>1. \A q \in Run : (Walking(q)' = Walking(q)) /\ (Extracting(q)' = Extracting(q)) /\ todo'[q] \subseteq todo[q]
  BY DEF Walking, Extracting, In, PipelineInv, Typed
<1>2. extracted' \subseteq extracted /\ v \notin extracted
  BY DEF PipelineInv, ExtractedIsTranscribed
<1>3. \A w \in Video : transcript[w] # 0 => transcript'[w] = transcript[w]
  BY DEF PipelineInv, Typed
<1>4. ListsBelong'
  BY <1>1 DEF PipelineInv, ListsBelong
<1>5. ListsAreFresh'
  <2> SUFFICES ASSUME NEW q \in Run, NEW w \in todo'[q], Extracting(q)
               PROVE  /\ transcript'[w] # 0
                      /\ w \notin raced => loaded[q][w] = transcript'[w]
                      /\ w \notin raced => w \notin extracted' \/ calls[w].by # "promotion"
    BY <1>1 DEF ListsAreFresh
  <2>1. w \in todo[q] /\ w \in Video
    BY <1>1 DEF PipelineInv, Typed
  <2> QED
    BY <1>2, <1>3, <2>1 DEF PipelineInv, ListsAreFresh
<1>6. ExtractedIsTranscribed' /\ ExtractedIsCurrent'
  BY <1>2, <1>3 DEF PipelineInv, Typed, ExtractedIsTranscribed, ExtractedIsCurrent
<1> QED
  BY <1>4, <1>5, <1>6 DEF PipelineInv

\* A fetch that changes no transcript only shortens the list.
LEMMA ShortensKeeps ==
  ASSUME PipelineInv, Typed', NEW r \in Run, NEW v,
         todo' = [todo EXCEPT ![r] = @ \ {v}],
         UNCHANGED <<transcript, extracted, calls, stage, phase, loaded, raced>>
  PROVE  PipelineInv'
<1>1. Quiet
  BY DEF Quiet, Keeps, PipelineInv, Typed
<1> QED
  BY <1>1, QuietKeeps

LEMMA TranscriptStep ==
  ASSUME PipelineInv, NEW r \in Run, ScrapeTranscript(r) \/ FetchTranscript(r)
  PROVE  PipelineInv'
<1> USE DEF envVars, rowVars, fileVars
<1>1. PICK v \in todo[r] :
        /\ todo' = [todo EXCEPT ![r] = @ \ {v}]
        /\ known' = known \/ known' = known \cup {v}
        /\ \/ UNCHANGED <<transcript, extracted>>
           \/ /\ transcript[v] = 0 /\ transcript' = [transcript EXCEPT ![v] = 1]
              /\ extracted' = extracted \/ extracted' = extracted \ {v}
  <2>1. CASE ScrapeTranscript(r)
    <3>1. PICK v \in todo[r] :
            /\ Drops(r, v)
            /\ IF v \in captioned /\ Writes(r)
               THEN /\ known' = known \cup {v}
                    /\ transcript' = [transcript EXCEPT ![v] = IF @ = 0 THEN 1 ELSE @]
               ELSE UNCHANGED <<known, transcript>>
      BY <2>1 DEF ScrapeTranscript
    <3>2. v \in Video
      BY DEF PipelineInv, Typed
    <3>3. transcript' = transcript \/ (transcript[v] = 0 /\ transcript' = [transcript EXCEPT ![v] = 1])
      BY <3>1, <3>2 DEF PipelineInv, Typed
    <3>4. extracted' = extracted
      BY <2>1 DEF ScrapeTranscript
    <3> QED
      BY <3>1, <3>3, <3>4 DEF Drops
  <2>2. CASE FetchTranscript(r)
    BY <2>2 DEF FetchTranscript, Drops
  <2> QED
    BY <2>1, <2>2
<1>2. UNCHANGED <<published, calls, stage, phase, loaded, raced>>
  BY DEF ScrapeTranscript, FetchTranscript
<1>3. v \in Video
  BY DEF PipelineInv, Typed
<1>4. Typed'
  BY <1>1, <1>2, <1>3 DEF PipelineInv, Typed
<1>5. CASE UNCHANGED <<transcript, extracted>>
  BY <1>1, <1>2, <1>4, <1>5, ShortensKeeps
<1>6. CASE ~UNCHANGED <<transcript, extracted>>
  BY <1>1, <1>2, <1>3, <1>4, <1>6, FirstTranscriptKeeps
<1> QED
  BY <1>5, <1>6

\* An extraction writes the calls of a video it had loaded.
LEMMA ExtractStep ==
  ASSUME PipelineInv, NEW r \in Run, ExtractVideo(r)
  PROVE  PipelineInv'
<1> USE DEF envVars, rowVars, fileVars
<1>1. PICK v \in todo[r], found \in Content :
        /\ todo' = [todo EXCEPT ![r] = @ \ {v}]
        /\ \/ UNCHANGED <<calls, extracted>>
           \/ /\ calls' = [calls EXCEPT ![v] = [by |-> "extractor", of |-> loaded[r][v], content |-> found]]
              /\ extracted' = extracted \cup {v}
  BY DEF ExtractVideo, Drops
<1>2. UNCHANGED <<published, known, transcript, stage, phase, loaded, raced>>
  BY DEF ExtractVideo
<1>3. v \in Video
  BY DEF PipelineInv, Typed
<1>4. Typed'
  BY <1>1, <1>2, <1>3 DEF PipelineInv, Typed
<1>5. CASE UNCHANGED <<calls, extracted>>
  BY <1>1, <1>2, <1>4, <1>5, ShortensKeeps
<1>6. CASE ~UNCHANGED <<calls, extracted>>
  <2>1. \A q \in Run : (Walking(q)' = Walking(q)) /\ (Extracting(q)' = Extracting(q)) /\ todo'[q] \subseteq todo[q]
    BY <1>1, <1>2 DEF Walking, Extracting, In, PipelineInv, Typed
  <2>2. Extracting(r)
    BY DEF ExtractVideo, Extracting, EXTRACTING
  <2>3. transcript[v] # 0 /\ (v \notin raced => loaded[r][v] = transcript[v])
    BY <2>2 DEF PipelineInv, ListsAreFresh
  <2>4. /\ calls'[v].by = "extractor" /\ calls'[v].of = loaded[r][v]
        /\ \A w \in Video \ {v} : calls'[w] = calls[w]
        /\ extracted' = extracted \cup {v}
    BY <1>1, <1>3, <1>6 DEF PipelineInv, Typed
  <2>5. ListsBelong'
    BY <1>2, <2>1 DEF PipelineInv, ListsBelong
  <2>6. ListsAreFresh'
    <3> SUFFICES ASSUME NEW q \in Run, NEW w \in todo'[q], Extracting(q)
                 PROVE  /\ transcript[w] # 0
                        /\ w \notin raced => loaded[q][w] = transcript[w]
                        /\ w \notin raced => w \notin extracted' \/ calls'[w].by # "promotion"
      BY <1>2, <2>1 DEF ListsAreFresh
    <3>1. w \in todo[q] /\ w \in Video
      BY <2>1 DEF PipelineInv, Typed
    <3>2. transcript[w] # 0 /\ (w \notin raced => loaded[q][w] = transcript[w])
      BY <3>1 DEF PipelineInv, ListsAreFresh
    <3>3. w \notin raced => w \notin extracted' \/ calls'[w].by # "promotion"
      BY <2>4, <3>1 DEF PipelineInv, ListsAreFresh
    <3> QED
      BY <3>2, <3>3
  <2>7. ExtractedIsTranscribed' /\ ExtractedIsCurrent'
    BY <1>2, <2>3, <2>4 DEF PipelineInv, Typed, ExtractedIsTranscribed, ExtractedIsCurrent
  <2> QED
    BY <1>4, <2>5, <2>6, <2>7 DEF PipelineInv
<1> QED
  BY <1>5, <1>6

\* A promotion may write a video that is being extracted: raced keeps it.
LEMMA PromoteStep ==
  ASSUME PipelineInv, NEW r \in Run, PromoteNext(r)
  PROVE  PipelineInv'
<1> USE DEF envVars, rowVars, fileVars
<1> DEFINE v == Head(plan[r]).diff.video
<1>1. UNCHANGED <<published, known, transcript, extracted, stage, phase, todo, loaded>>
  BY DEF PromoteNext
<1>2. \/ UNCHANGED <<calls, raced>>
      \/ /\ \E of, content : calls' = [calls EXCEPT ![v] = [by |-> "promotion", of |-> of, content |-> content]]
         /\ raced' = IF UnderWay(v) THEN raced \cup {v} ELSE raced
  BY DEF PromoteNext
<1>3. Typed'
  BY <1>1, <1>2 DEF PipelineInv, Typed
<1>4. raced \subseteq raced' /\ (~UNCHANGED <<calls, raced>> /\ UnderWay(v) => v \in raced')
  BY <1>2
<1>5. \A w \in Video : calls'[w] = calls[w] \/ (w = v /\ calls'[w].by = "promotion" /\ ~UNCHANGED <<calls, raced>>)
  <2>1. CASE UNCHANGED <<calls, raced>>
    BY <2>1
  <2>2. CASE ~UNCHANGED <<calls, raced>>
    <3>1. PICK of, content : calls' = [calls EXCEPT ![v] = [by |-> "promotion", of |-> of, content |-> content]]
      BY <1>2, <2>2
    <3> HIDE DEF v
    <3>2. \A w \in Video : calls'[w] = IF w = v THEN [by |-> "promotion", of |-> of, content |-> content]
                                       ELSE calls[w]
      BY <3>1 DEF PipelineInv, Typed
    <3> QED
      BY <2>2, <3>2
  <2> QED
    BY <2>1, <2>2
<1>6. \A q \in Run : (Walking(q)' = Walking(q)) /\ (Extracting(q)' = Extracting(q))
  BY <1>1 DEF Walking, Extracting, In
<1>7. ListsBelong'
  BY <1>1, <1>6 DEF PipelineInv, ListsBelong
<1>8. ListsAreFresh'
  <2> SUFFICES ASSUME NEW q \in Run, NEW w \in todo[q], Extracting(q)
               PROVE  /\ transcript[w] # 0
                      /\ w \notin raced' => loaded[q][w] = transcript[w]
                      /\ w \notin raced' => w \notin extracted \/ calls'[w].by # "promotion"
    BY <1>1, <1>6 DEF ListsAreFresh
  <2>1. w \in Video /\ UnderWay(w)
    BY DEF PipelineInv, Typed, UnderWay, Extracting, EXTRACTING
  <2>2. calls'[w] = calls[w] \/ w \in raced'
    BY <1>4, <1>5, <2>1
  <2> QED
    BY <1>4, <2>2 DEF PipelineInv, ListsAreFresh
<1>9. ExtractedIsTranscribed' /\ ExtractedIsCurrent'
  BY <1>1, <1>4, <1>5 DEF PipelineInv, Typed, ExtractedIsTranscribed, ExtractedIsCurrent
<1> QED
  BY <1>3, <1>7, <1>8, <1>9 DEF PipelineInv

-----------------------------------------------------------------------------
(* The theorems.                                                            *)

LEMMA InvNext == PipelineInv /\ [Next]_vars => PipelineInv'
<1> SUFFICES ASSUME PipelineInv, [Next]_vars PROVE PipelineInv'
  OBVIOUS
<1>1. CASE UNCHANGED vars
  <2>1. UNCHANGED <<published, known, transcript, extracted, calls, stage, phase, todo, loaded, raced>>
    BY <1>1 DEF vars, envVars, rowVars, fileVars, runVars
  <2>2. Quiet
    BY <2>1 DEF Quiet, Keeps
  <2>3. Typed'
    BY <2>1 DEF PipelineInv, Typed
  <2> QED
    BY <2>2, <2>3, QuietKeeps
<1>2. ASSUME Next PROVE PipelineInv'
  <2>1. CASE Publish \/ CooldownPasses \/ \E v \in Video : IngestFailure(v)
    BY <2>1, WorldStep
  <2>2. ASSUME NEW v \in Video, IngestTranscript(v) PROVE PipelineInv'
    BY <2>2, IngestStep
  <2>3. ASSUME NEW r \in Run, StartRun(r) \/ Proceed(r) \/ StageFails(r) \/ Crash(r) \/ ProviderBlocks(r)
        PROVE  PipelineInv'
    <3>1. CASE StartRun(r) \/ PlainStage(r) \/ StageFails(r) \/ Crash(r) \/ EndStage(r)
      BY <3>1, RunStep
    <3>2. CASE \/ Discover(r) \/ ShadowVideo(r) \/ ShadowValidate(r) \/ ShadowDiff(r)
               \/ LoadPromotions(r) \/ ComputeScores(r) \/ ExtractionFails(r) \/ ProviderBlocks(r)
      BY <3>2, QuietStageStep
    <3>3. CASE LoadListed(r) \/ LoadMissing(r) \/ LoadPending(r) \/ LoadShadowVideos(r)
      BY <3>3, LoadStep
    <3>4. CASE ScrapeTranscript(r) \/ FetchTranscript(r)
      BY <3>4, TranscriptStep
    <3>5. CASE ExtractVideo(r)
      BY <3>5, ExtractStep
    <3>6. CASE PromoteNext(r)
      BY <3>6, PromoteStep
    <3> QED
      BY <2>3, <3>1, <3>2, <3>3, <3>4, <3>5, <3>6 DEF Proceed
  <2> QED
    BY <1>2, <2>1, <2>2, <2>3 DEF Next
<1> QED
  BY <1>1, <1>2

LEMMA Invariance == Spec => []PipelineInv
<1>1. Init => PipelineInv
  BY InvInit
<1>2. PipelineInv /\ [Next]_vars => PipelineInv'
  BY InvNext
<1> QED
  BY <1>1, <1>2, PTL DEF Spec

\* An extracted video's calls are those of its transcript, for any runs beside
\* each other: only a video whose transcript was replaced, or that was promoted,
\* while an extraction had it loaded is excepted.
THEOREM CallsAreCurrent == Spec => []ExtractedIsCurrent
<1>1. PipelineInv => ExtractedIsCurrent
  BY DEF PipelineInv
<1> QED
  BY <1>1, Invariance, PTL

\* Nothing but an extraction replaces promoted calls by others, and none of those
\* under way has loaded a promoted and extracted video that is not excepted.
LEMMA PromotedStays ==
  ASSUME PipelineInv, [Next]_vars, NEW v \in Video,
         calls[v].by = "promotion", calls'[v].by # "promotion"
  PROVE  v \notin extracted \/ v \in raced
<1> USE DEF envVars, rowVars, fileVars, runVars
<1>1. PICK r \in Run : ExtractVideo(r)
  <2>1. ASSUME NEW r \in Run, PromoteNext(r) PROVE FALSE
    <3>1. \/ calls' = calls
          \/ \E of, content :
               calls' = [calls EXCEPT ![Head(plan[r]).diff.video] =
                           [by |-> "promotion", of |-> of, content |-> content]]
      BY <2>1 DEF PromoteNext
    <3>2. CASE calls' = calls
      BY <3>2
    <3>3. CASE calls' # calls
      <4> DEFINE w == Head(plan[r]).diff.video
      <4>1. PICK of, content : calls' = [calls EXCEPT ![w] = [by |-> "promotion", of |-> of, content |-> content]]
        BY <3>1, <3>3
      <4> HIDE DEF w
      <4>2. calls'[v] = IF v = w THEN [by |-> "promotion", of |-> of, content |-> content] ELSE calls[v]
        BY <4>1 DEF PipelineInv, Typed
      <4> QED
        BY <4>2
    <3> QED
      BY <3>2, <3>3
  <2>2. CASE UNCHANGED vars
    BY <2>2 DEF vars
  <2>3. CASE Publish \/ CooldownPasses \/ \E w \in Video : IngestTranscript(w) \/ IngestFailure(w)
    BY <2>3 DEF Publish, CooldownPasses, IngestTranscript, IngestFailure
  <2>4. ASSUME NEW r \in Run, StartRun(r) \/ Proceed(r) \/ StageFails(r) \/ Crash(r) \/ ProviderBlocks(r)
        PROVE  ExtractVideo(r)
    <3>1. CASE StartRun(r) \/ StageFails(r) \/ Crash(r) \/ ProviderBlocks(r)
      BY <3>1 DEF StartRun, StageFails, Crash, ProviderBlocks
    <3>2. CASE PlainStage(r) \/ EndStage(r) \/ Discover(r) \/ LoadListed(r) \/ ScrapeTranscript(r)
      BY <3>2 DEF PlainStage, EndStage, Discover, LoadListed, ScrapeTranscript
    <3>4. CASE LoadMissing(r) \/ FetchTranscript(r) \/ LoadPending(r)
      <4>1. UNCHANGED calls
        BY SMTT(30), <3>4 DEF LoadMissing, FetchTranscript, LoadPending
      <4> QED
        BY <4>1
    <3>3. CASE \/ LoadShadowVideos(r) \/ ShadowVideo(r) \/ ShadowValidate(r) \/ ShadowDiff(r)
               \/ LoadPromotions(r) \/ ComputeScores(r) \/ ExtractionFails(r)
      BY <3>3 DEF LoadShadowVideos, ShadowVideo, ShadowValidate, ShadowDiff, LoadPromotions,
                  ComputeScores, ExtractionFails
    <3> QED
      BY <2>1, <2>4, <3>1, <3>2, <3>3, <3>4 DEF Proceed
  <2> QED
    BY <2>2, <2>3, <2>4 DEF Next
<1>2. v \in todo[r]
  BY <1>1 DEF ExtractVideo, Drops, PipelineInv, Typed
<1>3. Extracting(r)
  BY <1>1 DEF ExtractVideo, Extracting, EXTRACTING
<1> QED
  BY <1>2, <1>3 DEF PipelineInv, ListsAreFresh

\* Promoted calls of an extracted video stay, whatever extractions run beside the
\* promotion.
THEOREM PromotedCallsAreKept == Spec => PromotionsAreKept
<1>1. PipelineInv /\ [Next]_vars =>
        [\A v \in Video : (calls[v].by = "promotion" /\ calls'[v].by # "promotion") =>
            v \notin extracted \/ v \in raced]_vars
  BY PromotedStays
<1>2. Spec => [][Next]_vars
  BY PTL DEF Spec
<1> QED
  BY <1>1, <1>2, Invariance, PTL DEF PromotionsAreKept
-----------------------------------------------------------------------------
(* What a promotion writes.                                                 *)

ShadowRecord == [video : Video, of : Nat, content : Content, error : {None, "failed", "dry_run"}]
DiffRecord == [video : Video, accepted : Content, status : PROMOTABLE_STATUSES \cup {"manual_review"}]
Entry == [diff : DiffRecord, shadow : ShadowRecord]

FilesTyped ==
  /\ \A r \in Run : stage[r] \in 0..Len(Stages(r))
  /\ \A r \in Run \ Daily : stage[r] # 0 => Dir(r) \in Dirs
  /\ shadow \in [Dirs -> Seq(ShadowRecord)] /\ diff \in [Dirs -> Seq(DiffRecord)]
  /\ args = [r \in Run |-> args[r]] /\ plan \in [Run -> Seq(Entry)]

\* No comparison outlives the shadow record it was made of.
ComparedAreShadows ==
  \A d \in Dirs : \A i \in 1..Len(diff[d]) : \E j \in 1..Len(shadow[d]) :
    /\ shadow[d][j].video = diff[d][i].video
    /\ shadow[d][j].content = diff[d][i].accepted

\* Two runs in one directory are known to have shared it.
Alone ==
  \A r, q \in Run : r # q /\ stage[r] # 0 /\ stage[q] # 0 /\ Dir(r) = Dir(q) => Dir(r) \in shared

\* Where a run is past the validation of what it works on, no video has two records.
Validated(r) ==
  /\ In(r, "shadow-diff") \/ In(r, "shadow-promote")
  /\ "shadow-validate" \notin args[r].skip /\ Dir(r) \notin shared
OneRecordEach(d) ==
  \A i, j \in 1..Len(shadow[d]) : shadow[d][i].video = shadow[d][j].video => i = j
ValidatedAreUnique == \A r \in Run : Validated(r) => OneRecordEach(Dir(r))

\* ShadowByVideo, of the records in a file.
LastRecord(records, v) ==
  LET found == {i \in 1..Len(records) : records[i].video = v}
  IN IF found = {} THEN None ELSE records[CHOOSE i \in found : \A j \in found : j <= i]

LEMMA ShadowIsLast == ASSUME NEW d, NEW v PROVE ShadowByVideo(d, v) = LastRecord(shadow[d], v)
  BY DEF ShadowByVideo, LastRecord

\* What a promotion has read is still what the files hold.
PlanIsCurrent(r) ==
  \A k \in 1..Len(plan[r]) :
    /\ \E i \in 1..Len(diff[Dir(r)]) : plan[r][k].diff = diff[Dir(r)][i]
    /\ plan[r][k].shadow = LastRecord(shadow[Dir(r)], plan[r][k].diff.video)
PlansBelong ==
  \A r \in Run : plan[r] # <<>> =>
    /\ In(r, "shadow-promote") /\ phase[r] = "work" /\ Guarded(args[r])
    /\ Dir(r) \notin shared => PlanIsCurrent(r)

\* The validation is a process without a list to work through.
WorkHasPlace == \A r \in Run : phase[r] = "work" => stage[r] # 0 /\ ~In(r, "shadow-validate")

FilesInv ==
  /\ FilesTyped /\ ComparedAreShadows /\ Alone /\ ValidatedAreUnique /\ PlansBelong
  /\ WorkHasPlace

\* The least and the greatest of some numbers.
LEMMA LeastExists ==
  ASSUME NEW S \in SUBSET Nat, S # {}
  PROVE  \E n \in S : \A m \in S : n <= m
<1>1. PICK n \in S : \A m \in S : ~(<<m, n>> \in OpToRel(<, Nat))
  BY WFMin, NatLessThanWellFounded, Zenon
<1>2. \A m \in S : ~(m < n)
  BY <1>1, Zenon DEF OpToRel
<1> QED
  BY <1>2

LEMMA GreatestExists ==
  ASSUME NEW len \in Nat, NEW S \in SUBSET (1..len), S # {}
  PROVE  \E n \in S : \A m \in S : m <= n
<1> DEFINE T == {len - n : n \in S}
<1>1. T \in SUBSET Nat /\ T # {}
  OBVIOUS
<1>2. PICK t \in T : \A u \in T : t <= u
  BY <1>1, LeastExists
<1>3. PICK n \in S : t = len - n
  OBVIOUS
<1>4. \A m \in S : len - n <= len - m
  BY <1>2, <1>3
<1> QED
  BY <1>4

\* What the next stage of a run is.
LEMMA NextStageIs ==
  ASSUME NEW r \in Run, NEW skip, NEW k \in Nat, NEW i, i = NextStage(r, skip, k), i # 0
  PROVE  /\ i \in k + 1..Len(Stages(r)) /\ Stages(r)[i] \notin skip
         /\ \A j \in k + 1..Len(Stages(r)) : j < i => Stages(r)[j] \in skip
<1> DEFINE left == {j \in k + 1..Len(Stages(r)) : Stages(r)[j] \notin skip}
<1>1. left # {} /\ i = CHOOSE n \in left : \A m \in left : n <= m
  BY DEF NextStage
<1>2. Len(Stages(r)) \in Nat
  BY DEF Stages, STAGES, DAILY_STAGES
<1>3. left \in SUBSET Nat
  BY <1>2
<1>4. i \in left /\ \A m \in left : i <= m
  BY <1>1, <1>3, LeastExists
<1> QED
  BY <1>2, <1>4

\* The stages from the shadow extraction on, by their places.
LEMMA PlaceOf ==
  ASSUME NEW r \in Run, NEW k \in 0..Len(Stages(r)), k # 0
  PROVE  /\ k \in 1..10
         /\ Stages(r)[k] = "shadow-extract" <=> r \notin Daily /\ k = 5
         /\ Stages(r)[k] = "shadow-validate" <=> r \notin Daily /\ k = 6
         /\ Stages(r)[k] = "shadow-diff" <=> r \notin Daily /\ k = 7
         /\ Stages(r)[k] = "shadow-promote" <=> r \notin Daily /\ k = 8
<1>1. CASE r \in Daily
  BY <1>1 DEF Stages, DAILY_STAGES
<1>2. CASE r \notin Daily
  BY <1>2 DEF Stages, STAGES
<1> QED
  BY <1>1, <1>2

LEMMA StagePlaces ==
  ASSUME FilesTyped, NEW r \in Run
  PROVE  /\ stage[r] \in 0..10
         /\ In(r, "shadow-extract") <=> r \notin Daily /\ stage[r] = 5
         /\ In(r, "shadow-validate") <=> r \notin Daily /\ stage[r] = 6
         /\ In(r, "shadow-diff") <=> r \notin Daily /\ stage[r] = 7
         /\ In(r, "shadow-promote") <=> r \notin Daily /\ stage[r] = 8
  BY PlaceOf DEF FilesTyped, In

\* A run that passes from one stage to the next comes past the validation only by it.
LEMMA PastValidation ==
  ASSUME FilesTyped, FilesTyped', NEW r \in Run,
         stage'[r] = NextStage(r, args[r].skip, stage[r]), args'[r] = args[r],
         Validated(r)', UNCHANGED shared
  PROVE  In(r, "shadow-validate") \/ Validated(r)
<1>1. r \notin Daily /\ stage'[r] \in {7, 8}
  <2>1. stage'[r] \in 0..Len(Stages(r)) /\ stage'[r] # 0
    BY DEF FilesTyped, Validated, In, Stages
  <2>2. Stages(r)[stage'[r]] \in {"shadow-diff", "shadow-promote"}
    BY DEF Validated, In, Stages
  <2> QED
    BY <2>1, <2>2, PlaceOf
<1>2. stage[r] \in 0..10
  BY StagePlaces
<1>3. Stages(r) = STAGES /\ Len(STAGES) = 10 /\ STAGES[6] = "shadow-validate"
  BY <1>1 DEF Stages, STAGES
<1>4. "shadow-validate" \notin args[r].skip /\ Dir(r) \notin shared
  BY DEF Validated, Dir
<1>5. stage'[r] \in stage[r] + 1..10
  BY <1>1, <1>2, <1>3, NextStageIs
<1>6. ~(6 \in stage[r] + 1..10)
  <2> SUFFICES ASSUME 6 \in stage[r] + 1..10 PROVE FALSE
    OBVIOUS
  <2>1. \A j \in stage[r] + 1..Len(Stages(r)) : j < stage'[r] => Stages(r)[j] \in args[r].skip
    BY <1>1, <1>2, NextStageIs
  <2>2. 6 < stage'[r]
    BY <1>1
  <2> QED
    BY <1>3, <1>4, <2>1, <2>2
<1>7. stage[r] \in {6, 7}
  BY <1>1, <1>2, <1>5, <1>6
<1> QED
  BY <1>1, <1>4, <1>7, StagePlaces DEF Validated

\* What a step that leaves what is in the files alone does to a run.
Onward(r) ==
  \/ /\ stage'[r] = stage[r]
     /\ phase'[r] = phase[r] \/ (phase'[r] = "work" /\ stage[r] # 0 /\ ~In(r, "shadow-validate"))
     /\ plan'[r] = plan[r] \/ (plan[r] # <<>> /\ plan'[r] = Tail(plan[r]))
  \/ stage'[r] = 0 /\ phase'[r] = "start" /\ plan'[r] = <<>>
  \/ /\ phase'[r] = "start" /\ stage'[r] = NextStage(r, args[r].skip, stage[r]) /\ stage[r] # 0 /\ plan'[r] = <<>>
     /\ In(r, "shadow-validate") => \A c \in Creators : ValidRecords(Dir(r), c)

\* A file of comparisons keeps what it has.
DiffsGrow ==
  /\ diff' \in [Dirs -> Seq(DiffRecord)] /\ ComparedAreShadows'
  /\ \A d \in Dirs : \A i \in 1..Len(diff[d]) :
       i \in 1..Len(diff'[d]) /\ diff'[d][i] = diff[d][i]

FilesQuiet ==
  /\ UNCHANGED <<shadow, args, shared>> /\ DiffsGrow
  /\ plan' = [r \in Run |-> plan'[r]]
  /\ \A r \in Run : Onward(r)

\* Records of which every creator has at most one per video are one per video.
LEMMA ValidAreUnique ==
  ASSUME FilesTyped, NEW d \in Dirs, \A c \in Creators : ValidRecords(d, c)
  PROVE  OneRecordEach(d)
<1> SUFFICES ASSUME NEW i \in 1..Len(shadow[d]), NEW j \in 1..Len(shadow[d]),
                    shadow[d][i].video = shadow[d][j].video
             PROVE  i = j
  BY DEF OneRecordEach
<1>1. shadow[d][i].video \in Video
  <2>1. shadow[d] \in Seq(ShadowRecord)
    BY DEF FilesTyped
  <2>2. shadow[d][i] \in ShadowRecord
    BY <2>1
  <2> QED
    BY <2>2 DEF ShadowRecord
<1>2. CreatorOf[shadow[d][i].video] \in Creators
  BY <1>1 DEF Creators
<1> QED
  BY <1>2 DEF ValidRecords

LEMMA FilesQuietTyped ==
  ASSUME FilesInv, FilesQuiet
  PROVE  FilesTyped'
<1>1. \A r \in Run : stage'[r] \in 0..Len(Stages(r)) /\ (stage'[r] # 0 => stage[r] # 0)
  <2> SUFFICES ASSUME NEW r \in Run
               PROVE  stage'[r] \in 0..Len(Stages(r)) /\ (stage'[r] # 0 => stage[r] # 0)
    OBVIOUS
  <2>1. stage[r] \in 0..Len(Stages(r)) /\ Len(Stages(r)) \in Nat /\ stage[r] \in Nat
    <3>1. Len(Stages(r)) \in Nat
      BY DEF Stages, STAGES, DAILY_STAGES
    <3> QED
      BY <3>1 DEF FilesInv, FilesTyped
  <2>2. CASE stage'[r] = NextStage(r, args[r].skip, stage[r]) /\ stage[r] # 0
    <3>1. stage'[r] # 0 => stage'[r] \in stage[r] + 1..Len(Stages(r))
      BY <2>1, <2>2, NextStageIs
    <3> QED
      BY <2>1, <2>2, <3>1
  <2> QED
    BY <2>1, <2>2 DEF FilesQuiet, Onward
<1>2. \A r \in Run : plan'[r] \in Seq(Entry)
  <2> SUFFICES ASSUME NEW r \in Run PROVE plan'[r] \in Seq(Entry)
    OBVIOUS
  <2>1. plan[r] \in Seq(Entry)
    BY DEF FilesInv, FilesTyped
  <2>2. plan'[r] = plan[r] \/ (plan[r] # <<>> /\ plan'[r] = Tail(plan[r])) \/ plan'[r] = <<>>
    BY DEF FilesQuiet, Onward
  <2>3. plan[r] # <<>> => Tail(plan[r]) \in Seq(Entry)
    BY <2>1
  <2>4. <<>> \in Seq(Entry)
    OBVIOUS
  <2> QED
    BY <2>1, <2>2, <2>3, <2>4, Zenon
<1>3. \A r \in Run : Stages(r)' = Stages(r) /\ Dir(r)' = Dir(r)
  BY DEF Stages, Dir, FilesQuiet
<1>4. /\ plan' \in [Run -> Seq(Entry)] /\ UNCHANGED <<shadow, args>>
      /\ diff' \in [Dirs -> Seq(DiffRecord)]
  BY <1>2 DEF FilesQuiet, DiffsGrow
<1> QED
  BY <1>1, <1>3, <1>4 DEF FilesInv, FilesTyped

LEMMA FilesQuietKeeps ==
  ASSUME FilesInv, FilesQuiet
  PROVE  FilesInv'
<1>1. FilesTyped'
  BY FilesQuietTyped
<1>0. \A r \in Run : Dir(r)' = Dir(r) /\ args'[r] = args[r]
  BY DEF FilesQuiet, Dir
<1>2. ComparedAreShadows'
  BY DEF FilesQuiet, DiffsGrow
<1>3. Alone'
  <2>1. \A r \in Run : stage'[r] # 0 => stage[r] # 0
    <3> SUFFICES ASSUME NEW r \in Run, stage'[r] # 0 PROVE stage[r] # 0
      OBVIOUS
    <3> QED
      BY DEF FilesQuiet, Onward
  <2> QED
    BY <1>0, <2>1 DEF FilesInv, FilesQuiet, Alone
<1>4. ValidatedAreUnique'
  <2> SUFFICES ASSUME NEW r \in Run, Validated(r)' PROVE OneRecordEach(Dir(r))
    BY <1>0 DEF ValidatedAreUnique, OneRecordEach, FilesQuiet
  <2>1. CASE stage'[r] = stage[r]
    <3>1. Validated(r)
      BY <1>0, <2>1 DEF Validated, In, Stages, FilesQuiet
    <3> QED
      BY <3>1 DEF FilesInv, ValidatedAreUnique
  <2>2. CASE stage'[r] = NextStage(r, args[r].skip, stage[r]) /\ stage[r] # 0
    <3>1. In(r, "shadow-validate") \/ Validated(r)
      BY <1>0, <1>1, <2>2, PastValidation DEF FilesInv, FilesQuiet
    <3>2. CASE Validated(r)
      BY <3>2 DEF FilesInv, ValidatedAreUnique
    <3>3. CASE In(r, "shadow-validate")
      <4>1. r \notin Daily /\ stage[r] = 6 /\ stage'[r] # stage[r] /\ stage'[r] # 0
        <5>1. r \notin Daily /\ stage[r] = 6
          BY <3>3, StagePlaces DEF FilesInv
        <5>2. Stages(r)[stage'[r]] # Stages(r)[stage[r]] /\ stage'[r] # 0
          BY <3>3 DEF Validated, In, Stages
        <5> QED
          BY <5>1, <5>2
      <4>2. \A c \in Creators : ValidRecords(Dir(r), c)
        BY <3>3, <4>1, Zenon DEF FilesQuiet, Onward
      <4>3. Dir(r) \in Dirs
        BY <4>1 DEF FilesInv, FilesTyped
      <4> QED
        BY <4>2, <4>3, ValidAreUnique DEF FilesInv
    <3> QED
      BY <3>1, <3>2, <3>3
  <2>3. CASE stage'[r] = 0
    BY <2>3 DEF Validated, In
  <2> QED
    BY <2>1, <2>2, <2>3 DEF FilesQuiet, Onward
<1>5. PlansBelong'
  <2> SUFFICES ASSUME NEW r \in Run, plan'[r] # <<>>
               PROVE  /\ In(r, "shadow-promote")' /\ phase'[r] = "work" /\ Guarded(args[r])
                      /\ Dir(r) \notin shared => PlanIsCurrent(r)'
    BY <1>0 DEF PlansBelong, Guarded, FilesQuiet
  <2>1. /\ stage'[r] = stage[r] /\ (phase'[r] = phase[r] \/ phase'[r] = "work")
        /\ plan[r] # <<>> /\ plan[r] \in Seq(Entry)
        /\ plan'[r] = plan[r] \/ plan'[r] = Tail(plan[r])
    BY DEF FilesInv, FilesTyped, FilesQuiet, Onward
  <2>2. In(r, "shadow-promote") /\ phase[r] = "work" /\ Guarded(args[r]) /\ (Dir(r) \notin shared => PlanIsCurrent(r))
    BY <2>1 DEF FilesInv, PlansBelong
  <2>3. In(r, "shadow-promote")'
    BY <2>1, <2>2 DEF In, Stages
  <2>4. ASSUME PlanIsCurrent(r), NEW k \in 1..Len(plan'[r])
        PROVE  /\ \E i \in 1..Len(diff'[Dir(r)]) : plan'[r][k].diff = diff'[Dir(r)][i]
               /\ plan'[r][k].shadow = LastRecord(shadow[Dir(r)], plan'[r][k].diff.video)
    <3>1. PICK m \in 1..Len(plan[r]) : plan'[r][k] = plan[r][m]
      <4>1. CASE plan'[r] = plan[r]
        BY <4>1
      <4>2. CASE plan'[r] = Tail(plan[r])
        <5>1. k + 1 \in 1..Len(plan[r]) /\ plan'[r][k] = plan[r][k + 1]
          BY <2>1, <4>2
        <5> QED
          BY <5>1
      <4> QED
        BY <2>1, <4>1, <4>2
    <3>2. PICK i \in 1..Len(diff[Dir(r)]) : plan[r][m].diff = diff[Dir(r)][i]
      BY <2>4 DEF PlanIsCurrent
    <3>3. r \notin Daily /\ stage[r] # 0
      BY <2>2, StagePlaces DEF FilesInv
    <3>4. Dir(r) \in Dirs
      BY <3>3 DEF FilesInv, FilesTyped
    <3>5. i \in 1..Len(diff'[Dir(r)]) /\ diff'[Dir(r)][i] = diff[Dir(r)][i]
      BY <3>4 DEF FilesQuiet, DiffsGrow
    <3> QED
      BY <2>4, <3>1, <3>2, <3>5 DEF PlanIsCurrent
  <2>6. PlanIsCurrent(r) => PlanIsCurrent(r)'
    BY <1>0, <2>4 DEF PlanIsCurrent, FilesQuiet
  <2> QED
    BY <2>1, <2>2, <2>3, <2>6
<1>6. WorkHasPlace'
  BY DEF FilesInv, WorkHasPlace, FilesQuiet, Onward, In, Stages
<1> QED
  BY <1>1, <1>2, <1>3, <1>4, <1>5, <1>6 DEF FilesInv

-----------------------------------------------------------------------------
(* The steps that leave the files alone.                                    *)

\* Only a promotion has a plan.
LEMMA OthersHaveNoPlan ==
  ASSUME FilesInv, NEW r \in Run, NEW s, In(r, s), s # "shadow-promote"
  PROVE  plan[r] = <<>>
  BY DEF FilesInv, PlansBelong, In

LEMMA UnchangedGrow ==
  ASSUME FilesInv, UNCHANGED <<shadow, diff>>
  PROVE  DiffsGrow
  BY DEF FilesInv, FilesTyped, DiffsGrow, ComparedAreShadows

\* One run moves, and the others stay where they are.
LEMMA OneMoves ==
  ASSUME FilesInv, NEW r \in Run, UNCHANGED <<shadow, args, shared>>,
         UNCHANGED diff \/ DiffsGrow,
         plan' = [q \in Run |-> plan'[q]], Onward(r),
         \A q \in Run \ {r} : stage'[q] = stage[q] /\ phase'[q] = phase[q] /\ plan'[q] = plan[q]
  PROVE  FilesInv'
<1>1. \A q \in Run : Onward(q)
  BY DEF Onward
<1>2. DiffsGrow
  BY UnchangedGrow
<1>3. FilesQuiet
  BY <1>1, <1>2 DEF FilesQuiet
<1> QED
  BY <1>3, FilesQuietKeeps

\* A stage is over, and had no plan.
LEMMA AdvanceKeeps ==
  ASSUME FilesInv, Typed, NEW r \in Run, NEW files, NEW s, In(r, s), s # "shadow-promote",
         Advance(r, files) \/ Stop(r, files),
         s = "shadow-validate" /\ Advance(r, files) => \A c \in Creators : ValidRecords(Dir(r), c),
         UNCHANGED <<shadow, args, shared, plan>>, UNCHANGED diff \/ DiffsGrow
  PROVE  FilesInv'
<1>1. plan[r] = <<>>
  BY OthersHaveNoPlan
<1>2. plan' = [q \in Run |-> plan'[q]]
  BY DEF FilesInv, FilesTyped
<1>3. \A q \in Run \ {r} : stage'[q] = stage[q] /\ phase'[q] = phase[q] /\ plan'[q] = plan[q]
  BY DEF Advance, Stop, Typed
<1>4. Onward(r)
  <2>1. CASE Stop(r, files)
    BY <1>1, <2>1 DEF Stop, Onward, Typed
  <2>2. CASE Advance(r, files)
    <3>1. /\ stage'[r] = NextStage(r, args[r].skip, stage[r]) /\ stage[r] # 0
          /\ phase'[r] = "start"
      BY <2>2 DEF Advance, Typed, In
    <3>2. In(r, "shadow-validate") => s = "shadow-validate"
      BY DEF In
    <3> QED
      BY <1>1, <2>2, <3>1, <3>2 DEF Onward
  <2> QED
    BY <2>1, <2>2
<1> QED
  BY <1>2, <1>3, <1>4, OneMoves

\* A stage goes on without a plan or another place.
LEMMA InsideKeeps ==
  ASSUME FilesInv, Typed, NEW r \in Run, stage' = stage,
         \/ phase' = phase
         \/ phase' = [phase EXCEPT ![r] = "work"] /\ stage[r] # 0 /\ ~In(r, "shadow-validate"),
         UNCHANGED <<fileVars, args, shared, plan>>
  PROVE  FilesInv'
<1> USE DEF fileVars
<1>1. plan' = [q \in Run |-> plan'[q]]
  BY DEF FilesInv, FilesTyped
<1>2. \A q \in Run : \/ phase'[q] = phase[q]
                     \/ q = r /\ phase'[q] = "work" /\ stage[q] # 0 /\ ~In(q, "shadow-validate")
  BY DEF Typed
<1> QED
  BY <1>1, <1>2, OneMoves DEF Onward

\* A stage's process is gone, with its plan.
LEMMA ForgetsKeeps ==
  ASSUME FilesInv, Typed, NEW r \in Run, NEW files, Forgets(r),
         (stage[r] # 0 /\ Advance(r, files) /\ ~In(r, "shadow-validate")) \/ Stop(r, files),
         UNCHANGED <<fileVars, args, shared>>
  PROVE  FilesInv'
<1> USE DEF fileVars
<1>1. plan' = [plan EXCEPT ![r] = <<>>] /\ plan = [q \in Run |-> plan[q]]
  BY DEF Forgets, FilesInv, FilesTyped
<1>2. plan' = [q \in Run |-> plan'[q]] /\ plan'[r] = <<>>
  BY <1>1
<1>3. \A q \in Run \ {r} : stage'[q] = stage[q] /\ phase'[q] = phase[q] /\ plan'[q] = plan[q]
  BY <1>1 DEF Advance, Stop, Typed
<1>4. Onward(r)
  <2>1. CASE Stop(r, files)
    BY <1>2, <2>1 DEF Stop, Onward, Typed
  <2>2. CASE stage[r] # 0 /\ Advance(r, files) /\ ~In(r, "shadow-validate")
    BY <1>2, <2>2 DEF Advance, Onward, Typed
  <2> QED
    BY <2>1, <2>2
<1> QED
  BY <1>2, <1>3, <1>4, OneMoves

LEMMA QuietActions ==
  ASSUME FilesInv, Typed, NEW r \in Run,
         \/ PlainStage(r) \/ StageFails(r) \/ Crash(r) \/ EndStage(r) \/ Discover(r)
         \/ LoadListed(r) \/ ScrapeTranscript(r) \/ LoadMissing(r) \/ FetchTranscript(r)
         \/ ProviderBlocks(r) \/ LoadPending(r) \/ ExtractVideo(r) \/ ExtractionFails(r)
         \/ LoadShadowVideos(r) \/ ShadowValidate(r) \/ ComputeScores(r)
  PROVE  FilesInv'
<1> USE DEF fileVars
<1>1. CASE PlainStage(r)
  <2>1. PICK s \in Plain : In(r, s)
    BY <1>1 DEF PlainStage
  <2>2. s # "shadow-promote" /\ s # "shadow-validate"
    BY DEF Plain
  <2>3. Advance(r, locks) /\ UNCHANGED <<fileVars, args, shared, plan>>
    BY <1>1 DEF PlainStage
  <2> QED
    BY <2>1, <2>2, <2>3, AdvanceKeeps
<1>2. CASE StageFails(r)
  <2> DEFINE files == [f \in DOMAIN locks |->
                        IF f = "transcripts" /\ locks[f] = r THEN None ELSE locks[f]]
  <2>1. /\ IF r \in Daily /\ ~In(r, "discover") THEN Advance(r, files) ELSE Stop(r, files)
        /\ stage[r] # 0 /\ Forgets(r) /\ UNCHANGED <<fileVars, args, shared>>
    BY <1>2 DEF StageFails
  <2>2. r \in Daily => ~In(r, "shadow-validate")
    BY StagePlaces DEF FilesInv
  <2> QED
    BY <2>1, <2>2, ForgetsKeeps
<1>3. CASE Crash(r)
  <2>1. /\ stage' = [stage EXCEPT ![r] = 0] /\ phase' = [phase EXCEPT ![r] = "start"]
        /\ plan' = [plan EXCEPT ![r] = <<>>] /\ UNCHANGED <<fileVars, args, shared>>
    BY <1>3 DEF Crash, Forgets
  <2>2. plan = [q \in Run |-> plan[q]]
    BY DEF FilesInv, FilesTyped
  <2>3. plan' = [q \in Run |-> plan'[q]] /\ Onward(r)
    BY <2>1, <2>2 DEF Onward, Typed
  <2>4. \A q \in Run \ {r} : stage'[q] = stage[q] /\ phase'[q] = phase[q] /\ plan'[q] = plan[q]
    BY <2>1, <2>2 DEF Typed
  <2> QED
    BY <2>1, <2>3, <2>4, OneMoves
<1>4. CASE EndStage(r)
  <2> DEFINE files == [f \in DOMAIN locks |->
                        IF f = "transcripts" /\ locks[f] = r THEN None ELSE locks[f]]
  <2>1. Advance(r, files) /\ Forgets(r) /\ phase[r] = "work" /\ UNCHANGED <<fileVars, args, shared>>
    BY <1>4 DEF EndStage
  <2>2. stage[r] # 0 /\ ~In(r, "shadow-validate")
    BY <2>1 DEF FilesInv, WorkHasPlace
  <2> QED
    BY <2>1, <2>2, ForgetsKeeps
<1>5. CASE Discover(r)
  <2>1. In(r, "discover") /\ Advance(r, locks) /\ UNCHANGED <<fileVars, args, shared, plan>>
    BY <1>5 DEF Discover
  <2> QED
    BY <2>1, AdvanceKeeps
<1>6. CASE ComputeScores(r)
  <2>1. In(r, "compute-scores") /\ Advance(r, locks) /\ UNCHANGED <<fileVars, args, shared, plan>>
    BY <1>6 DEF ComputeScores
  <2> QED
    BY <2>1, AdvanceKeeps
<1>7. CASE ShadowValidate(r)
  <2>1. /\ In(r, "shadow-validate") /\ UNCHANGED <<fileVars, args, shared, plan>>
        /\ IF \A c \in Creators : ValidRecords(Dir(r), c) THEN Advance(r, locks) ELSE Stop(r, locks)
    BY <1>7 DEF ShadowValidate
  <2>2. CASE \A c \in Creators : ValidRecords(Dir(r), c)
    BY <2>1, <2>2, AdvanceKeeps
  <2>3. CASE ~\A c \in Creators : ValidRecords(Dir(r), c)
    <3>1. Stop(r, locks)
      BY <2>1, <2>3
    <3>2. In(r, "shadow-promote") => FALSE
      BY <2>1 DEF In
    <3>3. plan[r] = <<>>
      BY <2>1, OthersHaveNoPlan
    <3>4. plan' = [q \in Run |-> plan'[q]] /\ Onward(r)
      BY <2>1, <3>1, <3>3 DEF FilesInv, FilesTyped, Stop, Onward, Typed
    <3>5. \A q \in Run \ {r} : stage'[q] = stage[q] /\ phase'[q] = phase[q] /\ plan'[q] = plan[q]
      BY <2>1, <3>1 DEF Stop, Typed
    <3> QED
      BY <2>1, <3>4, <3>5, OneMoves
  <2> QED
    BY <2>2, <2>3
<1>8. CASE LoadListed(r) \/ LoadPending(r) \/ LoadShadowVideos(r)
  <2>1. /\ stage' = stage /\ phase' = [phase EXCEPT ![r] = "work"]
        /\ UNCHANGED <<fileVars, args, shared, plan>>
    BY <1>8 DEF LoadListed, LoadPending, LoadShadowVideos, Loads
  <2>2. PICK s \in WALKING : In(r, s)
    BY <1>8 DEF LoadListed, LoadPending, LoadShadowVideos, WALKING
  <2>3. stage[r] # 0 /\ ~In(r, "shadow-validate")
    BY <2>2 DEF In, WALKING
  <2> QED
    BY <2>1, <2>3, InsideKeeps
<1>9. CASE LoadMissing(r)
  <2>1. In(r, "slow-transcripts") /\ UNCHANGED <<fileVars, args, shared, plan>>
    BY <1>9 DEF LoadMissing
  <2>2. CASE locks["transcripts"] = None
    <3>1. stage' = stage /\ phase' = [phase EXCEPT ![r] = "work"]
      BY <1>9, <2>2 DEF LoadMissing, Loads
    <3>2. stage[r] # 0 /\ ~In(r, "shadow-validate")
      BY <2>1 DEF In
    <3> QED
      BY <2>1, <3>1, <3>2, InsideKeeps
  <2>3. CASE locks["transcripts"] # None
    <3>1. Advance(r, locks)
      BY <1>9, <2>3 DEF LoadMissing
    <3> QED
      BY <2>1, <3>1, AdvanceKeeps
  <2> QED
    BY <2>2, <2>3
<1>10. CASE \/ ScrapeTranscript(r) \/ FetchTranscript(r) \/ ProviderBlocks(r)
            \/ ExtractVideo(r) \/ ExtractionFails(r)
  <2>1. stage' = stage /\ phase' = phase /\ UNCHANGED <<fileVars, args, shared, plan>>
    BY <1>10 DEF ScrapeTranscript, FetchTranscript, ProviderBlocks, ExtractVideo, ExtractionFails
  <2> QED
    BY <2>1, InsideKeeps
<1> QED
  BY <1>1, <1>2, <1>3, <1>4, <1>5, <1>6, <1>7, <1>8, <1>9, <1>10

LEMMA WorldKeepsFiles ==
  ASSUME FilesInv,
         \/ Publish \/ CooldownPasses \/ \E v \in Video : IngestTranscript(v) \/ IngestFailure(v)
         \/ UNCHANGED vars
  PROVE  FilesInv'
<1>1. UNCHANGED <<shadow, diff, args, shared, plan, stage, phase>>
  BY DEF Publish, CooldownPasses, IngestTranscript, IngestFailure, vars, fileVars, runVars
<1>2. FilesQuiet
  BY <1>1, UnchangedGrow DEF FilesQuiet, Onward, FilesInv, FilesTyped
<1> QED
  BY <1>2, FilesQuietKeeps

-----------------------------------------------------------------------------
(* The steps that work on the files.                                        *)

\* Where a run works unshared, every other run works elsewhere.
LEMMA OthersWorkElsewhere ==
  ASSUME FilesInv, NEW r \in Run, NEW q \in Run, q # r, stage[r] # 0, stage[q] # 0,
         Dir(q) \notin shared
  PROVE  Dir(q) # Dir(r)
  BY DEF FilesInv, Alone

\* A shadow extraction adds a record of a video.
LEMMA ShadowVideoKeeps ==
  ASSUME FilesInv, Typed, NEW r \in Run, ShadowVideo(r)
  PROVE  FilesInv'
<1> DEFINE d == Dir(r)
<1>1. r \notin Daily /\ stage[r] = 5 /\ d \in Dirs
  BY StagePlaces DEF ShadowVideo, FilesInv, FilesTyped
<1>2. PICK record \in ShadowRecord : shadow' = [shadow EXCEPT ![d] = Append(@, record)]
  <2>0. PICK v \in todo[r] : \E record \in
            IF ~Writes(r) THEN {Record(v, loaded[r][v], Empty, "dry_run")}
            ELSE {Record(v, loaded[r][v], Empty, "failed")} \cup
                 {Record(v, loaded[r][v], found, None) : found \in Content} :
          shadow' = [shadow EXCEPT ![d] = Append(@, record)]
    BY DEF ShadowVideo
  <2>1. PICK record \in
            IF ~Writes(r) THEN {Record(v, loaded[r][v], Empty, "dry_run")}
            ELSE {Record(v, loaded[r][v], Empty, "failed")} \cup
                 {Record(v, loaded[r][v], found, None) : found \in Content} :
          shadow' = [shadow EXCEPT ![d] = Append(@, record)]
    BY <2>0
  <2>2. v \in Video /\ loaded[r][v] \in Nat /\ Empty \in Content
    BY PipelineAssumption DEF Typed
  <2>3. \/ record = Record(v, loaded[r][v], Empty, "dry_run")
        \/ record = Record(v, loaded[r][v], Empty, "failed")
        \/ \E found \in Content : record = Record(v, loaded[r][v], found, None)
    BY <2>1
  <2>4. record \in ShadowRecord
    BY <2>2, <2>3 DEF Record, ShadowRecord
  <2> QED
    BY <2>1, <2>4
<1>3. UNCHANGED <<diff, args, shared, stage, phase, plan>>
  BY DEF ShadowVideo
<1>4. /\ shadow' \in [Dirs -> Seq(ShadowRecord)] /\ shadow[d] \in Seq(ShadowRecord)
      /\ shadow'[d] = Append(shadow[d], record)
      /\ \A e \in Dirs : e # d => shadow'[e] = shadow[e]
  BY <1>1, <1>2 DEF FilesInv, FilesTyped
<1>5. FilesTyped'
  BY <1>3, <1>4 DEF FilesInv, FilesTyped, Stages, Dir
<1>6. ComparedAreShadows'
  <2> SUFFICES ASSUME NEW e \in Dirs, NEW i \in 1..Len(diff[e])
               PROVE  \E j \in 1..Len(shadow'[e]) :
                        /\ shadow'[e][j].video = diff[e][i].video
                        /\ shadow'[e][j].content = diff[e][i].accepted
    BY <1>3 DEF ComparedAreShadows
  <2>1. PICK j \in 1..Len(shadow[e]) : /\ shadow[e][j].video = diff[e][i].video
                                       /\ shadow[e][j].content = diff[e][i].accepted
    BY DEF FilesInv, ComparedAreShadows
  <2>2. j \in 1..Len(shadow'[e]) /\ shadow'[e][j] = shadow[e][j]
    BY <1>4
  <2> QED
    BY <2>1, <2>2
<1>7. Alone' /\ WorkHasPlace'
  BY <1>3 DEF FilesInv, Alone, WorkHasPlace, Dir, In, Stages
<1>8. ASSUME NEW q \in Run, stage[q] \in {7, 8}, q \notin Daily, Dir(q) \notin shared
      PROVE  Dir(q) \in Dirs /\ Dir(q) # d
  <2>1. Dir(q) \in Dirs
    BY <1>8 DEF FilesInv, FilesTyped
  <2>2. q # r /\ stage[q] # 0 /\ stage[r] # 0
    BY <1>1, <1>8
  <2> QED
    BY <1>8, <2>1, <2>2, OthersWorkElsewhere
<1>9. ValidatedAreUnique'
  <2> SUFFICES ASSUME NEW q \in Run, Validated(q)' PROVE OneRecordEach(Dir(q))'
    BY DEF ValidatedAreUnique
  <2>1. Validated(q)
    BY <1>3 DEF Validated, In, Stages, Dir
  <2>2. OneRecordEach(Dir(q))
    BY <2>1 DEF FilesInv, ValidatedAreUnique
  <2>3. Dir(q) \in Dirs /\ Dir(q) # d
    BY <1>8, <2>1, StagePlaces DEF FilesInv, Validated
  <2>4. shadow'[Dir(q)] = shadow[Dir(q)] /\ Dir(q)' = Dir(q)
    BY <1>3, <1>4, <2>3 DEF Dir
  <2> QED
    BY <2>2, <2>4 DEF OneRecordEach
<1>10. PlansBelong'
  <2> SUFFICES ASSUME NEW q \in Run, plan[q] # <<>>
               PROVE  /\ In(q, "shadow-promote")' /\ phase'[q] = "work" /\ Guarded(args[q])
                      /\ Dir(q) \notin shared => PlanIsCurrent(q)'
    BY <1>3 DEF PlansBelong, Guarded, Dir
  <2>1. /\ In(q, "shadow-promote") /\ phase[q] = "work" /\ Guarded(args[q])
        /\ Dir(q) \notin shared => PlanIsCurrent(q)
    BY DEF FilesInv, PlansBelong
  <2>2. ASSUME Dir(q) \notin shared PROVE PlanIsCurrent(q)'
    <3>1. Dir(q) \in Dirs /\ Dir(q) # d
      BY <1>8, <2>1, <2>2, StagePlaces DEF FilesInv
    <3>2. shadow'[Dir(q)] = shadow[Dir(q)] /\ Dir(q)' = Dir(q)
      BY <1>3, <1>4, <3>1 DEF Dir
    <3> QED
      BY <1>3, <2>1, <2>2, <3>2 DEF PlanIsCurrent
  <2> QED
    BY <1>3, <2>1, <2>2 DEF In, Stages
<1> QED
  BY <1>5, <1>6, <1>7, <1>9, <1>10 DEF FilesInv

\* A comparison adds to its file what it finds in the records.
LEMMA ShadowDiffKeeps ==
  ASSUME FilesInv, Typed, NEW r \in Run, ShadowDiff(r)
  PROVE  FilesInv'
<1> DEFINE d == Dir(r)
           compared(record) == [video |-> record.video, accepted |-> record.content,
                                status |-> DiffStatus(record, calls[record.video].content)]
           news == [i \in 1..Len(shadow[d]) |-> compared(shadow[d][i])]
<1>0. In(r, "shadow-diff") /\ UNCHANGED <<shadow, args, plan, shared>>
  BY DEF ShadowDiff
<1>1. r \notin Daily /\ stage[r] = 7 /\ d \in Dirs
  BY <1>0, StagePlaces DEF FilesInv, FilesTyped
<1>2. CASE shadow[d] = <<>>
  <2>1. Stop(r, locks) /\ UNCHANGED fileVars
    BY <1>0, <1>2 DEF ShadowDiff, fileVars
  <2> QED
    BY <1>0, <2>1, AdvanceKeeps DEF fileVars
<1>3. CASE shadow[d] # <<>>
  <2>1. diff' = [diff EXCEPT ![d] = @ \o news] /\ Advance(r, locks)
    BY <1>3 DEF ShadowDiff
  <2>2. news \in Seq(DiffRecord)
    <3>1. shadow[d] \in Seq(ShadowRecord) /\ Len(shadow[d]) \in Nat
      BY <1>1 DEF FilesInv, FilesTyped
    <3>2. ASSUME NEW record, NEW existing
          PROVE  DiffStatus(record, existing) \in PROMOTABLE_STATUSES \cup {"manual_review"}
      BY Zenon DEF DiffStatus, PROMOTABLE_STATUSES
    <3>3. ASSUME NEW i \in 1..Len(shadow[d]) PROVE news[i] \in DiffRecord
      <4>1. shadow[d][i] \in ShadowRecord
        BY <3>1
      <4>2. shadow[d][i].video \in Video /\ shadow[d][i].content \in Content
        BY <4>1 DEF ShadowRecord
      <4>3. compared(shadow[d][i]) \in DiffRecord
        BY <3>2, <4>2 DEF DiffRecord
      <4> QED
        BY <4>3
    <3>4. news \in [1..Len(shadow[d]) -> DiffRecord]
      BY <3>3
    <3> HIDE DEF news
    <3> QED
      BY <3>1, <3>4, SeqDef
  <2>3. Len(news) = Len(shadow[d]) /\ Len(shadow[d]) \in Nat
    BY <1>1 DEF FilesInv, FilesTyped
  <2>4. /\ diff' \in [Dirs -> Seq(DiffRecord)] /\ diff[d] \in Seq(DiffRecord)
        /\ diff'[d] = diff[d] \o news
        /\ \A e \in Dirs : e # d => diff'[e] = diff[e]
    BY <1>1, <2>1, <2>2 DEF FilesInv, FilesTyped
  <2>5. \A i \in 1..Len(news) : /\ news[i].video = shadow[d][i].video
                                /\ news[i].accepted = shadow[d][i].content
    BY <2>3
  <2> HIDE DEF news
  <2>6. ComparedAreShadows'
    <3> SUFFICES ASSUME NEW e \in Dirs, NEW i \in 1..Len(diff'[e])
                 PROVE  \E j \in 1..Len(shadow[e]) :
                          /\ shadow[e][j].video = diff'[e][i].video
                          /\ shadow[e][j].content = diff'[e][i].accepted
      BY <1>0 DEF ComparedAreShadows
    <3>1. CASE e = d /\ i > Len(diff[d])
      <4>1. i - Len(diff[d]) \in 1..Len(news) /\ diff'[e][i] = news[i - Len(diff[d])]
        BY <2>2, <2>4, <3>1
      <4> QED
        BY <2>3, <2>5, <3>1, <4>1
    <3>2. CASE e # d \/ i <= Len(diff[d])
      <4>1. i \in 1..Len(diff[e]) /\ diff'[e][i] = diff[e][i]
        BY <2>2, <2>4, <3>2
      <4> QED
        BY <4>1 DEF FilesInv, ComparedAreShadows
    <3> QED
      BY <2>4, <3>1, <3>2
  <2>7. DiffsGrow
    BY <2>2, <2>4, <2>6 DEF DiffsGrow
  <2> QED
    BY <1>0, <2>1, <2>7, AdvanceKeeps
<1> QED
  BY <1>2, <1>3

\* The last record of a video is one of its records.
LEMMA LastRecordIs ==
  ASSUME NEW S, NEW records \in Seq(S), NEW v, NEW j \in 1..Len(records), records[j].video = v
  PROVE  \E k \in 1..Len(records) :
           LastRecord(records, v) = records[k] /\ records[k].video = v
<1> DEFINE found == {i \in 1..Len(records) : records[i].video = v}
           last == CHOOSE i \in found : \A m \in found : m <= i
<1>1. found # {} /\ found \in SUBSET (1..Len(records)) /\ Len(records) \in Nat
  OBVIOUS
<1>2. \E i \in found : \A m \in found : m <= i
  BY <1>1, GreatestExists
<1>3. last \in found
  BY <1>2
<1>4. LastRecord(records, v) = records[last]
  BY <1>1 DEF LastRecord
<1> QED
  BY <1>3, <1>4

\* A promotion reads both files: a comparison has a record in the other one.
LEMMA LoadPromotionsKeeps ==
  ASSUME FilesInv, Typed, NEW r \in Run, LoadPromotions(r)
  PROVE  FilesInv'
<1> USE DEF fileVars
<1> DEFINE d == Dir(r)
           n == IF Len(diff[d]) < Promotions THEN Len(diff[d]) ELSE Promotions
           pair(i) == [diff |-> diff[d][i], shadow |-> ShadowByVideo(d, diff[d][i].video)]
           pairs == [i \in 1..n |-> pair(i)]
<1>0. /\ In(r, "shadow-promote") /\ phase[r] = "start"
      /\ UNCHANGED <<fileVars, args, shared>>
  BY DEF LoadPromotions
<1>1. r \notin Daily /\ stage[r] = 8 /\ d \in Dirs
  BY <1>0, StagePlaces DEF FilesInv, FilesTyped
<1>2. CASE ~Guarded(args[r]) \/ shadow[d] = <<>> \/ diff[d] = <<>>
  <2>1. Stop(r, locks) /\ UNCHANGED plan
    BY <1>2 DEF LoadPromotions
  <2>2. plan[r] = <<>>
    BY <1>0 DEF FilesInv, PlansBelong
  <2>3. plan' = [q \in Run |-> plan'[q]] /\ Onward(r)
    BY <2>1, <2>2 DEF FilesInv, FilesTyped, Stop, Onward, Typed
  <2>4. \A q \in Run \ {r} : stage'[q] = stage[q] /\ phase'[q] = phase[q] /\ plan'[q] = plan[q]
    BY <2>1 DEF Stop, Typed
  <2> QED
    BY <1>0, <2>3, <2>4, OneMoves
<1>3. CASE ~(~Guarded(args[r]) \/ shadow[d] = <<>> \/ diff[d] = <<>>)
  <2>1. /\ plan' = [plan EXCEPT ![r] = pairs] /\ Guarded(args[r])
        /\ phase' = [phase EXCEPT ![r] = "work"] /\ stage' = stage
    BY <1>3 DEF LoadPromotions
  <2>2. /\ shadow[d] \in Seq(ShadowRecord) /\ diff[d] \in Seq(DiffRecord)
        /\ n \in Nat /\ n <= Len(diff[d]) /\ Len(diff[d]) \in Nat
    BY <1>1, PipelineAssumption DEF FilesInv, FilesTyped
  <2>3. ASSUME NEW i \in 1..n
        PROVE  /\ pair(i) \in Entry /\ i \in 1..Len(diff[d]) /\ pair(i).diff = diff[d][i]
               /\ pair(i).shadow = LastRecord(shadow[d], pair(i).diff.video)
    <3>1. i \in 1..Len(diff[d]) /\ diff[d][i] \in DiffRecord
      BY <2>2
    <3>2. PICK j \in 1..Len(shadow[d]) : shadow[d][j].video = diff[d][i].video
      BY <1>1, <3>1 DEF FilesInv, ComparedAreShadows
    <3>3. PICK k \in 1..Len(shadow[d]) : LastRecord(shadow[d], diff[d][i].video) = shadow[d][k]
      BY <2>2, <3>2, LastRecordIs
    <3>4. shadow[d][k] \in ShadowRecord
      BY <2>2
    <3>5. ShadowByVideo(d, diff[d][i].video) = LastRecord(shadow[d], diff[d][i].video)
      BY ShadowIsLast
    <3> QED
      BY <3>1, <3>3, <3>4, <3>5 DEF Entry
  <2>4. pairs \in Seq(Entry) /\ Len(pairs) = n
    <3>1. pairs \in [1..n -> Entry]
      BY <2>3
    <3> HIDE DEF pairs, n
    <3> QED
      BY <2>2, <3>1, SeqDef
  <2>5. \A k \in 1..Len(pairs) : /\ \E i \in 1..Len(diff[d]) : pairs[k].diff = diff[d][i]
                                 /\ pairs[k].shadow = LastRecord(shadow[d], pairs[k].diff.video)
    BY <2>3, <2>4
  <2> HIDE DEF pairs
  <2>6. FilesTyped'
    BY <1>0, <2>1, <2>4 DEF FilesInv, FilesTyped, Stages, Dir
  <2>7. ComparedAreShadows' /\ Alone' /\ ValidatedAreUnique'
    BY <1>0, <2>1 DEF FilesInv, ComparedAreShadows, Alone, ValidatedAreUnique, Validated,
                      OneRecordEach, Dir, In, Stages
  <2>8. WorkHasPlace'
    <3>1. stage[r] # 0 /\ ~In(r, "shadow-validate")
      BY <1>0 DEF In
    <3> QED
      BY <2>1, <3>1 DEF FilesInv, WorkHasPlace, In, Stages, Typed
  <2>9. PlansBelong'
    <3> SUFFICES ASSUME NEW q \in Run, plan'[q] # <<>>
                 PROVE  /\ In(q, "shadow-promote")' /\ phase'[q] = "work" /\ Guarded(args[q])
                        /\ Dir(q) \notin shared => PlanIsCurrent(q)'
      BY <1>0 DEF PlansBelong, Guarded, Dir
    <3>1. In(q, "shadow-promote")' = In(q, "shadow-promote") /\ Dir(q)' = Dir(q)
      BY <1>0, <2>1 DEF In, Stages, Dir
    <3>2. CASE q = r
      <4>1. plan'[q] = pairs /\ phase'[q] = "work"
        BY <2>1, <3>2 DEF FilesInv, FilesTyped, Typed
      <4>2. PlanIsCurrent(q)'
        BY <1>0, <2>5, <3>1, <3>2, <4>1 DEF PlanIsCurrent
      <4> QED
        BY <1>0, <2>1, <3>1, <3>2, <4>1, <4>2
    <3>3. CASE q # r
      <4>1. plan'[q] = plan[q] /\ phase'[q] = phase[q]
        BY <2>1, <3>3 DEF FilesInv, FilesTyped, Typed
      <4>2. PlanIsCurrent(q)' = PlanIsCurrent(q)
        BY <1>0, <3>1, <4>1 DEF PlanIsCurrent
      <4> QED
        BY <3>1, <4>1, <4>2 DEF FilesInv, PlansBelong
    <3> QED
      BY <3>2, <3>3
  <2> QED
    BY <2>6, <2>7, <2>8, <2>9 DEF FilesInv
<1> QED
  BY <1>2, <1>3

LEMMA PromoteNextKeeps ==
  ASSUME FilesInv, Typed, NEW r \in Run, PromoteNext(r)
  PROVE  FilesInv'
<1> USE DEF fileVars
<1>1. /\ plan' = [plan EXCEPT ![r] = Tail(@)] /\ plan[r] # <<>>
      /\ UNCHANGED <<fileVars, args, shared, stage, phase>>
  BY DEF PromoteNext
<1>2. plan = [q \in Run |-> plan[q]]
  BY DEF FilesInv, FilesTyped
<1>3. plan' = [q \in Run |-> plan'[q]] /\ Onward(r)
  BY <1>1, <1>2 DEF Onward
<1>4. \A q \in Run \ {r} : stage'[q] = stage[q] /\ phase'[q] = phase[q] /\ plan'[q] = plan[q]
  BY <1>1, <1>2
<1> QED
  BY <1>1, <1>3, <1>4, OneMoves

\* A run starts before the validation; a cycle of the loop empties the files of its
\* directory, which nobody else uses unless the directory is shared from now on.
LEMMA StartRunKeeps ==
  ASSUME FilesInv, Typed, NEW r \in Run, StartRun(r)
  PROVE  FilesInv'
<1> DEFINE Begins(a, given) ==
        /\ given = IF r \in Loop THEN CycleArgs(a) ELSE a
        /\ args' = [args EXCEPT ![r] = given]
        /\ stage' = [stage EXCEPT ![r] = NextStage(r, given.skip, 0)]
        /\ shadow' = IF r \in Loop THEN [shadow EXCEPT ![a.dir] = <<>>] ELSE shadow
        /\ diff' = IF r \in Loop THEN [diff EXCEPT ![a.dir] = <<>>] ELSE diff
        /\ shared' = IF \E q \in Run : stage[q] # 0 /\ Dir(q) = a.dir
                     THEN shared \cup {a.dir} ELSE shared
<1>0. PICK a \in Args[r] : \E given : Begins(a, given)
  BY DEF StartRun
<1>1. PICK given : Begins(a, given)
  BY <1>0
<1>2. stage[r] = 0 /\ UNCHANGED <<phase, plan>>
  BY DEF StartRun
<1> DEFINE d == a.dir
<1>3. given.dir = d
  <2>1. a \in [write : BOOLEAN, dir : {b.dir : b \in Args[r]}, reviewed : SUBSET Video,
               allowed : SUBSET PROMOTABLE_STATUSES, skip : SUBSET STRING]
    BY PipelineAssumption
  <2>2. CASE given = a
    BY <2>2
  <2>3. CASE given = [a EXCEPT !.skip = @ \cup {"shadow-promote"}]
    BY <2>1, <2>3
  <2> QED
    BY <1>1, <2>2, <2>3 DEF CycleArgs
<1>4. args'[r] = given /\ (\A q \in Run \ {r} : args'[q] = args[q])
  BY <1>1 DEF FilesInv, FilesTyped
<1>5. Dir(r)' = d /\ (\A q \in Run \ {r} : Dir(q)' = Dir(q))
  BY <1>3, <1>4 DEF Dir
<1>6. stage'[r] = NextStage(r, given.skip, 0) /\ (\A q \in Run \ {r} : stage'[q] = stage[q])
  BY <1>1 DEF Typed
<1>7. \A q \in Run \ {r} : \A s : In(q, s)' = In(q, s)
  BY <1>6 DEF In, Stages
<1>8. plan[r] = <<>>
  BY <1>2 DEF FilesInv, PlansBelong, In
<1>9. r \notin Daily => d \in Dirs
  BY DEF Dirs, Run
<1>10. FilesTyped'
  <2>1. stage'[r] \in 0..Len(Stages(r))
    <3>1. stage'[r] # 0 => stage'[r] \in 0 + 1..Len(Stages(r))
      BY <1>6, NextStageIs
    <3>2. Len(Stages(r)) \in Nat
      BY DEF Stages, STAGES, DAILY_STAGES
    <3> QED
      BY <3>1, <3>2
  <2>2. \A q \in Run : stage'[q] \in 0..Len(Stages(q))
    BY <1>6, <2>1 DEF FilesInv, FilesTyped
  <2>3. \A q \in Run \ Daily : stage'[q] # 0 => Dir(q)' \in Dirs
    BY <1>5, <1>6, <1>9 DEF FilesInv, FilesTyped
  <2>4. shadow' \in [Dirs -> Seq(ShadowRecord)] /\ diff' \in [Dirs -> Seq(DiffRecord)]
    <3>1. <<>> \in Seq(ShadowRecord) /\ <<>> \in Seq(DiffRecord)
      OBVIOUS
    <3> QED
      BY <1>1, <3>1 DEF FilesInv, FilesTyped
  <2>5. args' = [q \in Run |-> args'[q]] /\ plan' \in [Run -> Seq(Entry)]
    BY <1>1, <1>2 DEF FilesInv, FilesTyped
  <2>6. \A q \in Run : Stages(q)' = Stages(q)
    BY DEF Stages
  <2> QED
    BY <2>2, <2>3, <2>4, <2>5, <2>6 DEF FilesTyped
<1>11. \A e \in Dirs : \/ e = d /\ shadow'[e] = <<>> /\ diff'[e] = <<>>
                       \/ shadow'[e] = shadow[e] /\ diff'[e] = diff[e]
  BY <1>1 DEF FilesInv, FilesTyped
<1>12. ComparedAreShadows'
  <2> SUFFICES ASSUME NEW e \in Dirs, NEW i \in 1..Len(diff'[e])
               PROVE  \E j \in 1..Len(shadow'[e]) : /\ shadow'[e][j].video = diff'[e][i].video
                                                    /\ shadow'[e][j].content = diff'[e][i].accepted
    BY DEF ComparedAreShadows
  <2>1. diff'[e] # <<>>
    OBVIOUS
  <2>2. shadow'[e] = shadow[e] /\ diff'[e] = diff[e]
    BY <1>11, <2>1
  <2> QED
    BY <2>2 DEF FilesInv, ComparedAreShadows
<1>13. Alone'
  <2> SUFFICES ASSUME NEW p \in Run, NEW q \in Run, p # q, stage'[p] # 0, stage'[q] # 0,
                      Dir(p)' = Dir(q)'
               PROVE  Dir(p)' \in shared'
    BY DEF Alone
  <2>1. CASE p = r \/ q = r
    BY <1>1, <1>5, <1>6, <2>1
  <2>2. CASE p # r /\ q # r
    BY <1>1, <1>5, <1>6, <2>2 DEF FilesInv, Alone
  <2> QED
    BY <2>1, <2>2
<1>14. ASSUME NEW q \in Run \ {r}, stage[q] # 0, q \notin Daily, Dir(q)' \notin shared'
       PROVE  /\ Dir(q) \notin shared
              /\ shadow'[Dir(q)] = shadow[Dir(q)] /\ diff'[Dir(q)] = diff[Dir(q)]
  <2>1. Dir(q) # d /\ Dir(q) \notin shared
    BY <1>1, <1>5, <1>14
  <2>2. Dir(q) \in Dirs
    BY <1>14 DEF FilesInv, FilesTyped
  <2> QED
    BY <1>11, <2>1, <2>2
<1>15. ValidatedAreUnique'
  <2> SUFFICES ASSUME NEW q \in Run, Validated(q)' PROVE OneRecordEach(Dir(q))'
    BY DEF ValidatedAreUnique
  <2>1. CASE q = r
    <3>1. "shadow-validate" \notin given.skip /\ stage'[r] \in 0..Len(Stages(r)) /\ stage'[r] # 0
      BY <1>4, <1>10, <2>1 DEF Validated, In, Stages, FilesTyped
    <3>2. Stages(r)[stage'[r]] \in {"shadow-diff", "shadow-promote"}
      BY <2>1 DEF Validated, In, Stages
    <3>3. r \notin Daily /\ stage'[r] \in {7, 8}
      BY <3>1, <3>2, PlaceOf
    <3>4. Stages(r) = STAGES /\ Len(STAGES) = 10 /\ STAGES[6] = "shadow-validate"
      BY <3>3 DEF Stages, STAGES
    <3>5. \A j \in 0 + 1..Len(Stages(r)) : j < stage'[r] => Stages(r)[j] \in given.skip
      BY <1>6, <3>1, NextStageIs
    <3> QED
      BY <3>1, <3>3, <3>4, <3>5
  <2>2. CASE q # r
    <3>1. In(q, "shadow-diff") \/ In(q, "shadow-promote")
      BY <1>7, <2>2 DEF Validated
    <3>2. stage[q] # 0 /\ q \notin Daily
      BY <3>1, StagePlaces DEF FilesInv
    <3>3. Dir(q)' \notin shared' /\ "shadow-validate" \notin args[q].skip
      BY <1>4, <2>2 DEF Validated
    <3>4. Dir(q) \notin shared /\ shadow'[Dir(q)] = shadow[Dir(q)]
      BY <1>14, <2>2, <3>2, <3>3
    <3>5. OneRecordEach(Dir(q))
      BY <3>1, <3>3, <3>4 DEF FilesInv, ValidatedAreUnique, Validated
    <3> QED
      BY <1>5, <2>2, <3>4, <3>5 DEF OneRecordEach
  <2> QED
    BY <2>1, <2>2
<1>16. PlansBelong'
  <2> SUFFICES ASSUME NEW q \in Run, plan[q] # <<>>
               PROVE  /\ In(q, "shadow-promote")' /\ phase[q] = "work" /\ Guarded(args'[q])
                      /\ Dir(q)' \notin shared' => PlanIsCurrent(q)'
    BY <1>2 DEF PlansBelong, Guarded
  <2>1. q # r
    BY <1>8
  <2>2. /\ In(q, "shadow-promote") /\ phase[q] = "work" /\ Guarded(args[q])
        /\ Dir(q) \notin shared => PlanIsCurrent(q)
    BY DEF FilesInv, PlansBelong
  <2>3. ASSUME Dir(q)' \notin shared' PROVE PlanIsCurrent(q)'
    <3>1. stage[q] # 0 /\ q \notin Daily
      BY <2>2, StagePlaces DEF FilesInv
    <3>2. /\ Dir(q) \notin shared
          /\ shadow'[Dir(q)] = shadow[Dir(q)] /\ diff'[Dir(q)] = diff[Dir(q)]
      BY <1>14, <2>1, <2>3, <3>1
    <3> QED
      BY <1>2, <1>5, <2>1, <2>2, <3>2 DEF PlanIsCurrent
  <2> QED
    BY <1>4, <1>7, <2>1, <2>2, <2>3
<1>17. WorkHasPlace'
  <2> SUFFICES ASSUME NEW q \in Run, phase[q] = "work"
               PROVE  stage'[q] # 0 /\ ~In(q, "shadow-validate")'
    BY <1>2 DEF WorkHasPlace
  <2>1. stage[q] # 0 /\ ~In(q, "shadow-validate")
    BY DEF FilesInv, WorkHasPlace
  <2> QED
    BY <1>2, <1>6, <1>7, <2>1
<1> QED
  BY <1>10, <1>12, <1>13, <1>15, <1>16, <1>17 DEF FilesInv

LEMMA FilesInit == Init => FilesInv
<1> SUFFICES ASSUME Init PROVE FilesInv
  OBVIOUS
<1>1. FilesTyped
  <2>1. \A r \in Run : Len(Stages(r)) \in Nat
    BY DEF Stages, STAGES, DAILY_STAGES
  <2>2. <<>> \in Seq(ShadowRecord) /\ <<>> \in Seq(DiffRecord) /\ <<>> \in Seq(Entry)
    OBVIOUS
  <2> QED
    BY <2>1, <2>2 DEF Init, FilesTyped
<1>2. ComparedAreShadows /\ Alone /\ ValidatedAreUnique /\ PlansBelong /\ WorkHasPlace
  BY DEF Init, ComparedAreShadows, Alone, ValidatedAreUnique, Validated, PlansBelong,
         WorkHasPlace, In
<1> QED
  BY <1>1, <1>2 DEF FilesInv

LEMMA FilesNext == FilesInv /\ PipelineInv /\ [Next]_vars => FilesInv'
<1> SUFFICES ASSUME FilesInv, PipelineInv, [Next]_vars PROVE FilesInv'
  OBVIOUS
<1>0. Typed
  BY DEF PipelineInv
<1>1. CASE \/ Publish \/ CooldownPasses \/ \E v \in Video : IngestTranscript(v) \/ IngestFailure(v)
           \/ UNCHANGED vars
  BY <1>1, WorldKeepsFiles
<1>2. CASE \E r \in Run : StartRun(r) \/ Proceed(r) \/ StageFails(r) \/ Crash(r) \/ ProviderBlocks(r)
  <2>1. PICK r \in Run : StartRun(r) \/ Proceed(r) \/ StageFails(r) \/ Crash(r) \/ ProviderBlocks(r)
    BY <1>2
  <2>2. CASE StartRun(r)
    BY <1>0, <2>2, StartRunKeeps
  <2>3. CASE ShadowVideo(r)
    BY <1>0, <2>3, ShadowVideoKeeps
  <2>4. CASE ShadowDiff(r)
    BY <1>0, <2>4, ShadowDiffKeeps
  <2>5. CASE LoadPromotions(r)
    BY <1>0, <2>5, LoadPromotionsKeeps
  <2>6. CASE PromoteNext(r)
    BY <1>0, <2>6, PromoteNextKeeps
  <2> QED
    BY <1>0, <2>1, <2>2, <2>3, <2>4, <2>5, <2>6, QuietActions DEF Proceed
<1> QED
  BY <1>1, <1>2 DEF Next

\* Only a promotion works its plan off and writes calls.
LEMMA PromotionWrites ==
  ASSUME Next, NEW r \in Run, NEW v \in Video, plan'[r] # plan[r], calls'[v] # calls[v],
         FilesInv
  PROVE  PromoteNext(r)
<1> USE DEF rowVars
<1>1. ~(Publish \/ CooldownPasses \/ \E w \in Video : IngestTranscript(w) \/ IngestFailure(w))
  BY DEF Publish, CooldownPasses, IngestTranscript, IngestFailure
<1>2. PICK q \in Run : StartRun(q) \/ Proceed(q) \/ StageFails(q) \/ Crash(q) \/ ProviderBlocks(q)
  BY <1>1 DEF Next
<1>3. ~(StartRun(q) \/ StageFails(q) \/ Crash(q) \/ ProviderBlocks(q) \/ ComputeScores(q))
  BY DEF StartRun, StageFails, Crash, ProviderBlocks, ComputeScores
<1>4. ~(PlainStage(q) \/ EndStage(q) \/ Discover(q) \/ LoadListed(q) \/ ScrapeTranscript(q))
  BY DEF PlainStage, EndStage, Discover, LoadListed, ScrapeTranscript
<1>5. ~(LoadMissing(q) \/ FetchTranscript(q) \/ LoadPending(q) \/ ExtractVideo(q))
  BY DEF LoadMissing, FetchTranscript, LoadPending, ExtractVideo
<1>6. ~(LoadShadowVideos(q) \/ ShadowVideo(q) \/ ShadowValidate(q) \/ ShadowDiff(q))
  BY DEF LoadShadowVideos, ShadowVideo, ShadowValidate, ShadowDiff
<1>7. ~(LoadPromotions(q) \/ ExtractionFails(q))
  BY DEF LoadPromotions, ExtractionFails
<1>8. PromoteNext(q)
  BY <1>2, <1>3, <1>4, <1>5, <1>6, <1>7 DEF Proceed
<1>9. q = r
  BY <1>8 DEF PromoteNext, FilesInv, FilesTyped
<1> QED
  BY <1>8, <1>9

\* A promotion writes the record that was compared.
LEMMA PromotedIsReviewed ==
  ASSUME FilesInv, Typed, NEW r \in Run, NEW v \in Video, PromoteNext(r), calls'[v] # calls[v]
  PROVE  /\ v \in args[r].reviewed
         /\ Dir(r) \in shared \/ "shadow-validate" \in args[r].skip \/ \E i \in 1..Len(diff[Dir(r)]) :
              LET d == diff[Dir(r)][i]
              IN d.video = v /\ d.status \in args[r].allowed /\ d.accepted = calls'[v].content
<1> DEFINE entry == Head(plan[r])
<1>1. /\ In(r, "shadow-promote") /\ plan[r] # <<>>
      /\ Promotable(args[r], entry) /\ Writes(r)
      /\ calls' = [calls EXCEPT ![entry.diff.video] =
                     [by |-> "promotion", of |-> entry.shadow.of, content |-> entry.shadow.content]]
  BY DEF PromoteNext
<1>2. v = entry.diff.video /\ calls'[v].content = entry.shadow.content
  BY <1>1 DEF Typed
<1>3. Guarded(args[r]) /\ (Dir(r) \notin shared => PlanIsCurrent(r))
  BY <1>1 DEF FilesInv, PlansBelong
<1>4. v \in args[r].reviewed /\ entry.diff.status \in args[r].allowed
  BY <1>1, <1>2, <1>3 DEF Guarded, Promotable, Writes
<1>5. ASSUME Dir(r) \notin shared, "shadow-validate" \notin args[r].skip
      PROVE  \E i \in 1..Len(diff[Dir(r)]) :
               /\ diff[Dir(r)][i].video = v /\ diff[Dir(r)][i].status \in args[r].allowed
               /\ diff[Dir(r)][i].accepted = calls'[v].content
  <2>1. plan[r] \in Seq(Entry) /\ entry = plan[r][1] /\ 1 \in 1..Len(plan[r])
    BY <1>1 DEF FilesInv, FilesTyped
  <2>2. PICK i \in 1..Len(diff[Dir(r)]) : entry.diff = diff[Dir(r)][i]
    BY <1>3, <1>5, <2>1 DEF PlanIsCurrent
  <2>3. entry.shadow = LastRecord(shadow[Dir(r)], v)
    BY <1>2, <1>3, <1>5, <2>1 DEF PlanIsCurrent
  <2>4. Dir(r) \in Dirs /\ shadow[Dir(r)] \in Seq(ShadowRecord)
    <3>1. r \notin Daily /\ stage[r] # 0
      BY <1>1, StagePlaces DEF FilesInv
    <3> QED
      BY <3>1 DEF FilesInv, FilesTyped
  <2>5. PICK j \in 1..Len(shadow[Dir(r)]) :
          /\ shadow[Dir(r)][j].video = diff[Dir(r)][i].video
          /\ shadow[Dir(r)][j].content = diff[Dir(r)][i].accepted
    BY <2>4 DEF FilesInv, ComparedAreShadows
  <2>6. shadow[Dir(r)][j].video = v
    BY <1>2, <2>2, <2>5
  <2>7. PICK k \in 1..Len(shadow[Dir(r)]) :
          /\ LastRecord(shadow[Dir(r)], v) = shadow[Dir(r)][k]
          /\ shadow[Dir(r)][k].video = v
    BY <2>4, <2>6, LastRecordIs
  <2>8. OneRecordEach(Dir(r))
    BY <1>1, <1>5 DEF FilesInv, ValidatedAreUnique, Validated
  <2>9. j = k
    BY <2>6, <2>7, <2>8 DEF OneRecordEach
  <2> QED
    BY <1>2, <1>4, <2>2, <2>3, <2>5, <2>7, <2>9
<1> QED
  BY <1>4, <1>5

\* A promotion writes what a comparison of an allowed status was about, to a reviewed
\* video (promoteShadowRecords after validateShadowRecords and diffShadowRecords):
\* whatever other runs add to their files meanwhile, unless two runs share a directory
\* or the validation is skipped.
THEOREM PromotionsAreReviewed == Spec => PromotionWasReviewed
<1>1. FilesInv /\ PipelineInv /\ [Next]_vars =>
        [\A r \in Run, v \in Video :
           (In(r, "shadow-promote") /\ plan'[r] # plan[r] /\ calls'[v] # calls[v]) =>
             /\ v \in args[r].reviewed
             /\ Dir(r) \in shared \/ "shadow-validate" \in args[r].skip \/ \E i \in 1..Len(diff[Dir(r)]) :
                  LET d == diff[Dir(r)][i]
                  IN d.video = v /\ d.status \in args[r].allowed /\ d.accepted = calls'[v].content]_vars
  BY PromotionWrites, PromotedIsReviewed DEF PipelineInv
<1>2. Spec => [][Next]_vars
  BY PTL DEF Spec
<1>3. Spec => []FilesInv
  BY FilesInit, FilesNext, Invariance, PTL DEF Spec
<1> QED
  BY <1>1, <1>2, <1>3, Invariance, PTL DEF PromotionWasReviewed
=============================================================================
