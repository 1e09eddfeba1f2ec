----------------------------- MODULE VideoQueue -----------------------------
(***************************************************************************)
(* The video production queue: a directory of queue files, one state.json  *)
(* per video, and the processes that work on them without any lock.        *)
(*                                                                         *)
(*   Graph      runs of the produce_video goal, each taking one entry      *)
(*   Script     runs of the queue consumer script, each taking a listing   *)
(*   Daily      runs of video:daily, which queue a video and then run its  *)
(*              stages themselves                                          *)
(*   Scheduler  runs of the graph's scheduler mode                         *)
(*                                                                         *)
(* A file is written by truncating and filling it, so it can be seen, and  *)
(* left by a crash, unreadable. Every file operation is a step.            *)
(***************************************************************************)
EXTENDS Naturals, Sequences, FiniteSets

CONSTANTS
  Graph, Script, Daily, Scheduler,
  Video,             \* the videos (job ids)
  Own,               \* the video each Daily run makes
  Slot,              \* the format and day of a video
  AutoPublish,       \* config.autoPublish; config.enabled is TRUE throughout
  Authorisations,    \* the sets of videos that may be authorised
  MaxTrouble         \* bound: crashes, stages that fail and runs that start beside another

Process == Graph \cup Script \cup Daily \cup Scheduler

ASSUME VideoAssumption ==
  /\ Graph \cap Script = {} /\ Daily \cap Scheduler = {} /\ (Graph \cup Script) \cap (Daily \cup Scheduler) = {}
  /\ Own \in [Daily -> Video] /\ \A d, e \in Daily : Own[d] = Own[e] => d = e
  /\ DOMAIN Slot = Video
  /\ AutoPublish \in BOOLEAN /\ Authorisations \subseteq SUBSET Video
  /\ MaxTrouble \in Nat

VIDEO_STAGES == <<"plan", "audio", "captions", "broll", "render", "thumbnail", "qa",
                  "publish", "analytics">>
VideoStage == {VIDEO_STAGES[i] : i \in 1..Len(VIDEO_STAGES)}
StageIndex(stage) == CHOOSE i \in 1..Len(VIDEO_STAGES) : VIDEO_STAGES[i] = stage

None == "none"
\* The stage after a stage, None after the last.
NextStage(stage) ==
  IF StageIndex(stage) < Len(VIDEO_STAGES) THEN VIDEO_STAGES[StageIndex(stage) + 1] ELSE None

VARIABLES
  entries,     \* the queue files: [stamp, video, stage, whole]
  clock,       \* the stamp of the next queue file
  form,        \* form[v]: state.json is "absent", "torn" or "whole"
  saved,       \* saved[v]: what it says when it is whole
  file,        \* file[v]: the rendered video on disk, [version, audible]
  scenes,      \* videos whose scenes.json exists
  authorised,  \* videos whose state.json was given a graph_context from outside
  pc,          \* pc[p]: the step process p is about to take
  item,        \* item[p]: the entry p works on
  copy,        \* copy[p]: the state p has read
  todo,        \* todo[p]: stamps of the listing that p has still to visit
  failures, crashes, overlaps,
  queued,      \* history: videos whose first entry was written
  ended,       \* history: videos that went through every stage
  dropped,     \* history: videos of which the script removed an entry unprocessed
  passed,      \* history: <<video, version>> that passed QA
  uploaded     \* history: <<video, version>> that went to the provider

fileVars == <<entries, clock, form, saved, file, scenes, authorised>>
runVars == <<pc, item, copy, todo>>
countVars == <<failures, crashes, overlaps>>
historyVars == <<queued, ended, dropped, passed, uploaded>>
vars == <<fileVars, runVars, countVars, historyVars>>

-----------------------------------------------------------------------------
(* state.json, as far as a stage reads it.                                 *)

Content == [script : BOOLEAN, audio : BOOLEAN, video : BOOLEAN, thumb : BOOLEAN,
            qa : {"none", "ok", "bad"}, published : BOOLEAN]
Fresh == [script |-> FALSE, audio |-> FALSE, video |-> FALSE, thumb |-> FALSE,
          qa |-> "none", published |-> FALSE]

Readable(v) == form[v] = "whole"

NoItem == [stamp |-> 0, video |-> None, stage |-> None]

Steps == {"idle", "createState", "fillState", "enqueue", "fillEntry", "unlink", "next", "more",
          "read", "work", "write", "fill", "ended"}

Entry == [stamp : Nat \ {0}, video : Video, stage : VideoStage, whole : BOOLEAN]
Item  == [stamp : Nat, video : Video \cup {None}, stage : VideoStage \cup {None}]

TypeOK ==
  /\ entries \subseteq Entry
  /\ clock \in Nat \ {0}
  /\ form \in [Video -> {"absent", "torn", "whole"}] /\ saved \in [Video -> Content]
  /\ file \in [Video -> [version : Nat, audible : BOOLEAN]]
  /\ scenes \subseteq Video /\ authorised \subseteq Video
  /\ pc \in [Process -> Steps]
  /\ \A p \in Process : p \in Scheduler => pc[p] \in {"idle", "createState", "fillState", "enqueue", "fillEntry"}
  /\ item \in [Process -> Item]
  /\ \A p \in Process : pc[p] \in Steps \ {"idle", "next", "more", "ended"} =>
       item[p].video \in Video /\ item[p].stage \in VideoStage
  /\ copy \in [Process -> Content] /\ todo \in [Process -> SUBSET (Nat \ {0})]
  /\ failures \in Nat /\ crashes \in Nat /\ overlaps \in Nat
  /\ queued \subseteq Video /\ ended \subseteq Video /\ dropped \subseteq Video
  /\ passed \subseteq Video \X Nat /\ uploaded \subseteq Video \X Nat

Init ==
  /\ entries = {} /\ clock = 1 /\ scenes = {}
  /\ authorised \in Authorisations
  /\ form = [v \in Video |-> "absent"] /\ saved = [v \in Video |-> Fresh]
  /\ file = [v \in Video |-> [version |-> 0, audible |-> FALSE]]
  /\ pc = [p \in Process |-> "idle"]
  /\ item = [p \in Process |-> NoItem]
  /\ copy = [p \in Process |-> Fresh]
  /\ todo = [p \in Process |-> {}]
  /\ failures = 0 /\ crashes = 0 /\ overlaps = 0
  /\ queued = {} /\ ended = {} /\ dropped = {} /\ passed = {} /\ uploaded = {}

\* What p works on.
Stage(p) == item[p].stage
Its(p) == item[p].video

Troubles == failures + crashes + overlaps

Goto(p, label) == pc' = [pc EXCEPT ![p] = label]

\* A run starts; beside another one only as often as the bound allows.
Starts(p) ==
  IF \A q \in Process \ {p} : pc[q] \in {"idle", "ended"}
  THEN UNCHANGED overlaps
  ELSE Troubles < MaxTrouble /\ overlaps' = overlaps + 1

-----------------------------------------------------------------------------
(* Making a video: a directory, its state.json, then its first entry.      *)

\* A video of the same format and day exists: its own state.json, whatever
\* that holds, or a readable one of another video.
HasExistingState(v) ==
  form[v] # "absent" \/ \E u \in Video \ {v} : Slot[u] = Slot[v] /\ Readable(u)

\* The scheduler skips a video it finds, or goes on to make it.
Schedule(p) ==
  /\ p \in Scheduler /\ pc[p] = "idle" /\ Starts(p)
  /\ \E v \in Video \ {Own[d] : d \in Daily} :
       /\ ~HasExistingState(v)
       /\ item' = [item EXCEPT ![p] = [stamp |-> 0, video |-> v, stage |-> "plan"]]
  /\ Goto(p, "createState")
  /\ UNCHANGED <<fileVars, copy, todo, failures, crashes, historyVars>>

\* video:daily makes a video under an id of its own and checks nothing.
StartDaily(p) ==
  /\ p \in Daily /\ pc[p] = "idle" /\ Starts(p)
  /\ item' = [item EXCEPT ![p] = [stamp |-> 0, video |-> Own[p], stage |-> "plan"]]
  /\ Goto(p, "createState")
  /\ UNCHANGED <<fileVars, copy, todo, failures, crashes, historyVars>>

\* state.json is truncated, then filled.
CreateState(p) ==
  /\ pc[p] \in {"createState", "fillState"}
  /\ form' = [form EXCEPT ![Its(p)] = IF pc[p] = "createState" THEN "torn" ELSE "whole"]
  /\ saved' = [saved EXCEPT ![Its(p)] = Fresh]
  /\ Goto(p, IF pc[p] = "createState" THEN "fillState" ELSE "enqueue")
  /\ UNCHANGED <<entries, clock, file, scenes, authorised, item, copy, todo, countVars, historyVars>>

-----------------------------------------------------------------------------
(* Queue files.                                                            *)

\* The stage p will enqueue: the first one of a new video, or the next one.
Upcoming(p) == IF item[p].stamp = 0 THEN "plan" ELSE NextStage(item[p].stage)

\* enqueueVideoStage creates the file under the time of the call ...
CreateEntry(p) ==
  /\ pc[p] = "enqueue" /\ Upcoming(p) # None
  /\ entries' = entries \cup {[stamp |-> clock, video |-> item[p].video,
                               stage |-> Upcoming(p), whole |-> FALSE]}
  /\ clock' = clock + 1
  /\ copy' = [copy EXCEPT ![p] = Fresh]
  /\ todo' = [todo EXCEPT ![p] = @ \cup {clock}]
  /\ Goto(p, "fillEntry")
  /\ UNCHANGED <<form, saved, file, scenes, authorised, item, countVars, historyVars>>

\* The entry p is writing has the largest stamp it knows of.
Writing(p) == CHOOSE s \in todo[p] : \A r \in todo[p] : r <= s

\* ... and fills it, unless the script has removed it meanwhile: then the text
\* goes to a file without a name. Afterwards a consumer removes the entry it
\* took, the scheduler is done, and video:daily goes on with the stages itself.
FillEntry(p) ==
  /\ pc[p] = "fillEntry"
  /\ entries' = {IF e.stamp = Writing(p) THEN [e EXCEPT !.whole = TRUE] ELSE e : e \in entries}
  /\ todo' = [todo EXCEPT ![p] = @ \ {Writing(p)}]
  /\ queued' = IF \E e \in entries : e.stamp = Writing(p)
               THEN queued \cup {item[p].video} ELSE queued
  /\ Goto(p, CASE p \in Graph \cup Script -> "unlink"
               [] p \in Scheduler -> "idle"
               [] p \in Daily -> "read")
  /\ UNCHANGED <<clock, form, saved, file, scenes, authorised, item, copy, countVars, ended, dropped, passed,
                 uploaded>>

\* The entry that was processed is removed, after the last stage without a next
\* one. That it may be gone already is an error for the graph's run, which has
\* nothing left to do.
Unlink(p) ==
  /\ pc[p] = "unlink" \/ (pc[p] = "enqueue" /\ Upcoming(p) = None)
  /\ entries' = {e \in entries : e.stamp # item[p].stamp}
  /\ ended' = IF Upcoming(p) = None THEN ended \cup {Its(p)} ELSE ended
  /\ item' = [item EXCEPT ![p] = NoItem]
  /\ Goto(p, IF p \in Script THEN "more" ELSE "idle")
  /\ UNCHANGED <<clock, form, saved, file, scenes, authorised, copy, todo, countVars, queued,
                 dropped, passed, uploaded>>

-----------------------------------------------------------------------------
(* Taking an entry.                                                        *)

\* Mutant: the newest entry comes first.
OldestIsNewest(es) == CHOOSE e \in es : \A d \in es : d.stamp <= e.stamp

Oldest(es) == CHOOSE e \in es : \A d \in es : e.stamp <= d.stamp

\* The graph's node takes the oldest entry it can read. It leaves a publication
\* alone unless the run is approved or live_owned_public.
Take(p, approved) ==
  /\ p \in Graph /\ pc[p] = "idle" /\ Starts(p)
  /\ \E e \in entries :
       /\ e.whole /\ e = Oldest({d \in entries : d.whole})
       /\ e.stage = "publish" => approved
       /\ item' = [item EXCEPT ![p] = [stamp |-> e.stamp, video |-> e.video, stage |-> e.stage]]
  /\ Goto(p, "read")
  /\ UNCHANGED <<fileVars, copy, todo, failures, crashes, historyVars>>

\* The script lists the directory once ...
ListQueueFiles(p) ==
  /\ p \in Script /\ pc[p] = "idle" /\ entries # {} /\ Starts(p)
  /\ todo' = [todo EXCEPT ![p] = {e.stamp : e \in entries}]
  /\ Goto(p, "next")
  /\ UNCHANGED <<fileVars, item, copy, failures, crashes, historyVars>>

\* ... and visits the files in order. One it cannot read it removes, be it
\* half written; one that is gone it passes over.
ParseQueueItem(p) ==
  /\ pc[p] \in {"next", "more"} /\ todo[p] # {}
  /\ LET stamp == CHOOSE s \in todo[p] : \A r \in todo[p] : s <= r
         found == {e \in entries : e.stamp = stamp}
         whole == {e \in found : e.whole}
     IN /\ todo' = [todo EXCEPT ![p] = @ \ {stamp}]
        /\ entries' = entries \ (found \ whole)
        /\ dropped' = dropped \cup {e.video : e \in found \ whole}
        /\ IF whole = {}
           THEN UNCHANGED <<pc, item>>
           ELSE \E e \in whole :
                  /\ item' = [item EXCEPT ![p] = [stamp |-> e.stamp, video |-> e.video,
                                                  stage |-> e.stage]]
                  /\ Goto(p, "read")
  /\ UNCHANGED <<clock, form, saved, file, scenes, authorised, copy, countVars, queued, ended, passed, uploaded>>

\* The listing is used up, or --max-jobs entries, at least one, were processed.
EndListing(p) ==
  /\ pc[p] = "more" \/ (pc[p] = "next" /\ todo[p] = {})
  /\ Goto(p, "idle") /\ todo' = [todo EXCEPT ![p] = {}]
  /\ UNCHANGED <<fileVars, item, copy, countVars, historyVars>>

-----------------------------------------------------------------------------
(* A stage: read the state, do the work, write the whole state back.       *)

\* What a stage needs of the state it read and of the directory.
Prepared(stage, v, s) ==
  CASE stage = "audio" -> s.script
    [] stage \in {"captions", "broll"} -> v \in scenes
    [] stage = "render" -> s.script /\ v \in scenes
    [] stage = "thumbnail" -> s.script
    [] stage = "publish" -> s.qa # "none"
    [] OTHER -> TRUE

\* Mutant: the graph removes the entry of a stage that failed.
FailRemoves(p) ==
  /\ item' = [item EXCEPT ![p] = NoItem]
  /\ copy' = [copy EXCEPT ![p] = Fresh]
  /\ entries' = IF p \in Daily THEN entries ELSE {e \in entries : e.stamp # item[p].stamp}
  /\ dropped' = IF p \in Script THEN dropped \cup {Its(p)} ELSE dropped
  /\ Goto(p, CASE p \in Script -> "more" [] p \in Graph -> "idle" [] p \in Daily -> "ended")
  /\ UNCHANGED <<clock, form, saved, file, scenes, authorised, todo, queued, ended, passed, uploaded>>

\* An exception leaves the graph's entry where it is, and the run ends; the
\* script removes the entry; video:daily ends.
Fail(p) ==
  /\ item' = [item EXCEPT ![p] = NoItem]
  /\ copy' = [copy EXCEPT ![p] = Fresh]
  /\ IF p \in Script
     THEN /\ entries' = {e \in entries : e.stamp # item[p].stamp}
          /\ dropped' = dropped \cup {Its(p)}
     ELSE UNCHANGED <<entries, dropped>>
  /\ Goto(p, CASE p \in Script -> "more" [] p \in Graph -> "idle" [] p \in Daily -> "ended")
  /\ UNCHANGED <<clock, form, saved, file, scenes, authorised, todo, queued, ended, passed, uploaded>>

ReadState(p) ==
  /\ pc[p] = "read"
  /\ UNCHANGED countVars
  /\ IF Readable(Its(p)) /\ Prepared(Stage(p), Its(p), saved[Its(p)])
     THEN /\ copy' = [copy EXCEPT ![p] = saved[Its(p)]]
          /\ Goto(p, "work")
          /\ UNCHANGED <<fileVars, item, todo, historyVars>>
     ELSE Fail(p)

\* A stage fails of itself, or a file it made is not what QA expects, which QA
\* writes down like any other verdict.
StageFails(p) ==
  /\ pc[p] = "work" /\ Stage(p) # "qa"
  /\ Troubles < MaxTrouble /\ failures' = failures + 1
  /\ UNCHANGED <<crashes, overlaps>>
  /\ Fail(p)

QaFails(p) ==
  /\ pc[p] = "work" /\ Stage(p) = "qa"
  /\ Troubles < MaxTrouble /\ failures' = failures + 1
  /\ copy' = [copy EXCEPT ![p].qa = "bad"]
  /\ Goto(p, "write")
  /\ UNCHANGED <<fileVars, item, todo, crashes, overlaps, historyVars>>

\* QA looks at the state it was given and at the files as they are now.
QaOk(v, s) == s.script /\ s.video /\ s.thumb /\ file[v].version > 0 /\ file[v].audible

\* Mutant: the configuration alone decides.
ShouldPublishAnyway(s) == AutoPublish

\* decidePublish, of a configuration that is enabled.
ShouldPublish(s) == s.qa = "ok" /\ AutoPublish

\* Mutant: plan writes its script and its scenes, and forgets the state.
SavesAfterPlan(stage, s) == stage \notin {"plan", "analytics"} /\ (stage = "publish" => ShouldPublish(s))

\* The stages that change the state they read.
Saves(stage, s) == stage # "analytics" /\ (stage = "publish" => ShouldPublish(s))

\* After its stage a consumer enqueues the next one; video:daily runs it.
StageDone(p) ==
  IF p \notin Daily
  THEN Goto(p, "enqueue") /\ UNCHANGED item
  ELSE IF NextStage(Stage(p)) = None
  THEN Goto(p, "ended") /\ UNCHANGED item
  ELSE Goto(p, "read") /\ item' = [item EXCEPT ![p].stage = NextStage(@)]

Work(p) ==
  LET v == Its(p)
      s == copy[p]
      Record(field, value) == copy' = [copy EXCEPT ![p][field] = value]
  IN
  /\ pc[p] = "work"
  /\ CASE Stage(p) = "plan" -> Record("script", TRUE) /\ scenes' = scenes \cup {v}
       [] Stage(p) = "audio" -> Record("audio", TRUE) /\ UNCHANGED scenes
       [] Stage(p) = "render" -> Record("video", TRUE) /\ UNCHANGED scenes
       [] Stage(p) = "thumbnail" -> Record("thumb", TRUE) /\ UNCHANGED scenes
       [] Stage(p) = "qa" ->
            Record("qa", IF QaOk(v, s) THEN "ok" ELSE "bad") /\ UNCHANGED scenes
       [] Stage(p) = "publish" /\ ShouldPublish(s) ->
            s.video /\ s.thumb /\ s.script /\ v \in authorised
              /\ Record("published", TRUE) /\ UNCHANGED scenes
       [] OTHER -> UNCHANGED <<copy, scenes>>
  /\ file' = IF Stage(p) = "render"
             THEN [file EXCEPT ![v] = [version |-> @.version + 1, audible |-> s.audio]]
             ELSE file
  /\ passed' = IF Stage(p) = "qa" /\ copy'[p].qa = "ok"
               THEN passed \cup {<<v, file[v].version>>} ELSE passed
  /\ uploaded' = IF Stage(p) = "publish" /\ ShouldPublish(s)
                 THEN uploaded \cup {<<v, file[v].version>>} ELSE uploaded
  /\ IF Saves(Stage(p), s) THEN Goto(p, "write") /\ UNCHANGED item ELSE StageDone(p)
  /\ UNCHANGED <<entries, clock, form, saved, authorised, todo, countVars, queued, ended,
                 dropped>>

\* The publisher refuses an upload that lacks its inputs or a graph context.
UploadRefused(p) ==
  /\ pc[p] = "work" /\ Stage(p) = "publish" /\ ShouldPublish(copy[p])
  /\ ~(copy[p].video /\ copy[p].thumb /\ copy[p].script /\ Its(p) \in authorised)
  /\ UNCHANGED countVars
  /\ Fail(p)

\* The copy goes back whole, over whatever was saved meanwhile.
WriteState(p) ==
  /\ pc[p] \in {"write", "fill"}
  /\ form' = [form EXCEPT ![Its(p)] = IF pc[p] = "write" THEN "torn" ELSE "whole"]
  /\ saved' = IF pc[p] = "fill" THEN [saved EXCEPT ![Its(p)] = copy[p]] ELSE saved
  /\ IF pc[p] = "write"
     THEN Goto(p, "fill") /\ UNCHANGED <<item, copy>>
     ELSE StageDone(p) /\ copy' = [copy EXCEPT ![p] = Fresh]
  /\ UNCHANGED <<entries, clock, file, scenes, authorised, todo, countVars, historyVars>>

-----------------------------------------------------------------------------
\* A process dies between two of its steps. Files stay as they are.
Crash(p) ==
  /\ Troubles < MaxTrouble /\ pc[p] \notin {"idle", "ended"}
  /\ crashes' = crashes + 1
  /\ Goto(p, IF p \in Daily THEN "ended" ELSE "idle")
  /\ item' = [item EXCEPT ![p] = NoItem]
  /\ copy' = [copy EXCEPT ![p] = Fresh]
  /\ todo' = [todo EXCEPT ![p] = {}]
  /\ UNCHANGED <<fileVars, failures, overlaps, historyVars>>

\* The next statement of a run that has started.
Proceed(p) ==
  \/ CreateState(p) \/ CreateEntry(p) \/ FillEntry(p) \/ Unlink(p)
  \/ ParseQueueItem(p) \/ EndListing(p)
  \/ ReadState(p) \/ Work(p) \/ UploadRefused(p) \/ WriteState(p)

Next ==
  \E p \in Process :
    \/ Schedule(p) \/ StartDaily(p) \/ ListQueueFiles(p)
    \/ \E approved \in BOOLEAN : Take(p, approved)
    \/ Proceed(p) \/ StageFails(p) \/ QaFails(p) \/ Crash(p)

\* A run that has started goes on, and cron starts a run of the goal every five
\* minutes. It gives that run no approval, and nothing else starts one regularly.
Fairness ==
  /\ \A p \in Process : WF_vars(Proceed(p))
  /\ \A p \in Graph : WF_vars(Take(p, FALSE))

Spec == Init /\ [][Next]_vars /\ Fairness

-----------------------------------------------------------------------------
(* What the queue promises.                                                *)

\* One process at a time works on the videos, and none of them is the script.
Calm == overlaps = 0 /\ dropped = {}

\* The entries of a video that can be read.
EntriesOf(v) == {e \in entries : e.video = v /\ e.whole}

\* No crash, failure or overlap loses a video: once it is queued it has an
\* entry until its last stage is done, unless the script gave it up. The order
\* of the writes is what matters, the next entry before the old one's removal.
NoVideoLost == \A v \in queued \ (ended \cup dropped) : EntriesOf(v) # {}

\* Nothing goes to the provider that QA did not pass: while runs do not
\* overlap, a render that is repeated after a crash is checked again before
\* anything of that video is published.
UploadsWereChecked == Calm => uploaded \subseteq passed

\* While runs do not overlap, repeated work stays in step: all entries of a
\* video are within one stage of each other, so no stage writes its result
\* over that of a much later one.
EntriesInStep ==
  Calm => \A v \in Video : \A d, e \in EntriesOf(v) :
            StageIndex(d.stage) <= StageIndex(e.stage) + 1

\* The oldest entry that can be read, and so all later ones, waits for somebody
\* from outside: to approve its publication, or to repair a state.json that a
\* crash left half written.
WaitsForSomebody ==
  \E e \in entries :
    /\ e.whole /\ e = Oldest({d \in entries : d.whole})
    /\ e.stage = "publish" \/ ~Readable(e.video)

\* Cron alone takes every queued video through its stages, after any crash,
\* failure or overlap, unless the script gave it up or from some time on the
\* oldest entry waits, be it another video's. No stage lacks for good what an
\* earlier one should have left, and no entry is passed over.
VideosEndOrWait ==
  []<>(queued \subseteq ended \cup dropped) \/ <>[]WaitsForSomebody
=============================================================================
