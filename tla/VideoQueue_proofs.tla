-------------------------- MODULE VideoQueue_proofs --------------------------
(***************************************************************************)
(* Proofs about the video queue, for any number of runs of each kind, any    *)
(* videos, and any number of crashes, failures and overlaps.                 *)
(***************************************************************************)
EXTENDS VideoQueue, WellFoundedInduction, TLAPS

LEMMA StageTyped == \A stage \in VideoStage : NextStage(stage) \in VideoStage \cup {None}
<1> SUFFICES ASSUME NEW stage \in VideoStage PROVE NextStage(stage) \in VideoStage \cup {None}
  OBVIOUS
<1>1. StageIndex(stage) \in 1 .. Len(VIDEO_STAGES)
  BY DEF VideoStage, StageIndex
<1>2. Len(VIDEO_STAGES) = 9
  BY DEF VIDEO_STAGES
<1> QED
  BY <1>1, <1>2 DEF NextStage, VideoStage

LEMMA FirstTyped == "plan" \in VideoStage
<1>1. VIDEO_STAGES[1] = "plan" /\ Len(VIDEO_STAGES) = 9
  BY DEF VIDEO_STAGES
<1> QED
  BY <1>1 DEF VideoStage

LEMMA FreshTyped == Fresh \in Content /\ NoItem \in Item
BY DEF Fresh, Content, NoItem, Item

LEMMA Kinds ==
  \A p \in Process : /\ p \in Scheduler => p \notin Graph \cup Script \cup Daily
                     /\ p \in Daily => p \notin Graph \cup Script
                     /\ p \in Graph => p \notin Script
BY VideoAssumption DEF Process

\* The clauses of TypeOK on the steps, when one process goes on.
PcOK ==
  /\ pc \in [Process -> Steps] /\ item \in [Process -> Item]
  /\ \A p \in Process : p \in Scheduler => pc[p] \in {"idle", "createState", "fillState", "enqueue", "fillEntry"}
  /\ \A p \in Process : pc[p] \in Steps \ {"idle", "next", "more", "ended"} =>
       item[p].video \in Video /\ item[p].stage \in VideoStage

LEMMA PcTyped ==
  ASSUME TypeOK, NEW p \in Process, NEW s \in Steps, Goto(p, s),
         p \in Scheduler => s \in {"idle", "createState", "fillState", "enqueue", "fillEntry"},
         NEW i \in Item, UNCHANGED item \/ item' = [item EXCEPT ![p] = i],
         \/ s \in {"idle", "next", "more", "ended"}
         \/ UNCHANGED item /\ pc[p] \notin {"idle", "next", "more", "ended"}
         \/ item' = [item EXCEPT ![p] = i] /\ i.video \in Video /\ i.stage \in VideoStage
  PROVE  PcOK'
BY DEF TypeOK, Goto, PcOK

-----------------------------------------------------------------------------
(* Types, action by action.                                                 *)

LEMMA TypeStarts ==
  ASSUME TypeOK, NEW p \in Process,
         Schedule(p) \/ StartDaily(p) \/ ListQueueFiles(p) \/ (\E approved \in BOOLEAN : Take(p, approved))
  PROVE  TypeOK'
<1> USE VideoAssumption DEF TypeOK, Steps, Goto, fileVars, runVars, countVars, historyVars
<1>1. overlaps' \in Nat
  BY DEF Schedule, StartDaily, ListQueueFiles, Take, Starts
<1>2. CASE Schedule(p)
  <2>1. PICK v \in Video : item' = [item EXCEPT ![p] = [stamp |-> 0, video |-> v, stage |-> "plan"]]
    BY <1>2 DEF Schedule
  <2>2. PcOK'
    BY <1>2, <2>1, FirstTyped, PcTyped DEF Schedule, Item
  <2> QED
    BY <1>1, <1>2, <2>2 DEF Schedule, PcOK
<1>3. CASE StartDaily(p)
  <2>1. Own[p] \in Video
    BY <1>3, VideoAssumption DEF StartDaily
  <2>2. PcOK'
    BY <1>3, <2>1, FirstTyped, PcTyped, Kinds DEF StartDaily, Item
  <2> QED
    BY <1>1, <1>3, <2>2 DEF StartDaily, PcOK
<1>4. CASE ListQueueFiles(p)
  <2>1. PcOK'
    BY <1>4, PcTyped, FreshTyped, Kinds DEF ListQueueFiles
  <2>2. todo' \in [Process -> SUBSET (Nat \ {0})]
    BY <1>4 DEF ListQueueFiles, Entry
  <2> QED
    BY <1>1, <1>4, <2>1, <2>2 DEF ListQueueFiles, PcOK
<1>5. CASE \E approved \in BOOLEAN : Take(p, approved)
  <2>1. PICK e \in entries : item' = [item EXCEPT ![p] = [stamp |-> e.stamp, video |-> e.video, stage |-> e.stage]]
    BY <1>5 DEF Take
  <2>2. e.stamp \in Nat /\ e.video \in Video /\ e.stage \in VideoStage
    BY DEF Entry
  <2>3. PcOK'
    BY <1>5, <2>1, <2>2, PcTyped, Kinds DEF Take, Item
  <2> QED
    BY <1>1, <1>5, <2>3 DEF Take, PcOK
<1> QED
  BY <1>2, <1>3, <1>4, <1>5

\* A step of the script along its listing, for the stamp it visits.
Visits(p, stamp) ==
  LET found == {e \in entries : e.stamp = stamp}
      whole == {e \in found : e.whole}
  IN /\ todo' = [todo EXCEPT ![p] = @ \ {stamp}]
     /\ entries' = entries \ (found \ whole)
     /\ dropped' = dropped \cup {e.video : e \in found \ whole}
     /\ \/ UNCHANGED <<pc, item>>
        \/ \E e \in whole :
             /\ item' = [item EXCEPT ![p] = [stamp |-> e.stamp, video |-> e.video, stage |-> e.stage]]
             /\ Goto(p, "read")

LEMMA VisitsOne == ASSUME NEW p \in Process, ParseQueueItem(p) PROVE \E stamp : Visits(p, stamp)
<1> DEFINE stamp == CHOOSE s \in todo[p] : \A r \in todo[p] : s <= r
           found == {e \in entries : e.stamp = stamp}
           whole == {e \in found : e.whole}
<1>1. /\ todo' = [todo EXCEPT ![p] = @ \ {stamp}]
      /\ entries' = entries \ (found \ whole)
      /\ dropped' = dropped \cup {e.video : e \in found \ whole}
      /\ IF whole = {} THEN UNCHANGED <<pc, item>>
         ELSE \E e \in whole :
                /\ item' = [item EXCEPT ![p] = [stamp |-> e.stamp, video |-> e.video, stage |-> e.stage]]
                /\ Goto(p, "read")
  BY DEF ParseQueueItem
<1> QED
  BY <1>1 DEF Visits

LEMMA TypeEntries ==
  ASSUME TypeOK, NEW p \in Process,
         CreateState(p) \/ CreateEntry(p) \/ FillEntry(p) \/ Unlink(p) \/ ParseQueueItem(p) \/ EndListing(p)
  PROVE  TypeOK'
<1> USE FreshTyped, VideoAssumption DEF TypeOK, Steps, Goto, fileVars, runVars, countVars, historyVars, Its
<1>1. CASE CreateState(p)
  BY <1>1 DEF CreateState
<1>2. CASE CreateEntry(p)
  <2>1. Upcoming(p) \in VideoStage /\ Its(p) \in Video
    BY <1>2, StageTyped, FirstTyped DEF CreateEntry, Upcoming
  <2>2. entries' \subseteq Entry
    <3>1. [stamp |-> clock, video |-> Its(p), stage |-> Upcoming(p), whole |-> FALSE] \in Entry
      BY <2>1 DEF Entry
    <3> QED
      BY <1>2, <3>1 DEF CreateEntry
  <2>3. copy' \in [Process -> Content] /\ todo' \in [Process -> SUBSET (Nat \ {0})] /\ pc' \in [Process -> Steps]
    BY <1>2 DEF CreateEntry
  <2> QED
    BY <1>2, <2>2, <2>3 DEF CreateEntry
<1>3. CASE FillEntry(p)
  <2>1. entries' \subseteq Entry
    <3>1. ASSUME NEW e \in Entry PROVE [e EXCEPT !.whole = TRUE] \in Entry
      BY DEF Entry
    <3> QED
      BY <1>3, <3>1 DEF FillEntry
  <2>2. pc' \in [Process -> Steps] /\ \A q \in Process \ {p} : pc'[q] = pc[q]
    BY <1>3 DEF FillEntry, Process
  <2>3. todo' \in [Process -> SUBSET (Nat \ {0})] /\ queued' \subseteq Video
    BY <1>3 DEF FillEntry
  <2>4. PcOK'
    <3>1. \E s \in {"unlink", "idle", "read"} : Goto(p, s) /\ (p \in Scheduler => s = "idle")
      BY <1>3, Kinds DEF FillEntry, Process
    <3> QED
      BY <1>3, <3>1, PcTyped, FreshTyped DEF FillEntry
  <2> QED
    BY <1>3, <2>1, <2>3, <2>4 DEF FillEntry, PcOK
<1>4. CASE Unlink(p)
  BY <1>4 DEF Unlink
<1>5. CASE ParseQueueItem(p)
  <2>1. PICK stamp : Visits(p, stamp)
    BY <1>5, VisitsOne
  <2> USE DEF Visits
  <2>2. todo' \in [Process -> SUBSET (Nat \ {0})] /\ dropped' \subseteq Video
    BY <2>1 DEF Entry
  <2>3. CASE UNCHANGED <<pc, item>>
    BY <1>5, <2>1, <2>2, <2>3 DEF ParseQueueItem
  <2>4. ASSUME NEW e \in entries,
               item' = [item EXCEPT ![p] = [stamp |-> e.stamp, video |-> e.video, stage |-> e.stage]],
               Goto(p, "read")
        PROVE  TypeOK'
    <3>1. e.stamp \in Nat /\ e.video \in Video /\ e.stage \in VideoStage
      BY DEF Entry
    <3>2. item'[p].video \in Video /\ item'[p].stage \in VideoStage
      BY <2>4, <3>1
    <3>3. item' \in [Process -> Item]
      BY <2>4, <3>1 DEF Item
    <3> QED
      BY <1>5, <2>1, <2>2, <2>4, <3>2, <3>3 DEF ParseQueueItem
  <2> QED
    BY <2>1, <2>3, <2>4
<1>6. CASE EndListing(p)
  BY <1>6 DEF EndListing
<1> QED
  BY <1>1, <1>2, <1>3, <1>4, <1>5, <1>6

LEMMA TypeFail ==
  ASSUME TypeOK, NEW p \in Process, pc[p] \in {"read", "work"}, Fail(p),
         failures' \in Nat, crashes' \in Nat, overlaps' \in Nat
  PROVE  TypeOK'
<1> USE FreshTyped, VideoAssumption DEF TypeOK, Steps, Goto, Its, Fail
<1>1. pc' \in [Process -> Steps] /\ pc'[p] \in {"more", "idle", "ended"} /\ \A q \in Process \ {p} : pc'[q] = pc[q]
  <2>1. p \in Graph \cup Script \cup Daily
    BY DEF Process
  <2>2. \E s \in {"more", "idle", "ended"} : Goto(p, s)
    BY <2>1
  <2> QED
    BY <2>2
<1>2. entries' \subseteq entries /\ dropped' \subseteq Video
  OBVIOUS
<1>3. item' \in [Process -> Item]
      /\ \A q \in Process \ {p} : item'[q] = item[q]
  OBVIOUS
<1>4. copy' \in [Process -> Content]
  OBVIOUS
<1> QED
  BY <1>1, <1>2, <1>3, <1>4

LEMMA TypeStageDone ==
  ASSUME TypeOK, NEW p \in Process, pc[p] \in Steps \ {"idle", "next", "more", "ended"}, StageDone(p)
  PROVE  /\ pc' \in [Process -> Steps] /\ \A q \in Process \ {p} : pc'[q] = pc[q]
         /\ pc'[p] \in {"enqueue", "ended", "read"}
         /\ item' \in [Process -> Item]
         /\ \A q \in Process \ {p} : item'[q] = item[q]
         /\ item'[p].stamp = item[p].stamp /\ item'[p].video = item[p].video
         /\ pc'[p] # "ended" => item'[p].stage \in VideoStage
<1> USE DEF TypeOK, Steps, Goto
<1>1. CASE p \notin Daily
  BY <1>1 DEF StageDone
<1>2. CASE p \in Daily /\ NextStage(Stage(p)) = None
  BY <1>2 DEF StageDone
<1>3. CASE p \in Daily /\ NextStage(Stage(p)) # None
  <2>1. NextStage(Stage(p)) \in VideoStage
    BY <1>3, StageTyped DEF Stage
  <2>2. Goto(p, "read") /\ item' = [item EXCEPT ![p] = [item[p] EXCEPT !.stage = NextStage(Stage(p))]]
    BY <1>3 DEF StageDone, Stage
  <2> HIDE DEF Stage
  <2> DEFINE i == [item[p] EXCEPT !.stage = NextStage(Stage(p))]
  <2>3. item[p] \in Item
    OBVIOUS
  <2>4. i \in Item /\ i.stamp = item[p].stamp /\ i.video = item[p].video /\ i.stage = NextStage(Stage(p))
    BY <2>1, <2>3 DEF Item
  <2>5. item' = [item EXCEPT ![p] = i]
    BY <2>2
  <2> HIDE DEF i
  <2> QED
    BY <2>1, <2>2, <2>4, <2>5
<1> QED
  BY <1>1, <1>2, <1>3

LEMMA TypeStages ==
  ASSUME TypeOK, NEW p \in Process,
         ReadState(p) \/ UploadRefused(p) \/ WriteState(p) \/ StageFails(p) \/ QaFails(p) \/ Crash(p)
  PROVE  TypeOK'
<1> USE FreshTyped, VideoAssumption DEF TypeOK, Steps, Goto, fileVars, runVars, countVars, historyVars, Its
<1>1. CASE ReadState(p)
  <2>1. CASE Readable(Its(p)) /\ Prepared(Stage(p), Its(p), saved[Its(p)])
    <3>1. copy' = [copy EXCEPT ![p] = saved[Its(p)]] /\ saved[Its(p)] \in Content
      BY <1>1, <2>1 DEF ReadState
    <3>2. copy' \in [Process -> Content]
      BY <3>1
    <3> QED
      BY <1>1, <2>1, <3>2 DEF ReadState
  <2>2. CASE ~(Readable(Its(p)) /\ Prepared(Stage(p), Its(p), saved[Its(p)]))
    BY <1>1, <2>2, TypeFail DEF ReadState
  <2> QED
    BY <2>1, <2>2
<1>2. CASE UploadRefused(p)
  BY <1>2, TypeFail DEF UploadRefused
<1>3. CASE WriteState(p)
  <2>1. form' \in [Video -> {"absent", "torn", "whole"}] /\ saved' \in [Video -> Content]
    BY <1>3 DEF WriteState
  <2>2. CASE pc[p] = "write"
    <3>1. Goto(p, "fill") /\ UNCHANGED <<item, copy>>
      BY <1>3, <2>2 DEF WriteState
    <3>2. item[p].video \in Video /\ item[p].stage \in VideoStage
      BY <2>2
    <3> QED
      BY <1>3, <2>1, <2>2, <3>1, <3>2 DEF WriteState
  <2>3. CASE pc[p] = "fill"
    <3>1. StageDone(p) /\ copy' = [copy EXCEPT ![p] = Fresh]
      BY <1>3, <2>3 DEF WriteState
    <3>2. copy' \in [Process -> Content]
      BY <3>1
    <3>3. /\ pc' \in [Process -> Steps] /\ \A q \in Process \ {p} : pc'[q] = pc[q]
          /\ pc'[p] \in {"enqueue", "ended", "read"}
          /\ item' \in [Process -> Item]
          /\ \A q \in Process \ {p} : item'[q] = item[q]
          /\ item'[p].stamp = item[p].stamp /\ item'[p].video = item[p].video
          /\ pc'[p] # "ended" => item'[p].stage \in VideoStage
      BY <2>3, <3>1, TypeStageDone
    <3>4. PcOK'
      BY <2>3, <3>3 DEF PcOK
    <3> QED
      BY <1>3, <2>1, <2>3, <3>2, <3>4 DEF WriteState, PcOK
  <2> QED
    BY <1>3, <2>2, <2>3 DEF WriteState
<1>4. CASE StageFails(p)
  BY <1>4, TypeFail DEF StageFails
<1>5. CASE QaFails(p)
  <2>1. copy' = [copy EXCEPT ![p] = [copy[p] EXCEPT !.qa = "bad"]]
    BY <1>5 DEF QaFails
  <2>2. copy' \in [Process -> Content]
    BY SMTT(30), <2>1 DEF Content
  <2> QED
    BY <1>5, <2>2 DEF QaFails
<1>6. CASE Crash(p)
  BY <1>6 DEF Crash
<1> QED
  BY <1>1, <1>2, <1>3, <1>4, <1>5, <1>6

LEMMA TypeWork == ASSUME TypeOK, NEW p \in Process, Work(p) PROVE TypeOK'
<1> USE DEF TypeOK, Its
<1>1. pc[p] = "work" /\ Its(p) \in Video /\ copy[p] \in Content /\ file[Its(p)].version \in Nat
  BY DEF Work, Steps
<1>2. UNCHANGED <<entries, clock, form, saved, authorised, todo, countVars, queued, ended, dropped>>
  BY DEF Work
<1>3. copy' \in [Process -> Content] /\ scenes' \subseteq Video
  <2>1. ASSUME NEW field, NEW value, copy' = [copy EXCEPT ![p][field] = value],
               \/ field \in {"script", "audio", "video", "thumb", "published"} /\ value = TRUE
               \/ field = "qa" /\ value \in {"ok", "bad"}
        PROVE  copy' \in [Process -> Content]
    <3>1. copy' = [copy EXCEPT ![p] = [copy[p] EXCEPT ![field] = value]]
      BY <2>1
    <3>2. [copy[p] EXCEPT ![field] = value] \in Content
      BY <1>1, <2>1 DEF Content
    <3> QED
      BY <3>1, <3>2
  <2>2. \/ /\ \/ UNCHANGED copy
              \/ \E field, value :
                   /\ copy' = [copy EXCEPT ![p][field] = value]
                   /\ \/ field \in {"script", "audio", "video", "thumb", "published"} /\ value = TRUE
                      \/ field = "qa" /\ value \in {"ok", "bad"}
           /\ UNCHANGED scenes \/ scenes' = scenes \cup {Its(p)}
    <3>1. CASE Stage(p) = "plan"
      BY <3>1 DEF Work
    <3>2. CASE Stage(p) = "audio"
      BY <3>2 DEF Work
    <3>3. CASE Stage(p) = "render"
      BY <3>3 DEF Work
    <3>4. CASE Stage(p) = "thumbnail"
      BY <3>4 DEF Work
    <3>5. CASE Stage(p) = "qa"
      BY <3>5 DEF Work
    <3>6. CASE Stage(p) = "publish" /\ ShouldPublish(copy[p])
      BY <3>6 DEF Work
    <3>7. CASE Stage(p) \notin {"plan", "audio", "render", "thumbnail", "qa"} /\ ~(Stage(p) = "publish" /\ ShouldPublish(copy[p]))
      BY <3>7 DEF Work
    <3> QED
      BY <3>1, <3>2, <3>3, <3>4, <3>5, <3>6, <3>7
  <2> QED
    BY <1>1, <2>1, <2>2
<1>4. file' \in [Video -> [version : Nat, audible : BOOLEAN]]
  <2>1. CASE Stage(p) = "render"
    <3>1. file' = [file EXCEPT ![Its(p)] = [version |-> file[Its(p)].version + 1, audible |-> copy[p].audio]]
      BY <2>1 DEF Work
    <3>2. copy[p].audio \in BOOLEAN
      BY <1>1 DEF Content
    <3> QED
      BY <1>1, <3>1, <3>2
  <2>2. CASE Stage(p) # "render"
    BY <2>2 DEF Work
  <2> QED
    BY <2>1, <2>2
<1>5. passed' \subseteq Video \X Nat /\ uploaded' \subseteq Video \X Nat
  <2>1. passed' \subseteq passed \cup {<<Its(p), file[Its(p)].version>>}
    BY DEF Work
  <2>2. uploaded' \subseteq uploaded \cup {<<Its(p), file[Its(p)].version>>}
    BY DEF Work
  <2> QED
    BY <1>1, <2>1, <2>2
<1>6. PcOK'
  <2>1. CASE StageDone(p)
    BY <1>1, <2>1, TypeStageDone DEF PcOK, Steps
  <2>2. CASE Goto(p, "write") /\ UNCHANGED item
    BY <1>1, <2>2, PcTyped, FreshTyped DEF Steps
  <2> QED
    BY <2>1, <2>2 DEF Work
<1> QED
  BY <1>2, <1>3, <1>4, <1>5, <1>6 DEF PcOK, countVars

LEMMA TypeInit == Init => TypeOK
BY FreshTyped, VideoAssumption DEF Init, TypeOK, Steps

LEMMA TypeStep == TypeOK /\ [Next]_vars => TypeOK'
<1> SUFFICES ASSUME TypeOK, [Next]_vars PROVE TypeOK'
  OBVIOUS
<1>1. CASE UNCHANGED vars
  BY <1>1 DEF TypeOK, vars, fileVars, runVars, countVars, historyVars
<1>2. CASE Next
  BY <1>2, TypeStarts, TypeEntries, TypeStages, TypeWork DEF Next, Proceed
<1> QED
  BY <1>1, <1>2

\* The types of the files, the runs and their history.
THEOREM TypeCorrect == Spec => []TypeOK
BY TypeInit, TypeStep, PTL DEF Spec

-----------------------------------------------------------------------------
(* No video is lost: the next entry is whole before the old one goes.       *)

\* A stamp is given once, and grows.
Stamps ==
  /\ \A e \in entries : e.stamp < clock
  /\ \A d, e \in entries : d.stamp = e.stamp => d = e
  /\ \A p \in Process : item[p].stamp < clock /\ \A r \in todo[p] : r < clock

\* What a process works on is of the video its entry names.
Owns == \A p \in Process : \A e \in entries : e.stamp = item[p].stamp => e.video = Its(p)

Top(p, s) == s \in todo[p] /\ \A r \in todo[p] : r <= s

\* The entry a process is filling is nobody's item, torn until it is filled, newer
\* than the one it follows, and there unless the script gave the video up.
Fills(p) ==
  pc[p] = "fillEntry" =>
    \E s \in todo[p] :
      /\ Top(p, s) /\ item[p].stamp < s
      /\ \A q \in Process : item[q].stamp # s
      /\ \A q \in Process \ {p} : pc[q] = "fillEntry" => ~Top(q, s)
      /\ \A e \in entries : e.stamp = s => ~e.whole
      /\ Its(p) \in dropped \/ \E e \in entries : e.stamp = s /\ e.video = Its(p)

\* Behind an entry that is about to be removed there is a newer one.
Behind(p) ==
  pc[p] = "unlink" =>
    \/ Its(p) \in ended \cup dropped
    \/ \E e \in entries : e.whole /\ e.video = Its(p) /\ e.stamp > item[p].stamp

QueueInv ==
  /\ TypeOK /\ Stamps /\ Owns /\ NoVideoLost
  /\ \A p \in Process : Fills(p) /\ Behind(p)

\* A step of p that leaves the directory alone and neither begins to fill an entry
\* nor to remove one: it keeps its item, gives it up, or takes a whole entry.
LEMMA QuietStep ==
  ASSUME QueueInv, TypeOK', NEW p \in Process,
         UNCHANGED <<entries, clock, queued>>, ended \subseteq ended', dropped \subseteq dropped',
         pc'[p] \notin {"fillEntry", "unlink"},
         \A r \in todo'[p] : r < clock,
         \/ item'[p].stamp = item[p].stamp /\ item'[p].video = item[p].video
         \/ item'[p].stamp = 0
         \/ \E e \in entries : e.whole /\ item'[p].stamp = e.stamp /\ item'[p].video = e.video,
         \A q \in Process \ {p} : pc'[q] = pc[q] /\ item'[q] = item[q] /\ todo'[q] = todo[q]
  PROVE  QueueInv'
<1> USE DEF QueueInv, Its
<1>1. Stamps'
  BY DEF Stamps, TypeOK
<1>2. Owns'
  <2>1. \A e \in entries : e.stamp # 0
    BY DEF TypeOK, Entry
  <2> QED
    BY <2>1 DEF Owns, Stamps
<1>3. NoVideoLost'
  BY DEF NoVideoLost, EntriesOf
<1>4. ASSUME NEW q \in Process PROVE Fills(q)'
  <2> SUFFICES ASSUME pc'[q] = "fillEntry" PROVE Fills(q)'
    BY DEF Fills
  <2>1. q # p /\ pc[q] = "fillEntry"
    OBVIOUS
  <2>2. PICK s \in todo[q] :
          /\ Top(q, s) /\ item[q].stamp < s
          /\ \A r \in Process : item[r].stamp # s
          /\ \A r \in Process \ {q} : pc[r] = "fillEntry" => ~Top(r, s)
          /\ \A e \in entries : e.stamp = s => ~e.whole
          /\ Its(q) \in dropped \/ \E e \in entries : e.stamp = s /\ e.video = Its(q)
    BY <2>1 DEF Fills
  <2>3. item'[p].stamp # s
    <3>1. s # 0
      BY DEF TypeOK
    <3> QED
      BY <2>2, <3>1
  <2>4. Top(q, s)' /\ \A r \in Process \ {q} : pc'[r] = "fillEntry" => ~Top(r, s)'
    BY <2>1, <2>2 DEF Top
  <2> QED
    BY <2>1, <2>2, <2>3, <2>4 DEF Fills
<1>5. ASSUME NEW q \in Process PROVE Behind(q)'
  BY DEF Behind
<1> QED
  BY <1>1, <1>2, <1>3, <1>4, <1>5

LEMMA CreateEntryStep == ASSUME QueueInv, TypeOK', NEW p \in Process, CreateEntry(p) PROVE QueueInv'
<1> USE DEF QueueInv, Its
<1> DEFINE new == [stamp |-> clock, video |-> item[p].video, stage |-> Upcoming(p), whole |-> FALSE]
<1>1. /\ entries' = entries \cup {new} /\ clock' = clock + 1 /\ clock \in Nat \ {0}
      /\ todo' = [todo EXCEPT ![p] = @ \cup {clock}] /\ pc' = [pc EXCEPT ![p] = "fillEntry"]
      /\ UNCHANGED <<item, queued, ended, dropped>>
  BY DEF CreateEntry, historyVars, Goto, TypeOK
<1>2. new.stamp = clock /\ new.video = item[p].video /\ new.whole = FALSE
  OBVIOUS
<1> HIDE DEF new
<1>3. /\ todo'[p] = todo[p] \cup {clock} /\ pc'[p] = "fillEntry"
      /\ \A q \in Process \ {p} : pc'[q] = pc[q] /\ todo'[q] = todo[q]
  BY <1>1 DEF TypeOK
<1>4. \A q \in Process : item[q].stamp \in Nat /\ todo[q] \subseteq Nat
  BY DEF TypeOK, Item
<1>5. \A e \in entries : e.stamp \in Nat
  BY DEF TypeOK, Entry
<1>6. Stamps'
  BY <1>1, <1>2, <1>3, <1>4, <1>5 DEF Stamps
<1>7. Owns'
  BY <1>1, <1>2 DEF Owns, Stamps
<1>8. NoVideoLost'
  BY <1>1 DEF NoVideoLost, EntriesOf
<1>9. Fills(p)'
  <2>1. PICK s \in Nat : s = clock
    BY <1>1
  <2>2. s \in todo'[p] /\ (\A r \in todo'[p] : r <= s) /\ \A q \in Process \ {p} : s \notin todo'[q]
    BY <1>3, <1>4, <2>1 DEF Stamps
  <2>3. Top(p, s)' /\ \A q \in Process \ {p} : ~Top(q, s)'
    BY <2>2 DEF Top
  <2>4. item'[p].stamp < s /\ \A q \in Process : item'[q].stamp # s
    BY <1>1, <1>4, <2>1 DEF Stamps
  <2>5. \A e \in entries' : e.stamp = s => ~e.whole
    BY <1>1, <1>2, <1>5, <2>1 DEF Stamps
  <2>6. \E e \in entries' : e.stamp = s /\ e.video = item'[p].video
    BY <1>1, <1>2, <2>1
  <2> QED
    BY <2>2, <2>3, <2>4, <2>5, <2>6 DEF Fills
<1>10. ASSUME NEW q \in Process \ {p}, pc'[q] = "fillEntry" PROVE Fills(q)'
  <2>1. PICK s \in todo[q] :
          /\ Top(q, s) /\ item[q].stamp < s
          /\ \A r \in Process : item[r].stamp # s
          /\ \A r \in Process \ {q} : pc[r] = "fillEntry" => ~Top(r, s)
          /\ \A e \in entries : e.stamp = s => ~e.whole
          /\ Its(q) \in dropped \/ \E e \in entries : e.stamp = s /\ e.video = Its(q)
    BY <1>3, <1>10 DEF Fills
  <2>2. s < clock
    BY DEF Stamps
  <2>3. Top(q, s)' /\ \A r \in Process \ {q} : pc'[r] = "fillEntry" => ~Top(r, s)'
    <3>1. ~Top(p, s)'
      BY <1>1, <1>3, <1>4, <2>2 DEF Top
    <3> QED
      BY <1>3, <2>1, <3>1 DEF Top
  <2>4. s \in todo'[q] /\ \A e \in entries' : e.stamp = s => ~e.whole
    BY <1>1, <1>2, <1>3, <2>1
  <2> QED
    BY <1>1, <2>1, <2>3, <2>4 DEF Fills
<1>11. ASSUME NEW q \in Process PROVE Behind(q)'
  BY <1>1, <1>3 DEF Behind
<1> QED
  BY <1>6, <1>7, <1>8, <1>9, <1>10, <1>11 DEF Fills

LEMMA FillEntryStep == ASSUME QueueInv, TypeOK', NEW p \in Process, FillEntry(p) PROVE QueueInv'
<1> USE DEF QueueInv, Its
<1>1. PICK s \in todo[p] :
        /\ Top(p, s) /\ item[p].stamp < s
        /\ \A q \in Process : item[q].stamp # s
        /\ \A q \in Process \ {p} : pc[q] = "fillEntry" => ~Top(q, s)
        /\ \A e \in entries : e.stamp = s => ~e.whole
        /\ Its(p) \in dropped \/ \E e \in entries : e.stamp = s /\ e.video = Its(p)
  BY DEF FillEntry, Fills
<1>2. \A q \in Process : item[q].stamp \in Nat /\ todo[q] \subseteq Nat
  BY DEF TypeOK, Item
<1>3. Writing(p) = s
  <2>1. \A r \in todo[p] : (\A t \in todo[p] : t <= r) => r = s
    BY <1>1, <1>2 DEF Top
  <2> QED
    BY <1>1, <2>1 DEF Writing, Top
<1> DEFINE filled(e) == IF e.stamp = s THEN [e EXCEPT !.whole = TRUE] ELSE e
<1>4. /\ entries' = {filled(e) : e \in entries} /\ todo' = [todo EXCEPT ![p] = @ \ {s}]
      /\ queued' = IF \E e \in entries : e.stamp = s THEN queued \cup {item[p].video} ELSE queued
      /\ pc'[p] # "fillEntry" /\ \A q \in Process \ {p} : pc'[q] = pc[q]
      /\ UNCHANGED <<clock, item, ended, dropped>>
  <2>1. pc'[p] # "fillEntry" /\ \A q \in Process \ {p} : pc'[q] = pc[q]
    BY DEF FillEntry, Goto, TypeOK, Process
  <2> QED
    BY <1>3, <2>1 DEF FillEntry
<1>5. \A e \in entries : /\ e.stamp \in Nat /\ filled(e).stamp = e.stamp /\ filled(e).video = e.video
                         /\ e.stamp = s => filled(e).whole
                         /\ e.stamp # s => filled(e).whole = e.whole
                         /\ e.whole => filled(e).whole
  <2> TAKE e \in entries
  <2>1. e \in Entry
    BY DEF TypeOK
  <2>2. PICK n \in Nat, v \in Video, g \in VideoStage, w \in BOOLEAN :
          e = [stamp |-> n, video |-> v, stage |-> g, whole |-> w]
    BY <2>1 DEF Entry
  <2>3. filled(e) = [stamp |-> n, video |-> v, stage |-> g, whole |-> IF n = s THEN TRUE ELSE w]
    BY <2>2
  <2> QED
    BY <2>2, <2>3
<1> HIDE DEF filled
<1>6. /\ todo'[p] = todo[p] \ {s} /\ \A q \in Process \ {p} : todo'[q] = todo[q]
  BY <1>4 DEF TypeOK
<1>7. Stamps'
  <2>1. \A q \in Process : todo'[q] \subseteq todo[q]
    BY <1>6
  <2> QED
    BY <1>4, <1>5, <2>1 DEF Stamps
<1>8. Owns'
  BY <1>4, <1>5 DEF Owns
<1>9. NoVideoLost'
  <2> SUFFICES ASSUME NEW v \in queued' \ (ended \cup dropped) PROVE \E e \in entries' : e.video = v /\ e.whole
    BY <1>4 DEF NoVideoLost, EntriesOf
  <2>1. CASE v \in queued
    <3>1. PICK e \in entries : e.video = v /\ e.whole
      BY <2>1 DEF NoVideoLost, EntriesOf
    <3> QED
      BY <1>4, <1>5, <3>1
  <2>2. CASE v \notin queued
    <3>1. v = Its(p)
      BY <1>4, <2>2
    <3>2. PICK e \in entries : e.stamp = s /\ e.video = v
      BY <1>1, <3>1
    <3> QED
      BY <1>4, <1>5, <3>2
  <2> QED
    BY <2>1, <2>2
<1>10. ASSUME NEW q \in Process, pc'[q] = "fillEntry" PROVE Fills(q)'
  <2>1. q # p /\ pc[q] = "fillEntry"
    BY <1>4, <1>10
  <2>2. PICK t \in todo[q] :
          /\ Top(q, t) /\ item[q].stamp < t
          /\ \A r \in Process : item[r].stamp # t
          /\ \A r \in Process \ {q} : pc[r] = "fillEntry" => ~Top(r, t)
          /\ \A e \in entries : e.stamp = t => ~e.whole
          /\ Its(q) \in dropped \/ \E e \in entries : e.stamp = t /\ e.video = Its(q)
    BY <2>1 DEF Fills
  <2>3. t # s
    BY <1>1, <2>1, <2>2
  <2>4. Top(q, t)' /\ \A r \in Process \ {q} : pc'[r] = "fillEntry" => ~Top(r, t)'
    BY <1>4, <1>6, <2>1, <2>2 DEF Top
  <2>5. \A e \in entries' : e.stamp = t => ~e.whole
    BY <1>4, <1>5, <2>2, <2>3
  <2>6. Its(q) \in dropped \/ \E e \in entries' : e.stamp = t /\ e.video = Its(q)
    BY <1>4, <1>5, <2>2
  <2> QED
    BY <1>4, <1>6, <2>1, <2>2, <2>4, <2>5, <2>6 DEF Fills
<1>11. ASSUME NEW q \in Process, pc'[q] = "unlink", Its(q) \notin ended \cup dropped
       PROVE  \E e \in entries' : e.whole /\ e.video = Its(q) /\ e.stamp > item[q].stamp
  <2>1. CASE q = p
    <3>1. PICK e \in entries : e.stamp = s /\ e.video = Its(p)
      BY <1>1, <1>11, <2>1
    <3>2. filled(e) \in entries' /\ filled(e).whole /\ filled(e).video = Its(p) /\ filled(e).stamp > item[p].stamp
      BY <1>1, <1>2, <1>4, <1>5, <3>1
    <3> QED
      BY <2>1, <3>2
  <2>2. CASE q # p
    <3>1. PICK e \in entries : e.whole /\ e.video = Its(q) /\ e.stamp > item[q].stamp
      BY <1>4, <1>11, <2>2 DEF Behind
    <3> QED
      BY <1>4, <1>5, <3>1
  <2> QED
    BY <2>1, <2>2
<1>12. ASSUME NEW q \in Process PROVE Fills(q)' /\ Behind(q)'
  BY <1>4, <1>10, <1>11 DEF Fills, Behind
<1> QED
  BY <1>7, <1>8, <1>9, <1>12

\* The entry p worked on is removed: what follows it is in place, or its video
\* needs none.
LEMMA RemoveStep ==
  ASSUME QueueInv, TypeOK', NEW p \in Process,
         entries' = {e \in entries : e.stamp # item[p].stamp},
         UNCHANGED <<clock, todo, queued>>, ended \subseteq ended', dropped \subseteq dropped',
         \/ Its(p) \in ended' \cup dropped'
         \/ \E e \in entries : e.whole /\ e.video = Its(p) /\ e.stamp > item[p].stamp,
         item'[p].stamp = 0, pc'[p] \notin {"fillEntry", "unlink"},
         \A q \in Process \ {p} : pc'[q] = pc[q] /\ item'[q] = item[q]
  PROVE  QueueInv'
<1> USE DEF QueueInv, Its
<1>1. \A q \in Process : item[q].stamp \in Nat
  BY DEF TypeOK, Item
<1>2. \A e \in entries : e.stamp \in Nat /\ e.stamp # 0
  BY DEF TypeOK, Entry
<1>3. Stamps'
  BY SMTT(30) DEF Stamps, TypeOK
<1>4. Owns'
  BY <1>2 DEF Owns
<1>5. ASSUME NEW e \in entries, e.whole, e.video \notin ended' \cup dropped'
      PROVE  \E d \in entries' : d.whole /\ d.video = e.video /\ d.stamp >= e.stamp
  <2>1. CASE e.stamp # item[p].stamp
    BY <1>2, <1>5, <2>1
  <2>2. CASE e.stamp = item[p].stamp
    <3>1. e.video = Its(p)
      BY <2>2 DEF Owns
    <3>2. PICK d \in entries : d.whole /\ d.video = Its(p) /\ d.stamp > item[p].stamp
      BY <1>5, <3>1
    <3> QED
      BY <1>1, <1>2, <2>2, <3>1, <3>2
  <2> QED
    BY <2>1, <2>2
<1>6. NoVideoLost'
  <2> SUFFICES ASSUME NEW v \in queued \ (ended' \cup dropped') PROVE \E e \in entries' : e.video = v /\ e.whole
    BY DEF NoVideoLost, EntriesOf
  <2>1. PICK e \in entries : e.video = v /\ e.whole
    BY DEF NoVideoLost, EntriesOf
  <2> QED
    BY <1>5, <2>1
<1>7. ASSUME NEW q \in Process PROVE Fills(q)'
  <2> SUFFICES ASSUME pc'[q] = "fillEntry" PROVE Fills(q)'
    BY DEF Fills
  <2>1. q # p /\ pc[q] = "fillEntry"
    OBVIOUS
  <2>2. PICK s \in todo[q] :
          /\ Top(q, s) /\ item[q].stamp < s
          /\ \A r \in Process : item[r].stamp # s
          /\ \A r \in Process \ {q} : pc[r] = "fillEntry" => ~Top(r, s)
          /\ \A e \in entries : e.stamp = s => ~e.whole
          /\ Its(q) \in dropped \/ \E e \in entries : e.stamp = s /\ e.video = Its(q)
    BY <2>1 DEF Fills
  <2>3. item'[p].stamp # s
    BY <2>2 DEF TypeOK
  <2>4. Top(q, s)' /\ \A r \in Process \ {q} : pc'[r] = "fillEntry" => ~Top(r, s)'
    BY <2>1, <2>2 DEF Top
  <2>5. Its(q) \in dropped' \/ \E e \in entries' : e.stamp = s /\ e.video = Its(q)
    BY <2>2
  <2> QED
    BY <2>1, <2>2, <2>3, <2>4, <2>5 DEF Fills
<1>8. ASSUME NEW q \in Process PROVE Behind(q)'
  <2> SUFFICES ASSUME pc'[q] = "unlink", Its(q) \notin ended' \cup dropped'
               PROVE  \E e \in entries' : e.whole /\ e.video = Its(q) /\ e.stamp > item[q].stamp
    BY DEF Behind
  <2>1. q # p /\ pc[q] = "unlink"
    OBVIOUS
  <2>2. PICK e \in entries : e.whole /\ e.video = Its(q) /\ e.stamp > item[q].stamp
    BY <2>1 DEF Behind
  <2>3. PICK d \in entries' : d.whole /\ d.video = e.video /\ d.stamp >= e.stamp
    BY <1>5, <2>2
  <2> QED
    BY <1>1, <1>2, <2>2, <2>3
<1> QED
  BY <1>3, <1>4, <1>6, <1>7, <1>8

LEMMA UnlinkStep == ASSUME QueueInv, TypeOK', NEW p \in Process, Unlink(p) PROVE QueueInv'
<1>1. /\ entries' = {e \in entries : e.stamp # item[p].stamp}
      /\ UNCHANGED <<clock, todo, queued, dropped>> /\ ended \subseteq ended'
  BY DEF Unlink
<1>2. item'[p].stamp = 0 /\ \A q \in Process \ {p} : item'[q] = item[q]
  BY DEF Unlink, QueueInv, TypeOK, NoItem
<1>3. pc'[p] \notin {"fillEntry", "unlink"} /\ \A q \in Process \ {p} : pc'[q] = pc[q]
  BY DEF Unlink, Goto, QueueInv, TypeOK
<1>4. \/ Its(p) \in ended' \cup dropped'
      \/ \E e \in entries : e.whole /\ e.video = Its(p) /\ e.stamp > item[p].stamp
  <2>1. CASE pc[p] = "unlink"
    BY <1>1, <2>1 DEF QueueInv, Behind
  <2>2. CASE pc[p] # "unlink"
    BY <2>2 DEF Unlink
  <2> QED
    BY <2>1, <2>2
<1> QED
  BY <1>1, <1>2, <1>3, <1>4, RemoveStep

LEMMA FailStep ==
  ASSUME QueueInv, TypeOK', NEW p \in Process, Fail(p), pc[p] \in {"read", "work"} PROVE QueueInv'
<1>1. item'[p].stamp = 0 /\ \A q \in Process \ {p} : item'[q] = item[q]
  BY DEF Fail, QueueInv, TypeOK, NoItem
<1>2. p \notin Scheduler
  BY DEF QueueInv, TypeOK
<1>3. pc'[p] \notin {"fillEntry", "unlink"} /\ \A q \in Process \ {p} : pc'[q] = pc[q]
  BY <1>2, Kinds DEF Fail, Goto, QueueInv, TypeOK, Process
<1>4. UNCHANGED <<clock, todo, queued, ended>> /\ dropped \subseteq dropped'
  BY DEF Fail
<1>5. CASE p \in Script
  <2>1. entries' = {e \in entries : e.stamp # item[p].stamp} /\ Its(p) \in dropped'
    BY <1>5 DEF Fail
  <2> QED
    BY <1>1, <1>3, <1>4, <2>1, RemoveStep
<1>6. CASE p \notin Script
  <2>1. UNCHANGED entries
    BY <1>6 DEF Fail
  <2>2. \A r \in todo'[p] : r < clock
    BY <1>4 DEF QueueInv, Stamps
  <2> QED
    BY <1>1, <1>3, <1>4, <2>1, <2>2, QuietStep
<1> QED
  BY <1>5, <1>6

LEMMA ParseQueueItemStep == ASSUME QueueInv, TypeOK', NEW p \in Process, ParseQueueItem(p) PROVE QueueInv'
<1> USE DEF QueueInv, Its
<1>1. PICK stamp : Visits(p, stamp)
  BY VisitsOne
<1>2. /\ UNCHANGED <<clock, queued, ended>> /\ pc[p] \in {"next", "more"}
      /\ \A q \in Process \ {p} : todo'[q] = todo[q]
      /\ todo'[p] = todo[p] \ {stamp}
  BY <1>1 DEF ParseQueueItem, Visits, TypeOK
<1>3. /\ entries' \subseteq entries /\ dropped \subseteq dropped'
      /\ \A e \in entries : e.whole \/ e \in entries' \/ e.video \in dropped'
      /\ \A e \in entries : e.whole => e \in entries'
  BY <1>1 DEF Visits
<1>4. \/ UNCHANGED <<pc, item>>
      \/ \E e \in entries : /\ e.whole
                            /\ item' = [item EXCEPT ![p] = [stamp |-> e.stamp, video |-> e.video, stage |-> e.stage]]
                            /\ pc' = [pc EXCEPT ![p] = "read"]
  BY <1>1 DEF Visits, Goto
<1>5. /\ \A q \in Process \ {p} : pc'[q] = pc[q] /\ item'[q] = item[q]
      /\ pc'[p] \in {"next", "more", "read"}
      /\ \/ item'[p] = item[p]
         \/ \E e \in entries : e.whole /\ item'[p].stamp = e.stamp /\ item'[p].video = e.video
  BY <1>2, <1>4 DEF TypeOK
<1>6. Stamps'
  BY <1>2, <1>3, <1>5 DEF Stamps
<1>7. Owns'
  BY <1>3, <1>5 DEF Owns, Stamps
<1>8. NoVideoLost'
  BY <1>2, <1>3 DEF NoVideoLost, EntriesOf
<1>9. ASSUME NEW q \in Process PROVE Fills(q)'
  <2> SUFFICES ASSUME pc'[q] = "fillEntry" PROVE Fills(q)'
    BY DEF Fills
  <2>1. q # p /\ pc[q] = "fillEntry"
    BY <1>5
  <2>2. PICK s \in todo[q] :
          /\ Top(q, s) /\ item[q].stamp < s
          /\ \A r \in Process : item[r].stamp # s
          /\ \A r \in Process \ {q} : pc[r] = "fillEntry" => ~Top(r, s)
          /\ \A e \in entries : e.stamp = s => ~e.whole
          /\ Its(q) \in dropped \/ \E e \in entries : e.stamp = s /\ e.video = Its(q)
    BY <2>1 DEF Fills
  <2>3. \A r \in Process : item'[r].stamp # s
    BY <1>5, <2>2
  <2>4. Top(q, s)' /\ \A r \in Process \ {q} : pc'[r] = "fillEntry" => ~Top(r, s)'
    BY <1>2, <1>5, <2>1, <2>2 DEF Top
  <2>5. Its(q) \in dropped' \/ \E e \in entries' : e.stamp = s /\ e.video = Its(q)
    BY <1>3, <2>2
  <2> QED
    BY <1>2, <1>3, <1>5, <2>1, <2>2, <2>3, <2>4, <2>5 DEF Fills
<1>10. ASSUME NEW q \in Process PROVE Behind(q)'
  BY <1>2, <1>3, <1>5 DEF Behind
<1> QED
  BY <1>6, <1>7, <1>8, <1>9, <1>10

LEMMA StageStep ==
  ASSUME QueueInv, TypeOK', NEW p \in Process,
         Work(p) \/ WriteState(p) \/ QaFails(p) \/ (ReadState(p) /\ ~Fail(p))
  PROVE  QueueInv'
<1>1. /\ UNCHANGED <<entries, clock, queued, ended, dropped, todo>>
  BY DEF Work, WriteState, QaFails, ReadState, fileVars, historyVars
<1>2. \A r \in todo'[p] : r < clock
  BY <1>1 DEF QueueInv, Stamps
<1>3. CASE StageDone(p)
  <2>1. pc[p] \in Steps \ {"idle", "next", "more", "ended"}
    BY <1>3 DEF Work, WriteState, QaFails, ReadState, Steps
  <2>2. /\ pc'[p] \notin {"fillEntry", "unlink"} /\ item'[p].stamp = item[p].stamp /\ item'[p].video = item[p].video
        /\ \A q \in Process \ {p} : pc'[q] = pc[q] /\ item'[q] = item[q]
    BY <1>3, <2>1, TypeStageDone DEF QueueInv
  <2> QED
    BY <1>1, <1>2, <2>2, QuietStep
<1>4. CASE UNCHANGED item /\ \E s \in {"work", "write", "fill"} : Goto(p, s)
  <2>1. pc'[p] \notin {"fillEntry", "unlink"} /\ \A q \in Process \ {p} : pc'[q] = pc[q]
    BY <1>4 DEF Goto, QueueInv, TypeOK
  <2> QED
    BY <1>1, <1>2, <1>4, <2>1, QuietStep
<1> QED
  BY <1>3, <1>4 DEF Work, WriteState, QaFails, ReadState

LEMMA StartStep ==
  ASSUME QueueInv, TypeOK', NEW p \in Process,
         Schedule(p) \/ StartDaily(p) \/ ListQueueFiles(p) \/ \E approved \in BOOLEAN : Take(p, approved)
  PROVE  QueueInv'
<1>1. UNCHANGED <<entries, clock, queued, ended, dropped>>
  BY DEF Schedule, StartDaily, ListQueueFiles, Take, fileVars, historyVars
<1>2. pc'[p] \notin {"fillEntry", "unlink"} /\ \A q \in Process \ {p} : pc'[q] = pc[q]
  BY DEF Schedule, StartDaily, ListQueueFiles, Take, Goto, QueueInv, TypeOK
<1>3. (\A r \in todo'[p] : r < clock) /\ \A q \in Process \ {p} : todo'[q] = todo[q]
  <2>1. CASE ListQueueFiles(p)
    BY <2>1 DEF ListQueueFiles, QueueInv, Stamps, TypeOK
  <2>2. CASE UNCHANGED todo
    BY <2>2 DEF QueueInv, Stamps
  <2> QED
    BY <2>1, <2>2 DEF Schedule, StartDaily, Take
<1>4. /\ \A q \in Process \ {p} : item'[q] = item[q]
      /\ \/ item'[p] = item[p] \/ item'[p].stamp = 0
         \/ \E e \in entries : e.whole /\ item'[p].stamp = e.stamp /\ item'[p].video = e.video
  <2>1. CASE Schedule(p) \/ StartDaily(p)
    <3>1. PICK v : item' = [item EXCEPT ![p] = [stamp |-> 0, video |-> v, stage |-> "plan"]]
      BY <2>1 DEF Schedule, StartDaily
    <3> QED
      BY <3>1 DEF QueueInv, TypeOK
  <2>2. CASE ListQueueFiles(p)
    BY <2>2 DEF ListQueueFiles
  <2>3. CASE \E approved \in BOOLEAN : Take(p, approved)
    <3>1. PICK e \in entries :
            e.whole /\ item' = [item EXCEPT ![p] = [stamp |-> e.stamp, video |-> e.video, stage |-> e.stage]]
      BY <2>3 DEF Take
    <3> QED
      BY <3>1 DEF QueueInv, TypeOK
  <2> QED
    BY <2>1, <2>2, <2>3
<1> QED
  BY <1>1, <1>2, <1>3, <1>4, QuietStep

LEMMA OtherStep ==
  ASSUME QueueInv, TypeOK', NEW p \in Process, CreateState(p) \/ EndListing(p) \/ Crash(p)
  PROVE  QueueInv'
<1>1. UNCHANGED <<entries, clock, queued, ended, dropped>>
  BY DEF CreateState, EndListing, Crash, fileVars, historyVars
<1>2. pc'[p] \notin {"fillEntry", "unlink"} /\ \A q \in Process \ {p} : pc'[q] = pc[q]
  BY DEF CreateState, EndListing, Crash, Goto, QueueInv, TypeOK
<1>3. (\A r \in todo'[p] : r < clock) /\ \A q \in Process \ {p} : todo'[q] = todo[q]
  BY DEF CreateState, EndListing, Crash, QueueInv, Stamps, TypeOK
<1>4. /\ \A q \in Process \ {p} : item'[q] = item[q]
      /\ item'[p] = item[p] \/ item'[p].stamp = 0
  BY DEF CreateState, EndListing, Crash, QueueInv, TypeOK, NoItem
<1> QED
  BY <1>1, <1>2, <1>3, <1>4, QuietStep

LEMMA QueueInit == Init => QueueInv
<1> SUFFICES ASSUME Init PROVE QueueInv
  OBVIOUS
<1>1. TypeOK
  BY TypeInit
<1>2. Stamps /\ Owns /\ NoVideoLost
  BY DEF Init, Stamps, Owns, NoVideoLost, EntriesOf, NoItem
<1>3. \A p \in Process : Fills(p) /\ Behind(p)
  BY DEF Init, Fills, Behind
<1> QED
  BY <1>1, <1>2, <1>3 DEF QueueInv

LEMMA QueueStep == QueueInv /\ [Next]_vars => QueueInv'
<1> SUFFICES ASSUME QueueInv, [Next]_vars PROVE QueueInv'
  OBVIOUS
<1>1. TypeOK'
  BY TypeStep DEF QueueInv
<1>2. CASE UNCHANGED vars
  <2>1. UNCHANGED <<entries, clock, queued, ended, dropped, pc, item, todo>>
    BY <1>2 DEF vars, fileVars, runVars, countVars, historyVars
  <2> QED
    BY <1>1, <2>1 DEF QueueInv, Stamps, Owns, NoVideoLost, EntriesOf, Fills, Behind, Top, Its
<1>3. ASSUME NEW p \in Process, ReadState(p) \/ StageFails(p) \/ UploadRefused(p), Fail(p) PROVE QueueInv'
  <2>1. pc[p] \in {"read", "work"}
    BY <1>3 DEF ReadState, StageFails, UploadRefused
  <2> QED
    BY <1>1, <1>3, <2>1, FailStep
<1>4. ASSUME NEW p \in Process, Proceed(p) PROVE QueueInv'
  <2>1. CASE CreateEntry(p) \/ FillEntry(p) \/ Unlink(p) \/ ParseQueueItem(p)
    BY <1>1, <2>1, CreateEntryStep, FillEntryStep, UnlinkStep, ParseQueueItemStep
  <2>2. CASE CreateState(p) \/ EndListing(p)
    BY <1>1, <2>2, OtherStep
  <2>3. CASE ReadState(p) \/ Work(p) \/ WriteState(p)
    BY <1>1, <1>3, <2>3, StageStep
  <2>4. CASE UploadRefused(p)
    BY <1>3, <2>4 DEF UploadRefused
  <2> QED
    BY <1>4, <2>1, <2>2, <2>3, <2>4 DEF Proceed
<1>5. ASSUME NEW p \in Process, StageFails(p) PROVE QueueInv'
  BY <1>3, <1>5 DEF StageFails
<1>6. CASE Next
  <2>1. PICK p \in Process :
          \/ Schedule(p) \/ StartDaily(p) \/ ListQueueFiles(p)
          \/ \E approved \in BOOLEAN : Take(p, approved)
          \/ Proceed(p) \/ StageFails(p) \/ QaFails(p) \/ Crash(p)
    BY <1>6 DEF Next
  <2> QED
    BY <1>1, <1>4, <1>5, <2>1, StartStep, OtherStep, StageStep
<1> QED
  BY <1>2, <1>6

\* A video that is queued has an entry that can be read until its last stage is
\* done or the script gave it up, whatever crashes, fails or overlaps: the order of
\* enqueueVideoStage and the removal of the entry that was processed.
THEOREM NothingIsLost == Spec => []NoVideoLost
<1>1. QueueInv => NoVideoLost
  BY DEF QueueInv
<1> QED
  BY <1>1, QueueInit, QueueStep, PTL DEF Spec

-----------------------------------------------------------------------------
(* Runs that do not overlap.                                                *)
(*                                                                          *)
(* One run at a time, and no entry is given up: then a consumer always      *)
(* works on the oldest entry that can be read, so the entries of a video    *)
(* move in lockstep, those of a repeated stage one behind the other, and    *)
(* the first of them reaches the publication only when all have passed QA.  *)
(* The verdict in state.json is therefore about the file that lies there.   *)

Active(p) == pc[p] \notin {"idle", "ended"}
Alone == \A p, q \in Process : Active(p) /\ Active(q) => p = q

Consumer == Graph \cup Script
Maker    == Scheduler \cup Daily
Making   == {"createState", "fillState", "enqueue", "fillEntry"}
Staging  == {"read", "work", "write", "fill"}
Held     == Staging \cup {"enqueue", "fillEntry", "unlink"}

\* A consumer's entry is the oldest one that can be read.
HoldsOldest(p) ==
  p \in Consumer /\ pc[p] \in Held =>
    \E e \in entries :
      /\ e.whole /\ e.stamp = item[p].stamp /\ e.video = Its(p) /\ e.stage = Stage(p)
      /\ \A d \in entries : d.whole => e.stamp <= d.stamp

\* What the script has not visited yet is older than all it has not listed.
Rest(p) == IF pc[p] = "fillEntry" THEN {r \in todo[p] : ~Top(p, r)} ELSE todo[p]
Listed(p) ==
  p \in Script /\ Active(p) =>
    \A e \in entries :
      \/ pc[p] \in Held /\ e.stamp = item[p].stamp
      \/ e.stamp \in Rest(p)
      \/ \A r \in Rest(p) : r < e.stamp

\* The entry that is being filled is the newest of all.
FillsNewest(p) ==
  pc[p] = "fillEntry" =>
    \E e \in entries :
      /\ Top(p, e.stamp) /\ ~e.whole /\ e.video = Its(p) /\ e.stage = Upcoming(p)
      /\ \A d \in entries : d.stamp <= e.stamp

\* Before an entry is removed the one of the next stage is in place.
Followed(p) ==
  pc[p] = "unlink" =>
    \E e \in entries :
      /\ e.whole /\ e.video = Its(p) /\ e.stamp # item[p].stamp
      /\ e.stage = NextStage(Stage(p))

\* A video that is being made has no entry, and the one of a video:daily run
\* has its first entry as long as the run goes through the stages.
Makes(p) ==
  /\ p \in Maker /\ pc[p] \in Making => EntriesOf(Its(p)) = {} /\ item[p].stamp = 0 /\ Stage(p) = "plan"
  /\ p \in Maker /\ pc[p] \in Making \ {"createState"} => form[Its(p)] # "absent"
  /\ p \in Scheduler /\ Active(p) => \A d \in Daily : Its(p) # Own[d]
  /\ p \in Daily /\ Active(p) => Its(p) = Own[p]
  /\ p \in Daily /\ pc[p] = "idle" => \A e \in entries : e.video # Own[p]
  /\ p \in Daily /\ pc[p] \in Staging =>
       \E e \in EntriesOf(Its(p)) : StageIndex(e.stage) <= StageIndex("qa")

Exists == \A e \in entries : form[e.video] # "absent"

\* Newer entries of a video are at the stage of the older ones or at the next.
Lockstep ==
  \A d, e \in entries :
    d.whole /\ e.whole /\ d.video = e.video /\ d.stamp < e.stamp =>
      /\ StageIndex(d.stage) <= StageIndex(e.stage)
      /\ StageIndex(e.stage) <= StageIndex(d.stage) + 1

\* A good verdict is about the file that is on disk.
Checked(v, verdict) == verdict = "ok" => <<v, file[v].version>> \in passed
PastQa(stage) == StageIndex(stage) > StageIndex("qa")

SavedIsChecked ==
  \A v \in Video : (\A e \in EntriesOf(v) : PastQa(e.stage)) => Checked(v, saved[v].qa)

RunIsChecked(p) ==
  /\ pc[p] \in {"work", "write", "fill"} /\ PastQa(Stage(p)) => Checked(Its(p), copy[p].qa)
  /\ pc[p] \in {"write", "fill"} /\ Stage(p) = "qa" => Checked(Its(p), copy[p].qa)
  /\ pc[p] \in Staging /\ PastQa(Stage(p)) => Checked(Its(p), saved[Its(p)].qa)
  /\ p \in Consumer /\ pc[p] \in {"enqueue", "fillEntry", "unlink"} /\ Stage(p) = "qa"
       => Checked(Its(p), saved[Its(p)].qa)

\* Who takes which steps.
Plays(p) ==
  /\ pc[p] \in {"createState", "fillState"} => p \in Maker
  /\ pc[p] \in {"next", "more"} => p \in Script
  /\ pc[p] = "unlink" => p \in Consumer

RunInv(p) ==
  /\ HoldsOldest(p) /\ Listed(p) /\ FillsNewest(p) /\ Followed(p) /\ Makes(p) /\ RunIsChecked(p)
  /\ Plays(p)

AllInv == Exists /\ Lockstep /\ SavedIsChecked /\ uploaded \subseteq passed

CalmInv == Calm => Alone /\ AllInv /\ \A p \in Process : RunInv(p)

\* The stages by number.
LEMMA StageFacts ==
  /\ \A s \in VideoStage : StageIndex(s) \in 1 .. 9
  /\ \A s \in VideoStage : NextStage(s) # None =>
       NextStage(s) \in VideoStage /\ StageIndex(NextStage(s)) = StageIndex(s) + 1
  /\ \A s \in VideoStage : NextStage(s) = None => StageIndex(s) = 9
  /\ "qa" \in VideoStage /\ StageIndex("plan") = 1 /\ StageIndex("render") = 5 /\ StageIndex("qa") = 7
  /\ StageIndex("publish") = 8
  /\ \A s \in VideoStage : StageIndex(s) = 7 => s = "qa"
  /\ None \notin VideoStage
  /\ \A s \in VideoStage : StageIndex(s) > 7 => s \in {"publish", "analytics"}
<1>1. Len(VIDEO_STAGES) = 9
  BY DEF VIDEO_STAGES
<1>2. \A i, j \in 1 .. 9 : VIDEO_STAGES[i] = VIDEO_STAGES[j] => i = j
  BY DEF VIDEO_STAGES
<1>3. ASSUME NEW i \in 1 .. 9 PROVE StageIndex(VIDEO_STAGES[i]) = i /\ VIDEO_STAGES[i] \in VideoStage
  BY <1>1, <1>2 DEF StageIndex, VideoStage
<1>4. \A s \in VideoStage : StageIndex(s) \in 1 .. 9 /\ VIDEO_STAGES[StageIndex(s)] = s
  BY <1>1 DEF StageIndex, VideoStage
<1>5. /\ VIDEO_STAGES[1] = "plan" /\ VIDEO_STAGES[5] = "render" /\ VIDEO_STAGES[7] = "qa"
      /\ VIDEO_STAGES[8] = "publish" /\ VIDEO_STAGES[9] = "analytics"
  BY DEF VIDEO_STAGES
<1>6. None \notin VideoStage
  BY <1>1 DEF VideoStage, VIDEO_STAGES, None
<1>7. ASSUME NEW s \in VideoStage, NextStage(s) # None
      PROVE  NextStage(s) \in VideoStage /\ StageIndex(NextStage(s)) = StageIndex(s) + 1
  <2>1. StageIndex(s) \in 1 .. 9 /\ StageIndex(s) < 9 /\ NextStage(s) = VIDEO_STAGES[StageIndex(s) + 1]
    BY <1>1, <1>4, <1>7 DEF NextStage
  <2> QED
    BY <1>3, <2>1
<1>8. ASSUME NEW s \in VideoStage, NextStage(s) = None PROVE StageIndex(s) = 9
  <2>1. StageIndex(s) \in 1 .. 9
    BY <1>4
  <2>2. CASE StageIndex(s) < 9
    <3>1. NextStage(s) = VIDEO_STAGES[StageIndex(s) + 1]
      BY <1>1, <2>2 DEF NextStage
    <3> QED
      BY <1>3, <1>6, <1>8, <2>1, <2>2, <3>1
  <2> QED
    BY <2>1, <2>2
<1> QED
  BY <1>3, <1>4, <1>5, <1>6, <1>7, <1>8

\* A set of stamps that is not empty has a least one.
LEMMA LeastStamp ==
  ASSUME NEW S \in SUBSET Nat, S # {} PROVE \E n \in S : \A m \in S : n <= m
<1>1. PICK n \in S : \A m \in S : ~(<<m, n>> \in OpToRel(<, Nat))
  BY WFMin, NatLessThanWellFounded, Zenon
<1>2. \A m \in S : ~(m < n)
  BY <1>1, Zenon DEF OpToRel
<1> QED
  BY <1>2

\* The other runs rest before and after a step of p.
Solo(p) ==
  \A q \in Process \ {p} : pc[q] \in {"idle", "ended"} /\ pc'[q] = pc[q] /\ item'[q] = item[q]

StepOf(p) ==
  \/ Schedule(p) \/ StartDaily(p) \/ ListQueueFiles(p)
  \/ \E approved \in BOOLEAN : Take(p, approved)
  \/ Proceed(p) \/ StageFails(p) \/ QaFails(p) \/ Crash(p)

\* What happened to be overlapped or given up stays so.
LEMMA CalmBefore ==
  ASSUME TypeOK, NEW p \in Process, StepOf(p), Calm' PROVE Calm /\ overlaps' = overlaps
<1>1. dropped \subseteq dropped'
  BY DEF StepOf, Proceed, Schedule, StartDaily, ListQueueFiles, Take, CreateState, CreateEntry, FillEntry, Unlink,
     ParseQueueItem, EndListing, ReadState, Work, UploadRefused, WriteState, StageFails, QaFails, Crash, Fail,
     historyVars
<1>2. overlaps' = overlaps \/ overlaps' = overlaps + 1
  BY DEF StepOf, Proceed, Schedule, StartDaily, ListQueueFiles, Take, CreateState, CreateEntry, FillEntry, Unlink,
     ParseQueueItem, EndListing, ReadState, Work, UploadRefused, WriteState, StageFails, QaFails, Crash, countVars,
     Starts
<1> QED
  BY <1>1, <1>2 DEF Calm, TypeOK

LEMMA FailMovesOne ==
  ASSUME TypeOK, NEW p \in Process, pc[p] \in {"read", "work"}, Fail(p)
  PROVE  \A q \in Process \ {p} : pc'[q] = pc[q] /\ item'[q] = item[q]
BY DEF Fail, Goto, TypeOK

LEMMA StepMovesOne ==
  ASSUME TypeOK, NEW p \in Process, StepOf(p)
  PROVE  \A q \in Process \ {p} : pc'[q] = pc[q] /\ item'[q] = item[q]
<1>1. CASE Schedule(p) \/ StartDaily(p) \/ ListQueueFiles(p) \/ (\E approved \in BOOLEAN : Take(p, approved))
  BY <1>1 DEF Schedule, StartDaily, ListQueueFiles, Take, Goto, TypeOK
<1>2. CASE CreateState(p) \/ CreateEntry(p) \/ FillEntry(p) \/ Unlink(p) \/ EndListing(p)
  BY <1>2 DEF CreateState, CreateEntry, FillEntry, Unlink, EndListing, Goto, TypeOK
<1>3. CASE ParseQueueItem(p)
  BY <1>3, VisitsOne DEF Visits, Goto, TypeOK
<1>4. CASE ReadState(p) \/ StageFails(p) \/ UploadRefused(p)
  BY <1>4, FailMovesOne DEF ReadState, StageFails, UploadRefused, Goto, TypeOK
<1>5. CASE Work(p) \/ WriteState(p)
  <2>1. pc[p] \in Steps \ {"idle", "next", "more", "ended"}
    BY <1>5 DEF Work, WriteState, Steps
  <2>2. StageDone(p) => \A q \in Process \ {p} : pc'[q] = pc[q] /\ item'[q] = item[q]
    BY <2>1, TypeStageDone
  <2> QED
    BY <1>5, <2>2 DEF Work, WriteState, Goto, TypeOK
<1>6. CASE QaFails(p) \/ Crash(p)
  BY <1>6 DEF QaFails, Crash, Goto, TypeOK
<1> QED
  BY <1>1, <1>2, <1>3, <1>4, <1>5, <1>6 DEF StepOf, Proceed

\* While runs do not overlap, whoever moves is alone.
LEMMA StepIsSolo ==
  ASSUME TypeOK, NEW p \in Process, StepOf(p), Alone, Calm' PROVE Calm /\ Solo(p)
<1>1. Calm /\ overlaps' = overlaps /\ overlaps \in Nat
  BY CalmBefore DEF TypeOK
<1>2. \A q \in Process \ {p} : pc'[q] = pc[q] /\ item'[q] = item[q]
  BY StepMovesOne
<1>3. ASSUME NEW q \in Process \ {p} PROVE pc[q] \in {"idle", "ended"}
  <2>1. CASE Active(p)
    BY <2>1 DEF Alone, Active
  <2>2. CASE ~Active(p)
    <3>1. Starts(p)
      BY <2>2 DEF Active, StepOf, Proceed, Schedule, StartDaily, ListQueueFiles, Take, CreateState, CreateEntry,
         FillEntry, Unlink, ParseQueueItem, EndListing, ReadState, Work, UploadRefused, WriteState, StageFails,
         QaFails, Crash
    <3> QED
      BY <1>1, <3>1 DEF Starts
  <2> QED
    BY <2>1, <2>2
<1> QED
  BY <1>1, <1>2, <1>3 DEF Solo

\* What p does is all there is to look at.
LEMMA SoloKeeps ==
  ASSUME CalmInv, Calm, NEW p \in Process, Solo(p), AllInv', RunInv(p)',
         \A q \in Daily \ {p} : pc[q] = "idle" => \A e \in entries' : e.video # Own[q]
  PROVE  CalmInv'
<1>1. Alone'
  BY DEF Alone, Active, Solo
<1>2. ASSUME NEW q \in Process \ {p} PROVE RunInv(q)'
  <2>1. pc'[q] \in {"idle", "ended"} /\ pc'[q] = pc[q]
    BY DEF Solo
  <2>2. Makes(q)'
    BY <2>1 DEF Makes, Making, Staging, Active
  <2> QED
    BY <2>1, <2>2 DEF RunInv, HoldsOldest, Listed, FillsNewest, Followed, RunIsChecked, Plays, Held, Staging, Active
<1> QED
  BY <1>1, <1>2 DEF CalmInv

\* What a step of p that moves alone has to show.
Keeps(p) ==
  /\ AllInv' /\ RunInv(p)'
  /\ \A q \in Daily \ {p} : pc[q] = "idle" => \A e \in entries' : e.video # Own[q]

Moves(p) == p \in Process /\ QueueInv /\ CalmInv /\ Calm /\ Calm' /\ TypeOK' /\ Solo(p)

LEMMA QuietKeeps ==
  ASSUME NEW p, Moves(p), UNCHANGED <<entries, form, saved, file, passed, uploaded>>, RunInv(p)'
  PROVE  Keeps(p)
<1>1. AllInv'
  BY DEF Moves, CalmInv, AllInv, Exists, Lockstep, SavedIsChecked, EntriesOf, Checked
<1>2. \A q \in Process : Makes(q)
  BY DEF Moves, CalmInv, RunInv
<1> QED
  BY <1>1, <1>2 DEF Keeps, Makes, Process

LEMMA StartKeeps ==
  ASSUME NEW p, Moves(p), Schedule(p) \/ StartDaily(p) PROVE Keeps(p)
<1>1. TypeOK /\ p \in Process /\ p \in Maker /\ p \notin Consumer
  BY Kinds DEF Moves, QueueInv, Schedule, StartDaily, Maker, Consumer, Process
<1>2. PICK v \in Video : item' = [item EXCEPT ![p] = [stamp |-> 0, video |-> v, stage |-> "plan"]]
                         /\ (p \in Scheduler => ~HasExistingState(v) /\ \A d \in Daily : v # Own[d])
                         /\ (p \in Daily => v = Own[p])
  BY Kinds, <1>1, VideoAssumption DEF Schedule, StartDaily
<1>3. pc'[p] = "createState" /\ Its(p)' = v /\ Stage(p)' = "plan" /\ item'[p].stamp = 0
  BY <1>1, <1>2 DEF Schedule, StartDaily, Goto, TypeOK, Its, Stage
<1>4. UNCHANGED fileVars /\ UNCHANGED historyVars /\ pc[p] = "idle"
  BY DEF Schedule, StartDaily
<1>5. EntriesOf(v) = {}
  BY <1>1, <1>2, <1>4 DEF Maker, Moves, CalmInv, AllInv, Exists, HasExistingState, EntriesOf, RunInv, Makes
<1>6. Makes(p)'
  BY <1>1, <1>2, <1>3, <1>4, <1>5, Kinds DEF Makes, Making, Staging, EntriesOf, fileVars, Maker
<1>7. RunInv(p)'
  BY <1>1, <1>3, <1>6 DEF RunInv, HoldsOldest, Listed, FillsNewest, Followed, RunIsChecked, Plays, Held, Staging, Consumer
<1> QED
  BY <1>4, <1>7, QuietKeeps DEF fileVars, historyVars

\* If the oldest entry is past QA, so are all of its video.
LEMMA OldestIsChecked ==
  ASSUME TypeOK, Stamps, AllInv, NEW e \in entries, e.whole, \A d \in entries : d.whole => e.stamp <= d.stamp,
         PastQa(e.stage)
  PROVE  Checked(e.video, saved[e.video].qa)
<1>1. e.video \in Video /\ e.stage \in VideoStage /\ e.stamp \in Nat
  BY DEF TypeOK, Entry
<1>2. ASSUME NEW d \in EntriesOf(e.video) PROVE PastQa(d.stage)
  <2>1. d \in entries /\ d.whole /\ d.video = e.video /\ d.stage \in VideoStage /\ d.stamp \in Nat
    BY DEF EntriesOf, TypeOK, Entry
  <2>2. StageIndex(d.stage) \in Nat /\ StageIndex(e.stage) \in Nat /\ StageIndex("qa") \in Nat
    BY <1>1, <2>1, StageFacts
  <2>3. CASE d.stamp = e.stamp
    BY <2>1, <2>3 DEF Stamps
  <2>4. CASE e.stamp < d.stamp
    <3>1. StageIndex(e.stage) <= StageIndex(d.stage)
      BY <2>1, <2>4 DEF AllInv, Lockstep
    <3> QED
      BY <2>2, <3>1 DEF PastQa
  <2>5. e.stamp <= d.stamp
    BY <2>1
  <2> QED
    BY <1>1, <2>1, <2>3, <2>4, <2>5
<1> QED
  BY <1>1, <1>2 DEF AllInv, SavedIsChecked

LEMMA TakeKeeps ==
  ASSUME NEW p, Moves(p), NEW approved \in BOOLEAN, Take(p, approved) PROVE Keeps(p)
<1>1. TypeOK /\ Stamps /\ AllInv /\ p \in Process /\ p \in Graph /\ p \notin Script /\ p \notin Maker
  BY Kinds DEF Moves, QueueInv, CalmInv, Take, Maker, Process
<1>2. PICK e \in entries :
        /\ e.whole /\ e = Oldest({d \in entries : d.whole})
        /\ item' = [item EXCEPT ![p] = [stamp |-> e.stamp, video |-> e.video, stage |-> e.stage]]
  BY DEF Take
<1>3. \A d \in entries : d.whole => e.stamp <= d.stamp
  <2> DEFINE S == {d.stamp : d \in {c \in entries : c.whole}}
  <2>1. S \subseteq Nat /\ S # {}
    BY <1>1, <1>2 DEF TypeOK, Entry
  <2>2. PICK n \in S : \A m \in S : n <= m
    BY <2>1, LeastStamp
  <2>3. PICK c \in entries : c.whole /\ c.stamp = n
    BY <2>2
  <2>4. \A d \in {b \in entries : b.whole} : c.stamp <= d.stamp
    BY <2>2, <2>3
  <2> QED
    BY <1>2, <2>3, <2>4 DEF Oldest
<1>4. pc'[p] = "read" /\ Its(p)' = e.video /\ Stage(p)' = e.stage /\ item'[p].stamp = e.stamp
  BY <1>1, <1>2 DEF Take, Goto, TypeOK, Its, Stage
<1>5. UNCHANGED fileVars /\ UNCHANGED historyVars
  BY DEF Take
<1>6. PastQa(e.stage) => Checked(e.video, saved[e.video].qa)
  BY <1>1, <1>2, <1>3, OldestIsChecked
<1>7. HoldsOldest(p)'
  BY <1>2, <1>3, <1>4, <1>5 DEF HoldsOldest, fileVars
<1>8. RunIsChecked(p)'
  BY <1>4, <1>5, <1>6 DEF RunIsChecked, fileVars, historyVars, Checked, Staging, PastQa
<1>9. RunInv(p)'
  BY <1>1, <1>4, <1>7, <1>8 DEF RunInv, Listed, FillsNewest, Followed, Plays, Makes, Making, Maker
<1> QED
  BY <1>5, <1>9, QuietKeeps DEF fileVars, historyVars

LEMMA ListingKeeps ==
  ASSUME NEW p, Moves(p), ListQueueFiles(p) \/ EndListing(p) PROVE Keeps(p)
<1>1. TypeOK /\ p \in Process /\ p \in Script /\ p \notin Maker /\ Stamps
  BY Kinds DEF Moves, QueueInv, CalmInv, RunInv, Plays, ListQueueFiles, EndListing, Maker, Process
<1>2. UNCHANGED fileVars /\ UNCHANGED historyVars /\ pc'[p] \in {"next", "idle"}
  BY <1>1 DEF ListQueueFiles, EndListing, Goto, TypeOK
<1>3. Listed(p)'
  <2>1. CASE ListQueueFiles(p)
    <3>1. pc'[p] = "next" /\ todo'[p] = {e.stamp : e \in entries} /\ entries' = entries
      BY <1>1, <1>2, <2>1 DEF ListQueueFiles, Goto, TypeOK, fileVars
    <3> QED
      BY <3>1 DEF Listed, Rest
  <2>2. CASE EndListing(p)
    <3>1. pc'[p] = "idle"
      BY <1>1, <2>2 DEF EndListing, Goto, TypeOK
    <3> QED
      BY <3>1 DEF Listed, Active
  <2> QED
    BY <2>1, <2>2
<1>4. RunInv(p)'
  BY <1>1, <1>2, <1>3 DEF RunInv, HoldsOldest, FillsNewest, Followed, Plays, Makes, Maker, RunIsChecked, Held, Staging
<1> QED
  BY <1>2, <1>4, QuietKeeps DEF fileVars, historyVars

LEMMA ParseKeeps ==
  ASSUME NEW p, Moves(p), ParseQueueItem(p) PROVE Keeps(p)
<1> DEFINE stamp == CHOOSE s \in todo[p] : \A r \in todo[p] : s <= r
           found == {e \in entries : e.stamp = stamp}
           whole == {e \in found : e.whole}
<1>1. TypeOK /\ p \in Process /\ p \in Script /\ p \notin Maker /\ Stamps /\ AllInv /\ Listed(p)
  BY Kinds DEF Moves, QueueInv, CalmInv, RunInv, Plays, ParseQueueItem, Maker, Process
<1>2. /\ pc[p] \in {"next", "more"} /\ todo[p] # {}
      /\ todo' = [todo EXCEPT ![p] = @ \ {stamp}]
      /\ entries' = entries \ (found \ whole)
      /\ dropped' = dropped \cup {e.video : e \in found \ whole}
      /\ IF whole = {} THEN UNCHANGED <<pc, item>>
         ELSE \E e \in whole :
                /\ item' = [item EXCEPT ![p] = [stamp |-> e.stamp, video |-> e.video, stage |-> e.stage]]
                /\ Goto(p, "read")
      /\ UNCHANGED <<form, saved, file, passed, uploaded>>
  BY DEF ParseQueueItem
<1>3. stamp \in todo[p] /\ (\A r \in todo[p] : stamp <= r) /\ todo[p] \subseteq Nat
  <2>1. todo[p] \in SUBSET Nat /\ todo[p] # {}
    BY <1>1, <1>2 DEF TypeOK
  <2>2. \E s \in todo[p] : \A r \in todo[p] : s <= r
    BY <2>1, LeastStamp
  <2> QED
    BY <2>1, <2>2
<1> HIDE DEF stamp
<1>4. entries' = entries /\ found = whole
  BY <1>2 DEF Moves, Calm
<1>5. todo'[p] = todo[p] \ {stamp}
  BY <1>1, <1>2 DEF TypeOK
<1>6. \A e \in entries : e.stamp \in todo[p] \/ \A r \in todo[p] : r < e.stamp
  BY <1>1, <1>2 DEF Listed, Active, Rest, Held, Staging
<1>7. CASE whole = {}
  <2>1. UNCHANGED <<pc, item>>
    BY <1>2, <1>7
  <2>2. \A e \in entries : e.stamp # stamp
    BY <1>4, <1>7
  <2>3. Listed(p)'
    BY <1>2, <1>4, <1>5, <1>6, <2>1, <2>2 DEF Listed, Rest
  <2>4. RunInv(p)'
    BY <1>1, <1>2, <2>1, <2>3 DEF RunInv, HoldsOldest, FillsNewest, Followed, Plays, Makes, Maker, RunIsChecked, Held,
       Staging, Making
  <2> QED
    BY <1>2, <1>4, <2>4, QuietKeeps
<1>8. CASE whole # {}
  <2>1. PICK e \in whole :
           item' = [item EXCEPT ![p] = [stamp |-> e.stamp, video |-> e.video, stage |-> e.stage]] /\ Goto(p, "read")
    BY <1>2, <1>8
  <2>2. e \in entries /\ e.stamp = stamp /\ e.whole
    OBVIOUS
  <2>3. pc'[p] = "read" /\ Its(p)' = e.video /\ Stage(p)' = e.stage /\ item'[p].stamp = e.stamp
    BY <1>1, <2>1 DEF Goto, TypeOK, Its, Stage
  <2>4. \A d \in entries : d.whole => e.stamp <= d.stamp
    <3> SUFFICES ASSUME NEW d \in entries PROVE e.stamp <= d.stamp
      OBVIOUS
    <3>1. d.stamp \in Nat
      BY <1>1 DEF TypeOK, Entry
    <3> QED
      BY <1>3, <1>6, <2>2, <3>1
  <2>5. PastQa(e.stage) => Checked(e.video, saved[e.video].qa)
    BY <1>1, <2>2, <2>4, OldestIsChecked
  <2>6. HoldsOldest(p)'
    BY <1>4, <2>2, <2>3, <2>4 DEF HoldsOldest
  <2>7. RunIsChecked(p)'
    BY <1>2, <2>3, <2>5 DEF RunIsChecked, Checked, Staging, PastQa
  <2>8. Listed(p)'
    BY <1>4, <1>5, <1>6, <2>2, <2>3 DEF Listed, Rest, Held, Staging
  <2>9. RunInv(p)'
    BY <1>1, <2>3, <2>6, <2>7, <2>8 DEF RunInv, FillsNewest, Followed, Plays, Makes, Making, Maker
  <2> QED
    BY <1>2, <1>4, <2>9, QuietKeeps
<1> QED
  BY <1>7, <1>8

LEMMA CreateStateKeeps ==
  ASSUME NEW p, Moves(p), CreateState(p) PROVE Keeps(p)
<1>1. /\ TypeOK /\ p \in Process /\ p \in Maker /\ p \notin Consumer /\ AllInv /\ Makes(p) /\ Its(p) \in Video
      /\ \A q \in Process : Makes(q)
  BY Kinds DEF Moves, QueueInv, CalmInv, RunInv, Plays, CreateState, Maker, Consumer, Process, TypeOK, Steps, Its
<1>2. /\ pc[p] \in {"createState", "fillState"} /\ pc'[p] \in {"fillState", "enqueue"}
      /\ UNCHANGED <<entries, file, item, passed, uploaded>>
  BY <1>1 DEF CreateState, Goto, TypeOK, historyVars
<1>3. form'[Its(p)] # "absent" /\ \A v \in Video : form'[v] = form[v] \/ form'[v] # "absent"
  BY <1>1 DEF CreateState, TypeOK
<1>4. saved' = [saved EXCEPT ![Its(p)] = Fresh]
  BY DEF CreateState
<1>5. Makes(p)'
  BY <1>1, <1>2, <1>3 DEF Makes, Making, Staging, Active, EntriesOf, Its, Stage
<1>6. RunInv(p)'
  BY <1>1, <1>2, <1>5 DEF RunInv, HoldsOldest, Listed, FillsNewest, Followed, RunIsChecked, Plays, Held, Staging,
     Consumer
<1>7. AllInv'
  <2>1. Exists'
    BY <1>1, <1>2, <1>3 DEF AllInv, Exists, TypeOK, Entry
  <2>2. SavedIsChecked'
    BY <1>1, <1>2, <1>4 DEF AllInv, SavedIsChecked, EntriesOf, Checked, Fresh, TypeOK
  <2> QED
    BY <1>1, <1>2, <2>1, <2>2 DEF AllInv, Lockstep
<1> QED
  BY <1>1, <1>2, <1>6, <1>7 DEF Keeps, Makes, Process

LEMMA StopKeeps ==
  ASSUME NEW p, Moves(p), Crash(p) \/ (pc[p] \in {"read", "work"} /\ Fail(p)) PROVE Keeps(p)
<1>1. TypeOK /\ p \in Process
  BY DEF Moves, QueueInv
<1>2. UNCHANGED <<entries, form, saved, file, passed, uploaded>> /\ \E s \in {"idle", "ended"} : Goto(p, s) /\ (p \in Daily => s = "ended")
  <2>1. CASE Crash(p)
    BY <2>1 DEF Crash, fileVars, historyVars
  <2>2. CASE Fail(p) /\ pc[p] \in {"read", "work"}
    <3>1. p \notin Script
      BY <2>2 DEF Fail, Moves, Calm
    <3>2. p \in Graph \/ p \in Daily
      BY <1>1, <2>2, <3>1 DEF Process, TypeOK
    <3> QED
      BY <2>2, <3>1, <3>2, Kinds, <1>1 DEF Fail
  <2> QED
    BY <2>1, <2>2
<1>3. pc'[p] \in {"idle", "ended"} /\ (p \in Daily => pc'[p] = "ended")
  BY <1>1, <1>2 DEF Goto, TypeOK
<1>4. RunInv(p)'
  BY <1>3 DEF RunInv, HoldsOldest, Listed, FillsNewest, Followed, RunIsChecked, Plays, Held, Staging, Active, Makes,
     Making
<1> QED
  BY <1>2, <1>4, QuietKeeps

\* A run goes from one step of its stage to the next.
LEMMA StagingKeeps ==
  ASSUME NEW p, Moves(p), pc[p] \in Staging, pc'[p] \in Staging, UNCHANGED <<entries, item, todo>>,
         RunIsChecked(p)'
  PROVE  RunInv(p)'
<1>1. TypeOK /\ p \in Process /\ RunInv(p)
  BY DEF Moves, QueueInv, CalmInv
<1>2. HoldsOldest(p)'
  BY <1>1 DEF RunInv, HoldsOldest, Held, Its, Stage
<1>3. Listed(p)'
  <2>1. Rest(p)' = Rest(p)
    BY DEF Rest, Staging
  <2> QED
    BY <1>1, <2>1 DEF RunInv, Listed, Held, Staging, Active
<1>4. Makes(p)'
  BY <1>1 DEF RunInv, Makes, Making, Staging, Active, EntriesOf, Its
<1> QED
  BY <1>2, <1>3, <1>4 DEF RunInv, FillsNewest, Followed, Plays, Staging

LEMMA ReadKeeps ==
  ASSUME NEW p, Moves(p), ReadState(p) PROVE Keeps(p)
<1>1. TypeOK /\ p \in Process /\ RunInv(p)
  BY DEF Moves, QueueInv, CalmInv
<1>2. pc[p] = "read"
  BY DEF ReadState
<1>3. CASE Readable(Its(p)) /\ Prepared(Stage(p), Its(p), saved[Its(p)])
  <2>1. UNCHANGED <<fileVars, item, todo, historyVars>> /\ pc'[p] = "work" /\ copy'[p] = saved[Its(p)]
    BY <1>1, <1>3 DEF ReadState, Goto, TypeOK
  <2>2. RunIsChecked(p)'
    BY <1>1, <1>2, <2>1 DEF RunInv, RunIsChecked, Checked, fileVars, historyVars, Its, Stage, Staging, PastQa
  <2>3. RunInv(p)'
    BY <1>2, <2>1, <2>2, StagingKeeps DEF Staging, fileVars
  <2> QED
    BY <2>1, <2>3, QuietKeeps DEF fileVars, historyVars
<1>4. CASE ~(Readable(Its(p)) /\ Prepared(Stage(p), Its(p), saved[Its(p)]))
  BY <1>2, <1>4, StopKeeps DEF ReadState
<1> QED
  BY <1>3, <1>4

LEMMA QaFailsKeeps ==
  ASSUME NEW p, Moves(p), QaFails(p) PROVE Keeps(p)
<1>1. TypeOK /\ p \in Process /\ RunInv(p)
  BY DEF Moves, QueueInv, CalmInv
<1>2. /\ pc[p] = "work" /\ pc'[p] = "write" /\ Stage(p) = "qa" /\ UNCHANGED <<fileVars, item, todo, historyVars>>
  BY <1>1 DEF QaFails, Goto, TypeOK
<1>3. copy'[p].qa = "bad"
  BY <1>1 DEF QaFails, TypeOK, Content
<1>4. ~PastQa("qa")
  BY StageFacts DEF PastQa
<1>5. RunIsChecked(p)'
  BY <1>2, <1>3, <1>4 DEF RunIsChecked, Checked, fileVars, historyVars, Its, Stage, PastQa
<1>6. RunInv(p)'
  BY <1>2, <1>5, StagingKeeps DEF Staging, fileVars
<1> QED
  BY <1>2, <1>6, QuietKeeps DEF fileVars, historyVars

LEMMA CreateEntryKeeps ==
  ASSUME NEW p, Moves(p), CreateEntry(p) PROVE Keeps(p)
<1> DEFINE new == [stamp |-> clock, video |-> Its(p), stage |-> Upcoming(p), whole |-> FALSE]
<1>1. /\ TypeOK /\ p \in Process /\ AllInv /\ RunInv(p) /\ Stamps /\ clock \in Nat
      /\ \A q \in Process : Makes(q)
  BY DEF Moves, QueueInv, CalmInv, RunInv, TypeOK
<1>2. /\ pc[p] = "enqueue" /\ entries' = entries \cup {new} /\ pc'[p] = "fillEntry"
      /\ todo'[p] = todo[p] \cup {clock} /\ UNCHANGED <<form, saved, file, item, passed, uploaded>>
  BY <1>1 DEF CreateEntry, Goto, TypeOK, historyVars, Its
<1> HIDE DEF new
<1>3. new.stamp = clock /\ new.video = Its(p) /\ new.stage = Upcoming(p) /\ ~new.whole
  BY DEF new
<1>4. p \in Consumer => \E e \in entries : e.whole /\ e.stamp = item[p].stamp /\ e.video = Its(p)
  BY <1>1, <1>2 DEF RunInv, HoldsOldest, Held
<1>5. p \in Consumer \/ p \in Maker
  BY <1>1 DEF Consumer, Maker, Process
<1>6. AllInv'
  <2>1. form[Its(p)] # "absent"
    BY <1>1, <1>2, <1>4, <1>5 DEF Makes, Making, AllInv, Exists
  <2>2. Exists'
    BY <1>1, <1>2, <1>3, <2>1 DEF AllInv, Exists
  <2>3. \A v \in Video : EntriesOf(v)' = EntriesOf(v)
    BY <1>2, <1>3 DEF EntriesOf
  <2>4. SavedIsChecked'
    BY <1>1, <1>2, <2>3 DEF AllInv, SavedIsChecked, Checked
  <2>5. Lockstep'
    BY <1>1, <1>2, <1>3 DEF AllInv, Lockstep
  <2> QED
    BY <1>1, <1>2, <2>2, <2>4, <2>5 DEF AllInv
<1>7. Its(p)' = Its(p) /\ Stage(p)' = Stage(p) /\ Upcoming(p)' = Upcoming(p)
  BY <1>2 DEF Its, Stage, Upcoming
<1>8. (\A e \in entries : e.stamp < clock /\ e.stamp \in Nat) /\ (\A r \in todo[p] : r < clock /\ r \in Nat)
  BY <1>1 DEF Stamps, TypeOK, Entry
<1>9. HoldsOldest(p)'
  BY <1>1, <1>2, <1>3, <1>7 DEF RunInv, HoldsOldest, Held
<1>10. Listed(p)'
  <2>1. Rest(p) = todo[p]
    BY <1>2 DEF Rest
  <2>2. Rest(p)' = todo[p]
    <3>1. \A r \in todo[p] : ~(clock <= r) /\ r # clock /\ r <= clock
      BY <1>1, <1>8
    <3>2. clock <= clock
      BY <1>1
    <3> QED
      BY <1>2, <3>1, <3>2 DEF Rest, Top
  <2>3. UNCHANGED item
    BY <1>2
  <2>4. ASSUME p \in Script, NEW e \in entries'
        PROVE  e.stamp = item[p].stamp \/ e.stamp \in todo[p] \/ \A r \in todo[p] : r < e.stamp
    <3>1. CASE e \in entries
      BY <1>1, <1>2, <2>1, <2>4, <3>1 DEF RunInv, Listed, Active
    <3>2. CASE e = new
      BY <1>3, <1>8, <3>2
    <3> QED
      BY <1>2, <3>1, <3>2
  <2> QED
    BY <1>2, <2>2, <2>3, <2>4 DEF Listed, Held
<1>11. FillsNewest(p)'
  <2>1. new.stamp \in todo'[p] /\ \A r \in todo'[p] : r <= new.stamp
    BY <1>1, <1>2, <1>3, <1>8
  <2>2. \A d \in entries' : d.stamp <= new.stamp
    BY <1>1, <1>2, <1>3, <1>8
  <2> QED
    BY <1>2, <1>3, <1>7, <2>1, <2>2 DEF FillsNewest, Top
<1>12. Makes(p)'
  <2>1. EntriesOf(Its(p))' = EntriesOf(Its(p))
    BY <1>2, <1>3, <1>7 DEF EntriesOf
  <2> QED
    BY <1>1, <1>2, <1>7, <2>1 DEF Makes, Making, Staging, Active
<1>13. RunIsChecked(p)'
  BY <1>1, <1>2, <1>7 DEF RunInv, RunIsChecked, Checked, Staging
<1>14. RunInv(p)'
  BY <1>2, <1>9, <1>10, <1>11, <1>12, <1>13 DEF RunInv, Followed, Plays
<1>15. ASSUME NEW q \in Daily \ {p}, pc[q] = "idle", NEW e \in entries' PROVE e.video # Own[q]
  <2>1. \A d \in entries : d.video # Own[q]
    BY <1>1, <1>15 DEF Makes, Process
  <2>2. Its(p) # Own[q]
    BY <1>1, <1>2, <1>4, <1>5, <2>1, VideoAssumption DEF Makes, Maker, Active
  <2> QED
    BY <1>2, <1>3, <2>1, <2>2
<1> QED
  BY <1>6, <1>14, <1>15 DEF Keeps

LEMMA FillEntryKeeps ==
  ASSUME NEW p, Moves(p), FillEntry(p) PROVE Keeps(p)
<1>1. /\ TypeOK /\ p \in Process /\ AllInv /\ RunInv(p) /\ Stamps /\ pc[p] = "fillEntry"
      /\ (\A q \in Process : Makes(q)) /\ todo[p] \subseteq Nat
  BY DEF Moves, QueueInv, CalmInv, RunInv, FillEntry, TypeOK
<1>2. PICK torn \in entries :
        /\ Top(p, torn.stamp) /\ ~torn.whole /\ torn.video = Its(p) /\ torn.stage = Upcoming(p)
        /\ \A d \in entries : d.stamp <= torn.stamp
  BY <1>1 DEF RunInv, FillsNewest
<1> DEFINE s == torn.stamp
           full == [torn EXCEPT !.whole = TRUE]
<1>3. s \in Nat /\ \A r \in todo[p] : Top(p, r) => r = s
  BY <1>1, <1>2 DEF Top
<1>4. Writing(p) = s
  BY <1>1, <1>2, <1>3 DEF Writing, Top
<1>5. \A d \in entries \ {torn} : d.stamp < s /\ d.stamp \in Nat
  <2> SUFFICES ASSUME NEW d \in entries \ {torn} PROVE d.stamp < s /\ d.stamp \in Nat
    OBVIOUS
  <2>1. d.stamp # s
    BY <1>1 DEF Stamps
  <2>2. d.stamp \in Nat
    BY <1>1 DEF TypeOK, Entry
  <2> QED
    BY <1>2, <1>3, <2>1, <2>2
<1>6. entries' = (entries \ {torn}) \cup {full}
  <2>1. entries' = {IF e.stamp = s THEN [e EXCEPT !.whole = TRUE] ELSE e : e \in entries}
    BY <1>4 DEF FillEntry
  <2>2. \A e \in entries : e.stamp = s <=> e = torn
    BY <1>3, <1>5
  <2> QED
    BY <1>2, <2>1, <2>2
<1>7. full.stamp = s /\ full.video = Its(p) /\ full.stage = Upcoming(p) /\ full.whole /\ full.stage \in VideoStage
  BY <1>1, <1>2 DEF TypeOK, Entry
<1> HIDE DEF full
<1>8. /\ UNCHANGED <<form, saved, file, item, passed, uploaded>> /\ todo'[p] = todo[p] \ {s}
      /\ Its(p)' = Its(p) /\ Stage(p)' = Stage(p)
      /\ pc'[p] = IF p \in Consumer THEN "unlink" ELSE IF p \in Scheduler THEN "idle" ELSE "read"
      /\ p \in Consumer \/ p \in Scheduler \/ p \in Daily
  <2>1. p \in Consumer \/ p \in Scheduler \/ p \in Daily
    BY <1>1 DEF Consumer, Process
  <2>2. pc'[p] = IF p \in Consumer THEN "unlink" ELSE IF p \in Scheduler THEN "idle" ELSE "read"
    BY <1>1, <2>1, Kinds DEF FillEntry, Goto, Consumer, TypeOK
  <2> QED
    BY <1>1, <1>4, <2>1, <2>2 DEF FillEntry, TypeOK, Its, Stage
<1>9. p \in Maker => EntriesOf(Its(p)) = {} /\ Upcoming(p) = "plan" /\ Stage(p) = "plan"
  BY <1>1 DEF Makes, Making, Upcoming
<1>10. ASSUME p \in Consumer
       PROVE  \E e \in entries :
                /\ e.whole /\ e.stamp = item[p].stamp /\ e.video = Its(p) /\ e.stage = Stage(p) /\ e # torn
                /\ \A d \in entries : d.whole => e.stamp <= d.stamp
                /\ full.stage = NextStage(Stage(p)) /\ Stage(p) \in VideoStage
                /\ StageIndex(full.stage) = StageIndex(Stage(p)) + 1
  <2>1. PICK e \in entries :
                /\ e.whole /\ e.stamp = item[p].stamp /\ e.video = Its(p) /\ e.stage = Stage(p)
                /\ \A d \in entries : d.whole => e.stamp <= d.stamp
    BY <1>1, <1>10 DEF RunInv, HoldsOldest, Held
  <2>2. item[p].stamp # 0 /\ Stage(p) \in VideoStage
    BY <1>1, <2>1 DEF TypeOK, Entry
  <2>3. full.stage = NextStage(Stage(p))
    BY <1>7, <2>2 DEF Upcoming, Stage
  <2>4. StageIndex(full.stage) = StageIndex(Stage(p)) + 1
    BY <1>7, <2>2, <2>3, StageFacts
  <2> QED
    BY <1>2, <2>1, <2>2, <2>3, <2>4
<1>11. Exists'
  BY <1>1, <1>2, <1>6, <1>7, <1>8 DEF AllInv, Exists
<1>12. Lockstep'
  <2> SUFFICES ASSUME NEW d \in entries', NEW e \in entries',
                      d.whole, e.whole, d.video = e.video, d.stamp < e.stamp
               PROVE  StageIndex(d.stage) <= StageIndex(e.stage) /\ StageIndex(e.stage) <= StageIndex(d.stage) + 1
    BY DEF Lockstep
  <2>1. CASE d \in entries /\ e \in entries
    BY <1>1, <2>1 DEF AllInv, Lockstep
  <2>2. d \in entries
    BY <1>3, <1>5, <1>6, <1>7
  <2>3. CASE e = full
    <3>1. p \in Consumer
      BY <1>7, <1>8, <1>9, <2>2, <2>3 DEF EntriesOf, Maker
    <3>2. PICK held \in entries :
             /\ held.whole /\ held.stamp = item[p].stamp /\ held.video = Its(p) /\ held.stage = Stage(p)
             /\ \A c \in entries : c.whole => held.stamp <= c.stamp
             /\ StageIndex(full.stage) = StageIndex(Stage(p)) + 1 /\ Stage(p) \in VideoStage
      BY <1>10, <3>1
    <3>3. StageIndex(Stage(p)) \in Nat /\ StageIndex(d.stage) \in Nat /\ d.stamp \in Nat /\ held.stamp \in Nat
      BY <1>1, <2>2, <3>2, StageFacts DEF TypeOK, Entry
    <3>4. CASE d.stamp = held.stamp
      <4>1. d = held
        BY <1>1, <2>2, <3>4 DEF Stamps
      <4> QED
        BY <2>3, <3>2, <3>3, <4>1
    <3>5. CASE held.stamp < d.stamp
      <4>1. StageIndex(held.stage) <= StageIndex(d.stage) /\ StageIndex(d.stage) <= StageIndex(held.stage) + 1
        BY <1>1, <1>7, <2>2, <2>3, <3>2, <3>5 DEF AllInv, Lockstep
      <4> QED
        BY <2>3, <3>2, <3>3, <4>1
    <3> QED
      BY <2>2, <3>2, <3>3, <3>4, <3>5
  <2> QED
    BY <1>6, <2>1, <2>2, <2>3
<1>13. SavedIsChecked'
  <2>1. \A v \in Video : EntriesOf(v) \subseteq EntriesOf(v)'
    BY <1>2, <1>6 DEF EntriesOf
  <2> QED
    BY <1>1, <1>8, <2>1 DEF AllInv, SavedIsChecked, Checked
<1>14. HoldsOldest(p)'
  <2> SUFFICES ASSUME p \in Consumer PROVE HoldsOldest(p)'
    BY DEF HoldsOldest
  <2>1. PICK held \in entries :
           /\ held.whole /\ held.stamp = item[p].stamp /\ held.video = Its(p) /\ held.stage = Stage(p) /\ held # torn
           /\ \A c \in entries : c.whole => held.stamp <= c.stamp
    BY <1>10
  <2>2. held.stamp <= full.stamp
    BY <1>2, <1>7
  <2> QED
    BY <1>6, <1>8, <2>1, <2>2 DEF HoldsOldest
<1>15. Listed(p)'
  <2> SUFFICES ASSUME p \in Script PROVE Listed(p)'
    BY DEF Listed
  <2>1. pc'[p] = "unlink"
    BY <1>8 DEF Consumer
  <2>2. Rest(p) = todo[p] \ {s}
    BY <1>1, <1>2, <1>3 DEF Rest
  <2>3. Rest(p)' = todo[p] \ {s}
    BY <1>8, <2>1 DEF Rest
  <2>4. \A e \in entries : e.stamp = item[p].stamp \/ e.stamp \in Rest(p) \/ \A r \in Rest(p) : r < e.stamp
    BY <1>1 DEF RunInv, Listed, Active
  <2> QED
    BY <1>2, <1>6, <1>7, <1>8, <2>1, <2>2, <2>3, <2>4 DEF Listed, Held
<1>16. Followed(p)'
  <2> SUFFICES ASSUME p \in Consumer PROVE Followed(p)'
    BY <1>8 DEF Followed
  <2>1. full.stamp # item[p].stamp /\ full.stage = NextStage(Stage(p))
    BY <1>1, <1>2, <1>7, <1>10 DEF Stamps
  <2> QED
    BY <1>6, <1>7, <1>8, <2>1 DEF Followed
<1>17. Makes(p)'
  <2>1. CASE p \in Daily
    <3>1. p \notin Consumer /\ p \notin Scheduler /\ pc'[p] = "read"
      BY <1>1, <1>8, <2>1, Kinds DEF Consumer
    <3>2. full \in EntriesOf(Its(p))' /\ StageIndex(full.stage) <= StageIndex("qa")
      BY <1>6, <1>7, <1>8, <1>9, <2>1, StageFacts DEF Maker, EntriesOf
    <3> QED
      BY <1>1, <1>8, <3>1, <3>2 DEF Makes, Active, Making, Staging
  <2>2. CASE p \notin Daily
    BY <1>1, <1>8, <2>2, Kinds DEF Makes, Making, Staging, Active, Maker, Consumer
  <2> QED
    BY <2>1, <2>2
<1>18. RunIsChecked(p)'
  <2>1. ~PastQa("plan")
    BY StageFacts DEF PastQa
  <2> QED
    BY <1>1, <1>8, <1>9, <2>1 DEF RunInv, RunIsChecked, Checked, Staging, PastQa, Maker
<1>19. RunInv(p)'
  BY <1>8, <1>14, <1>15, <1>16, <1>17, <1>18 DEF RunInv, FillsNewest, Plays, Maker
<1>20. \A q \in Daily \ {p} : pc[q] = "idle" => \A e \in entries' : e.video # Own[q]
  BY <1>1, <1>2, <1>6, <1>7 DEF Makes, Process
<1> QED
  BY <1>1, <1>8, <1>11, <1>12, <1>13, <1>19, <1>20 DEF Keeps, AllInv

LEMMA UnlinkKeeps ==
  ASSUME NEW p, Moves(p), Unlink(p) PROVE Keeps(p)
<1>1. /\ TypeOK /\ p \in Process /\ AllInv /\ RunInv(p) /\ Stamps
      /\ (\A q \in Process : Makes(q)) /\ pc[p] \in {"unlink", "enqueue"}
      /\ pc[p] = "enqueue" => Upcoming(p) = None
  BY DEF Moves, QueueInv, CalmInv, RunInv, Unlink
<1>2. p \in Consumer /\ p \notin Maker
  <2>1. CASE pc[p] = "unlink"
    BY <1>1, <2>1, Kinds DEF RunInv, Plays, Maker, Consumer, Process
  <2>2. CASE pc[p] = "enqueue"
    <3>1. Upcoming(p) # "plan"
      BY <1>1, <2>2, StageFacts, FirstTyped
    <3>2. p \notin Maker
      BY <1>1, <2>2, <3>1 DEF Makes, Making, Upcoming
    <3> QED
      BY <1>1, <3>2 DEF Maker, Consumer, Process
  <2> QED
    BY <1>1, <2>1, <2>2
<1>3. /\ UNCHANGED <<form, saved, file, todo, passed, uploaded>> /\ pc'[p] = (IF p \in Script THEN "more" ELSE "idle")
      /\ entries' = {e \in entries : e.stamp # item[p].stamp}
  BY <1>1 DEF Unlink, Goto, TypeOK
<1>4. PICK held \in entries :
        /\ held.whole /\ held.stamp = item[p].stamp /\ held.video = Its(p) /\ held.stage = Stage(p)
        /\ \A d \in entries : d.whole => held.stamp <= d.stamp
  BY <1>1, <1>2 DEF RunInv, HoldsOldest, Held
<1>5. Stage(p) \in VideoStage /\ Its(p) \in Video /\ item[p].stamp # 0
  BY <1>1, <1>4 DEF TypeOK, Entry
<1>6. entries' \subseteq entries
  BY <1>3
<1>7. SavedIsChecked'
  <2> SUFFICES ASSUME NEW v \in Video, \A e \in EntriesOf(v)' : PastQa(e.stage) PROVE Checked(v, saved[v].qa)
    BY <1>3 DEF SavedIsChecked, Checked
  <2>1. CASE v # Its(p) \/ PastQa(Stage(p))
    <3>1. ASSUME NEW e \in EntriesOf(v) PROVE PastQa(e.stage)
      <4>1. CASE e.stamp = item[p].stamp
        <5>1. e = held
          BY <1>1, <1>4, <4>1 DEF Stamps, EntriesOf
        <5> QED
          BY <1>4, <2>1, <5>1 DEF EntriesOf
      <4>2. CASE e.stamp # item[p].stamp
        BY <1>3, <4>2 DEF EntriesOf
      <4> QED
        BY <4>1, <4>2
    <3> QED
      BY <1>1, <3>1 DEF AllInv, SavedIsChecked
  <2>2. CASE v = Its(p) /\ Stage(p) = "qa"
    BY <1>1, <1>2, <2>2 DEF RunInv, RunIsChecked
  <2>3. CASE v = Its(p) /\ ~PastQa(Stage(p)) /\ Stage(p) # "qa"
    <3>1. StageIndex(Stage(p)) \in Nat /\ StageIndex(Stage(p)) < 7
      BY <1>5, <2>3, StageFacts DEF PastQa
    <3>2. NextStage(Stage(p)) # None
      BY <1>5, <3>1, StageFacts
    <3>3. pc[p] = "unlink"
      BY <1>1, <1>5, <3>2 DEF Upcoming, Stage
    <3>4. PICK e \in entries :
             e.whole /\ e.video = Its(p) /\ e.stamp # item[p].stamp /\ e.stage = NextStage(Stage(p))
      BY <1>1, <3>3 DEF RunInv, Followed
    <3>5. ~PastQa(e.stage)
      BY <1>5, <3>1, <3>2, <3>4, StageFacts DEF PastQa
    <3>6. e \in EntriesOf(v)'
      BY <1>3, <2>3, <3>4 DEF EntriesOf
    <3> QED
      BY <3>5, <3>6
  <2> QED
    BY <2>1, <2>2, <2>3
<1>8. AllInv'
  BY <1>1, <1>3, <1>6, <1>7 DEF AllInv, Exists, Lockstep
<1>9. Listed(p)'
  <2> SUFFICES ASSUME p \in Script PROVE Listed(p)'
    BY DEF Listed
  <2>1. Rest(p)' = Rest(p)
    BY <1>1, <1>3 DEF Rest
  <2> QED
    BY <1>1, <1>3, <1>6, <2>1 DEF RunInv, Listed, Active
<1>10. RunInv(p)'
  BY <1>2, <1>3, <1>9 DEF RunInv, HoldsOldest, FillsNewest, Followed, Plays, Makes, Maker, RunIsChecked, Held, Staging
<1> QED
  BY <1>1, <1>6, <1>8, <1>10 DEF Keeps, Makes, Process

\* A stage is done: what was saved in it holds for the one that follows.
LEMMA StageDoneKeeps ==
  ASSUME NEW p, Moves(p), pc[p] \in {"work", "fill"}, StageDone(p), UNCHANGED <<entries, todo>>,
         (Stage(p) = "qa" \/ PastQa(Stage(p))) /\ saved'[Its(p)].qa = "ok"
           => <<Its(p), file'[Its(p)].version>> \in passed'
  PROVE  RunInv(p)'
<1>1. TypeOK /\ p \in Process /\ RunInv(p) /\ Stage(p) \in VideoStage /\ p \notin Scheduler
  BY DEF Moves, QueueInv, CalmInv, TypeOK, Steps, Stage
<1>2. Rest(p)' = todo[p] /\ Rest(p) = todo[p]
  <2>1. pc'[p] # "fillEntry"
    BY <1>1, TypeStageDone DEF Steps
  <2> QED
    BY <2>1 DEF Rest
<1>3. CASE p \notin Daily
  <2>1. pc'[p] = "enqueue" /\ UNCHANGED item /\ p \notin Maker
    BY <1>1, <1>3 DEF StageDone, Goto, TypeOK, Maker
  <2>2. HoldsOldest(p)'
    BY <1>1, <2>1 DEF RunInv, HoldsOldest, Held, Staging, Its, Stage
  <2>3. Listed(p)'
    BY <1>1, <1>2, <2>1 DEF RunInv, Listed, Held, Staging, Active
  <2>4. RunIsChecked(p)'
    BY <2>1 DEF RunIsChecked, Checked, Staging, Its, Stage
  <2> QED
    BY <2>1, <2>2, <2>3, <2>4 DEF RunInv, FillsNewest, Followed, Plays, Makes, Maker
<1>4. CASE p \in Daily /\ NextStage(Stage(p)) = None
  <2>1. pc'[p] = "ended"
    BY <1>1, <1>4 DEF StageDone, Goto, TypeOK
  <2> QED
    BY <2>1 DEF RunInv, HoldsOldest, Listed, FillsNewest, Followed, RunIsChecked, Plays, Held, Staging, Active, Makes,
       Making
<1>5. CASE p \in Daily /\ NextStage(Stage(p)) # None
  <2>1. pc'[p] = "read" /\ item' = [item EXCEPT ![p].stage = NextStage(@)]
    BY <1>1, <1>5 DEF StageDone, Goto, TypeOK
  <2>2. item'[p].stage = NextStage(Stage(p)) /\ item'[p].video = item[p].video
    BY <1>1, <2>1 DEF TypeOK, Item, Stage
  <2>3. p \notin Consumer /\ p \notin Script /\ p \notin Scheduler
    BY <1>1, <1>5, Kinds DEF Consumer
  <2>4. PastQa(NextStage(Stage(p))) => Stage(p) = "qa" \/ PastQa(Stage(p))
    <3>1. /\ StageIndex(NextStage(Stage(p))) = StageIndex(Stage(p)) + 1 /\ StageIndex(Stage(p)) \in Nat
          /\ StageIndex("qa") = 7
      BY <1>1, <1>5, StageFacts
    <3>2. CASE StageIndex(Stage(p)) = 7
      BY <1>1, <3>2, StageFacts
    <3> QED
      BY <3>1, <3>2 DEF PastQa
  <2>5. RunIsChecked(p)'
    BY <2>1, <2>2, <2>3, <2>4 DEF RunIsChecked, Checked, Staging, Its, Stage
  <2>6. Makes(p)'
    BY <1>1, <1>5, <2>1, <2>2, <2>3 DEF RunInv, Makes, Making, Staging, Active, EntriesOf, Its
  <2> QED
    BY <2>1, <2>3, <2>5, <2>6 DEF RunInv, HoldsOldest, Listed, FillsNewest, Followed, Plays
<1> QED
  BY <1>3, <1>4, <1>5

\* Before QA is past, an entry of the video is not past it either.
LEMMA StageHasEntry ==
  ASSUME NEW p, Moves(p), pc[p] \in Staging, p \in Consumer => ~PastQa(Stage(p))
  PROVE  \E e \in EntriesOf(Its(p)) : ~PastQa(e.stage)
<1>1. TypeOK /\ p \in Process /\ RunInv(p) /\ p \notin Scheduler
  BY DEF Moves, QueueInv, CalmInv, TypeOK, Staging
<1>2. CASE p \in Consumer
  BY <1>1, <1>2 DEF RunInv, HoldsOldest, Held, EntriesOf
<1>3. CASE p \in Daily
  <2>1. PICK e \in EntriesOf(Its(p)) : StageIndex(e.stage) <= StageIndex("qa")
    BY <1>1, <1>3 DEF RunInv, Makes
  <2>2. StageIndex(e.stage) \in Nat /\ StageIndex("qa") \in Nat
    BY <1>1, StageFacts DEF EntriesOf, TypeOK, Entry
  <2> QED
    BY <2>1, <2>2 DEF PastQa
<1> QED
  BY <1>1, <1>2, <1>3 DEF Consumer, Process

LEMMA WriteKeeps ==
  ASSUME NEW p, Moves(p), WriteState(p) PROVE Keeps(p)
<1>1. /\ TypeOK /\ p \in Process /\ RunInv(p) /\ AllInv /\ pc[p] \in {"write", "fill"} /\ Its(p) \in Video
      /\ \A q \in Process : Makes(q)
  BY DEF Moves, QueueInv, CalmInv, RunInv, WriteState, TypeOK, Its, Steps
<1>2. UNCHANGED <<entries, file, todo, passed, uploaded>> /\ \A v \in Video : form'[v] = form[v] \/ form'[v] # "absent"
  BY <1>1 DEF WriteState, TypeOK, historyVars
<1>3. Exists'
  BY <1>1, <1>2 DEF AllInv, Exists, TypeOK, Entry
<1>4. CASE pc[p] = "write"
  <2>1. UNCHANGED <<saved, item, copy>> /\ pc'[p] = "fill"
    BY <1>1, <1>4 DEF WriteState, Goto, TypeOK
  <2>2. RunIsChecked(p)'
    BY <1>1, <1>2, <1>4, <2>1 DEF RunInv, RunIsChecked, Checked, Staging, Its, Stage
  <2>3. RunInv(p)'
    BY <1>2, <1>4, <2>1, <2>2, StagingKeeps DEF Staging
  <2>4. SavedIsChecked'
    BY <1>1, <1>2, <2>1 DEF AllInv, SavedIsChecked, EntriesOf, Checked
  <2> QED
    BY <1>1, <1>2, <1>3, <2>3, <2>4 DEF Keeps, AllInv, Lockstep, Makes, Process
<1>5. CASE pc[p] = "fill"
  <2>1. saved' = [saved EXCEPT ![Its(p)] = copy[p]] /\ StageDone(p)
    BY <1>5 DEF WriteState
  <2>2. Stage(p) = "qa" \/ PastQa(Stage(p)) => Checked(Its(p), copy[p].qa)
    BY <1>1, <1>5 DEF RunInv, RunIsChecked
  <2>3. RunInv(p)'
    BY <1>1, <1>2, <1>5, <2>1, <2>2, StageDoneKeeps DEF Checked, TypeOK
  <2>4. SavedIsChecked'
    <3> SUFFICES ASSUME NEW v \in Video, \A e \in EntriesOf(v) : PastQa(e.stage) PROVE Checked(v, saved'[v].qa)
      BY <1>2 DEF SavedIsChecked, EntriesOf, Checked
    <3>1. CASE v # Its(p)
      BY <1>1, <2>1, <3>1 DEF AllInv, SavedIsChecked, TypeOK
    <3>2. CASE v = Its(p)
      <4>1. PastQa(Stage(p))
        BY <1>5, <3>2, StageHasEntry DEF Staging
      <4> QED
        BY <1>1, <2>1, <2>2, <3>2, <4>1 DEF TypeOK
    <3> QED
      BY <3>1, <3>2
  <2> QED
    BY <1>1, <1>2, <1>3, <2>3, <2>4 DEF Keeps, AllInv, Lockstep, Makes, Process
<1> QED
  BY <1>1, <1>4, <1>5

LEMMA WorkKeeps ==
  ASSUME NEW p, Moves(p), Work(p) PROVE Keeps(p)
<1>1. /\ TypeOK /\ p \in Process /\ RunInv(p) /\ AllInv /\ pc[p] = "work" /\ Its(p) \in Video /\ Stage(p) \in VideoStage
      /\ \A q \in Process : Makes(q)
  BY DEF Moves, QueueInv, CalmInv, RunInv, Work, TypeOK, Its, Stage, Steps
<1>2. UNCHANGED <<entries, form, saved, todo>>
  BY DEF Work
<1>3. PastQa(Stage(p)) => Checked(Its(p), copy[p].qa) /\ Checked(Its(p), saved[Its(p)].qa)
  BY <1>1 DEF RunInv, RunIsChecked, Staging
<1>4. passed \subseteq passed' /\ uploaded' \subseteq passed'
  <2>1. passed \subseteq passed'
    BY DEF Work
  <2>2. CASE Stage(p) = "publish" /\ ShouldPublish(copy[p])
    <3>1. PastQa(Stage(p)) /\ copy[p].qa = "ok"
      BY <2>2, StageFacts DEF PastQa, ShouldPublish
    <3>2. uploaded' = uploaded \cup {<<Its(p), file[Its(p)].version>>}
      BY <2>2 DEF Work
    <3> QED
      BY <1>1, <1>3, <2>1, <3>1, <3>2 DEF Checked, AllInv
  <2>3. CASE ~(Stage(p) = "publish" /\ ShouldPublish(copy[p]))
    BY <1>1, <2>1, <2>3 DEF Work, AllInv
  <2> QED
    BY <2>1, <2>2, <2>3
<1>5. Stage(p) # "render" => UNCHANGED file
  BY DEF Work
<1>6. Stage(p) = "render" => \A v \in Video \ {Its(p)} : file'[v] = file[v]
  BY <1>1 DEF Work, TypeOK
<1>7. SavedIsChecked'
  <2> SUFFICES ASSUME NEW v \in Video, \A e \in EntriesOf(v) : PastQa(e.stage), saved[v].qa = "ok"
               PROVE  <<v, file'[v].version>> \in passed'
    BY <1>2 DEF SavedIsChecked, EntriesOf, Checked
  <2>1. <<v, file[v].version>> \in passed
    BY <1>1 DEF AllInv, SavedIsChecked, Checked
  <2>2. CASE Stage(p) = "render" /\ v = Its(p)
    <3>1. ~PastQa(Stage(p))
      BY <2>2, StageFacts DEF PastQa
    <3> QED
      BY <1>1, <2>2, <3>1, StageHasEntry DEF Staging
  <2> QED
    BY <1>4, <1>5, <1>6, <2>1, <2>2
<1>8. RunInv(p)'
  <2>1. CASE Saves(Stage(p), copy[p])
    <3>1. UNCHANGED item /\ pc'[p] = "write"
      BY <1>1, <2>1 DEF Work, Goto, TypeOK
    <3>2. CASE Stage(p) = "publish"
      <4>1. copy' = [copy EXCEPT ![p]["published"] = TRUE] /\ UNCHANGED file
        BY <2>1, <3>2, <1>5 DEF Work, Saves
      <4>2. copy'[p].qa = copy[p].qa
        BY <1>1, <4>1 DEF TypeOK, Content
      <4> QED
        BY <1>1, <1>2, <1>3, <1>4, <3>1, <3>2, <4>1, <4>2, StagingKeeps
           DEF Staging, RunIsChecked, Checked, Its, Stage, PastQa
    <3>3. CASE Stage(p) = "qa"
      <4>1. copy'[p].qa = "ok" => <<Its(p), file[Its(p)].version>> \in passed'
        BY <3>3 DEF Work
      <4>2. ~PastQa("qa")
        BY StageFacts DEF PastQa
      <4>3. RunIsChecked(p)'
        BY <1>5, <3>1, <3>3, <4>1, <4>2 DEF RunIsChecked, Checked, Its, Stage, PastQa
      <4> QED
        BY <1>1, <1>2, <3>1, <4>3, StagingKeeps DEF Staging
    <3>4. CASE Stage(p) \notin {"publish", "qa"}
      <4>1. Stage(p) # "analytics"
        BY <2>1 DEF Saves
      <4>2. ~PastQa(Stage(p))
        BY <1>1, <3>4, <4>1, StageFacts DEF PastQa
      <4>3. RunIsChecked(p)'
        BY <3>1, <3>4, <4>2 DEF RunIsChecked, Its, Stage, PastQa
      <4> QED
        BY <1>1, <1>2, <3>1, <4>3, StagingKeeps DEF Staging
    <3> QED
      BY <3>2, <3>3, <3>4
  <2>2. CASE ~Saves(Stage(p), copy[p])
    <3>1. StageDone(p)
      BY <2>2 DEF Work
    <3>2. Stage(p) \in {"publish", "analytics"} /\ Stage(p) # "render" /\ Stage(p) # "qa"
      BY <2>2 DEF Saves
    <3> QED
      BY <1>1, <1>2, <1>3, <1>4, <1>5, <3>1, <3>2, StageDoneKeeps DEF Checked
  <2> QED
    BY <2>1, <2>2
<1> QED
  BY <1>1, <1>2, <1>4, <1>7, <1>8 DEF Keeps, AllInv, Exists, Lockstep, Makes, Process

LEMMA CalmInit == Init => CalmInv
<1> SUFFICES ASSUME Init PROVE CalmInv
  OBVIOUS
<1>1. \A p \in Process : pc[p] = "idle"
  BY DEF Init
<1>2. entries = {} /\ uploaded = {} /\ \A v \in Video : saved[v].qa = "none"
  BY DEF Init, Fresh
<1> QED
  BY <1>1, <1>2 DEF CalmInv, Alone, AllInv, Exists, Lockstep, SavedIsChecked, Checked, RunInv, HoldsOldest, Listed,
     FillsNewest, Followed, Makes, Making, RunIsChecked, Plays, Held, Staging, Active

LEMMA CalmStep == QueueInv /\ CalmInv /\ [Next]_vars => CalmInv'
<1> SUFFICES ASSUME QueueInv, CalmInv, [Next]_vars, Calm' PROVE CalmInv'
  BY DEF CalmInv
<1>1. CASE UNCHANGED vars
  BY <1>1 DEF vars, fileVars, runVars, countVars, historyVars, CalmInv, Calm, Alone, AllInv, Exists, Lockstep,
     SavedIsChecked, Checked, EntriesOf, RunInv, HoldsOldest, Listed, Rest, Top, FillsNewest, Upcoming, Followed,
     Makes, RunIsChecked, Plays, Active, Its, Stage
<1>2. CASE Next
  <2>1. PICK p \in Process : StepOf(p)
    BY <1>2 DEF Next, StepOf
  <2>2. TypeOK /\ TypeOK' /\ Calm /\ Alone
    BY <2>1, TypeStep, CalmBefore DEF QueueInv, CalmInv
  <2>3. Moves(p)
    BY <2>1, <2>2, StepIsSolo DEF Moves
  <2>4. Keeps(p)
    <3>1. CASE Schedule(p) \/ StartDaily(p) \/ ListQueueFiles(p) \/ (\E approved \in BOOLEAN : Take(p, approved))
      BY <2>3, <3>1, StartKeeps, ListingKeeps, TakeKeeps
    <3>2. CASE CreateState(p) \/ CreateEntry(p) \/ FillEntry(p) \/ Unlink(p) \/ ParseQueueItem(p) \/ EndListing(p)
      BY <2>3, <3>2, CreateStateKeeps, CreateEntryKeeps, FillEntryKeeps, UnlinkKeeps, ParseKeeps, ListingKeeps
    <3>3. CASE ReadState(p) \/ Work(p) \/ WriteState(p) \/ QaFails(p)
      BY <2>3, <3>3, ReadKeeps, WorkKeeps, WriteKeeps, QaFailsKeeps
    <3>4. CASE UploadRefused(p) \/ StageFails(p) \/ Crash(p)
      BY <2>3, <3>4, StopKeeps DEF UploadRefused, StageFails
    <3> QED
      BY <2>1, <3>1, <3>2, <3>3, <3>4 DEF StepOf, Proceed
  <2> QED
    BY <2>2, <2>3, <2>4, SoloKeeps DEF Keeps, Moves
<1> QED
  BY <1>1, <1>2

\* While runs do not overlap, what the provider was given had passed QA, however
\* often runs crash, stages fail and work is repeated in between.
THEOREM UploadsPassedQa == Spec => []UploadsWereChecked
<1>1. CalmInv => UploadsWereChecked
  BY DEF CalmInv, AllInv, UploadsWereChecked
<1> QED
  BY <1>1, QueueInit, QueueStep, CalmInit, CalmStep, PTL DEF Spec

\* While runs do not overlap, the entries of a video stay within one stage of
\* each other.
THEOREM EntriesStayInStep == Spec => []EntriesInStep
<1>1. ASSUME QueueInv, CalmInv PROVE EntriesInStep
  <2> SUFFICES ASSUME Calm, NEW v \in Video, NEW d \in EntriesOf(v), NEW e \in EntriesOf(v)
               PROVE  StageIndex(d.stage) <= StageIndex(e.stage) + 1
    BY DEF EntriesInStep
  <2>1. /\ d \in entries /\ e \in entries /\ d.whole /\ e.whole /\ d.video = e.video
        /\ d.stamp \in Nat /\ e.stamp \in Nat
        /\ StageIndex(d.stage) \in Nat /\ StageIndex(e.stage) \in Nat
    BY <1>1, StageFacts DEF QueueInv, TypeOK, Entry, EntriesOf
  <2>2. Lockstep /\ (d.stamp = e.stamp => d = e)
    BY <1>1, <2>1 DEF QueueInv, Stamps, CalmInv, AllInv
  <2>3. CASE d.stamp < e.stamp
    BY <2>1, <2>2, <2>3 DEF Lockstep
  <2>4. CASE e.stamp < d.stamp
    BY <2>1, <2>2, <2>4 DEF Lockstep
  <2>5. CASE d.stamp = e.stamp
    BY <2>1, <2>2, <2>5
  <2> QED
    BY <2>1, <2>3, <2>4, <2>5
<1> QED
  BY <1>1, QueueInit, QueueStep, CalmInit, CalmStep, PTL DEF Spec
=============================================================================
