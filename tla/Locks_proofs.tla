---------------------------- MODULE Locks_proofs ----------------------------
(***************************************************************************)
(* Proofs about the two locks that are meant to keep scripts apart, and     *)
(* what goes on behind them: the continuous pipeline's lock file, for any   *)
(* number of processes and pids and any staleLockMs; and the advisory lock   *)
(* of the price matchers, with the rows that they, the audits and the        *)
(* recomputations write, for any calls, processes, limits and periods.      *)
(***************************************************************************)
EXTENDS ContinuousLock, CallOutcomes, FiniteSetTheorems, TLAPS

-----------------------------------------------------------------------------
(* The lock file: type correctness.                                         *)

LEMMA TypeInit == LockInit => TypeOK
  BY DEF LockInit, TypeOK, Step, Gone

\* The file, the processes and the history keep their types.
LEMMA TypeStep == TypeOK /\ [LockNext]_lockVars => TypeOK'
<1> SUFFICES ASSUME TypeOK, [LockNext]_lockVars PROVE TypeOK'
  OBVIOUS
<1> USE DEF TypeOK, Step, Gone, Acquiring, Held, Rewriting
<1>1. ASSUME Watch PROVE calm' \in BOOLEAN
  BY <1>1 DEF Watch
<1>2. CASE UNCHANGED lockVars
  BY <1>2 DEF lockVars
<1>3. ASSUME NEW l \in Loop, Start(l) PROVE TypeOK'
  BY <1>1, <1>3 DEF Start, MoveTo
<1>4. ASSUME NEW l \in Loop, Advance(l) PROVE TypeOK'
  <2>1. CASE Exists(l)
    BY <1>1, <2>1 DEF Exists, MoveTo
  <2>2. CASE Read(l)
    BY <1>1, <2>2 DEF Read, MoveTo, AfterRefusal
  <2>3. CASE Remove(l)
    BY <1>1, <2>3 DEF Remove, MoveTo
  <2>4. CASE Truncate(l)
    BY <1>1, <2>4 DEF Truncate, MoveTo
  <2>5. CASE Fill(l)
    <3>1. NewRecord(l) \in LockRecord
      BY StaleAssumption DEF NewRecord, LockRecord
    <3> QED
      BY <1>1, <2>5, <3>1 DEF Fill, MoveTo
  <2>6. CASE EndCycle(l)
    BY <1>1, <2>6 DEF EndCycle, MoveTo
  <2>7. CASE Wake(l)
    BY <1>1, <2>7 DEF Wake, MoveTo
  <2>8. CASE Release(l)
    BY <1>1, <2>8 DEF Release, MoveTo
  <2> QED
    BY <1>4, <2>1, <2>2, <2>3, <2>4, <2>5, <2>6, <2>7, <2>8 DEF Advance
<1>5. ASSUME NEW l \in Loop, Signal(l) PROVE TypeOK'
  BY <1>1, <1>5 DEF Signal
<1>6. ASSUME NEW l \in Loop, WriteFails(l) PROVE TypeOK'
  BY <1>1, <1>6 DEF WriteFails, MoveTo
<1>7. ASSUME NEW l \in Loop, Die(l) PROVE TypeOK'
  BY <1>1, <1>7 DEF Die, MoveTo
<1>8. CASE Tick
  <2>1. file' \in LockRecord
    BY <1>8, StaleAssumption DEF Tick, LockRecord
  <2> QED
    BY <1>1, <1>8, <2>1 DEF Tick
<1> QED
  BY <1>2, <1>3, <1>4, <1>5, <1>6, <1>7, <1>8 DEF LockNext

\* Every reachable state is typed.
THEOREM TypeCorrect == LockSpec => []TypeOK
  BY TypeInit, TypeStep, PTL DEF LockSpec

-----------------------------------------------------------------------------
(* The inductive invariant.  That one loop runs at a time is not inductive:  *)
(* it rests on what the file says while a loop runs, which in turn rests on  *)
(* nobody having decided that the lock is free while a loop holds it.        *)

DistinctPids ==
  \A l, m \in Loop : Live(l) /\ Live(m) /\ pid[l] = pid[m] => l = m

NobodyHolds == \A l \in Loop : at[l] \notin Held

Ownership ==
  \A l \in Loop :
    /\ at[l] \in Held => \A m \in Loop : at[m] \in Held => m = l
    /\ at[l] \in Held \ Rewriting => file \in LockRecord /\ file.pid = pid[l]
    /\ at[l] \in Rewriting \cup {"fill"} => file = Unreadable
    /\ at[l] \in {"remove", "create", "fill"} => NobodyHolds

LockInv == TypeOK /\ DistinctPids /\ (calm => Quiet /\ Ownership)

LEMMA LockInvInit == LockInit => LockInv
<1> SUFFICES ASSUME LockInit PROVE LockInv
  OBVIOUS
<1>1. \A l \in Loop : at[l] = "down"
  BY DEF LockInit
<1>2. Quiet /\ Ownership /\ DistinctPids
  BY <1>1 DEF Quiet, Serial, Timely, Ownership, DistinctPids, Live, Gone, Acquiring,
              Held, Rewriting
<1> QED
  BY <1>2, TypeInit DEF LockInv

\* Pids of living processes stay distinct: only a start assigns one.
LEMMA PidsStep ==
  ASSUME TypeOK, DistinctPids, [LockNext]_lockVars PROVE DistinctPids'
<1> USE DEF DistinctPids, Live, Gone, TypeOK
<1>1. CASE UNCHANGED lockVars
  BY <1>1 DEF lockVars
<1>2. ASSUME NEW l \in Loop, Start(l) PROVE DistinctPids'
  BY <1>2 DEF Start, MoveTo
<1>3. ASSUME NEW l \in Loop, pid' = pid, \/ at' = at
                                         \/ Live(l) /\ \E s : at' = [at EXCEPT ![l] = s]
      PROVE  DistinctPids'
  BY <1>3
<1>4. ASSUME NEW l \in Loop, Advance(l) PROVE DistinctPids'
  <2>1. pid' = pid /\ Live(l) /\ \E s : at' = [at EXCEPT ![l] = s]
    BY <1>4 DEF Advance, Exists, Read, Remove, Truncate, Fill, EndCycle, Wake, Release, MoveTo
  <2> QED
    BY <1>3, <2>1
<1>5. ASSUME NEW l \in Loop, Signal(l) \/ WriteFails(l) \/ Die(l) PROVE DistinctPids'
  <2>1. pid' = pid /\ (at' = at \/ (Live(l) /\ \E s : at' = [at EXCEPT ![l] = s]))
    BY <1>5 DEF Signal, WriteFails, Die, MoveTo
  <2> QED
    BY <1>3, <2>1
<1>6. CASE Tick
  BY <1>6 DEF Tick
<1> HIDE DEF DistinctPids, Live, Gone, TypeOK
<1> QED
  BY <1>1, <1>2, <1>4, <1>5, <1>6 DEF LockNext

\* calm is kept only by steps that lead from a quiet state to a quiet one.
LEMMA CalmStep ==
  ASSUME LockNext, calm' PROVE calm /\ Quiet'
  BY DEF LockNext, Advance, Start, Exists, Read, Remove, Truncate, Fill, EndCycle, Wake,
         Release, Signal, WriteFails, Die, Tick, Watch

\* A starter that decides, in a quiet state, that there is no lock to respect
\* is right.
LEMMA FreeMeansFree ==
  ASSUME LockInv, calm, NEW l \in Loop,
         \/ Exists(l) /\ file = Absent
         \/ at[l] = "read" /\ MayBeStale
  PROVE  NobodyHolds
<1> SUFFICES ASSUME NEW m \in Loop, at[m] \in Held PROVE FALSE
  BY DEF NobodyHolds
<1>1. at[l] \notin Held /\ l # m
  BY DEF Exists, Held, Rewriting
<1>2. \/ at[m] \in Rewriting /\ file = Unreadable
      \/ file \in LockRecord /\ file.pid = pid[m]
  BY DEF LockInv, Ownership
<1>3. CASE Exists(l) /\ file = Absent
  BY <1>2, <1>3, FileAssumption
<1>4. CASE at[l] = "read" /\ MayBeStale
  <2>1. at[m] \notin Rewriting
    BY <1>1, <1>4 DEF LockInv, Quiet, Serial, Acquiring
  <2>2. file \in LockRecord /\ file.pid = pid[m] /\ Live(m)
    BY <1>2, <2>1 DEF Live, Gone, Held, Rewriting
  <2>3. file.age \in Nat /\ StaleLock \in Nat /\ file.age <= StaleLock
    BY <2>2, StaleAssumption DEF LockInv, Quiet, Timely, LockRecord
  <2> QED
    BY <1>4, <2>2, <2>3, FileAssumption DEF MayBeStale, MayBeDead
<1> QED
  BY <1>3, <1>4

\* What the steps that keep calm do to the ownership of the file.
LEMMA OwnershipStep ==
  ASSUME LockInv, [LockNext]_lockVars, calm' PROVE Ownership'
<1>1. CASE UNCHANGED lockVars
  BY <1>1 DEF lockVars, LockInv, Ownership, NobodyHolds
<1> SUFFICES ASSUME LockNext PROVE Ownership'
  BY <1>1
<1>2. TypeOK /\ Serial /\ Ownership /\ Quiet' /\ calm
  BY CalmStep DEF LockInv, Quiet
<1> USE DEF TypeOK, Ownership, NobodyHolds, Acquiring, Held, Rewriting, Serial
<1>3. ASSUME NEW l \in Loop, Start(l) PROVE Ownership'
  BY <1>2, <1>3 DEF Start, MoveTo, Live, Gone
<1>4. ASSUME NEW l \in Loop, Advance(l) PROVE Ownership'
  <2>1. CASE Exists(l)
    <3>1. file = Absent => NobodyHolds
      BY <1>2, <2>1, FreeMeansFree
    <3> QED
      BY <1>2, <2>1, <3>1 DEF Exists, MoveTo
  <2>2. CASE Read(l)
    <3>1. MayBeStale => NobodyHolds
      BY <1>2, <2>2, FreeMeansFree DEF Read
    <3> QED
      BY <1>2, <2>2, <3>1 DEF Read, MoveTo, AfterRefusal
  <2>3. CASE Remove(l)
    BY <1>2, <2>3 DEF Remove, MoveTo
  <2>4. CASE Truncate(l)
    BY <1>2, <2>4 DEF Truncate, MoveTo
  <2>5. CASE Fill(l)
    <3>1. NewRecord(l) \in LockRecord /\ NewRecord(l).pid = pid[l]
      BY <1>2, StaleAssumption DEF NewRecord, LockRecord
    <3> QED
      BY <1>2, <2>5, <3>1 DEF Fill, MoveTo
  <2>6. CASE EndCycle(l)
    BY <1>2, <2>6 DEF EndCycle, MoveTo
  <2>7. CASE Wake(l)
    BY <1>2, <2>7 DEF Wake, MoveTo
  <2>8. CASE Release(l)
    BY <1>2, <2>8 DEF Release, MoveTo
  <2> QED
    BY <1>4, <2>1, <2>2, <2>3, <2>4, <2>5, <2>6, <2>7, <2>8 DEF Advance
<1>5. ASSUME NEW l \in Loop, Signal(l) PROVE Ownership'
  BY <1>2, <1>5 DEF Signal
<1>6. ASSUME NEW l \in Loop, WriteFails(l) PROVE Ownership'
  BY <1>2, <1>6 DEF WriteFails, MoveTo
<1>7. ASSUME NEW l \in Loop, Die(l) PROVE Ownership'
  BY <1>2, <1>7 DEF Die, MoveTo
<1>8. CASE Tick
  <2>1. file \in LockRecord /\ file' \in LockRecord /\ file'.pid = file.pid
    BY <1>8, StaleAssumption DEF Tick, LockRecord
  <2>2. UNCHANGED <<at, pid>>
    BY <1>8 DEF Tick
  <2> QED
    BY <1>2, <2>1, <2>2, FileAssumption
<1> HIDE DEF TypeOK, Ownership, NobodyHolds, Acquiring, Held, Rewriting, Serial
<1> QED
  BY <1>3, <1>4, <1>5, <1>6, <1>7, <1>8 DEF LockNext

LEMMA LockInvStep == LockInv /\ [LockNext]_lockVars => LockInv'
<1> SUFFICES ASSUME LockInv, [LockNext]_lockVars PROVE LockInv'
  OBVIOUS
<1>1. TypeOK' /\ DistinctPids'
  BY TypeStep, PidsStep DEF LockInv
<1>2. ASSUME calm' PROVE Quiet'
  <2>1. CASE UNCHANGED lockVars
    BY <1>2, <2>1 DEF lockVars, LockInv, Quiet, Serial, Timely
  <2> QED
    BY <1>2, <2>1, CalmStep
<1> QED
  BY <1>1, <1>2, OwnershipStep DEF LockInv

LEMMA LockInvariant == LockSpec => []LockInv
  BY LockInvInit, LockInvStep, PTL DEF LockSpec

-----------------------------------------------------------------------------
(* The theorems.                                                            *)

\* As long as no two processes meet at the file and no living loop's record
\* outlives staleLockMs, at most one loop runs: crashes, failed writes,
\* half-written files and reused pids do no harm (acquireLock, writeLock,
\* releaseLock).
THEOREM OneLoopAtATime == LockSpec => []OneLoopWhileCalm
<1>1. LockInv => OneLoopWhileCalm
  BY DEF LockInv, Ownership, OneLoopWhileCalm
<1> QED
  BY <1>1, LockInvariant, PTL

\* The file a running loop will remove, or rewrite, is then its own.
THEOREM TheFileIsTheHoldersOwn == LockSpec => []HolderIsRecorded
<1>1. LockInv => HolderIsRecorded
  BY DEF LockInv, Ownership, HolderIsRecorded
<1> QED
  BY <1>1, LockInvariant, PTL

-----------------------------------------------------------------------------
(* The rows of calls: type correctness.                                     *)
(*                                                                          *)
(* A copy is of what its process deals with: a matcher's is the columns it   *)
(* is about to write, an audit's its verdicts, a recomputation's the scores. *)

Marks == Column \cup {<<"coin", "hit">>}
Words == {"PROMOTE", "REJECT", "zero", "noAlpha", "full"}

\* What is kept of the rows and processes, as far as the proofs need it.
RowsTyped ==
  /\ age \in Nat /\ trouble \in Nat /\ cut \in BOOLEAN
  /\ price \in [Call -> SUBSET Column]
  /\ verdict \in [Call -> {"PROMOTE", "REJECT"}]
  /\ decision \in [Call -> {None, "PROMOTE", "REJECT"}]
  /\ DOMAIN pc = Process /\ DOMAIN cursor = Process /\ DOMAIN copy = Process
  /\ work \in [Process -> SUBSET Call]
  /\ \A m \in Matcher : copy[m] \in [Call -> SUBSET Marks]
  /\ \A r \in Recompute : copy[r] \in [Call -> SUBSET Words]
  /\ DOMAIN cache = Matcher
  /\ lock \in Matcher \cup {None}


\* What horizons, candles, matchers and repairs do, and what recomputations do.
OutcomeStep ==
  \/ HorizonPasses \/ SessionEnds
  \/ \E s \in Listed : RefreshSymbol(s)
  \/ \E m \in Matcher :
       \/ Acquire(m) \/ Match(m)
       \/ \E c \in work[m] : LookupThrows(m, c) \/ \E k \in Key : Lookup(m, c, {k})
  \/ \E r \in Repair : RepairStart(r) \/ RepairStep(r)
  \/ \E p \in Matcher \cup Repair : Crash(p)

BoardStep ==
  \E r \in Recompute : AuditStart(r) \/ RecomputeStart(r) \/ RecomputeStep(r) \/ Crash(r)

\* Every step is of one of the two sides.
LEMMA TwoSides == Next => OutcomeStep \/ BoardStep
  BY DEF Next, OutcomeStep, BoardStep, Process

\* Rows start typed, empty or grown.
LEMMA RowsTypeInit == Init => RowsTyped
<1> SUFFICES ASSUME Init PROVE RowsTyped
  OBVIOUS
<1> USE DEF Init
<1>1. age \in Nat /\ trouble \in Nat /\ cut \in BOOLEAN
  <2>1. trouble \in 0..MaxTrouble /\ MaxTrouble \in Nat
    BY OutcomeAssumption
  <2>2. PICK grown \in BOOLEAN : age = IF grown THEN 2 ELSE 0
    OBVIOUS
  <2>3. cut \in BOOLEAN
    OBVIOUS
  <2> QED
    BY <2>1, <2>2, <2>3
<1>2. price \in [Call -> SUBSET Column]
  <2> PICK grown \in BOOLEAN : price = [c \in Call |-> IF grown /\ market[KeyOf(c, <<"coin", "call">>)] # None
                                  THEN {x \in Column : market[KeyOf(c, x)] # None} ELSE {}]
    OBVIOUS
  <2> QED
    OBVIOUS
<1>3. /\ \A m \in Matcher : copy[m] \in [Call -> SUBSET Marks]
      /\ \A r \in Recompute : copy[r] \in [Call -> SUBSET Words]
  BY DEF NoCopy, Process
<1> QED
  BY <1>1, <1>2, <1>3 DEF RowsTyped

\* The kinds of processes.
Apart ==
  /\ Matcher \cap Recompute = {} /\ Repair \cap (Matcher \cup Recompute) = {}
  /\ Auditor \subseteq Recompute /\ SetBased \cup LongLived \subseteq Matcher

LEMMA ProcessesApart == Apart
  BY OutcomeAssumption DEF Apart

\* A list of calls that is shortened or replaced is a list of calls.
LEMMA ListUpdate ==
  ASSUME NEW P, NEW S, NEW f \in [P -> SUBSET S], NEW p \in P, NEW v \in SUBSET S
  PROVE  /\ [f EXCEPT ![p] = v] \in [P -> SUBSET S]
         /\ [f EXCEPT ![p] = @ \ v] \in [P -> SUBSET S]
  OBVIOUS

\* The copies of all others stay as they are when one process changes its own.
LEMMA CopyUpdate ==
  ASSUME RowsTyped, NEW p \in Process, NEW new, copy' = [copy EXCEPT ![p] = new],
         p \in Matcher => new \in [Call -> SUBSET Marks],
         p \in Recompute => new \in [Call -> SUBSET Words]
  PROVE  /\ DOMAIN copy' = Process
         /\ \A m \in Matcher : copy'[m] \in [Call -> SUBSET Marks]
         /\ \A r \in Recompute : copy'[r] \in [Call -> SUBSET Words]
  BY DEF RowsTyped, Process

\* Horizons, candles, matchers and repairs keep the rows and processes typed.
LEMMA OutcomeTypeStep == RowsTyped /\ OutcomeStep => RowsTyped'
<1> SUFFICES ASSUME RowsTyped, OutcomeStep PROVE RowsTyped'
  OBVIOUS
<1>0. Apart
  BY ProcessesApart
<1> USE <1>0 DEF Apart, RowsTyped, worldVars, rowVars, boardVars, runVars, Goto, Process, Lowest
<1>1. CASE HorizonPasses
  BY <1>1 DEF HorizonPasses
<1>2. CASE SessionEnds
  BY <1>2 DEF SessionEnds, Trouble
<1>3. ASSUME NEW s \in Listed, RefreshSymbol(s) PROVE RowsTyped'
  BY <1>3 DEF RefreshSymbol
<1>4. ASSUME NEW m \in Matcher, Acquire(m) PROVE RowsTyped'
  BY <1>4 DEF Acquire
<1>5. ASSUME NEW m \in Matcher, SelectBatch(m) PROVE RowsTyped'
  <2> DEFINE rest == {c \in Call : c > cursor[m] /\ Incomplete(c)}
             room == IF Limit[m] - seen[m] < Batch THEN Limit[m] - seen[m] ELSE Batch
             batch == Lowest(rest, room)
  <2>1. batch \in SUBSET Call
    OBVIOUS
  <2>2. work' = work \/ work' = [work EXCEPT ![m] = batch]
    BY <1>5 DEF SelectBatch
  <2>3. work' \in [Process -> SUBSET Call]
    <3> HIDE DEF batch
    <3>1. work \in [Process -> SUBSET Call] /\ m \in Process
      BY ONLY m \in Matcher, RowsTyped DEF RowsTyped, Process
    <3>2. [work EXCEPT ![m] = batch] \in [Process -> SUBSET Call]
      BY ONLY <2>1, <3>1, ListUpdate
    <3> QED
      BY ONLY <2>2, <3>1, <3>2
  <2>4. DOMAIN pc' = Process /\ DOMAIN cursor' = Process
    BY <1>5 DEF SelectBatch
  <2> QED
    BY <1>5, <2>3, <2>4 DEF SelectBatch
<1>6. ASSUME NEW m \in Matcher, EndBatch(m) PROVE RowsTyped'
  BY <1>6 DEF EndBatch
<1>7. ASSUME NEW m \in Matcher, SetBasedStatement(m) PROVE RowsTyped'
  BY <1>7 DEF SetBasedStatement, ElapsedColumns
<1>8. ASSUME NEW m \in Matcher, Unlock(m) PROVE RowsTyped'
  BY <1>8 DEF Unlock, Trouble
<1>9. ASSUME NEW m \in Matcher, NEW c \in work[m], NEW refused, Lookup(m, c, refused) PROVE RowsTyped'
  <2> DEFINE columns == {x \in ElapsedColumns : GetCandleAt(m, KeyOf(c, x), refused)}
             marks == columns \cup (IF Elapsed("90d") THEN {<<"coin", "hit">>} ELSE {})
  <2>1. marks \in SUBSET Marks
    BY DEF ElapsedColumns, Marks
  <2>2. work' = work \/ work' = [work EXCEPT ![m] = @ \ {c}]
    BY <1>9 DEF Lookup
  <2>3. copy' = copy \/ copy' = [copy EXCEPT ![m] = [copy[m] EXCEPT ![c] = marks]]
    BY <1>9 DEF Lookup
  <2> HIDE DEF marks
  <2>4. work' \in [Process -> SUBSET Call]
    BY ONLY <2>2, ListUpdate, m \in Matcher, c \in work[m], RowsTyped DEF RowsTyped, Process
  <2>5. [copy[m] EXCEPT ![c] = marks] \in [Call -> SUBSET Marks]
    BY ONLY <2>1, m \in Matcher, RowsTyped DEF RowsTyped
  <2>7. /\ DOMAIN copy' = Process
        /\ \A n \in Matcher : copy'[n] \in [Call -> SUBSET Marks]
        /\ \A r \in Recompute : copy'[r] \in [Call -> SUBSET Words]
    <3>1. m \in Process /\ m \notin Recompute
      OBVIOUS
    <3> QED
      BY ONLY <2>3, <2>5, <3>1, CopyUpdate, RowsTyped DEF RowsTyped
  <2>6. trouble' \in Nat /\ DOMAIN cache' = Matcher
    BY <1>9 DEF Lookup, Trouble
  <2> QED
    BY <1>9, <2>4, <2>6, <2>7 DEF Lookup
<1>10. ASSUME NEW m \in Matcher, NEW c \in work[m], LookupThrows(m, c) PROVE RowsTyped'
  BY <1>10 DEF LookupThrows, Trouble
<1>11. ASSUME NEW m \in Matcher, NEW c \in work[m], WriteRow(m, c) PROVE RowsTyped'
  BY <1>11 DEF WriteRow
<1>12. ASSUME NEW r \in Repair, RepairStart(r) PROVE RowsTyped'
  BY <1>12 DEF RepairStart
<1>13. ASSUME NEW r \in Repair, RepairStep(r) PROVE RowsTyped'
  <2>1. CASE FindNearestCandle(r)
    BY <2>1 DEF FindNearestCandle
  <2>2. CASE AttachPrice(r)
    BY <2>2 DEF AttachPrice, Column
  <2>3. CASE RepairEnd(r)
    BY <2>3 DEF RepairEnd
  <2> QED
    BY <1>13, <2>1, <2>2, <2>3 DEF RepairStep
<1>14. ASSUME NEW p \in Matcher \cup Repair, Crash(p) PROVE RowsTyped'
  BY <1>14 DEF Crash, Trouble, NoCopy
<1> QED
  BY <1>1, <1>2, <1>3, <1>4, <1>5, <1>6, <1>7, <1>8, <1>9, <1>10, <1>11, <1>12, <1>13, <1>14
  DEF OutcomeStep, Match

\* Audits and recomputations keep the rows and processes typed.
LEMMA BoardTypeStep == RowsTyped /\ BoardStep => RowsTyped'
<1> SUFFICES ASSUME RowsTyped, NEW r \in Recompute,
                    AuditStart(r) \/ RecomputeStart(r) \/ RecomputeStep(r) \/ Crash(r)
             PROVE  RowsTyped'
  BY DEF BoardStep
<1>0. Apart
  BY ProcessesApart
<1> USE <1>0 DEF Apart, RowsTyped, worldVars, rowVars, boardVars, runVars, Goto, Process, Lowest, Words
<1>1. CASE AuditStart(r)
  BY <1>1 DEF AuditStart
<1>2. CASE RecomputeStart(r)
  BY <1>2 DEF RecomputeStart
<1>3. CASE PersistDecision(r)
  BY <1>3 DEF PersistDecision
<1>4. CASE ApplyAuditResults(r)
  BY <1>4 DEF ApplyAuditResults, NoCopy
<1>5. CASE ReadScores(r)
  BY <1>5 DEF ReadScores, ScoreOf
<1>6. CASE WriteScores(r)
  <2>1. copy' = copy \/ copy' = [copy EXCEPT ![r] = NoCopy]
    BY <1>6 DEF WriteScores
  <2>2. /\ DOMAIN copy' = Process
        /\ \A m \in Matcher : copy'[m] \in [Call -> SUBSET Marks]
        /\ \A s \in Recompute : copy'[s] \in [Call -> SUBSET Words]
    <3>1. r \in Process /\ r \notin Matcher /\ NoCopy \in [Call -> SUBSET Words]
      BY DEF NoCopy
    <3> QED
      BY ONLY <2>1, <3>1, CopyUpdate, RowsTyped DEF RowsTyped
  <2>3. work' \in [Process -> SUBSET Call]
    BY <1>6 DEF WriteScores
  <2>4. DOMAIN pc' = Process /\ DOMAIN cursor' = Process
    BY <1>6 DEF WriteScores
  <2> QED
    BY <1>6, <2>2, <2>3, <2>4 DEF WriteScores
<1>7. CASE DeletePeriod(r)
  BY <1>7 DEF DeletePeriod
<1>8. CASE InsertPeriod(r)
  BY <1>8 DEF InsertPeriod
<1>9. CASE RankPeriod(r)
  BY <1>9 DEF RankPeriod
<1>10. CASE SyncCreatorSnapshots(r)
  BY <1>10 DEF SyncCreatorSnapshots
<1>11. CASE Crash(r)
  BY <1>11 DEF Crash, Trouble, NoCopy
<1> QED
  BY <1>1, <1>2, <1>3, <1>4, <1>5, <1>6, <1>7, <1>8, <1>9, <1>10, <1>11 DEF RecomputeStep

\* No step leaves the types.
LEMMA RowsTypeStep == RowsTyped /\ [Next]_vars => RowsTyped'
<1>1. ASSUME RowsTyped, UNCHANGED vars PROVE RowsTyped'
  BY <1>1 DEF vars, worldVars, rowVars, boardVars, runVars, RowsTyped
<1> QED
  BY <1>1, TwoSides, OutcomeTypeStep, BoardTypeStep

\* The rows, the processes and the lock keep their types.
THEOREM RowsTypeCorrect == Spec => []RowsTyped
  BY RowsTypeInit, RowsTypeStep, PTL DEF Spec

\* Matchers and repairs leave alone what recomputations work with, ...
LEMMA BoardUntouched ==
  ASSUME RowsTyped, OutcomeStep
  PROVE  /\ \A r \in Recompute : /\ pc'[r] = pc[r] /\ work'[r] = work[r]
                                 /\ copy'[r] = copy[r] /\ cursor'[r] = cursor[r]
         /\ UNCHANGED <<verdict, decision, confident, stats, snapshot, cut>>
<1> DEFINE Kept == /\ \A r \in Recompute : /\ pc'[r] = pc[r] /\ work'[r] = work[r]
                                           /\ copy'[r] = copy[r] /\ cursor'[r] = cursor[r]
                   /\ UNCHANGED <<verdict, decision, confident, stats, snapshot, cut>>
<1>0. \A r \in Recompute : r \in Process /\ r \notin Matcher /\ r \notin Repair
  BY OutcomeAssumption DEF Process
<1> USE DEF RowsTyped, worldVars, rowVars, boardVars, runVars, Goto
<1>1. CASE HorizonPasses \/ SessionEnds
  BY <1>1 DEF HorizonPasses, SessionEnds
<1>2. ASSUME NEW s \in Listed, RefreshSymbol(s) PROVE Kept
  BY <1>2 DEF RefreshSymbol
<1>3. ASSUME NEW m \in Matcher, Acquire(m) PROVE Kept
  BY <1>0, <1>3 DEF Acquire
<1>4. ASSUME NEW m \in Matcher, Match(m) PROVE Kept
  <2>1. CASE SelectBatch(m)
    BY <1>0, <2>1 DEF SelectBatch
  <2>2. CASE EndBatch(m) \/ SetBasedStatement(m) \/ Unlock(m)
    BY <1>0, <2>2 DEF EndBatch, SetBasedStatement, Unlock
  <2>3. ASSUME NEW c \in work[m], Lookup(m, c, {}) PROVE Kept
    BY <1>0, <2>3 DEF Lookup
  <2>4. ASSUME NEW c \in work[m], WriteRow(m, c) PROVE Kept
    BY <1>0, <2>4 DEF WriteRow
  <2> QED
    BY <1>4, <2>1, <2>2, <2>3, <2>4 DEF Match
<1>5. ASSUME NEW m \in Matcher, NEW c \in work[m], LookupThrows(m, c) PROVE Kept
  BY <1>0, <1>5 DEF LookupThrows
<1>6. ASSUME NEW m \in Matcher, NEW c \in work[m], NEW k \in Key, Lookup(m, c, {k}) PROVE Kept
  BY <1>0, <1>6 DEF Lookup
<1>7. ASSUME NEW r \in Repair, RepairStart(r) \/ RepairStep(r) PROVE Kept
  BY <1>0, <1>7 DEF RepairStart, RepairStep, FindNearestCandle, AttachPrice, RepairEnd
<1>8. ASSUME NEW p \in Matcher \cup Repair, Crash(p) PROVE Kept
  BY <1>0, <1>8 DEF Crash
<1> QED
  BY <1>1, <1>2, <1>3, <1>4, <1>5, <1>6, <1>7, <1>8 DEF OutcomeStep

\* ... and audits and recomputations what matchers and repairs work with.
LEMMA OutcomesUntouched ==
  ASSUME RowsTyped, BoardStep
  PROVE  /\ \A p \in Matcher \cup Repair : pc'[p] = pc[p] /\ work'[p] = work[p] /\ copy'[p] = copy[p]
         /\ UNCHANGED <<age, market, candles, price, lock, cast, cache>>
         /\ trouble' = 0 => trouble = 0
<1> DEFINE Kept == /\ \A p \in Matcher \cup Repair : pc'[p] = pc[p] /\ work'[p] = work[p] /\ copy'[p] = copy[p]
                   /\ UNCHANGED <<age, market, candles, price, lock, cast, cache>>
                   /\ trouble' = 0 => trouble = 0
<1>0. PICK r \in Recompute : AuditStart(r) \/ RecomputeStart(r) \/ RecomputeStep(r) \/ Crash(r)
  BY DEF BoardStep
<1>1. r \notin Matcher /\ r \notin Repair /\ \A p \in Matcher \cup Repair : p \in Process
  BY OutcomeAssumption DEF Process
<1> USE DEF RowsTyped, worldVars, rowVars, boardVars, runVars, Goto
<1>2. CASE AuditStart(r) \/ RecomputeStart(r)
  BY <1>1, <1>2 DEF AuditStart, RecomputeStart
<1>3. CASE PersistDecision(r) \/ ApplyAuditResults(r) \/ ReadScores(r)
  BY <1>1, <1>3 DEF PersistDecision, ApplyAuditResults, ReadScores
<1>4. CASE WriteScores(r)
  BY <1>1, <1>4 DEF WriteScores
<1>5. CASE DeletePeriod(r) \/ InsertPeriod(r) \/ RankPeriod(r) \/ SyncCreatorSnapshots(r)
  BY <1>1, <1>5 DEF DeletePeriod, InsertPeriod, RankPeriod, SyncCreatorSnapshots
<1>6. CASE Crash(r)
  BY <1>1, <1>6 DEF Crash, Trouble
<1> QED
  BY <1>0, <1>2, <1>3, <1>4, <1>5, <1>6 DEF RecomputeStep

-----------------------------------------------------------------------------
(* Promotions.                                                              *)

\* An audit holds the verdicts of the rows it still has to record, and between
\* its runs, or while it recomputes, it holds nothing that could be written.
Audited ==
  \A r \in Recompute :
    /\ pc[r] = "persist" => r \in Auditor /\ \A c \in work[r] : copy[r][c] = {verdict[c]}
    /\ pc[r] # "persist" => \A c \in Call : copy[r][c] # {"PROMOTE"}

PromotionInv == RowsTyped /\ Audited /\ PromotionsAreApplied

\* At first nothing is decided.
LEMMA PromotionInit == Init => PromotionInv
<1> SUFFICES ASSUME Init PROVE PromotionInv
  OBVIOUS
<1>1. Audited
  BY DEF Init, Audited, NoCopy, Process
<1>2. PromotionsAreApplied
  BY DEF Init, PromotionsAreApplied, None
<1> QED
  BY <1>1, <1>2, RowsTypeInit DEF PromotionInv

\* Between recording a decision and applying it, an audit holds the verdict.
LEMMA PromotionStep == PromotionInv /\ [Next]_vars => PromotionInv'
<1> SUFFICES ASSUME PromotionInv, [Next]_vars PROVE (Audited /\ PromotionsAreApplied)'
  BY RowsTypeStep DEF PromotionInv
<1>1. RowsTyped /\ RowsTyped' /\ Audited /\ PromotionsAreApplied
  BY RowsTypeStep DEF PromotionInv
<1>2. Auditor \subseteq Recompute /\ Recompute \subseteq Process
  BY OutcomeAssumption DEF Process
<1>3. CASE OutcomeStep
  <2>1. Audited'
    BY <1>1, <1>2, <1>3, BoardUntouched DEF Audited
  <2>2. PromotionsAreApplied'
    BY <1>1, <1>2, <1>3, BoardUntouched DEF PromotionsAreApplied, Writable
  <2> QED
    BY <2>1, <2>2
<1>4. CASE BoardStep
  <2>0. PICK r \in Recompute : AuditStart(r) \/ RecomputeStart(r) \/ RecomputeStep(r) \/ Crash(r)
    BY <1>4 DEF BoardStep
  <2>00. \A s \in Recompute : copy[s] \in [Call -> SUBSET Words] /\ work[s] \subseteq Call
    BY <1>1, <1>2 DEF RowsTyped
  <2> USE DEF worldVars, rowVars, boardVars, runVars, Goto
  <2>1. CASE AuditStart(r)
    <3>1. /\ work'[r] \subseteq Call /\ pc'[r] = "persist" /\ pc[r] = "idle"
          /\ copy'[r] = [c \in Call |-> IF c \in work'[r] THEN {verdict[c]} ELSE {}] /\ r \in Auditor
          /\ \A s \in Recompute \ {r} : pc'[s] = pc[s] /\ work'[s] = work[s] /\ copy'[s] = copy[s]
          /\ UNCHANGED <<verdict, decision, confident, cut>>
      BY <1>1, <1>2, <2>1 DEF AuditStart, RowsTyped
    <3>2. Audited'
      BY <1>1, <3>1 DEF Audited
    <3>3. \A c \in Call : copy[r][c] # {"PROMOTE"}
      BY <1>1, <3>1 DEF Audited
    <3>4. PromotionsAreApplied'
      BY <1>1, <1>2, <3>1, <3>3 DEF PromotionsAreApplied, Writable
    <3> QED
      BY <3>2, <3>4
  <2>2. CASE RecomputeStart(r)
    BY ZenonT(40), <1>1, <1>2, <2>2 DEF RecomputeStart, RowsTyped, Audited, PromotionsAreApplied, Writable
  <2>3. CASE PersistDecision(r)
    <3>1. PICK c \in Lowest(work[r], 1) : /\ decision' = [decision EXCEPT ![c] = verdict[c]]
                                          /\ work' = [work EXCEPT ![r] = @ \ {c}]
      BY <2>3 DEF PersistDecision
    <3>2. c \in work[r] /\ c \in Call /\ pc[r] = "persist"
      BY <2>00, <2>3, <3>1 DEF PersistDecision, Lowest
    <3>3. r \in Auditor /\ copy[r][c] = {verdict[c]} /\ UNCHANGED <<pc, copy, verdict, confident, cut>>
      BY <1>1, <2>3, <3>2 DEF PersistDecision, Audited
    <3>4. Audited'
      BY <1>1, <1>2, <3>1, <3>3 DEF Audited, RowsTyped
    <3>5. \A d \in Call : decision'[d] = IF d = c THEN verdict[c] ELSE decision[d]
      BY <1>1, <3>1 DEF RowsTyped
    <3>6. \A s \in Auditor, d \in Call : (d \in Writable(s))' <=> copy[s][d] = {"PROMOTE"}
      BY <3>3 DEF Writable
    <3>7. \A s \in Auditor, d \in Call : d \in Writable(s) <=> copy[s][d] = {"PROMOTE"}
      BY DEF Writable
    <3>8. ASSUME NEW d \in Call, decision'[d] = "PROMOTE"
          PROVE  d \in confident' \/ cut' \/ \E s \in Auditor : (d \in Writable(s))'
      <4>1. CASE d = c
        BY <3>2, <3>3, <3>5, <3>6, <3>8, <4>1
      <4>2. CASE d # c
        BY <1>1, <3>3, <3>5, <3>6, <3>7, <3>8, <4>2 DEF PromotionsAreApplied
      <4> QED
        BY <4>1, <4>2
    <3> QED
      BY <3>4, <3>8 DEF PromotionsAreApplied
  <2>4. CASE ApplyAuditResults(r)
    <3>1. /\ confident' = confident \cup Writable(r) /\ copy' = [copy EXCEPT ![r] = NoCopy]
          /\ UNCHANGED <<decision, verdict, cut, work>> /\ pc'[r] # "persist"
          /\ \A s \in Recompute \ {r} : pc'[s] = pc[s]
      BY <1>1, <1>2, <2>4 DEF ApplyAuditResults, RowsTyped
    <3>2. \A c \in Call : copy'[r][c] # {"PROMOTE"}
      BY <1>1, <1>2, <3>1 DEF NoCopy, RowsTyped
    <3>3. \A s \in Recompute \ {r} : copy'[s] = copy[s]
      BY <1>1, <1>2, <3>1 DEF RowsTyped
    <3>4. Audited'
      BY <1>1, <3>1, <3>2, <3>3 DEF Audited
    <3>5. PromotionsAreApplied'
      BY <1>1, <1>2, <3>1, <3>3 DEF PromotionsAreApplied, Writable
    <3> QED
      BY <3>4, <3>5
  <2>5. CASE ReadScores(r)
    <3>1. /\ copy'[r] = [c \in Call |-> {ScoreOf(c)}] /\ pc[r] = "read" /\ pc'[r] = "write"
          /\ \A s \in Recompute \ {r} : pc'[s] = pc[s] /\ work'[s] = work[s] /\ copy'[s] = copy[s]
          /\ UNCHANGED <<verdict, decision, confident, cut>>
      BY <1>1, <1>2, <2>5 DEF ReadScores, RowsTyped
    <3>2. \A c \in Call : copy'[r][c] # {"PROMOTE"} /\ copy[r][c] # {"PROMOTE"}
      BY <1>1, <3>1 DEF ScoreOf, Audited
    <3>3. Audited'
      BY <1>1, <3>1, <3>2 DEF Audited
    <3>4. PromotionsAreApplied'
      BY <1>1, <1>2, <3>1, <3>2 DEF PromotionsAreApplied, Writable
    <3> QED
      BY <3>3, <3>4
  <2>6. CASE WriteScores(r)
    <3>1. /\ copy' = copy \/ copy' = [copy EXCEPT ![r] = NoCopy]
          /\ pc[r] = "write" /\ pc'[r] # "persist"
          /\ \A s \in Recompute \ {r} : pc'[s] = pc[s] /\ work'[s] = work[s]
          /\ UNCHANGED <<verdict, decision, confident, cut>>
      BY <1>1, <1>2, <2>6 DEF WriteScores, RowsTyped
    <3>2. \A c \in Call : copy'[r][c] # {"PROMOTE"} /\ copy[r][c] # {"PROMOTE"}
      <4>1. \A c \in Call : copy[r][c] # {"PROMOTE"} /\ NoCopy[c] # {"PROMOTE"}
        BY <1>1, <3>1 DEF NoCopy, Audited
      <4>2. copy'[r] = copy[r] \/ copy'[r] = NoCopy
        BY <1>1, <1>2, <3>1 DEF RowsTyped
      <4> QED
        BY <4>1, <4>2
    <3>3. \A s \in Recompute \ {r} : copy'[s] = copy[s]
      BY <1>1, <1>2, <3>1 DEF RowsTyped
    <3>4. Audited'
      BY <1>1, <3>1, <3>2, <3>3 DEF Audited
    <3>5. PromotionsAreApplied'
      BY <1>1, <1>2, <3>1, <3>2, <3>3 DEF PromotionsAreApplied, Writable
    <3> QED
      BY <3>4, <3>5
  <2>7. CASE DeletePeriod(r) \/ InsertPeriod(r) \/ RankPeriod(r) \/ SyncCreatorSnapshots(r)
    <3>1. /\ pc[r] # "persist" /\ pc'[r] # "persist"
          /\ \A s \in Recompute \ {r} : pc'[s] = pc[s]
          /\ UNCHANGED <<verdict, decision, confident, cut, work, copy>>
      BY <1>1, <1>2, <2>7 DEF DeletePeriod, InsertPeriod, RankPeriod, SyncCreatorSnapshots, RowsTyped
    <3>2. Audited'
      BY <1>1, <3>1 DEF Audited
    <3>3. PromotionsAreApplied'
      BY <1>1, <3>1 DEF PromotionsAreApplied, Writable
    <3> QED
      BY <3>2, <3>3
  <2>8. CASE Crash(r)
    <3>1. /\ cut' = TRUE /\ pc'[r] = "idle" /\ copy'[r] = NoCopy
          /\ \A s \in Recompute \ {r} : pc'[s] = pc[s] /\ work'[s] = work[s] /\ copy'[s] = copy[s]
          /\ UNCHANGED verdict
      BY <1>1, <1>2, <2>8 DEF Crash, RowsTyped
    <3>2. Audited'
      BY <1>1, <3>1 DEF Audited, NoCopy
    <3> QED
      BY <3>1, <3>2 DEF PromotionsAreApplied
  <2> QED
    BY <2>0, <2>1, <2>2, <2>3, <2>4, <2>5, <2>6, <2>7, <2>8 DEF RecomputeStep
<1>5. CASE UNCHANGED vars
  BY <1>1, <1>5 DEF vars, worldVars, rowVars, boardVars, runVars, Audited, PromotionsAreApplied, Writable
<1> QED
  BY <1>3, <1>4, <1>5, TwoSides

\* A recorded promotion has raised the confidence of its call, or a running audit
\* is about to, or one was cut short (persistValidationDecisions and
\* applyAuditResults are two statements).
THEOREM PromotionsArrive == Spec => []PromotionsAreApplied
<1>1. PromotionInv => PromotionsAreApplied
  BY DEF PromotionInv
<1> QED
  BY <1>1, PromotionInit, PromotionStep, PTL DEF Spec

-----------------------------------------------------------------------------
(* Leaderboards.                                                            *)

Period == 1..Len(Periods)

BoardTyped ==
  /\ DOMAIN stats = Period
  /\ \A i \in Period : stats[i] \in [present : BOOLEAN, scores : {stats[i].scores}, ranked : BOOLEAN]
  /\ \A r \in Recompute : pc[r] \in {"delete", "insert", "rank"} => cursor[r] \in Period

\* A recomputation that will reach the creators: none has inserted the rows that
\* it is about to insert.
Carries(r) ==
  \/ pc[r] \in {"delete", "rank", "sync"}
  \/ pc[r] = "insert" /\ ~stats[cursor[r]].present

\* What a period lacks, or the creators have not been shown, is still to come
\* from a recomputation that has not ended.
Pursued ==
  /\ \A i \in Period : ~stats[i].present => \E r \in Recompute : pc[r] = "insert" /\ cursor[r] = i
  /\ \A i \in Period : (stats[i].present /\ ~stats[i].ranked) =>
       \E r \in Recompute : pc[r] = "rank" /\ cursor[r] = i
  /\ snapshot # [scores |-> stats[1].scores, ranked |-> stats[1].ranked] =>
       \E r \in Recompute : Carries(r)

BoardInv == RowsTyped /\ BoardTyped /\ (~cut => Pursued)

\* There is a first period and a last.
LEMMA PeriodsAreThere == 1 \in Period /\ Len(Periods) \in Period /\ Period \subseteq Nat
  BY OutcomeAssumption DEF Period

\* At first every period has its rows and the creators show them.
LEMMA BoardInit == Init => BoardInv
<1> SUFFICES ASSUME Init PROVE BoardInv
  OBVIOUS
<1>1. stats = [i \in Period |-> [present |-> TRUE, scores |-> {}, ranked |-> TRUE]]
  BY DEF Init, Period
<1>2. snapshot = [scores |-> {}, ranked |-> TRUE] /\ \A p \in Process : pc[p] = "idle"
  BY DEF Init
<1>3. BoardTyped
  BY <1>1, <1>2 DEF BoardTyped, Process
<1>4. Pursued
  BY <1>1, <1>2, PeriodsAreThere DEF Pursued
<1> QED
  BY <1>3, <1>4, RowsTypeInit DEF BoardInv

\* A step of a recomputation before the statements of its first period takes
\* nothing away from what others pursue.
LEMMA BoardAside ==
  ASSUME BoardTyped, ~cut => Pursued, NEW r \in Recompute,
         UNCHANGED <<stats, snapshot>>,
         pc[r] \notin {"delete", "insert", "rank", "sync"},
         pc'[r] \in {"delete", "insert", "rank"} => pc'[r] = "delete" /\ cursor'[r] = 1,
         \A s \in Recompute \ {r} : pc'[s] = pc[s] /\ cursor'[s] = cursor[s],
         cut' = cut
  PROVE  BoardTyped' /\ (~cut' => Pursued')
<1>1. BoardTyped'
  BY PeriodsAreThere DEF BoardTyped
<1>2. ASSUME ~cut PROVE Pursued'
  <2>1. \A s \in Recompute : pc[s] \in {"insert", "rank"} => pc'[s] = pc[s] /\ cursor'[s] = cursor[s]
    OBVIOUS
  <2>2. \A s \in Recompute : Carries(s) => Carries(s)'
    BY DEF Carries
  <2> QED
    BY <1>2, <2>1, <2>2 DEF Pursued
<1> QED
  BY <1>1, <1>2

\* Whatever two recomputations do to a period between each other's statements,
\* one that carries the newest rows is left to finish it.
LEMMA BoardSteps == BoardInv /\ [Next]_vars => BoardInv'
<1> SUFFICES ASSUME BoardInv, [Next]_vars PROVE BoardTyped' /\ (~cut' => Pursued')
  BY RowsTypeStep DEF BoardInv
<1>1. RowsTyped /\ RowsTyped' /\ BoardTyped /\ (~cut => Pursued)
  BY RowsTypeStep DEF BoardInv
<1>2. Recompute \subseteq Process
  BY DEF Process
<1>3. CASE OutcomeStep
  <2>1. /\ \A r \in Recompute : pc'[r] = pc[r] /\ cursor'[r] = cursor[r]
        /\ UNCHANGED <<stats, snapshot, cut>>
    BY <1>1, <1>3, BoardUntouched
  <2>2. BoardTyped'
    BY <1>1, <2>1 DEF BoardTyped
  <2>3. \A r \in Recompute : Carries(r)' <=> Carries(r)
    BY <2>1 DEF Carries
  <2>4. ~cut' => Pursued'
    BY <1>1, <2>1, <2>3 DEF Pursued
  <2> QED
    BY <2>2, <2>4
<1>4. CASE BoardStep
  <2>0. PICK r \in Recompute : AuditStart(r) \/ RecomputeStart(r) \/ RecomputeStep(r) \/ Crash(r)
    BY <1>4 DEF BoardStep
  <2> USE DEF worldVars, rowVars, boardVars, runVars, Goto
  <2>1. CASE AuditStart(r) \/ RecomputeStart(r) \/ PersistDecision(r) \/ ApplyAuditResults(r) \/ ReadScores(r)
    <3>1. /\ UNCHANGED <<stats, snapshot, cut, cursor>>
          /\ pc[r] \notin {"delete", "insert", "rank", "sync"}
          /\ pc'[r] \notin {"delete", "insert", "rank"}
          /\ \A s \in Recompute \ {r} : pc'[s] = pc[s]
      BY <1>1, <1>2, <2>1 DEF AuditStart, RecomputeStart, PersistDecision, ApplyAuditResults, ReadScores, RowsTyped
    <3> QED
      BY <1>1, <3>1, BoardAside
  <2>2. CASE WriteScores(r)
    <3>1. /\ UNCHANGED <<stats, snapshot, cut>> /\ pc[r] = "write"
          /\ \/ pc'[r] = "delete" /\ cursor'[r] = 1
             \/ pc'[r] = "write"
          /\ \A s \in Recompute \ {r} : pc'[s] = pc[s] /\ cursor'[s] = cursor[s]
      BY <1>1, <1>2, <2>2 DEF WriteScores, RowsTyped
    <3> QED
      BY <1>1, <3>1, BoardAside
  <2>3. CASE DeletePeriod(r)
    <3> DEFINE i == cursor[r]
    <3>1. /\ pc[r] = "delete" /\ i \in Period
          /\ stats' = [stats EXCEPT ![i] = [present |-> FALSE, scores |-> {}, ranked |-> FALSE]]
          /\ UNCHANGED <<cut, cursor, snapshot>> /\ pc'[r] = "insert"
          /\ \A s \in Recompute \ {r} : pc'[s] = pc[s]
      BY <1>1, <1>2, <2>3 DEF DeletePeriod, RowsTyped, BoardTyped
    <3>2. stats'[i] = [present |-> FALSE, scores |-> {}, ranked |-> FALSE]
          /\ \A k \in Period \ {i} : stats'[k] = stats[k]
      BY <1>1, <3>1 DEF BoardTyped
    <3>3. BoardTyped'
      BY <1>1, <3>1, <3>2 DEF BoardTyped
    <3>4. Carries(r)'
      BY <3>1, <3>2 DEF Carries
    <3> HIDE DEF i
    <3>5. ASSUME ~cut PROVE Pursued'
      <4>1. Pursued
        BY <1>1, <3>5
      <4>2. ASSUME NEW k \in Period \ {i}
            PROVE  /\ ~stats'[k].present => \E s \in Recompute : pc'[s] = "insert" /\ cursor'[s] = k
                   /\ (stats'[k].present /\ ~stats'[k].ranked) =>
                        \E s \in Recompute : pc'[s] = "rank" /\ cursor'[s] = k
        BY <3>1, <3>2, <4>1 DEF Pursued
      <4>3. /\ pc'[r] = "insert" /\ cursor'[r] = i
            /\ ~stats'[i].present
        BY <3>1, <3>2 DEF i
      <4> QED
        BY <3>4, <4>2, <4>3 DEF Pursued
    <3> QED
      BY <3>1, <3>3, <3>5
  <2>4. CASE InsertPeriod(r)
    <3> DEFINE i == cursor[r]
    <3>1. /\ pc[r] = "insert" /\ i \in Period
          /\ UNCHANGED <<cut, snapshot>>
          /\ \A s \in Recompute \ {r} : pc'[s] = pc[s] /\ cursor'[s] = cursor[s]
      BY <1>1, <1>2, <2>4 DEF InsertPeriod, RowsTyped, BoardTyped
    <3>2. CASE stats[i].present
      <4>1. pc'[r] = "idle" /\ UNCHANGED stats
        BY <1>1, <1>2, <2>4, <3>2 DEF InsertPeriod, RowsTyped
      <4>2. BoardTyped'
        BY <1>1, <3>1, <4>1 DEF BoardTyped
      <4>3. ~Carries(r)
        BY <3>1, <3>2 DEF Carries
      <4>4. \A s \in Recompute : Carries(s) => Carries(s)'
        BY <3>1, <4>1, <4>3 DEF Carries
      <4>5. ASSUME ~cut PROVE Pursued'
        BY <1>1, <3>1, <3>2, <4>1, <4>4, <4>5 DEF Pursued
      <4> QED
        BY <3>1, <4>2, <4>5
    <3>3. CASE ~stats[i].present
      <4>1. /\ pc'[r] = "rank" /\ cursor'[r] = i
            /\ stats' = [stats EXCEPT ![i] = [present |-> TRUE, scores |-> Scores, ranked |-> FALSE]]
        BY <1>1, <1>2, <2>4, <3>3 DEF InsertPeriod, RowsTyped
      <4>2. stats'[i] = [present |-> TRUE, scores |-> Scores, ranked |-> FALSE]
            /\ \A k \in Period \ {i} : stats'[k] = stats[k]
        BY <1>1, <3>1, <4>1 DEF BoardTyped
      <4>3. BoardTyped'
        BY <1>1, <3>1, <4>1, <4>2 DEF BoardTyped
      <4>4. Carries(r)'
        BY <4>1 DEF Carries
      <4> HIDE DEF i
      <4>5. ASSUME ~cut PROVE Pursued'
        <5>1. Pursued
          BY <1>1, <4>5
        <5>2. ASSUME NEW k \in Period \ {i}
              PROVE  /\ ~stats'[k].present => \E s \in Recompute : pc'[s] = "insert" /\ cursor'[s] = k
                     /\ (stats'[k].present /\ ~stats'[k].ranked) =>
                          \E s \in Recompute : pc'[s] = "rank" /\ cursor'[s] = k
          BY <3>1, <4>1, <4>2, <5>1 DEF Pursued, i
        <5>3. pc'[r] = "rank" /\ cursor'[r] = i /\ stats'[i].present
          BY <4>1, <4>2
        <5> QED
          BY <4>4, <5>2, <5>3 DEF Pursued
      <4> QED
        BY <3>1, <4>3, <4>5
    <3> QED
      BY <3>2, <3>3
  <2>5. CASE RankPeriod(r)
    <3> DEFINE i == cursor[r]
    <3>1. /\ pc[r] = "rank" /\ i \in Period /\ UNCHANGED <<cut, snapshot>>
          /\ stats' = [stats EXCEPT ![i].ranked = @ \/ stats[i].present]
          /\ \/ pc'[r] = "delete" /\ cursor'[r] \in Period
             \/ pc'[r] = "sync"
          /\ \A s \in Recompute \ {r} : pc'[s] = pc[s] /\ cursor'[s] = cursor[s]
      <4>1. cursor[r] \in Period
        BY <1>1, <2>5 DEF RankPeriod, BoardTyped
      <4>2. cursor[r] < Len(Periods) => cursor[r] + 1 \in Period
        BY <4>1, PeriodsAreThere DEF Period
      <4> QED
        BY <1>1, <1>2, <2>5, <4>1, <4>2 DEF RankPeriod, RowsTyped
    <3>2. /\ stats'[i] = [stats[i] EXCEPT !.ranked = stats[i].ranked \/ stats[i].present]
          /\ \A k \in Period \ {i} : stats'[k] = stats[k]
          /\ DOMAIN stats' = Period
      BY <1>1, <3>1 DEF BoardTyped
    <3>3. /\ stats'[i] \in [present : BOOLEAN, scores : {stats'[i].scores}, ranked : BOOLEAN]
          /\ stats'[i].present = stats[i].present
          /\ stats'[i].ranked = (stats[i].ranked \/ stats[i].present)
      BY <1>1, <3>1, <3>2 DEF BoardTyped
    <3>4. BoardTyped'
      BY <1>1, <3>1, <3>2, <3>3 DEF BoardTyped
    <3>5. Carries(r)'
      BY <3>1 DEF Carries
    <3>6. ASSUME ~cut PROVE Pursued'
      BY <1>1, <3>1, <3>2, <3>3, <3>5, <3>6 DEF Pursued
    <3> QED
      BY <3>1, <3>4, <3>6
  <2>6. CASE SyncCreatorSnapshots(r)
    <3>1. /\ pc[r] = "sync" /\ pc'[r] = "idle" /\ UNCHANGED <<cut, cursor, stats>>
          /\ stats[1].present => snapshot' = [scores |-> stats[1].scores, ranked |-> stats[1].ranked]
          /\ \A s \in Recompute \ {r} : pc'[s] = pc[s]
      BY <1>1, <1>2, <2>6 DEF SyncCreatorSnapshots, RowsTyped
    <3>2. BoardTyped'
      BY <1>1, <3>1 DEF BoardTyped
    <3>3. ASSUME ~cut, ~stats[1].present PROVE \E s \in Recompute : Carries(s)'
      <4>1. PICK s \in Recompute : pc[s] = "insert" /\ cursor[s] = 1
        BY <1>1, <3>3, PeriodsAreThere DEF Pursued
      <4> QED
        BY <3>1, <3>3, <4>1 DEF Carries
    <3>4. ASSUME ~cut PROVE Pursued'
      BY <1>1, <3>1, <3>3, <3>4 DEF Pursued
    <3> QED
      BY <3>1, <3>2, <3>4
  <2>7. CASE Crash(r)
    <3>1. /\ cut' = TRUE /\ pc'[r] = "idle" /\ UNCHANGED stats
          /\ \A s \in Recompute \ {r} : pc'[s] = pc[s] /\ cursor'[s] = cursor[s]
      BY <1>1, <1>2, <2>7 DEF Crash, RowsTyped
    <3> QED
      BY <1>1, <3>1 DEF BoardTyped
  <2> QED
    BY <2>0, <2>1, <2>2, <2>3, <2>4, <2>5, <2>6, <2>7 DEF RecomputeStep
<1>5. CASE UNCHANGED vars
  BY <1>1, <1>5 DEF vars, worldVars, rowVars, boardVars, runVars, BoardTyped, Pursued, Carries
<1> QED
  BY <1>3, <1>4, <1>5, TwoSides

\* However the statements of recomputations fall between each other: once all have
\* ended, and none was cut short, every period has ranked rows and the creators
\* show those of all_time (recomputeCreatorStats and syncCreatorSnapshots).
THEOREM LeaderboardsEndWhole == Spec => []LeaderboardWhole
<1>1. BoardInv => LeaderboardWhole
  BY PeriodsAreThere DEF BoardInv, BoardTyped, Pursued, Carries, LeaderboardWhole, Period
<1> QED
  BY <1>1, BoardInit, BoardSteps, PTL DEF Spec

-----------------------------------------------------------------------------
(* Outcomes.                                                                *)

\* A column whose moment has come and whose candle the exchange has.
Known(c, x) == Elapsed(x[2]) /\ market[KeyOf(c, x)] # None

\* All that is stored, remembered or about to be written came from the exchange.
CandlesReal == \A k, place : <<k, place>> \in candles => place = market[k] /\ place # None
PricesReal  == \A c \in Call : \A x \in price[c] : Known(c, x)
CachesReal  == \A m \in Matcher : \A k : <<k, TRUE>> \in cache[m] => market[k] # None
CopiesReal  == \A m \in Matcher, c \in Call : \A x \in copy[m][c] \cap Column : Known(c, x)
AttachReal  ==
  \A r \in Repair : pc[r] = "attach" =>
    \A c \in Lowest(work[r], 1) : market[KeyOf(c, <<"coin", "call">>)] # None
Real == CandlesReal /\ PricesReal /\ CachesReal /\ CopiesReal /\ AttachReal

\* A matcher holds copies only of rows it still has to write.
Copied ==
  \A m \in Matcher, c \in Call : copy[m][c] # {} =>
    pc[m] = "match" /\ c \in work[m] /\ <<"coin", "call">> \in copy[m][c]

\* The lock keeps the matchers that take part apart while nothing goes wrong.
Locked ==
  \A m \in Matcher :
    /\ pc[m] # "idle" => m \in cast /\ (trouble = 0 => lock = m)
    /\ pc[m] = "statement" => m \in SetBased

\* A script remembers a candle as missing only if there is none, and no copy
\* lacks a stored price.
Complete ==
  (trouble = 0 /\ cast \cap Matcher \subseteq Scripts) =>
    /\ \A m \in Scripts : \A k : <<k, FALSE>> \in cache[m] => market[k] = None
    /\ \A m \in Matcher, c \in Call : copy[m][c] # {} => price[c] \subseteq copy[m][c]

OutcomesInv == RowsTyped /\ Real /\ Copied /\ Locked /\ Complete

\* The exchange and the cast stay, time and trouble only grow.
LEMMA WorldGrows ==
  ASSUME RowsTyped, OutcomeStep
  PROVE  /\ UNCHANGED <<market, cast>> /\ age' \in {age, age + 1}
         /\ trouble' = 0 => trouble = 0
<1> DEFINE Grown == UNCHANGED <<market, cast>> /\ age' \in {age, age + 1} /\ (trouble' = 0 => trouble = 0)
<1> USE DEF RowsTyped, worldVars, rowVars, boardVars, runVars, Trouble
<1>1. CASE HorizonPasses \/ SessionEnds
  BY <1>1 DEF HorizonPasses, SessionEnds
<1>2. ASSUME NEW s \in Listed, RefreshSymbol(s) PROVE Grown
  BY <1>2 DEF RefreshSymbol
<1>3. ASSUME NEW m \in Matcher, Acquire(m) PROVE Grown
  BY <1>3 DEF Acquire
<1>4. ASSUME NEW m, SelectBatch(m) \/ EndBatch(m) \/ SetBasedStatement(m) \/ Unlock(m) PROVE Grown
  BY <1>4 DEF SelectBatch, EndBatch, SetBasedStatement, Unlock
<1>5. ASSUME NEW m, NEW c, NEW refused, Lookup(m, c, refused) PROVE Grown
  BY <1>5 DEF Lookup
<1>6. ASSUME NEW m, NEW c, WriteRow(m, c) \/ LookupThrows(m, c) PROVE Grown
  BY <1>6 DEF WriteRow, LookupThrows
<1>7. ASSUME NEW r, RepairStart(r) \/ RepairStep(r) PROVE Grown
  BY <1>7 DEF RepairStart, RepairStep, FindNearestCandle, AttachPrice, RepairEnd
<1>8. ASSUME NEW p, Crash(p) PROVE Grown
  BY <1>8 DEF Crash
<1> QED
  BY <1>1, <1>2, <1>3, <1>4, <1>5, <1>6, <1>7, <1>8 DEF OutcomeStep, Match

\* What was known stays known.
LEMMA KnownLasts ==
  ASSUME age \in Nat, age' \in {age, age + 1}, market' = market,
         NEW c, NEW x, Known(c, x)
  PROVE  Known(c, x)'
<1>1. PICK i \in 1..(age + 1) : Moments[i] = x[2]
  BY DEF Known, Elapsed
<1>2. i \in 1..(age' + 1)
  <2>1. CASE age' = age
    BY <1>1, <2>1
  <2>2. CASE age' = age + 1
    BY <1>1, <2>2
  <2> QED
    BY <2>1, <2>2
<1>3. Elapsed(x[2])'
  BY <1>1, <1>2 DEF Elapsed
<1>4. market'[KeyOf(c, x)] # None
  BY DEF Known
<1> QED
  BY <1>3, <1>4 DEF Known

\* A candle that a lookup finds is one the exchange has.
LEMMA FoundIsReal ==
  ASSUME Real, NEW m \in Matcher, NEW k, NEW refused, GetCandleAt(m, k, refused)
  PROVE  market[k] # None
<1>1. CASE Remembered(m, k)
  BY <1>1 DEF GetCandleAt, Real, CachesReal
<1>2. CASE ~Remembered(m, k)
  <2>1. <<k, "before">> \in candles \/ Fetches(m, k, refused)
    BY <1>2 DEF GetCandleAt
  <2>2. CASE <<k, "before">> \in candles
    BY <2>2 DEF Real, CandlesReal
  <2> QED
    BY <2>1, <2>2 DEF Fetches
<1> QED
  BY <1>1, <1>2

\* Rows that start grown were filled from the exchange.
LEMMA RealInit == Init => Real
<1> SUFFICES ASSUME Init PROVE Real
  OBVIOUS
<1>1. PICK grown \in BOOLEAN :
        /\ age = IF grown THEN 2 ELSE 0
        /\ candles = IF grown THEN {<<k, market[k]>> : k \in {x \in Key : market[x] # None}} ELSE {}
        /\ price = [c \in Call |-> IF grown /\ market[KeyOf(c, <<"coin", "call">>)] # None
                                   THEN {x \in Column : market[KeyOf(c, x)] # None} ELSE {}]
  BY DEF Init
<1>2. \A k, place : <<k, place>> \in candles => place = market[k] /\ place # None
  BY <1>1
<1>3. ASSUME NEW c \in Call, NEW x \in price[c] PROVE Known(c, x)
  <2>1. grown /\ x \in Column /\ market[KeyOf(c, x)] # None /\ age = 2
    BY <1>1, <1>3
  <2>2. x[2] \in {"call", "30d", "90d"}
    BY <2>1 DEF Column
  <2>3. Elapsed(x[2])
    BY <2>1, <2>2 DEF Elapsed, Moments
  <2> QED
    BY <2>1, <2>3 DEF Known
<1>4. /\ \A m \in Matcher : cache[m] = {}
      /\ \A m \in Matcher, c \in Call : copy[m][c] = {}
      /\ \A r \in Repair : pc[r] = "idle"
  BY DEF Init, NoCopy, Process
<1> QED
  BY <1>2, <1>3, <1>4
  DEF Real, CandlesReal, PricesReal, CachesReal, CopiesReal, AttachReal

\* A part of Real lasts while what it is about stays or gets less.
LEMMA PartsKept ==
  ASSUME RowsTyped, Real, OutcomeStep
  PROVE  /\ candles' = candles => CandlesReal'
         /\ price' = price => PricesReal'
         /\ (\A m \in Matcher : cache'[m] \subseteq cache[m]) => CachesReal'
         /\ (\A m \in Matcher, c \in Call : copy'[m][c] \subseteq copy[m][c]) => CopiesReal'
         /\ (\A r \in Repair : pc'[r] = "attach" => pc[r] = "attach" /\ work'[r] = work[r]) => AttachReal'
<1>1. market' = market /\ \A c, x : Known(c, x) => Known(c, x)'
  BY WorldGrows, KnownLasts DEF RowsTyped
<1>2. candles' = candles => CandlesReal'
  BY <1>1 DEF Real, CandlesReal
<1>3. price' = price => PricesReal'
  BY <1>1 DEF Real, PricesReal
<1>4. (\A m \in Matcher : cache'[m] \subseteq cache[m]) => CachesReal'
  BY <1>1 DEF Real, CachesReal
<1>5. (\A m \in Matcher, c \in Call : copy'[m][c] \subseteq copy[m][c]) => CopiesReal'
  BY <1>1 DEF Real, CopiesReal
<1>6. (\A r \in Repair : pc'[r] = "attach" => pc[r] = "attach" /\ work'[r] = work[r]) => AttachReal'
  BY <1>1 DEF Real, AttachReal, Lowest
<1> QED
  BY <1>2, <1>3, <1>4, <1>5, <1>6

\* A lookup stores, remembers and copies what the exchange has.
LEMMA RealLookup ==
  ASSUME RowsTyped, Real, OutcomeStep, NEW m \in Matcher, NEW c \in work[m], NEW refused, Lookup(m, c, refused)
  PROVE  Real'
<1>0. c \in Call /\ m \in Process /\ market' = market /\ price' = price /\ pc' = pc /\ age' = age
  BY OutcomeAssumption DEF RowsTyped, Lookup, Process, rowVars
<1>1. CandlesReal'
  <2>1. candles' = candles \cup
          {<<k, market[k]>> : k \in {y \in {KeyOf(c, x) : x \in ElapsedColumns} : Fetches(m, y, refused)}}
    BY DEF Lookup
  <2>2. \A k : Fetches(m, k, refused) => market[k] # None
    BY DEF Fetches
  <2> QED
    BY <1>0, <2>1, <2>2 DEF Real, CandlesReal
<1>2. CachesReal'
  <2> DEFINE new == {<<k, GetCandleAt(m, k, refused)>> : k \in {KeyOf(c, x) : x \in ElapsedColumns}}
  <2>1. cache' = [cache EXCEPT ![m] = @ \cup new]
    BY DEF Lookup
  <2>2. ASSUME NEW k, <<k, TRUE>> \in new PROVE market[k] # None
    <3>1. GetCandleAt(m, k, refused) = TRUE
      BY <2>2
    <3> QED
      BY <3>1, FoundIsReal
  <2> HIDE DEF new
  <2>3. ASSUME NEW n \in Matcher, NEW k, <<k, TRUE>> \in cache'[n] PROVE market[k] # None
    BY <2>1, <2>2, <2>3 DEF Real, CachesReal, RowsTyped
  <2> QED
    BY <1>0, <2>3 DEF CachesReal
<1>3. CopiesReal'
  <2> DEFINE columns == {x \in ElapsedColumns : GetCandleAt(m, KeyOf(c, x), refused)}
             marks == columns \cup (IF Elapsed("90d") THEN {<<"coin", "hit">>} ELSE {})
  <2>1. copy' = copy \/ copy' = [copy EXCEPT ![m][c] = marks]
    BY DEF Lookup
  <2>2. ASSUME NEW x \in marks \cap Column PROVE Known(c, x)
    <3>1. x \in columns
      BY <2>2 DEF Column
    <3>2. Elapsed(x[2]) /\ GetCandleAt(m, KeyOf(c, x), refused)
      BY <3>1 DEF ElapsedColumns
    <3> QED
      BY <3>2, FoundIsReal DEF Known
  <2> HIDE DEF marks
  <2>3. ASSUME NEW n \in Matcher, NEW d \in Call, NEW x \in copy'[n][d] \cap Column PROVE Known(d, x)
    <3>1. CASE n = m /\ d = c /\ copy' # copy
      BY <1>0, <2>1, <2>2, <2>3, <3>1 DEF RowsTyped
    <3>2. CASE ~(n = m /\ d = c /\ copy' # copy)
      <4>1. copy'[n][d] = copy[n][d]
        BY <1>0, <2>1, <3>2 DEF RowsTyped, Process
      <4> QED
        BY <2>3, <4>1 DEF Real, CopiesReal
    <3> QED
      BY <3>1, <3>2
  <2> QED
    BY <1>0, <2>3 DEF CopiesReal, Known, Elapsed
<1>4. \A r \in Repair : work'[r] = work[r]
  BY OutcomeAssumption DEF Lookup, RowsTyped, Process
<1> QED
  BY <1>0, <1>1, <1>2, <1>3, <1>4, PartsKept DEF Real

\* Of the lowest call there is one.
LEMMA LowestIsOne ==
  ASSUME NEW calls \in SUBSET Call, NEW c \in Lowest(calls, 1), NEW d \in Lowest(calls, 1)
  PROVE  c = d
<1>1. \A n, m \in calls : n < m => m \notin Lowest(calls, 1)
  <2> SUFFICES ASSUME NEW n \in calls, NEW m \in calls, n < m, m \in Lowest(calls, 1) PROVE FALSE
    OBVIOUS
  <2> DEFINE below == {e \in calls : e < m}
  <2>1. IsFiniteSet(below)
    BY OutcomeAssumption, FS_Subset
  <2>2. Cardinality(below) \in Nat /\ Cardinality(below) < 1
    BY <2>1, FS_CardinalityType DEF Lowest
  <2>3. below = {}
    BY <2>1, <2>2, FS_EmptySet
  <2> QED
    BY <2>3
<1> QED
  BY <1>1, OutcomeAssumption DEF Lowest

\* Whatever horizons, candles, matchers and repairs do, nothing is made up.
LEMMA RealStep == RowsTyped /\ Real /\ OutcomeStep => Real'
<1> SUFFICES ASSUME RowsTyped, Real, OutcomeStep PROVE Real'
  OBVIOUS
<1>0. /\ market' = market /\ \A c, x : Known(c, x) => Known(c, x)'
      /\ \A r \in Repair : r \in Process /\ r \notin Matcher
      /\ Matcher \subseteq Process
  BY WorldGrows, KnownLasts, OutcomeAssumption DEF RowsTyped, Process
<1> USE DEF worldVars, rowVars, boardVars, runVars, Goto
<1>1. CASE HorizonPasses \/ SessionEnds
  <2>1. UNCHANGED <<candles, price, cache, copy, pc, work>>
    BY <1>1 DEF HorizonPasses, SessionEnds
  <2> QED
    BY <2>1, PartsKept DEF Real
<1>2. ASSUME NEW s \in Listed, RefreshSymbol(s) PROVE Real'
  <2>1. UNCHANGED <<price, cache, copy, pc, work>>
    BY <1>2 DEF RefreshSymbol
  <2>2. CandlesReal'
    BY <1>0, <1>2 DEF RefreshSymbol, Real, CandlesReal
  <2> QED
    BY <2>1, <2>2, PartsKept DEF Real
<1>3. ASSUME NEW m \in Matcher, Acquire(m) PROVE Real'
  <2>1. UNCHANGED <<candles, price, cache, copy, work>> /\ \A r \in Repair : pc'[r] = pc[r]
    BY <1>0, <1>3 DEF Acquire, RowsTyped
  <2> QED
    BY <2>1, PartsKept DEF Real
<1>4. ASSUME NEW m \in Matcher, Match(m) PROVE Real'
  <2>1. CASE SelectBatch(m)
    <3>1. UNCHANGED <<candles, price, cache, copy>> /\ \A r \in Repair : pc'[r] = pc[r] /\ work'[r] = work[r]
      BY <1>0, <2>1 DEF SelectBatch, RowsTyped
    <3> QED
      BY <3>1, PartsKept DEF Real
  <2>2. CASE EndBatch(m)
    <3>1. UNCHANGED <<candles, price, cache, copy, work>> /\ \A r \in Repair : pc'[r] = pc[r]
      BY <1>0, <2>2 DEF EndBatch, RowsTyped
    <3> QED
      BY <3>1, PartsKept DEF Real
  <2>3. CASE SetBasedStatement(m)
    <3> DEFINE found(c) == {x \in ElapsedColumns : <<KeyOf(c, x), "before">> \in candles}
    <3>1. UNCHANGED <<candles, cache, copy, work, age>> /\ \A r \in Repair : pc'[r] = pc[r]
      BY <1>0, <2>3 DEF SetBasedStatement, RowsTyped
    <3>2. \A c \in Call : price'[c] = price[c] \/ price'[c] = found(c)
      BY <2>3 DEF SetBasedStatement
    <3>3. ASSUME NEW c \in Call, NEW x \in found(c) PROVE Known(c, x)
      BY <3>3 DEF Known, ElapsedColumns, Real, CandlesReal
    <3> HIDE DEF found
    <3>4. PricesReal'
      BY <1>0, <3>2, <3>3 DEF Real, PricesReal
    <3> QED
      BY <3>1, <3>4, PartsKept DEF Real
  <2>4. CASE Unlock(m)
    <3>1. /\ UNCHANGED <<candles, price, copy, work>> /\ \A r \in Repair : pc'[r] = pc[r]
          /\ \A n \in Matcher : cache'[n] \subseteq cache[n]
      BY <1>0, <2>4 DEF Unlock, RowsTyped
    <3> QED
      BY <3>1, PartsKept DEF Real
  <2>5. ASSUME NEW c \in work[m], Lookup(m, c, {}) PROVE Real'
    BY <2>5, RealLookup
  <2>6. ASSUME NEW c \in work[m], WriteRow(m, c) PROVE Real'
    <3>0. c \in Call
      BY <1>0 DEF RowsTyped
    <3>1. /\ UNCHANGED <<candles, cache, pc>> /\ \A r \in Repair : work'[r] = work[r]
          /\ \A n \in Matcher, d \in Call : copy'[n][d] \subseteq copy[n][d]
          /\ \A d \in Call : price'[d] = IF d = c THEN copy[m][c] \cap Column ELSE price[d]
      BY <1>0, <2>6, <3>0 DEF WriteRow, RowsTyped
    <3>2. PricesReal'
      BY <1>0, <3>1 DEF Real, PricesReal, CopiesReal
    <3> QED
      BY <3>1, <3>2, PartsKept DEF Real
  <2> QED
    BY <1>4, <2>1, <2>2, <2>3, <2>4, <2>5, <2>6 DEF Match
<1>5. ASSUME NEW m \in Matcher, NEW c \in work[m], LookupThrows(m, c) PROVE Real'
  <2>1. /\ UNCHANGED <<candles, price, cache, pc>> /\ \A r \in Repair : work'[r] = work[r]
        /\ \A n \in Matcher, d \in Call : copy'[n][d] \subseteq copy[n][d]
    BY <1>0, <1>5 DEF LookupThrows, RowsTyped
  <2> QED
    BY <2>1, PartsKept DEF Real
<1>6. ASSUME NEW m \in Matcher, NEW c \in work[m], NEW k \in Key, Lookup(m, c, {k}) PROVE Real'
  BY <1>6, RealLookup
<1>7. ASSUME NEW r \in Repair, RepairStart(r) \/ RepairStep(r) PROVE Real'
  <2> USE <1>0
  <2>1. CASE RepairStart(r)
    <3>1. /\ UNCHANGED <<candles, price, cache, copy>> /\ pc'[r] = "repair"
          /\ \A s \in Repair \ {r} : pc'[s] = pc[s] /\ work'[s] = work[s]
      BY <2>1 DEF RepairStart, RowsTyped
    <3> QED
      BY <3>1, PartsKept DEF Real
  <2>2. CASE FindNearestCandle(r)
    <3>1. PICK c \in Lowest(work[r], 1) :
            LET k == KeyOf(c, <<"coin", "call">>)
                local == \E place \in {"before", "after"} : <<k, place>> \in candles
                fetched == ~local /\ r \in Fallback /\ market[k] # None
            IN /\ candles' = IF fetched THEN candles \cup {<<k, market[k]>>} ELSE candles
               /\ IF local \/ fetched
                  THEN Goto(r, "attach") /\ UNCHANGED work
                  ELSE work' = [work EXCEPT ![r] = @ \ {c}] /\ UNCHANGED pc
      BY <2>2 DEF FindNearestCandle
    <3>2. UNCHANGED <<price, cache, copy>> /\ pc[r] = "repair"
      BY <2>2 DEF FindNearestCandle
    <3>3. CandlesReal'
      BY <3>1 DEF Real, CandlesReal
    <3>4. pc'[r] = "attach" => work' = work /\ market[KeyOf(c, <<"coin", "call">>)] # None
      BY <3>1, <3>2 DEF RowsTyped, Real, CandlesReal
    <3>5. \A s \in Repair \ {r} : pc'[s] = pc[s] /\ work'[s] = work[s]
      BY <3>1 DEF RowsTyped
    <3>6. \A d \in Lowest(work[r], 1) : d = c
      BY <3>1, LowestIsOne DEF RowsTyped
    <3>7. AttachReal'
      BY <3>4, <3>5, <3>6 DEF Real, AttachReal, Lowest
    <3> QED
      BY <3>2, <3>3, <3>7, PartsKept DEF Real
  <2>3. CASE AttachPrice(r)
    <3>1. PICK c \in Lowest(work[r], 1) :
            /\ price' = [price EXCEPT ![c] = @ \cup {<<"coin", "call">>}]
            /\ work' = [work EXCEPT ![r] = @ \ {c}]
      BY <2>3 DEF AttachPrice
    <3>2. /\ UNCHANGED <<candles, cache, copy>> /\ pc[r] = "attach" /\ pc'[r] = "repair"
          /\ \A s \in Repair \ {r} : pc'[s] = pc[s] /\ work'[s] = work[s]
      BY <2>3, <3>1 DEF AttachPrice, RowsTyped
    <3>3. Elapsed("call")
      BY DEF Elapsed, Moments, RowsTyped
    <3>4. Known(c, <<"coin", "call">>)
      BY <3>1, <3>2, <3>3 DEF Known, Real, AttachReal
    <3>5. PricesReal'
      BY <3>1, <3>4 DEF Real, PricesReal, RowsTyped
    <3> QED
      BY <3>2, <3>5, PartsKept DEF Real
  <2>4. CASE RepairEnd(r)
    <3>1. /\ UNCHANGED <<candles, price, cache, copy, work>> /\ pc'[r] = "idle"
          /\ \A s \in Repair \ {r} : pc'[s] = pc[s]
      BY <2>4 DEF RepairEnd, RowsTyped
    <3> QED
      BY <3>1, PartsKept DEF Real
  <2> QED
    BY <1>7, <2>1, <2>2, <2>3, <2>4 DEF RepairStep
<1>8. ASSUME NEW p \in Matcher \cup Repair, Crash(p) PROVE Real'
  <2>0. p \in Process
    BY <1>0
  <2>1. /\ UNCHANGED <<candles, price>>
        /\ \A n \in Matcher : cache'[n] \subseteq cache[n]
        /\ \A n \in Matcher, d \in Call : copy'[n][d] \subseteq copy[n][d]
        /\ pc'[p] = "idle" /\ \A s \in Repair \ {p} : pc'[s] = pc[s] /\ work'[s] = work[s]
    BY <1>0, <1>8, <2>0 DEF Crash, NoCopy, RowsTyped
  <2> QED
    BY <2>1, PartsKept DEF Real
<1> QED
  BY <1>1, <1>2, <1>3, <1>4, <1>5, <1>6, <1>7, <1>8 DEF OutcomeStep

\* Copies are of rows still to be written.
LEMMA CopiedStep == RowsTyped /\ Copied /\ OutcomeStep => Copied'
<1> SUFFICES ASSUME RowsTyped, Copied, OutcomeStep PROVE Copied'
  OBVIOUS
<1>0. Matcher \subseteq Process /\ \A r \in Repair : r \in Process /\ r \notin Matcher
  BY OutcomeAssumption DEF Process
<1> USE DEF worldVars, rowVars, boardVars, runVars, Goto
<1>1. CASE HorizonPasses \/ SessionEnds
  BY <1>1 DEF HorizonPasses, SessionEnds, Copied
<1>2. ASSUME NEW s \in Listed, RefreshSymbol(s) PROVE Copied'
  BY <1>2 DEF RefreshSymbol, Copied
<1>3. ASSUME NEW m \in Matcher, Acquire(m) PROVE Copied'
  BY <1>0, <1>3 DEF Acquire, RowsTyped, Copied
<1>4. ASSUME NEW m \in Matcher, NEW c \in work[m], NEW refused, Lookup(m, c, refused) PROVE Copied'
  <2> DEFINE columns == {x \in ElapsedColumns : GetCandleAt(m, KeyOf(c, x), refused)}
             marks == columns \cup (IF Elapsed("90d") THEN {<<"coin", "hit">>} ELSE {})
  <2>1. /\ pc' = pc /\ pc[m] = "match" /\ copy[m][c] = {} /\ c \in Call
        /\ \/ /\ <<"coin", "call">> \in columns
              /\ copy' = [copy EXCEPT ![m][c] = marks] /\ UNCHANGED work
           \/ UNCHANGED copy /\ work' = [work EXCEPT ![m] = @ \ {c}]
    BY <1>0, <1>4 DEF Lookup, RowsTyped
  <2>2. <<"coin", "call">> \in columns => <<"coin", "call">> \in marks
    OBVIOUS
  <2> HIDE DEF columns, marks
  <2>3. CASE <<"coin", "call">> \in columns /\ copy' = [copy EXCEPT ![m][c] = marks] /\ UNCHANGED work
    BY <1>0, <2>1, <2>2, <2>3 DEF RowsTyped, Copied
  <2>4. CASE UNCHANGED copy /\ work' = [work EXCEPT ![m] = @ \ {c}]
    BY <1>0, <2>1, <2>4 DEF RowsTyped, Copied
  <2> QED
    BY <2>1, <2>3, <2>4
<1>5. ASSUME NEW m \in Matcher, Match(m) PROVE Copied'
  <2>1. CASE SelectBatch(m)
    <3>1. /\ UNCHANGED copy /\ \A c \in Call : copy[m][c] = {}
          /\ \A n \in Matcher \ {m} : pc'[n] = pc[n] /\ work'[n] = work[n]
      BY <1>0, <2>1 DEF SelectBatch, RowsTyped, Copied
    <3> QED
      BY <3>1 DEF Copied
  <2>2. CASE EndBatch(m) \/ SetBasedStatement(m) \/ Unlock(m)
    <3>1. /\ UNCHANGED <<copy, work>> /\ \A c \in Call : copy[m][c] = {}
          /\ \A n \in Matcher \ {m} : pc'[n] = pc[n]
      BY <1>0, <2>2 DEF EndBatch, SetBasedStatement, Unlock, RowsTyped, Copied
    <3> QED
      BY <3>1 DEF Copied
  <2>3. ASSUME NEW c \in work[m], WriteRow(m, c) PROVE Copied'
    BY <1>0, <2>3 DEF WriteRow, RowsTyped, Copied
  <2> QED
    BY <1>4, <1>5, <2>1, <2>2, <2>3 DEF Match
<1>6. ASSUME NEW m \in Matcher, NEW c \in work[m], LookupThrows(m, c) PROVE Copied'
  BY <1>0, <1>6 DEF LookupThrows, RowsTyped, Copied
<1>7. ASSUME NEW r \in Repair, RepairStart(r) \/ RepairStep(r) PROVE Copied'
  <2>1. UNCHANGED copy /\ \A n \in Matcher : pc'[n] = pc[n] /\ work'[n] = work[n]
    BY <1>0, <1>7 DEF RepairStart, RepairStep, FindNearestCandle, AttachPrice, RepairEnd, RowsTyped
  <2> QED
    BY <2>1 DEF Copied
<1>8. ASSUME NEW p \in Matcher \cup Repair, Crash(p) PROVE Copied'
  <2>1. /\ copy' = [copy EXCEPT ![p] = NoCopy] /\ \A c \in Call : NoCopy[c] = {}
        /\ \A n \in Matcher \ {p} : pc'[n] = pc[n] /\ work'[n] = work[n]
    BY <1>0, <1>8 DEF Crash, RowsTyped, NoCopy
  <2> QED
    BY <1>0, <2>1 DEF RowsTyped, Copied
<1> QED
  BY <1>1, <1>2, <1>3, <1>4, <1>5, <1>6, <1>7, <1>8 DEF OutcomeStep

\* The lock is its holder's until the holder frees it, unless something goes wrong.
LEMMA LockedStep == RowsTyped /\ Locked /\ OutcomeStep => Locked'
<1> SUFFICES ASSUME RowsTyped, Locked, OutcomeStep PROVE Locked'
  OBVIOUS
<1>0. /\ Matcher \subseteq Process /\ None \notin Matcher
      /\ \A r \in Repair : r \in Process /\ r \notin Matcher
  BY OutcomeAssumption DEF Process
<1>00. cast' = cast /\ (trouble' = 0 => trouble = 0)
  BY WorldGrows
<1> USE DEF worldVars, rowVars, boardVars, runVars, Goto
<1>1. CASE HorizonPasses
  BY <1>1 DEF HorizonPasses, Locked
<1>2. CASE SessionEnds
  <2>1. trouble' = 0 => pc[lock] = "idle" /\ lock \in Matcher
    BY <1>2 DEF SessionEnds, Trouble, RowsTyped
  <2> QED
    BY <1>2, <1>00, <2>1 DEF SessionEnds, Locked
<1>3. ASSUME NEW s \in Listed, RefreshSymbol(s) PROVE Locked'
  BY <1>3 DEF RefreshSymbol, Locked
<1>4. ASSUME NEW m \in Matcher, Acquire(m) PROVE Locked'
  BY <1>0, <1>4 DEF Acquire, RowsTyped, Locked
<1>5. ASSUME NEW m \in Matcher, NEW c, NEW refused, Lookup(m, c, refused) PROVE Locked'
  BY <1>00, <1>5 DEF Lookup, Locked
<1>6. ASSUME NEW m \in Matcher, Match(m) PROVE Locked'
  <2>1. CASE SelectBatch(m) \/ EndBatch(m) \/ SetBasedStatement(m)
    <3>1. /\ UNCHANGED <<lock, trouble>> /\ pc[m] # "idle" /\ pc'[m] \notin {"idle", "statement"}
          /\ \A n \in Matcher \ {m} : pc'[n] = pc[n]
      BY <1>0, <2>1 DEF SelectBatch, EndBatch, SetBasedStatement, RowsTyped
    <3> QED
      BY <1>00, <3>1 DEF Locked
  <2>2. CASE Unlock(m)
    <3>1. /\ pc[m] # "idle" /\ pc'[m] = "idle" /\ \A n \in Matcher \ {m} : pc'[n] = pc[n]
          /\ trouble' = 0 => lock' = (IF lock = m THEN None ELSE lock)
      BY <1>0, <2>2 DEF Unlock, Trouble, RowsTyped
    <3> QED
      BY <1>00, <3>1 DEF Locked
  <2>3. ASSUME NEW c \in work[m], WriteRow(m, c) PROVE Locked'
    BY <2>3 DEF WriteRow, Locked
  <2> QED
    BY <1>5, <1>6, <2>1, <2>2, <2>3 DEF Match
<1>7. ASSUME NEW m \in Matcher, NEW c \in work[m], LookupThrows(m, c) PROVE Locked'
  BY <1>00, <1>7 DEF LookupThrows, Locked
<1>8. ASSUME NEW r \in Repair, RepairStart(r) \/ RepairStep(r) PROVE Locked'
  <2>1. UNCHANGED <<lock, trouble>> /\ \A n \in Matcher : pc'[n] = pc[n]
    BY <1>0, <1>8 DEF RepairStart, RepairStep, FindNearestCandle, AttachPrice, RepairEnd, RowsTyped
  <2> QED
    BY <1>00, <2>1 DEF Locked
<1>9. ASSUME NEW p \in Matcher \cup Repair, Crash(p) PROVE Locked'
  <2>1. UNCHANGED lock /\ pc'[p] = "idle" /\ \A n \in Matcher \ {p} : pc'[n] = pc[n]
    BY <1>0, <1>9 DEF Crash, RowsTyped
  <2> QED
    BY <1>00, <2>1 DEF Locked
<1> QED
  BY <1>1, <1>2, <1>3, <1>4, <1>5, <1>6, <1>7, <1>8, <1>9 DEF OutcomeStep

\* Nothing has gone wrong, and scripts are the only matchers that take part.
Smooth == trouble = 0 /\ cast \cap Matcher \subseteq Scripts

\* Then a step leaves prices where they are or adds to them, and every copy still
\* holds all that is stored.
LEMMA SmoothStep ==
  ASSUME OutcomesInv, Smooth, trouble' = 0, OutcomeStep
  PROVE  /\ \A c \in Call : price[c] \subseteq price'[c]
         /\ Complete'
<1>0. /\ RowsTyped /\ Real /\ Copied /\ Locked
      /\ \A m \in Scripts : \A k : <<k, FALSE>> \in cache[m] => market[k] = None
      /\ \A m \in Matcher, c \in Call : copy[m][c] # {} => price[c] \subseteq copy[m][c]
  BY DEF OutcomesInv, Complete, Smooth
<1>1. /\ Matcher \subseteq Process /\ Scripts \subseteq Matcher /\ Scripts \cap SetBased = {}
      /\ \A r \in Repair : r \in Process /\ r \notin Matcher
      /\ \A m \in Matcher : pc[m] # "idle" => m \in Scripts /\ lock = m
      /\ UNCHANGED <<market, cast>>
  BY <1>0, WorldGrows, OutcomeAssumption DEF Process, Scripts, Locked, Smooth
<1> DEFINE Grows    == \A c \in Call : price[c] \subseteq price'[c]
           Memories == \A m \in Scripts : \A k : <<k, FALSE>> \in cache'[m] => market[k] = None
           Wholes   == \A m \in Matcher, c \in Call : copy'[m][c] # {} => price'[c] \subseteq copy'[m][c]
<1>2. Memories /\ Wholes => Complete'
  BY <1>1 DEF Complete
<1>3. ASSUME UNCHANGED price, \A m \in Matcher : cache'[m] \subseteq cache[m],
             \A m \in Matcher, c \in Call : copy'[m][c] = copy[m][c] \/ copy'[m][c] = {}
      PROVE  Grows /\ Complete'
  <2>1. Memories
    BY <1>0, <1>1, <1>3
  <2>2. Wholes
    BY <1>0, <1>3
  <2> QED
    BY <1>2, <1>3, <2>1, <2>2
<1> USE DEF worldVars, rowVars, boardVars, runVars, Goto
<1>4. CASE HorizonPasses \/ SessionEnds
  BY <1>3, <1>4 DEF HorizonPasses, SessionEnds
<1>5. ASSUME NEW s \in Listed, RefreshSymbol(s) PROVE Grows /\ Complete'
  BY <1>3, <1>5 DEF RefreshSymbol
<1>6. ASSUME NEW m \in Matcher, Acquire(m) PROVE Grows /\ Complete'
  BY <1>3, <1>6 DEF Acquire
<1>7. ASSUME NEW m \in Matcher, NEW c \in work[m], NEW refused, Lookup(m, c, refused)
      PROVE  Grows /\ Complete'
  <2>0. /\ m \in Scripts /\ m \in Fallback /\ m \in Process /\ c \in Call /\ price' = price /\ copy[m][c] = {}
        /\ refused = {}
    BY <1>0, <1>1, <1>7 DEF Lookup, RowsTyped, Scripts, Trouble
  <2>1. ASSUME NEW k, market[k] # None PROVE GetCandleAt(m, k, refused)
    <3>1. CASE Remembered(m, k)
      BY <1>0, <2>0, <2>1, <3>1 DEF Remembered, GetCandleAt
    <3>2. CASE ~Remembered(m, k)
      BY <2>0, <2>1, <3>2 DEF GetCandleAt, Fetches
    <3> QED
      BY <3>1, <3>2
  <2>2. Memories
    <3> DEFINE new == {<<k, GetCandleAt(m, k, refused)>> : k \in {KeyOf(c, x) : x \in ElapsedColumns}}
    <3>1. cache' = [cache EXCEPT ![m] = @ \cup new]
      BY <1>7 DEF Lookup
    <3>2. ASSUME NEW k, <<k, FALSE>> \in new PROVE market[k] = None
      <4>1. GetCandleAt(m, k, refused) = FALSE
        BY <3>2
      <4> QED
        BY <2>1, <4>1
    <3> HIDE DEF new
    <3> QED
      BY <1>0, <1>1, <3>1, <3>2 DEF RowsTyped
  <2>3. Wholes
    <3> DEFINE columns == {x \in ElapsedColumns : GetCandleAt(m, KeyOf(c, x), refused)}
               marks == columns \cup (IF Elapsed("90d") THEN {<<"coin", "hit">>} ELSE {})
    <3>1. copy' = copy \/ copy' = [copy EXCEPT ![m][c] = marks]
      BY <1>7 DEF Lookup
    <3>2. ASSUME NEW x \in price[c] PROVE x \in marks
      <4>1. x \in Column /\ Known(c, x)
        BY <1>0, <2>0, <3>2 DEF RowsTyped, Real, PricesReal
      <4> QED
        BY <2>1, <4>1 DEF Known, ElapsedColumns
    <3> HIDE DEF marks
    <3> QED
      BY <1>0, <1>1, <2>0, <3>1, <3>2 DEF RowsTyped
  <2> QED
    BY <1>2, <2>0, <2>2, <2>3
<1>8. ASSUME NEW m \in Matcher, Match(m) PROVE Grows /\ Complete'
  <2>1. CASE SelectBatch(m) \/ EndBatch(m)
    BY <1>3, <2>1 DEF SelectBatch, EndBatch
  <2>2. CASE SetBasedStatement(m)
    BY <1>0, <1>1, <2>2 DEF SetBasedStatement, Locked
  <2>3. CASE Unlock(m)
    <3>1. UNCHANGED <<price, copy>> /\ \A n \in Matcher : cache'[n] \subseteq cache[n]
      BY <1>0, <2>3 DEF Unlock, RowsTyped
    <3> QED
      BY <1>3, <3>1
  <2>4. ASSUME NEW c \in work[m], WriteRow(m, c) PROVE Grows /\ Complete'
    <3>0. c \in Call
      BY <1>0, <1>1 DEF RowsTyped
    <3>1. /\ UNCHANGED cache /\ copy[m][c] # {} /\ pc[m] = "match"
          /\ \A d \in Call : price'[d] = IF d = c THEN copy[m][c] \cap Column ELSE price[d]
          /\ copy' = [copy EXCEPT ![m][c] = {}]
      BY <1>0, <2>4, <3>0 DEF WriteRow, RowsTyped
    <3>2. Grows
      BY <1>0, <3>0, <3>1 DEF RowsTyped
    <3>3. \A n \in Matcher \ {m}, d \in Call : copy[n][d] = {}
      BY <1>0, <1>1, <3>1 DEF Copied
    <3>4. /\ copy'[m][c] = {} /\ \A d \in Call \ {c} : copy'[m][d] = copy[m][d]
          /\ \A n \in Matcher \ {m}, d \in Call : copy'[n][d] = {}
      BY <1>0, <1>1, <3>0, <3>1, <3>3 DEF RowsTyped
    <3>5. Wholes
      BY <1>0, <3>1, <3>4
    <3>6. Memories
      BY <1>0, <3>1
    <3> QED
      BY <1>2, <3>2, <3>5, <3>6
  <2> QED
    BY <1>7, <1>8, <2>1, <2>2, <2>3, <2>4 DEF Match
<1>9. ASSUME NEW m \in Matcher, NEW c \in work[m], LookupThrows(m, c) PROVE Grows /\ Complete'
  BY <1>0, <1>9 DEF LookupThrows, Trouble, RowsTyped
<1>10. ASSUME NEW r \in Repair, RepairStart(r) \/ RepairStep(r) PROVE Grows /\ Complete'
  <2>1. CASE RepairStart(r) \/ FindNearestCandle(r) \/ RepairEnd(r)
    BY <1>3, <2>1 DEF RepairStart, FindNearestCandle, RepairEnd
  <2>2. CASE AttachPrice(r)
    <3>1. PICK c \in Lowest(work[r], 1) : price' = [price EXCEPT ![c] = @ \cup {<<"coin", "call">>}]
      BY <2>2 DEF AttachPrice
    <3>2. UNCHANGED <<cache, copy>>
      BY <2>2 DEF AttachPrice
    <3>3. Grows
      BY <1>0, <3>1 DEF RowsTyped
    <3>4. ASSUME NEW n \in Matcher, NEW d \in Call, copy'[n][d] # {} PROVE price'[d] \subseteq copy'[n][d]
      <4>1. price[d] \subseteq copy[n][d] /\ <<"coin", "call">> \in copy[n][d] /\ copy' = copy
        BY <1>0, <3>2, <3>4 DEF Copied
      <4>2. price'[d] \subseteq price[d] \cup {<<"coin", "call">>}
        BY <1>0, <3>1 DEF RowsTyped
      <4> QED
        BY <4>1, <4>2
    <3> QED
      BY <1>0, <1>2, <3>2, <3>3, <3>4
  <2> QED
    BY <1>10, <2>1, <2>2 DEF RepairStep
<1>11. ASSUME NEW p \in Matcher \cup Repair, Crash(p) PROVE Grows /\ Complete'
  BY <1>0, <1>11 DEF Crash, Trouble, RowsTyped
<1> QED
  BY <1>4, <1>5, <1>6, <1>7, <1>8, <1>9, <1>10, <1>11 DEF OutcomeStep

\* At first there are no copies, and what is stored came from the exchange.
LEMMA OutcomesInit == Init => OutcomesInv
<1> SUFFICES ASSUME Init PROVE OutcomesInv
  OBVIOUS
<1>1. /\ \A m \in Matcher : pc[m] = "idle" /\ cache[m] = {}
      /\ \A m \in Matcher, c \in Call : copy[m][c] = {}
  BY DEF Init, NoCopy, Process
<1>2. Copied /\ Locked
  BY <1>1 DEF Copied, Locked
<1>3. Complete
  BY <1>1 DEF Complete, Scripts
<1> QED
  BY <1>2, <1>3, RowsTypeInit, RealInit DEF OutcomesInv

\* Each part of OutcomesInv follows from all of them in the state before.
LEMMA OutcomesStep == OutcomesInv /\ [Next]_vars => OutcomesInv'
<1> SUFFICES ASSUME OutcomesInv, [Next]_vars PROVE (Real /\ Copied /\ Locked /\ Complete)'
  BY RowsTypeStep DEF OutcomesInv
<1>0. RowsTyped /\ Real /\ Copied /\ Locked /\ Complete
  BY DEF OutcomesInv
<1>1. CASE OutcomeStep
  <2>1. (Real /\ Copied /\ Locked)'
    BY <1>0, <1>1, RealStep, CopiedStep, LockedStep
  <2>2. Complete'
    <3>1. CASE trouble' = 0 /\ cast' \cap Matcher \subseteq Scripts
      <4>1. Smooth
        BY <1>0, <1>1, <3>1, WorldGrows DEF Smooth
      <4> QED
        BY <1>1, <3>1, <4>1, SmoothStep
    <3>2. CASE ~(trouble' = 0 /\ cast' \cap Matcher \subseteq Scripts)
      BY <3>2 DEF Complete
    <3> QED
      BY <3>1, <3>2
  <2> QED
    BY <2>1, <2>2
<1>2. CASE BoardStep
  <2>1. /\ \A p \in Matcher \cup Repair : pc'[p] = pc[p] /\ work'[p] = work[p] /\ copy'[p] = copy[p]
        /\ UNCHANGED <<age, market, candles, price, lock, cast, cache>>
        /\ trouble' = 0 => trouble = 0
    BY <1>0, <1>2, OutcomesUntouched
  <2>2. \A c, x : Known(c, x)' <=> Known(c, x)
    BY <2>1 DEF Known, Elapsed
  <2>3. Real'
    BY <1>0, <2>1, <2>2 DEF Real, CandlesReal, PricesReal, CachesReal, CopiesReal, AttachReal, Lowest
  <2>4. Copied' /\ Locked'
    BY <1>0, <2>1 DEF Copied, Locked
  <2>5. Complete'
    BY <1>0, <2>1, OutcomeAssumption DEF Complete, Scripts
  <2> QED
    BY <2>3, <2>4, <2>5
<1>3. CASE UNCHANGED vars
  <2>1. UNCHANGED <<age, market, candles, price, lock, cast, cache, trouble, pc, work, copy>>
    BY <1>3 DEF vars, worldVars, rowVars, runVars
  <2>2. \A c, x : Known(c, x)' <=> Known(c, x)
    BY <2>1 DEF Known, Elapsed
  <2>3. Real'
    BY <1>0, <2>1, <2>2 DEF Real, CandlesReal, PricesReal, CachesReal, CopiesReal, AttachReal, Lowest
  <2> QED
    BY <1>0, <2>1, <2>3 DEF Copied, Locked, Complete
<1> QED
  BY <1>1, <1>2, <1>3, TwoSides

\* While nothing goes wrong and only the pipeline's scripts match, no write of a
\* matcher, made from lookups of any earlier time, takes back a stored outcome.
THEOREM ScriptsKeepOutcomes == Spec => KeptByScripts
<1>1. ASSUME OutcomesInv, [Next]_vars, trouble' = 0, cast \cap Matcher \subseteq Scripts, NEW c \in Call
      PROVE  price[c] \subseteq price'[c]
  <2>1. RowsTyped
    BY <1>1 DEF OutcomesInv
  <2>2. CASE OutcomeStep
    BY <1>1, <2>1, <2>2, WorldGrows, SmoothStep DEF Smooth
  <2>3. CASE BoardStep
    BY <2>1, <2>3, OutcomesUntouched
  <2>4. CASE UNCHANGED vars
    BY <2>4 DEF vars, rowVars
  <2> QED
    BY <1>1, <2>2, <2>3, <2>4, TwoSides
<1>2. OutcomesInv /\ [Next]_vars =>
        [trouble' = 0 /\ cast \cap Matcher \subseteq Scripts
           => \A c \in Call : price[c] \subseteq price'[c]]_vars
  BY <1>1
<1> QED
  BY <1>2, OutcomesInit, OutcomesStep, PTL DEF Spec, KeptByScripts
=============================================================================
