---------------------- MODULE CallVerification_proofs ----------------------
(***************************************************************************)
(* Proofs about the verifier and the promotions for any calls, runners,     *)
(* batch and promotion limits, tries, and any amount of trouble.            *)
(***************************************************************************)
EXTENDS CallVerification, FiniteSetTheorems, TLAPS

Places == {"idle", "select", "think", "insert", "audit", "promote", "record", "fail", "block",
           "event"}
Modes == {"write", "blocked", "dry"}

Typed ==
  /\ pc \in [Runner -> Places] /\ todo \in [Runner -> SUBSET Call]
  /\ mine \in [Runner -> Nat] /\ mode \in [Runner -> Modes]
  /\ audit \in Seq(AuditRow)
  /\ raises \in [Call -> Nat] /\ trouble \in Nat

\* The row of the audit that a promotion has inserted, and may still write.
RowIsThere(r) ==
  /\ mine[r] <= Len(audit)
  /\ r \in Promoter /\ pc[r] \in {"promote", "record", "event", "fail"} => mine[r] # 0
  /\ r \in Promoter /\ pc[r] \in {"promote", "record"} => audit[mine[r]].status = "running"

\* No two promotions write the same row.
RowsDiffer == \A r, q \in Runner : r # q => mine[r] # mine[q] \/ mine[r] = 0

\* A promotion is caught only when something went wrong.
FailedInTrouble == \A r \in Runner : pc[r] = "fail" => trouble # 0

AuditInv ==
  /\ Typed /\ (\A r \in Runner : RowIsThere(r)) /\ RowsDiffer /\ FailedInTrouble
  /\ AuditsAreExact

-----------------------------------------------------------------------------
(* Counting.                                                                *)

LEMMA ListingIsFinite ==
  ASSUME Typed, NEW c
  PROVE  IsFiniteSet(Listing(c)) /\ Cardinality(Listing(c)) \in Nat
<1>1. Len(audit) \in Nat
  BY DEF Typed
<1>2. IsFiniteSet(1..Len(audit))
  BY <1>1, FS_Interval
<1>3. Listing(c) \subseteq 1..Len(audit)
  BY DEF Listing
<1> QED
  BY <1>2, <1>3, FS_Subset, FS_CardinalityType

LEMMA RecordingIsFinite ==
  ASSUME NEW c
  PROVE  IsFiniteSet(Recording(c)) /\ Cardinality(Recording(c)) \in Nat
<1>1. Recording(c) \subseteq Promoter /\ IsFiniteSet(Promoter)
  BY VerificationAssumption DEF Recording
<1> QED
  BY <1>1, FS_Subset, FS_CardinalityType

\* What a step leaves of the other runners.
Others(r) ==
  /\ pc' \in [Runner -> Places] /\ todo' \in [Runner -> SUBSET Call] /\ mine' \in [Runner -> Nat]
  /\ mode' \in [Runner -> Modes]
  /\ \A q \in Runner \ {r} : pc'[q] = pc[q] /\ todo'[q] = todo[q] /\ mine'[q] = mine[q]

-----------------------------------------------------------------------------
(* Steps that no row and no raise takes part in.                            *)

Calm(r) ==
  /\ UNCHANGED <<audit, raises>>
  /\ Others(r)
  /\ trouble' \in Nat /\ trouble' >= trouble
  /\ mine'[r] = 0 \/ mine'[r] = mine[r]
  /\ pc'[r] \in {"promote", "record", "event"} => r \notin Promoter
  /\ pc'[r] = "fail" => trouble' # 0 /\ mine'[r] = mine[r] /\ (r \in Promoter => mine[r] # 0)
  /\ pc[r] = "record" /\ r \in Promoter => trouble' # 0

LEMMA CalmStep ==
  ASSUME AuditInv, NEW r \in Runner, Calm(r)
  PROVE  AuditInv'
<1>1. Typed'
  BY DEF AuditInv, Typed, Calm, Others
<1>2. ASSUME NEW q \in Runner
      PROVE  RowIsThere(q)'
  <2>0. audit' = audit /\ audit \in Seq(AuditRow) /\ mine \in [Runner -> Nat]
    BY DEF AuditInv, Typed, Calm
  <2>1. CASE q = r
    BY <2>0, <2>1 DEF AuditInv, RowIsThere, Calm
  <2>2. CASE q # r
    BY <2>0, <2>2 DEF AuditInv, RowIsThere, Calm, Others
  <2> QED
    BY <2>1, <2>2
<1>3. RowsDiffer'
  <2> SUFFICES ASSUME NEW p \in Runner, NEW q \in Runner, p # q
               PROVE  mine'[p] # mine'[q] \/ mine'[p] = 0
    BY DEF RowsDiffer
  <2>1. mine[p] # mine[q] \/ mine[p] = 0
    BY DEF AuditInv, RowsDiffer
  <2>2. mine'[p] = 0 \/ mine'[p] = mine[p]
    BY DEF Calm, Others
  <2>3. mine'[q] = 0 \/ mine'[q] = mine[q]
    BY DEF Calm, Others
  <2> QED
    BY <2>1, <2>2, <2>3
<1>4. FailedInTrouble'
  <2>1. trouble \in Nat
    BY DEF AuditInv, Typed
  <2> QED
    BY <2>1 DEF AuditInv, FailedInTrouble, Calm, Others
<1>5. AuditsAreExact'
  <2> SUFFICES ASSUME NEW c \in Call
               PROVE  LET known == Cardinality(Listing(c))' + Cardinality(Recording(c))'
                      IN  known <= raises'[c] /\ (trouble' = 0 => known = raises'[c])
    BY DEF AuditsAreExact
  <2>1. Listing(c)' = Listing(c)
    BY DEF Calm, Listing
  <2>2. Recording(c)' \subseteq Recording(c)
    BY DEF Calm, Others, Recording, Runner
  <2>3. trouble' = 0 => trouble = 0 /\ Recording(c)' = Recording(c)
    <3>1. trouble \in Nat
      BY DEF AuditInv, Typed
    <3>2. trouble' = 0 => trouble = 0
      BY <3>1 DEF Calm
    <3>3. trouble' = 0 => Recording(c)' = Recording(c)
      BY <2>2 DEF Calm, Others, Recording, Runner
    <3> QED
      BY <3>2, <3>3
  <2>4. /\ Cardinality(Recording(c)') \in Nat
        /\ Cardinality(Recording(c)') <= Cardinality(Recording(c))
    BY <2>2, RecordingIsFinite, FS_Subset, FS_CardinalityType
  <2>5. Cardinality(Listing(c)) \in Nat /\ Cardinality(Recording(c)) \in Nat
    BY RecordingIsFinite, ListingIsFinite DEF AuditInv
  <2>6. raises' = raises /\ raises[c] \in Nat
    BY DEF Calm, AuditInv, Typed
  <2>7. LET known == Cardinality(Listing(c)) + Cardinality(Recording(c))
        IN  known <= raises[c] /\ (trouble = 0 => known = raises[c])
    BY DEF AuditInv, AuditsAreExact
  <2> QED
    BY <2>1, <2>3, <2>4, <2>5, <2>6, <2>7
<1> QED
  BY <1>1, <1>2, <1>3, <1>4, <1>5 DEF AuditInv

-----------------------------------------------------------------------------
(* The steps that write a row or raise a call.                              *)

\* The numbers a step of one runner has to keep up with.
LEMMA CountsAre ==
  ASSUME AuditInv, NEW c \in Call
  PROVE  /\ Cardinality(Listing(c)) \in Nat /\ Cardinality(Recording(c)) \in Nat
         /\ raises[c] \in Nat /\ trouble \in Nat
         /\ Cardinality(Listing(c)) + Cardinality(Recording(c)) <= raises[c]
         /\ trouble = 0 => Cardinality(Listing(c)) + Cardinality(Recording(c)) = raises[c]
  BY ListingIsFinite, RecordingIsFinite DEF AuditInv, AuditsAreExact, Typed

\* A new row lists no call yet.
LEMMA InsertAuditStep ==
  ASSUME AuditInv, NEW r \in Promoter, InsertAudit(r)
  PROVE  AuditInv'
<1> r \in Runner
  BY DEF Runner
<1>0. audit \in Seq(AuditRow) /\ Len(audit) \in Nat
  BY DEF AuditInv, Typed
<1> DEFINE Status == CASE mode[r] = "write" -> "running"
                       [] mode[r] = "blocked" -> "blocked"
                       [] mode[r] = "dry" -> "dry_run"
           row    == [status |-> Status, ids |-> {}]
           place  == CASE mode[r] = "write" -> "promote"
                       [] mode[r] = "blocked" -> "block"
                       [] mode[r] = "dry" -> "event"
<1>a. /\ Status \in {"running", "blocked", "dry_run"}
      /\ mode[r] = "write" => Status = "running"
      /\ place \in {"promote", "block", "event"}
      /\ (place = "promote" => mode[r] = "write")
  <2>1. mode[r] \in Modes
    BY DEF AuditInv, Typed
  <2>2. CASE mode[r] = "write"
    BY <2>2
  <2>3. CASE mode[r] = "blocked"
    BY <2>3
  <2>4. CASE mode[r] = "dry"
    BY <2>4
  <2> QED
    BY <2>1, <2>2, <2>3, <2>4 DEF Modes
<1>b. /\ pc[r] = "audit" /\ audit' = Append(audit, row)
      /\ mine' = [mine EXCEPT ![r] = Len(audit) + 1]
      /\ pc' = [pc EXCEPT ![r] = place]
      /\ UNCHANGED <<todo, mode, raises, trouble>>
  BY DEF InsertAudit
<1> HIDE DEF Status, place
<1>1. /\ Len(audit') = Len(audit) + 1 /\ audit' \in Seq(AuditRow)
      /\ \A i \in 1..Len(audit) : audit'[i] = audit[i]
      /\ audit'[Len(audit) + 1] = row
  <2>1. row \in AuditRow
    BY <1>a DEF AuditRow
  <2> QED
    BY <1>0, <1>b, <2>1
<1>2. Typed'
  <2>1. place \in Places
    BY <1>a DEF Places
  <2> QED
    BY <1>0, <1>1, <1>b, <2>1 DEF AuditInv, Typed
<1>3. ASSUME NEW q \in Runner
      PROVE  RowIsThere(q)'
  <2>0. mine[q] \in Nat /\ mine[q] <= Len(audit)
    BY DEF AuditInv, Typed, RowIsThere
  <2>1. CASE q = r
    <3>1. mine'[q] = Len(audit) + 1
      BY <1>b, <2>1 DEF AuditInv, Typed
    <3>2. pc'[q] \in {"promote", "record"} => Status = "running"
      BY <1>a, <1>b, <2>1 DEF AuditInv, Typed
    <3> QED
      BY <1>0, <1>1, <3>1, <3>2 DEF RowIsThere
  <2>2. CASE q # r
    <3>1. mine'[q] = mine[q] /\ pc'[q] = pc[q]
      BY <1>b, <2>2 DEF AuditInv, Typed
    <3> QED
      BY <1>0, <1>1, <2>0, <3>1 DEF AuditInv, RowIsThere
  <2> QED
    BY <2>1, <2>2
<1>4. RowsDiffer'
  BY <1>0, <1>b DEF AuditInv, Typed, RowsDiffer, RowIsThere
<1>5. FailedInTrouble'
  BY <1>a, <1>b DEF AuditInv, Typed, FailedInTrouble
<1>6. AuditsAreExact'
  <2> SUFFICES ASSUME NEW c \in Call
               PROVE  LET known == Cardinality(Listing(c)') + Cardinality(Recording(c)')
                      IN  known <= raises'[c] /\ (trouble' = 0 => known = raises'[c])
    BY DEF AuditsAreExact
  <2>1. Listing(c)' = Listing(c)
    BY <1>0, <1>1, <1>a DEF Listing
  <2>2. Recording(c)' = Recording(c)
    BY <1>a, <1>b DEF AuditInv, Typed, Recording, Runner
  <2> QED
    BY <1>b, <2>1, <2>2, CountsAre
<1> QED
  BY <1>2, <1>3, <1>4, <1>5, <1>6 DEF AuditInv

\* The UPDATE takes calls over the threshold; its reply may be lost.
LEMMA PromoteStep ==
  ASSUME AuditInv, NEW r \in Promoter, Promote(r) \/ LoseReply(r)
  PROVE  AuditInv'
<1> r \in Runner
  BY DEF Runner
<1> Raised(r) \subseteq Call
  BY DEF Raised, Live
<1>1. /\ pc[r] = "promote" /\ audit' = audit /\ mine' = mine /\ mode' = mode
      /\ raises' = [c \in Call |-> IF c \in Raised(r) \ ready THEN raises[c] + 1 ELSE raises[c]]
  BY DEF Promote, LoseReply
<1>t. /\ trouble' \in Nat /\ trouble' >= trouble
      /\ trouble' = 0 => Promote(r)
  BY DEF Promote, LoseReply, Trouble, AuditInv, Typed
<1>p. PICK p \in {"record", "fail"} : pc' = [pc EXCEPT ![r] = p] /\ (p = "fail" => trouble' # 0)
  <2>1. CASE Promote(r)
    BY <2>1 DEF Promote
  <2>2. CASE LoseReply(r)
    <3>1. trouble' # 0
      BY <2>2 DEF LoseReply, Trouble, AuditInv, Typed
    <3> QED
      BY <2>2, <3>1 DEF LoseReply
  <2> QED
    BY <2>1, <2>2
<1>s. PICK s \in SUBSET Raised(r) :
        todo' = [todo EXCEPT ![r] = s] /\ (trouble' = 0 => s = Raised(r) /\ p = "record")
  <2>1. CASE Promote(r)
    <3>1. todo' = [todo EXCEPT ![r] = Raised(r)]
      BY <2>1 DEF Promote
    <3>2. p = "record"
      BY <1>p, <2>1 DEF Promote, AuditInv, Typed
    <3> QED
      BY <3>1, <3>2
  <2>2. CASE LoseReply(r)
    <3>1. trouble' # 0 /\ todo' = [todo EXCEPT ![r] = {}]
      BY <2>2 DEF LoseReply, Trouble, AuditInv, Typed
    <3>2. {} \in SUBSET Raised(r)
      OBVIOUS
    <3> QED
      BY <3>1, <3>2
  <2> QED
    BY <2>1, <2>2
<1>2. Typed'
  <2>1. p \in Places /\ s \in SUBSET Call
    BY DEF Places
  <2>2. pc' \in [Runner -> Places] /\ todo' \in [Runner -> SUBSET Call]
    BY <1>p, <1>s, <2>1 DEF AuditInv, Typed
  <2> QED
    BY <1>1, <1>t, <2>2 DEF AuditInv, Typed
<1>3. \A q \in Runner : RowIsThere(q)'
  BY <1>1, <1>p DEF AuditInv, Typed, RowIsThere
<1>4. RowsDiffer' /\ FailedInTrouble'
  BY <1>1, <1>t, <1>p DEF AuditInv, Typed, RowsDiffer, FailedInTrouble
<1>5. AuditsAreExact'
  <2> SUFFICES ASSUME NEW c \in Call
               PROVE  LET known == Cardinality(Listing(c)') + Cardinality(Recording(c)')
                      IN  known <= raises'[c] /\ (trouble' = 0 => known = raises'[c])
    BY DEF AuditsAreExact
  <2>0. r \notin Recording(c)
    BY <1>1 DEF Recording
  <2> DEFINE listing == Cardinality(Listing(c))  recording == Cardinality(Recording(c))
  <2>n. /\ listing \in Nat /\ recording \in Nat /\ raises[c] \in Nat /\ trouble \in Nat
        /\ listing + recording <= raises[c]
        /\ trouble = 0 => listing + recording = raises[c]
    BY CountsAre
  <2>1. Listing(c)' = Listing(c)
    BY <1>1 DEF Listing
  <2>2. CASE c \in Raised(r)
    <3>1. raises'[c] = raises[c] + 1
      BY <1>1, <2>2 DEF Raised
    <3>2. Recording(c)' \subseteq Recording(c) \cup {r}
      BY <1>p, <1>s DEF AuditInv, Typed, Recording, Runner
    <3>3. trouble' = 0 => Recording(c)' = Recording(c) \cup {r}
      BY <1>p, <1>s, <2>2 DEF AuditInv, Typed, Recording, Runner
    <3>4. /\ IsFiniteSet(Recording(c) \cup {r})
          /\ Cardinality(Recording(c) \cup {r}) = Cardinality(Recording(c)) + 1
      BY <2>0, RecordingIsFinite, FS_AddElement
    <3>5. /\ Cardinality(Recording(c)') \in Nat
          /\ Cardinality(Recording(c)') <= Cardinality(Recording(c)) + 1
      BY <3>2, <3>4, FS_Subset, FS_CardinalityType
    <3>6. trouble' = 0 => trouble = 0
      BY <1>t, CountsAre
    <3>7. trouble' = 0 => Cardinality(Recording(c)') = recording + 1
      BY <3>3, <3>4
    <3> HIDE DEF listing, recording
    <3>8. Cardinality(Listing(c)') = listing
      BY <2>1 DEF listing
    <3>9. Cardinality(Recording(c)') <= recording + 1
      BY <3>5 DEF recording
    <3> QED
      BY <2>n, <3>1, <3>5, <3>6, <3>7, <3>8, <3>9
  <2>3. CASE c \notin Raised(r)
    <3>1. raises'[c] = raises[c]
      BY <1>1, <2>3
    <3>2. Recording(c)' = Recording(c)
      BY <1>1, <1>p, <1>s, <2>3 DEF AuditInv, Typed, Recording, Runner
    <3> QED
      BY <1>t, <2>1, <3>1, <3>2, CountsAre
  <2> QED
    BY <2>2, <2>3
<1> QED
  BY <1>2, <1>3, <1>4, <1>5 DEF AuditInv

\* What a promotion raised is listed in its own row, which listed nothing yet.
LEMMA RecordStep ==
  ASSUME AuditInv, NEW r \in Promoter, RecordPromotion(r)
  PROVE  AuditInv'
<1> r \in Runner
  BY DEF Runner
<1> DEFINE row == [status |-> "succeeded", ids |-> todo[r]]
<1>0. /\ audit \in Seq(AuditRow) /\ Len(audit) \in Nat /\ row \in AuditRow
      /\ mine[r] \in 1..Len(audit) /\ audit[mine[r]].status = "running"
  BY DEF RecordPromotion, AuditInv, Typed, RowIsThere, AuditRow
<1>1. /\ pc[r] = "record" /\ pc' = [pc EXCEPT ![r] = "event"]
      /\ audit' = [audit EXCEPT ![mine[r]] = row]
      /\ UNCHANGED <<todo, mine, mode, raises, trouble>>
  BY DEF RecordPromotion, UpdateAudit, Goto
<1>2. /\ Len(audit') = Len(audit) /\ audit' \in Seq(AuditRow) /\ audit'[mine[r]] = row
      /\ \A i \in 1..Len(audit) : i # mine[r] => audit'[i] = audit[i]
  BY <1>0, <1>1
<1> HIDE DEF row
<1>3. Typed'
  BY <1>1, <1>2 DEF AuditInv, Typed, Places
<1>4. ASSUME NEW q \in Runner
      PROVE  RowIsThere(q)'
  <2>1. CASE q = r
    BY <1>0, <1>1, <1>2, <2>1 DEF AuditInv, Typed, RowIsThere
  <2>2. CASE q # r
    <3>1. pc'[q] = pc[q] /\ mine'[q] = mine[q] /\ mine[q] \in Nat
      BY <1>1, <2>2 DEF AuditInv, Typed
    <3>2. mine[q] # mine[r] \/ mine[q] = 0
      BY <2>2 DEF AuditInv, RowsDiffer
    <3> QED
      BY <1>0, <1>2, <3>1, <3>2 DEF AuditInv, RowIsThere
  <2> QED
    BY <2>1, <2>2
<1>5. RowsDiffer' /\ FailedInTrouble'
  BY <1>1 DEF AuditInv, Typed, RowsDiffer, FailedInTrouble
<1>6. AuditsAreExact'
  <2> SUFFICES ASSUME NEW c \in Call
               PROVE  LET known == Cardinality(Listing(c)') + Cardinality(Recording(c)')
                      IN  known <= raises'[c] /\ (trouble' = 0 => known = raises'[c])
    BY DEF AuditsAreExact
  <2>0. mine[r] \notin Listing(c)
    BY <1>0 DEF Listing
  <2>1. CASE c \in todo[r]
    <3>1. Listing(c)' = Listing(c) \cup {mine[r]}
      BY <1>0, <1>2, <2>1 DEF Listing, row
    <3>2. Recording(c)' = Recording(c) \ {r} /\ r \in Recording(c)
      BY <1>1, <2>1 DEF AuditInv, Typed, Recording, Runner
    <3>3. Cardinality(Listing(c)') = Cardinality(Listing(c)) + 1
      BY <2>0, <3>1, ListingIsFinite, FS_AddElement DEF AuditInv
    <3>4. Cardinality(Recording(c)') = Cardinality(Recording(c)) - 1
      BY <3>2, RecordingIsFinite, FS_RemoveElement
    <3> QED
      BY <1>1, <3>3, <3>4, CountsAre
  <2>2. CASE c \notin todo[r]
    <3>1. Listing(c)' = Listing(c)
      BY <1>0, <1>2, <2>0, <2>2 DEF Listing, row
    <3>2. Recording(c)' = Recording(c)
      BY <1>1, <2>2 DEF AuditInv, Typed, Recording, Runner
    <3> QED
      BY <1>1, <3>1, <3>2, CountsAre
  <2> QED
    BY <2>1, <2>2
<1> QED
  BY <1>3, <1>4, <1>5, <1>6 DEF AuditInv

\* What a handler's end or a new attempt leaves of its runner.
LEMMA ThrowLeaves ==
  ASSUME Typed, NEW r \in Runner, Throw(r)
  PROVE  Others(r) /\ mine'[r] = 0 /\ pc'[r] \in {"idle", "select"}
<1>1. PICK p \in {"idle", "select"}, md \in Modes, n \in {1, tries[r] + 1} : Leave(r, p, n, md)
  BY DEF Throw, End, Typed, Modes
<1>2. p \in Places
  BY DEF Places
<1> QED
  BY <1>1, <1>2 DEF Typed, Leave, Others

\* The catch of a promotion unlists what its row may already list.
LEMMA FailStep ==
  ASSUME AuditInv, NEW r \in Promoter, FailPromotion(r)
  PROVE  AuditInv'
<1> r \in Runner
  BY DEF Runner
<1> DEFINE row == [status |-> "failed", ids |-> {}]
<1>0. /\ audit \in Seq(AuditRow) /\ Len(audit) \in Nat /\ row \in AuditRow
      /\ mine[r] \in 1..Len(audit) /\ trouble # 0
  BY DEF FailPromotion, AuditInv, Typed, RowIsThere, AuditRow, FailedInTrouble
<1>1. /\ pc[r] = "fail" /\ audit' = [audit EXCEPT ![mine[r]] = row]
      /\ UNCHANGED <<raises, trouble>>
      /\ Others(r) /\ mine'[r] = 0 /\ pc'[r] \in {"idle", "select"}
  BY ThrowLeaves DEF FailPromotion, UpdateAudit, AuditInv
<1>2. /\ Len(audit') = Len(audit) /\ audit' \in Seq(AuditRow) /\ audit'[mine[r]] = row
      /\ \A i \in 1..Len(audit) : i # mine[r] => audit'[i] = audit[i]
  BY <1>0, <1>1
<1> HIDE DEF row
<1>3. Typed'
  BY <1>1, <1>2 DEF AuditInv, Typed, Others
<1>4. ASSUME NEW q \in Runner
      PROVE  RowIsThere(q)'
  <2>1. CASE q = r
    BY <1>0, <1>1, <1>2, <2>1 DEF RowIsThere
  <2>2. CASE q # r
    <3>1. pc'[q] = pc[q] /\ mine'[q] = mine[q] /\ mine[q] \in Nat
      BY <1>1, <2>2 DEF AuditInv, Typed, Others
    <3>2. mine[q] # mine[r] \/ mine[q] = 0
      BY <2>2 DEF AuditInv, RowsDiffer
    <3> QED
      BY <1>0, <1>2, <3>1, <3>2 DEF AuditInv, RowIsThere
  <2> QED
    BY <2>1, <2>2
<1>5. RowsDiffer' /\ FailedInTrouble'
  BY <1>1 DEF AuditInv, Typed, RowsDiffer, FailedInTrouble, Others
<1>6. AuditsAreExact'
  <2> SUFFICES ASSUME NEW c \in Call
               PROVE  Cardinality(Listing(c)') + Cardinality(Recording(c)') <= raises'[c]
    BY <1>0, <1>1 DEF AuditsAreExact
  <2>1. Listing(c)' \subseteq Listing(c)
    BY <1>0, <1>2 DEF Listing, row
  <2>2. Recording(c)' = Recording(c)
    BY <1>1 DEF AuditInv, Typed, Recording, Runner, Others
  <2>3. /\ Cardinality(Listing(c)') \in Nat
        /\ Cardinality(Listing(c)') <= Cardinality(Listing(c))
    BY <2>1, ListingIsFinite, FS_Subset, FS_CardinalityType DEF AuditInv
  <2> QED
    BY <1>1, <2>2, <2>3, CountsAre
<1> QED
  BY <1>3, <1>4, <1>5, <1>6 DEF AuditInv

-----------------------------------------------------------------------------
(* The calls, the batches and the rest of a promotion.                      *)

LEMMA NothingStep ==
  ASSUME AuditInv, UNCHANGED <<pc, todo, mine, mode, audit, raises, trouble>>
  PROVE  AuditInv'
<1>1. Typed' /\ RowsDiffer' /\ FailedInTrouble'
  BY DEF AuditInv, Typed, RowsDiffer, FailedInTrouble
<1>2. \A r \in Runner : RowIsThere(r)'
  BY DEF AuditInv, RowIsThere
<1>3. \A c \in Call : Listing(c)' = Listing(c) /\ Recording(c)' = Recording(c)
  BY DEF Listing, Recording
<1>4. AuditsAreExact'
  BY <1>3 DEF AuditInv, AuditsAreExact
<1> QED
  BY <1>1, <1>2, <1>4 DEF AuditInv

\* A throw outside promoteCandidates' record is calm, and any with trouble.
LEMMA ThrowIsCalm ==
  ASSUME AuditInv, NEW r \in Runner, Throw(r), UNCHANGED <<audit, raises>>,
         trouble' \in Nat, trouble' >= trouble,
         pc[r] = "record" /\ r \in Promoter => trouble' # 0
  PROVE  AuditInv'
<1>1. Others(r) /\ mine'[r] = 0 /\ pc'[r] \in {"idle", "select"}
  BY ThrowLeaves DEF AuditInv
<1>2. Calm(r)
  BY <1>1 DEF Calm
<1> QED
  BY <1>2, CalmStep

\* End is the throw of a runner that makes no further attempt.
LEMMA EndLeaves ==
  ASSUME Typed, NEW r \in Runner, End(r)
  PROVE  Others(r) /\ mine'[r] = 0 /\ pc'[r] = "idle"
  BY DEF End, Leave, Typed, Others, Places, Modes

LEMMA EndIsCalm ==
  ASSUME AuditInv, NEW r \in Runner, End(r), UNCHANGED <<audit, raises>>,
         trouble' \in Nat, trouble' >= trouble,
         pc[r] = "record" /\ r \in Promoter => trouble' # 0
  PROVE  AuditInv'
<1>1. Others(r) /\ mine'[r] = 0 /\ pc'[r] = "idle"
  BY EndLeaves DEF AuditInv
<1>2. Calm(r)
  BY <1>1 DEF Calm
<1> QED
  BY <1>2, CalmStep

LEMMA BatchKeeps ==
  ASSUME AuditInv, NEW r \in Verifier, BatchStep(r)
  PROVE  AuditInv'
<1> USE DEF callVars
<1>0. r \in Runner /\ r \notin Promoter /\ trouble \in Nat
  BY VerificationAssumption DEF Runner, AuditInv, Typed
<1>1. CASE StartBatch(r)
  <2>1. Calm(r)
    BY <1>0, <1>1 DEF StartBatch, Goto, Calm, Others, AuditInv, Typed, Places
  <2> QED
    BY <1>0, <2>1, CalmStep
<1>2. CASE SelectBatch(r)
  <2>1. PICK s \in SUBSET Candidates :
          /\ todo' = [todo EXCEPT ![r] = s]
          /\ pc' = [pc EXCEPT ![r] = IF s = {} THEN "event" ELSE "think"]
    BY <1>2 DEF SelectBatch
  <2>2. s \in SUBSET Call
    BY DEF Candidates, Live
  <2>3. UNCHANGED <<mine, mode, audit, raises, trouble>> /\ pc[r] = "select"
    BY <1>2 DEF SelectBatch
  <2>4. Calm(r)
    BY <1>0, <2>1, <2>2, <2>3 DEF Calm, Others, AuditInv, Typed, Places
  <2> QED
    BY <1>0, <2>4, CalmStep
<1>3. CASE Think(r)
  <2>1. PICK c \in todo[r] : todo' = [todo EXCEPT ![r] = @ \ {c}]
    BY <1>3 DEF Think
  <2>2. Calm(r)
    BY <1>0, <1>3, <2>1 DEF Think, Calm, Others, AuditInv, Typed, Places
  <2> QED
    BY <1>0, <2>2, CalmStep
<1>4. CASE InsertVerdict(r)
  <2>1. CASE state[answer[r][1]] = "live"
    <3>1. /\ pc' = [pc EXCEPT ![r] = IF todo[r] = {} THEN "event" ELSE "think"]
          /\ UNCHANGED <<todo, mode, mine, audit, raises, trouble>> /\ pc[r] = "insert"
      BY <1>4, <2>1 DEF InsertVerdict
    <3>2. Calm(r)
      BY <1>0, <3>1 DEF Calm, Others, AuditInv, Typed, Places
    <3> QED
      BY <1>0, <3>2, CalmStep
  <2>2. CASE state[answer[r][1]] # "live"
    <3>1. Throw(r) /\ UNCHANGED <<audit, raises, trouble>>
      BY <1>4, <2>2 DEF InsertVerdict
    <3> QED
      BY <1>0, <3>1, ThrowIsCalm
  <2> QED
    BY <2>1, <2>2
<1>5. CASE Finish(r)
  BY <1>0, <1>5, EndIsCalm DEF Finish
<1> QED
  BY <1>1, <1>2, <1>3, <1>4, <1>5 DEF BatchStep

LEMMA PromotionKeeps ==
  ASSUME AuditInv, NEW r \in Promoter, PromotionStep(r) \/ LoseReply(r)
  PROVE  AuditInv'
<1> USE DEF callVars
<1>0. r \in Runner /\ trouble \in Nat
  BY DEF Runner, AuditInv, Typed
<1>1. CASE StartPromotion(r)
  <2>1. PICK md \in Modes : mode' = [mode EXCEPT ![r] = md]
    BY <1>1 DEF StartPromotion, Modes
  <2>2. Calm(r)
    BY <1>0, <1>1, <2>1 DEF StartPromotion, Calm, Others, AuditInv, Typed, Places
  <2> QED
    BY <1>0, <2>2, CalmStep
<1>2. CASE SelectPromotable(r)
  <2>1. PICK s \in SUBSET Promotable : todo' = [todo EXCEPT ![r] = s]
    BY <1>2 DEF SelectPromotable
  <2>2. s \in SUBSET Call
    BY DEF Promotable, Live
  <2>3. Calm(r)
    BY <1>0, <1>2, <2>1, <2>2 DEF SelectPromotable, Calm, Others, AuditInv, Typed, Places
  <2> QED
    BY <1>0, <2>3, CalmStep
<1>3. CASE Blocked(r)
  BY <1>0, <1>3, ThrowIsCalm DEF Blocked
<1>4. CASE Finish(r)
  BY <1>0, <1>4, EndIsCalm DEF Finish
<1> QED
  BY <1>1, <1>2, <1>3, <1>4, InsertAuditStep, PromoteStep, RecordStep, FailStep
  DEF PromotionStep

LEMMA TroubleKeeps ==
  ASSUME AuditInv, NEW r \in Runner, Reject(r) \/ Crash(r)
  PROVE  AuditInv'
<1> USE DEF callVars
<1>0. trouble \in Nat /\ trouble' \in Nat /\ trouble' >= trouble /\ trouble' # 0
  BY DEF Reject, Crash, Trouble, AuditInv, Typed
<1>1. CASE Crash(r)
  BY <1>0, <1>1, EndIsCalm DEF Crash
<1>2. CASE Reject(r) /\ Throw(r)
  BY <1>0, <1>2, ThrowIsCalm DEF Reject
<1>3. CASE Reject(r) /\ ~Throw(r)
  <2>1. Goto(r, "fail") /\ r \in Promoter /\ pc[r] \in {"promote", "record", "event"}
    BY <1>3 DEF Reject
  <2>2. mine[r] # 0
    BY <2>1 DEF AuditInv, RowIsThere
  <2>3. Calm(r)
    BY <1>0, <1>3, <2>1, <2>2 DEF Reject, Goto, Calm, Others, AuditInv, Typed, Places
  <2> QED
    BY <2>3, CalmStep
<1> QED
  BY <1>1, <1>2, <1>3

LEMMA InvInit == Init => AuditInv
<1> SUFFICES ASSUME Init PROVE AuditInv
  OBVIOUS
<1>1. Typed
  BY DEF Init, Typed, Places, Modes
<1>2. (\A r \in Runner : RowIsThere(r)) /\ RowsDiffer /\ FailedInTrouble
  BY DEF Init, RowIsThere, RowsDiffer, FailedInTrouble
<1>3. AuditsAreExact
  <2> SUFFICES ASSUME NEW c \in Call
               PROVE  /\ Cardinality(Listing(c)) + Cardinality(Recording(c)) = raises[c]
                      /\ Cardinality(Listing(c)) + Cardinality(Recording(c)) \in Nat
    BY DEF AuditsAreExact
  <2>1. Listing(c) = {} /\ Recording(c) = {}
    BY DEF Init, Listing, Recording, Runner
  <2> QED
    BY <2>1, FS_EmptySet DEF Init
<1> QED
  BY <1>1, <1>2, <1>3 DEF AuditInv

\* Nobody joins or leaves.
CastInv == cast \subseteq Runner

LEMMA CastInit == Init => CastInv
  BY VerificationAssumption DEF Init, CastInv

LEMMA CastNext == CastInv /\ [Next]_vars => CastInv'
<1> SUFFICES ASSUME [Next]_vars PROVE cast' = cast
  BY DEF CastInv
<1> USE DEF vars
<1>1. ReplaceCall \/ AuditCall => cast' = cast
  BY DEF ReplaceCall, AuditCall
<1>2. \A r : BatchStep(r) => cast' = cast
  BY DEF BatchStep, StartBatch, SelectBatch, Think, InsertVerdict, Finish
<1>3. \A r : PromotionStep(r) \/ LoseReply(r) => cast' = cast
  BY DEF PromotionStep, StartPromotion, SelectPromotable, InsertAudit, Blocked, Promote,
         RecordPromotion, FailPromotion, Finish, LoseReply
<1>4. \A r : Reject(r) \/ Crash(r) => cast' = cast
  BY DEF Reject, Crash
<1> QED
  BY <1>1, <1>2, <1>3, <1>4 DEF Next

LEMMA InvNext == AuditInv /\ CastInv /\ [Next]_vars => AuditInv'
<1> SUFFICES ASSUME AuditInv, CastInv, [Next]_vars PROVE AuditInv'
  OBVIOUS
<1>1. CASE ReplaceCall \/ AuditCall \/ UNCHANGED vars
  <2>1. UNCHANGED <<pc, todo, mine, mode, audit, raises, trouble>>
    BY <1>1 DEF ReplaceCall, AuditCall, vars, callVars, jobVars
  <2> QED
    BY <2>1, NothingStep
<1>2. CASE \E r \in cast \cap Verifier : BatchStep(r)
  BY <1>2, BatchKeeps
<1>3. CASE \E r \in cast \cap Promoter : PromotionStep(r) \/ LoseReply(r)
  BY <1>3, PromotionKeeps
<1>4. CASE \E r \in cast : Reject(r) \/ Crash(r)
  <2>1. PICK r \in cast : Reject(r) \/ Crash(r)
    BY <1>4
  <2>2. r \in Runner
    BY DEF CastInv
  <2> QED
    BY <2>1, <2>2, TroubleKeeps
<1> QED
  BY <1>1, <1>2, <1>3, <1>4 DEF Next

\* The audit accounts for every raise: the rows that succeeded, with what is about
\* to be recorded, list a call exactly as often as promotions raised it while
\* nothing goes wrong, and never more often (promoteCandidates, updateAudit and the
\* catch of runMlPromotionJob).
THEOREM AuditsAccount == Spec => []AuditsAreExact
<1>1. AuditInv => AuditsAreExact
  BY DEF AuditInv
<1> QED
  BY <1>1, CastInit, CastNext, InvInit, InvNext, PTL DEF Spec

=============================================================================
