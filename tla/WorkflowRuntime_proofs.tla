----------------------- MODULE WorkflowRuntime_proofs -----------------------
(***************************************************************************)
(* Proofs about the workflow runtime for any number of calls, keys, nodes    *)
(* and attempts, any definitions the sort accepts, and any rejections.       *)
(***************************************************************************)
EXTENDS WorkflowRuntime, TLAPS

Absent(c, n) == \A k \in Attempts : nodeRuns[c][<<n, k>>] = "absent"

\* A node is through: one attempt finished after failed ones, and what the node
\* hands on is that attempt's artifact or nothing.
Done(c, n, k) ==
  /\ nodeRuns[c][<<n, k>>] \in Finished
  /\ \A l \in Attempts \ {k} : nodeRuns[c][<<n, l>>] = IF l < k THEN "failed" ELSE "absent"
  /\ outputs[c][n] \in {0, k}
  /\ outputs[c][n] = k => <<c, n, k>> \in artifacts
Through(c, n) == \E k \in Attempts : Done(c, n, k)

\* The order of a call is one of the sort's.
Placed(c) ==
  /\ \A i, j \in 1 .. Len(order[c]) : order[c][i] = order[c][j] => i = j
  /\ \A i \in 1 .. Len(order[c]) : \A m \in ToSet(deps[c][order[c][i]]) :
       \E j \in 1 .. i - 1 : order[c][j] = m

\* The nodes before the current one are through, those after it untouched.
Progress(c) ==
  \A i \in 1 .. Len(order[c]) :
    /\ i < at[c] => Through(c, order[c][i])
    /\ i > at[c] => Absent(c, order[c][i])

\* Earlier attempts of the current node have failed, later ones not begun.
Trying(c) ==
  (pc[c] \in {"node", "handler", "artifact", "mark", "fail"} /\ at[c] <= Len(order[c])) =>
    /\ attempt[c] \in 1 .. MaxAttempts[Current(c)]
    /\ \A l \in Attempts :
         /\ l < attempt[c] => nodeRuns[c][<<Current(c), l>>] = "failed"
         /\ l > attempt[c] => nodeRuns[c][<<Current(c), l>>] = "absent"
         /\ l = attempt[c] => (nodeRuns[c][<<Current(c), l>>] = "absent" <=> pc[c] = "node")

Control(c) ==
  /\ pc[c] \in {"idle", "start"} => /\ at[c] = 1 /\ attempt[c] = 1
                                    /\ \A n \in Node : Absent(c, n)
  /\ pc[c] \in {"handler", "artifact", "mark", "fail"} => at[c] <= Len(order[c])
  /\ pc[c] \in {"artifact", "mark"} => want[c] # "none"
  /\ pc[c] = "mark" => /\ outputs[c][Current(c)] \in {0, attempt[c]}
                       /\ outputs[c][Current(c)] = attempt[c] => Id(c) \in artifacts
  /\ pc[c] = "finish" => want[c] \in Stopped /\ (want[c] = "completed" => at[c] > Len(order[c]))
  /\ runStatus[c] \in Stopped => pc[c] \in {"returned", "threw"}
  /\ runStatus[c] = "completed" => at[c] > Len(order[c])

\* The body of InputsComeFromFinishedAttempts.
Fed(c) ==
  \A n \in ToSet(order[c]) :
    (\E k \in Attempts : nodeRuns[c][<<n, k>>] # "absent") =>
      \A m \in ToSet(deps[c][n]) : \E k \in Attempts :
        /\ nodeRuns[c][<<m, k>>] \in Finished
        /\ inputs[c][n][m] \in {0, k}
        /\ inputs[c][n][m] = k => <<c, m, k>> \in artifacts

Own(c) == Placed(c) /\ Progress(c) /\ Trying(c) /\ Control(c) /\ Fed(c)

\* A stored copy that is not of a running run is that of the run's row.
StoreRecorded ==
  \A k \in Key : store[k].status \in Stopped =>
    store[k].run \in Call /\ KeyOf[store[k].run] = k /\ runStatus[store[k].run] = store[k].status

RuntimeInv == TypeOK /\ (\A c \in Call : Own(c)) /\ StoreRecorded /\ ResultIsRecorded

-----------------------------------------------------------------------------
LEMMA AttemptsAreNumbers == Attempts \subseteq Nat \ {0}
  BY RuntimeAssumption DEF Attempts

LEMMA OneIsAnAttempt == \A n \in Node : 1 .. MaxAttempts[n] \subseteq Attempts /\ 1 \in 1 .. MaxAttempts[n]
  BY RuntimeAssumption DEF Attempts

\* The rows of a call, its place in the order and what its nodes hand on stay:
\* so does what the invariant says of them; artifacts may be added.
LEMMA Kept ==
  ASSUME NEW c \in Call, Placed(c), Progress(c), Fed(c),
         order'[c] = order[c], deps'[c] = deps[c], at'[c] = at[c], outputs'[c] = outputs[c],
         nodeRuns'[c] = nodeRuns[c], inputs'[c] = inputs[c], artifacts \subseteq artifacts'
  PROVE  Placed(c)' /\ Progress(c)' /\ Fed(c)'
<1>1. Placed(c)'
  BY DEF Placed
<1>2. ASSUME NEW n PROVE (Through(c, n) => Through(c, n)') /\ (Absent(c, n) => Absent(c, n)')
  <2>1. ASSUME NEW k \in Attempts, Done(c, n, k) PROVE Done(c, n, k)'
    BY <2>1 DEF Done
  <2>2. Through(c, n) => Through(c, n)'
    BY <2>1 DEF Through
  <2>3. Absent(c, n) => Absent(c, n)'
    BY DEF Absent
  <2> QED
    BY <2>2, <2>3
<1>3. Progress(c)'
  BY <1>2 DEF Progress
<1>4. Fed(c)'
  <2> SUFFICES ASSUME NEW n \in ToSet(order[c]), \E k \in Attempts : nodeRuns'[c][<<n, k>>] # "absent",
                      NEW m \in ToSet(deps[c][n])
               PROVE  \E k \in Attempts : /\ nodeRuns'[c][<<m, k>>] \in Finished
                                          /\ inputs'[c][n][m] \in {0, k}
                                          /\ inputs'[c][n][m] = k => <<c, m, k>> \in artifacts'
    BY DEF Fed
  <2>1. PICK k \in Attempts : /\ nodeRuns[c][<<m, k>>] \in Finished
                              /\ inputs[c][n][m] \in {0, k}
                              /\ inputs[c][n][m] = k => <<c, m, k>> \in artifacts
    BY DEF Fed
  <2> QED
    BY <2>1
<1> QED
  BY <1>1, <1>3, <1>4

\* A call that a step leaves alone keeps its part of the invariant; artifacts
\* may be added.
LEMMA Untouched ==
  ASSUME NEW c \in Call, Own(c),
         pc'[c] = pc[c] \/ pc'[c] \in {"returned", "threw"},
         order'[c] = order[c], deps'[c] = deps[c], at'[c] = at[c], attempt'[c] = attempt[c],
         want'[c] = want[c], outputs'[c] = outputs[c], runStatus'[c] = runStatus[c],
         nodeRuns'[c] = nodeRuns[c], inputs'[c] = inputs[c], artifacts \subseteq artifacts'
  PROVE  Own(c)'
<1>1. Placed(c)' /\ Progress(c)' /\ Fed(c)'
  BY Kept DEF Own
<1>2. \A n \in Node : Absent(c, n) => Absent(c, n)'
  BY DEF Absent
<1>3. Trying(c)' /\ Control(c)'
  BY <1>2 DEF Own, Trying, Control, Current, Id
<1> QED
  BY <1>1, <1>3 DEF Own

\* The acting call: its order stays, and it writes at most the row of the current
\* attempt.
LEMMA RowWritten ==
  ASSUME TypeOK, NEW c \in Call, Own(c), at[c] <= Len(order[c]), attempt[c] \in Attempts,
         NEW s, NEW o, SetRow(c, s, o),
         order'[c] = order[c], deps'[c] = deps[c], artifacts \subseteq artifacts',
         \A n \in Node : n # Current(c) => outputs'[c][n] = outputs[c][n]
  PROVE  /\ \A i \in 1 .. Len(order[c]) :
              /\ i < at[c] => Through(c, order[c][i])'
              /\ i > at[c] => Absent(c, order[c][i])'
         /\ \A n \in Node : n # Current(c) => \A k \in Attempts : nodeRuns'[c][<<n, k>>] = nodeRuns[c][<<n, k>>]
         /\ \A k \in Attempts : k # attempt[c] =>
              nodeRuns'[c][<<Current(c), k>>] = nodeRuns[c][<<Current(c), k>>]
         /\ o # "before" => nodeRuns'[c][<<Current(c), attempt[c]>>] = s
         /\ o = "before" => nodeRuns'[c] = nodeRuns[c]
<1>1. Current(c) \in Node /\ at[c] \in 1 .. Len(order[c]) /\ order[c] \in Seq(Node)
  BY DEF TypeOK, Current
<1>2. /\ \A n \in Node : n # Current(c) => \A k \in Attempts : nodeRuns'[c][<<n, k>>] = nodeRuns[c][<<n, k>>]
      /\ \A k \in Attempts : k # attempt[c] =>
           nodeRuns'[c][<<Current(c), k>>] = nodeRuns[c][<<Current(c), k>>]
      /\ o # "before" => nodeRuns'[c][<<Current(c), attempt[c]>>] = s
      /\ o = "before" => nodeRuns'[c] = nodeRuns[c]
  <2>1. CASE o = "before"
    BY <2>1 DEF SetRow, Wrote
  <2>2. CASE o # "before"
    <3>1. nodeRuns'[c] = [nodeRuns[c] EXCEPT ![<<Current(c), attempt[c]>>] = s]
      BY <2>2 DEF SetRow, Wrote, Row, TypeOK
    <3>2. DOMAIN nodeRuns[c] = Node \X Attempts
      BY DEF TypeOK
    <3> QED
      BY <1>1, <2>2, <3>1, <3>2
  <2> QED
    BY <2>1, <2>2
<1>3. ASSUME NEW i \in 1 .. Len(order[c]), i # at[c]
      PROVE  order[c][i] # Current(c) /\ order[c][i] \in Node
  BY <1>1, <1>3 DEF Own, Placed, Current
<1>4. ASSUME NEW i \in 1 .. Len(order[c]), i < at[c] PROVE Through(c, order[c][i])'
  <2>1. PICK k \in Attempts : Done(c, order[c][i], k)
    BY <1>4 DEF Own, Progress, Through
  <2>2. order[c][i] # Current(c) /\ order[c][i] \in Node
    BY <1>1, <1>3, <1>4
  <2>3. Done(c, order[c][i], k)'
    BY <1>2, <2>1, <2>2 DEF Done
  <2> QED
    BY <2>3 DEF Through
<1>5. ASSUME NEW i \in 1 .. Len(order[c]), i > at[c] PROVE Absent(c, order[c][i])'
  <2>1. order[c][i] # Current(c) /\ order[c][i] \in Node
    BY <1>1, <1>3, <1>5
  <2> QED
    BY <1>2, <1>5, <2>1 DEF Own, Progress, Absent
<1> QED
  BY <1>2, <1>4, <1>5

\* A node that has begun is the current one or one before it, and what it depends
\* on comes before the current one.
LEMMA DependenciesAreThrough ==
  ASSUME TypeOK, NEW c \in Call, Own(c), at[c] <= Len(order[c]),
         NEW n \in ToSet(order[c]), n = Current(c) \/ ~Absent(c, n),
         NEW m \in ToSet(deps[c][n])
  PROVE  m # Current(c) /\ m \in Node /\ Through(c, m)
<1>1. at[c] \in 1 .. Len(order[c]) /\ order[c] \in Seq(Node)
  BY DEF TypeOK
<1>2. PICK i \in 1 .. Len(order[c]) : n = order[c][i]
  BY <1>1 DEF ToSet
<1>3. i <= at[c]
  <2>1. CASE n = Current(c)
    <3>1. order[c][i] = order[c][at[c]]
      BY <1>2, <2>1 DEF Current
    <3>2. i = at[c]
      BY <1>1, <3>1 DEF Own, Placed
    <3> QED
      BY <1>1, <3>2
  <2>2. CASE ~Absent(c, n)
    BY <1>1, <1>2, <2>2 DEF Own, Progress
  <2> QED
    BY <2>1, <2>2
<1>4. PICK j \in 1 .. i - 1 : order[c][j] = m
  BY <1>2 DEF Own, Placed
<1>5. j \in 1 .. Len(order[c]) /\ j < at[c]
  BY <1>1, <1>3, <1>4
<1>6. m # Current(c) /\ m \in Node
  BY <1>1, <1>4, <1>5 DEF Own, Placed, Current
<1>7. Through(c, m)
  BY <1>4, <1>5 DEF Own, Progress
<1> QED
  BY <1>6, <1>7

\* Rows of the current node alone are written: the other nodes stay fed.
LEMMA FedStays ==
  ASSUME TypeOK, NEW c \in Call, Own(c), at[c] <= Len(order[c]),
         order'[c] = order[c], deps'[c] = deps[c], artifacts \subseteq artifacts',
         \A n \in Node : n # Current(c) => \A k \in Attempts : nodeRuns'[c][<<n, k>>] = nodeRuns[c][<<n, k>>],
         \/ inputs'[c] = inputs[c] /\ ~Absent(c, Current(c))
         \/ inputs'[c] = [inputs[c] EXCEPT ![Current(c)] = HandedOn(c)]
  PROVE  Fed(c)'
<1> SUFFICES ASSUME NEW n \in ToSet(order[c]), \E k \in Attempts : nodeRuns'[c][<<n, k>>] # "absent",
                    NEW m \in ToSet(deps[c][n])
             PROVE  \E k \in Attempts : /\ nodeRuns'[c][<<m, k>>] \in Finished
                                        /\ inputs'[c][n][m] \in {0, k}
                                        /\ inputs'[c][n][m] = k => <<c, m, k>> \in artifacts'
  BY DEF Fed
<1>1. n \in Node
  BY DEF TypeOK, ToSet
<1>2. n = Current(c) \/ ~Absent(c, n)
  BY <1>1 DEF Absent
<1>3. m # Current(c) /\ m \in Node /\ Through(c, m)
  BY <1>2, DependenciesAreThrough
<1>4. CASE n = Current(c) /\ inputs'[c] = [inputs[c] EXCEPT ![Current(c)] = HandedOn(c)]
  <2>1. inputs'[c][n] = HandedOn(c)
    BY <1>1, <1>4 DEF TypeOK
  <2>2. inputs'[c][n][m] = outputs[c][m]
    BY <1>3, <1>4, <2>1 DEF HandedOn
  <2>3. PICK k \in Attempts : Done(c, m, k)
    BY <1>3 DEF Through
  <2> QED
    BY <1>3, <2>2, <2>3 DEF Done
<1>5. CASE ~(n = Current(c) /\ inputs'[c] = [inputs[c] EXCEPT ![Current(c)] = HandedOn(c)])
  <2>1. inputs'[c][n] = inputs[c][n] /\ ~Absent(c, n)
    BY <1>1, <1>2, <1>5 DEF TypeOK
  <2>2. PICK k \in Attempts : /\ nodeRuns[c][<<m, k>>] \in Finished
                              /\ inputs[c][n][m] \in {0, k}
                              /\ inputs[c][n][m] = k => <<c, m, k>> \in artifacts
    BY <2>1 DEF Own, Fed, Absent
  <2> QED
    BY <1>3, <2>1, <2>2
<1> QED
  BY <1>4, <1>5

-----------------------------------------------------------------------------
(* One step of a call: types, the other calls, the call itself.             *)

OthersKeep(c) ==
  /\ \A d \in Call \ {c} :
       /\ pc'[d] = pc[d] /\ order'[d] = order[d] /\ deps'[d] = deps[d] /\ at'[d] = at[d]
       /\ attempt'[d] = attempt[d] /\ want'[d] = want[d] /\ outputs'[d] = outputs[d]
       /\ runStatus'[d] = runStatus[d] /\ nodeRuns'[d] = nodeRuns[d] /\ inputs'[d] = inputs[d]
  /\ artifacts \subseteq artifacts'
  /\ \A a \in artifacts' \ artifacts : a[1] = c

LEMMA CurrentTyped ==
  ASSUME TypeOK, NEW c \in Call, Own(c), at[c] <= Len(order[c]),
         pc[c] \in {"node", "handler", "artifact", "mark", "fail"}
  PROVE  /\ Current(c) \in Node /\ attempt[c] \in Attempts
         /\ at[c] \in 1 .. Len(order[c]) /\ order[c] \in Seq(Node)
<1>1. at[c] \in 1 .. Len(order[c]) /\ order[c] \in Seq(Node)
  BY DEF TypeOK
<1>2. Current(c) \in Node
  BY <1>1 DEF Current
<1>3. attempt[c] \in 1 .. MaxAttempts[Current(c)]
  BY DEF Own, Trying
<1> QED
  BY <1>1, <1>2, <1>3, OneIsAnAttempt

LEMMA CountTyped == ASSUME TypeOK, NEW o \in Outcomes, Count(o) PROVE rejections' \in 0 .. MaxRejections
  BY RuntimeAssumption DEF TypeOK, Outcomes, Count

LEMMA BeginStep ==
  ASSUME TypeOK, NEW c \in Call, Own(c), Begin(c)
  PROVE  TypeOK' /\ OthersKeep(c) /\ Own(c)'
<1> USE DEF rowVars
<1>1. PICK d \in Definitions :
        \/ /\ UNCHANGED <<order, deps>> /\ (Goto(c, "threw") \/ Goto(c, "returned"))
           /\ (UNCHANGED result \/ (KeyOf[c] # None /\ result' = [result EXCEPT ![c] = store[KeyOf[c]].status]))
        \/ /\ Sortable(d, MaxIterations) /\ Goto(c, "start")
           /\ order' = [order EXCEPT ![c] = Sorted(d)] /\ deps' = [deps EXCEPT ![c] = d.deps]
           /\ UNCHANGED result
  BY DEF Begin
<1>2. UNCHANGED <<at, attempt, want, outputs, store, rowVars, late, rejections>> /\ pc[c] = "idle"
  BY DEF Begin
<1>3. CASE UNCHANGED <<order, deps>> /\ (Goto(c, "threw") \/ Goto(c, "returned"))
            /\ (UNCHANGED result \/ (KeyOf[c] # None /\ result' = [result EXCEPT ![c] = store[KeyOf[c]].status]))
  <2>1. TypeOK'
    <3>1. result' \in [Call -> Stopped \cup {"none", "running"}]
      BY <1>3, RuntimeAssumption DEF TypeOK
    <3>2. pc' \in [Call -> {"idle", "returned", "threw"} \cup Active]
      BY <1>3 DEF TypeOK, Goto
    <3> QED
      BY <1>2, <1>3, <3>1, <3>2 DEF TypeOK
  <2>2. OthersKeep(c)
    BY <1>2, <1>3 DEF OthersKeep, Goto, TypeOK
  <2>3. Own(c)'
    BY <1>2, <1>3, Untouched DEF Goto, TypeOK
  <2> QED
    BY <2>1, <2>2, <2>3
<1>4. CASE /\ Sortable(d, MaxIterations) /\ Goto(c, "start")
           /\ order' = [order EXCEPT ![c] = Sorted(d)] /\ deps' = [deps EXCEPT ![c] = d.deps]
           /\ UNCHANGED result
  <2>1. /\ Sorted(d) \in Seq(Node) /\ d.deps \in [Node -> Seq(Node)]
        /\ TopologicalOrder(d, Sorted(d))
    BY <1>4, RuntimeAssumption
  <2>2. order'[c] = Sorted(d) /\ deps'[c] = d.deps /\ at'[c] = 1 /\ attempt'[c] = 1 /\ pc'[c] = "start"
    BY <1>2, <1>4 DEF TypeOK, Goto, Own, Control
  <2>3. TypeOK'
    <3>1. order' \in [Call -> Seq(Node)] /\ deps' \in [Call -> [Node -> Seq(Node)]]
      BY <1>4, <2>1 DEF TypeOK
    <3>2. pc' \in [Call -> {"idle", "returned", "threw"} \cup Active]
      BY <1>4 DEF TypeOK, Goto, Active
    <3>3. \A e \in Call : at'[e] \in 1 .. Len(order'[e]) + 1
      BY <1>2, <1>4, <2>1, <2>2 DEF TypeOK
    <3> QED
      BY <1>2, <1>4, <3>1, <3>2, <3>3 DEF TypeOK
  <2>4. OthersKeep(c)
    BY <1>2, <1>4 DEF OthersKeep, Goto, TypeOK
  <2>5. Placed(c)'
    <3>1. \A i, j \in 1 .. Len(order'[c]) : order'[c][i] = order'[c][j] => i = j
      BY <2>1, <2>2 DEF TopologicalOrder, IsInjective
    <3>2. \A i \in 1 .. Len(order'[c]) : \A m \in ToSet(deps'[c][order'[c][i]]) :
            \E j \in 1 .. i - 1 : order'[c][j] = m
      <4>1. \A i \in DOMAIN order'[c] : \A m \in ToSet(d.deps[order'[c][i]]) :
              \E j \in 1 .. i - 1 : order'[c][j] = m
        <5>1. TopologicalOrder(d, order'[c])
          BY <2>1, <2>2
        <5> QED
          BY <5>1 DEF TopologicalOrder, Depends
      <4>2. DOMAIN order'[c] = 1 .. Len(order'[c])
        BY <2>1, <2>2
      <4> QED
        BY <2>2, <4>1, <4>2
    <3> QED
      BY <3>1, <3>2 DEF Placed
  <2>6. \A n \in Node : \A k \in Attempts : nodeRuns'[c][<<n, k>>] = "absent"
    BY <1>2 DEF Own, Control, Absent
  <2>7. Progress(c)'
    BY <2>1, <2>2, <2>6 DEF Progress, Absent
  <2>8. Trying(c)'
    BY <2>2 DEF Trying
  <2>10. Control(c)'
    <3>1. runStatus'[c] \notin Stopped
      BY <1>2 DEF Own, Control
    <3> QED
      BY <2>2, <2>6, <3>1 DEF Control, Absent, Stopped
  <2>9. Fed(c)'
    <3>1. \A n \in ToSet(order'[c]) : n \in Node
      BY <2>1, <2>2 DEF ToSet
    <3> QED
      BY <2>6, <3>1 DEF Fed, Absent
  <2> QED
    BY <2>3, <2>4, <2>5, <2>7, <2>8, <2>9, <2>10 DEF Own
<1> QED
  BY <1>1, <1>3, <1>4

LEMMA StartRunStep ==
  ASSUME TypeOK, NEW c \in Call, Own(c), StartRun(c)
  PROVE  TypeOK' /\ OthersKeep(c) /\ Own(c)'
<1>1. PICK o \in Outcomes :
        /\ Count(o)
        /\ runStatus' = IF Wrote(o) THEN [runStatus EXCEPT ![c] = "running"] ELSE runStatus
        /\ IF o = "ok" THEN Goto(c, "node") /\ Remember(c, "running")
                       ELSE Goto(c, "threw") /\ UNCHANGED store
  BY DEF StartRun
<1>2. /\ UNCHANGED <<order, deps, at, attempt, want, result, outputs, nodeRuns, inputs, artifacts, gates, late>>
      /\ pc[c] = "start"
  BY DEF StartRun
<1>3. TypeOK'
  <2>1. store' \in [Key -> [run : Call \cup {None}, status : Stopped \cup {"none", "running"}]]
    BY <1>1, RuntimeAssumption DEF Remember, TypeOK
  <2>2. pc' \in [Call -> {"idle", "returned", "threw"} \cup Active]
    BY <1>1 DEF TypeOK, Goto, Active
  <2>3. runStatus' \in [Call -> Stopped \cup {"absent", "running"}]
    BY <1>1 DEF TypeOK
  <2> QED
    BY <1>1, <1>2, <2>1, <2>2, <2>3, CountTyped DEF TypeOK
<1>4. OthersKeep(c)
  BY <1>1, <1>2 DEF OthersKeep, Goto, TypeOK
<1>5. pc'[c] = (IF o = "ok" THEN "node" ELSE "threw") /\ (runStatus'[c] = "running" \/ runStatus'[c] = runStatus[c])
  BY <1>1 DEF TypeOK, Goto
<1>6. Placed(c)' /\ Progress(c)' /\ Fed(c)'
  <2>1. Placed(c)'
    <3>1. Placed(c)
      BY DEF Own
    <3> QED
      BY <1>2, <3>1 DEF Placed
  <2>2. Progress(c)'
    BY <1>2 DEF Own, Progress, Through, Done, Absent
  <2>3. Fed(c)'
    <3>1. Fed(c)
      BY DEF Own
    <3>2. UNCHANGED <<order, deps, nodeRuns, inputs, artifacts>>
      BY <1>2
    <3> QED
      BY <3>1, <3>2 DEF Fed
  <2> QED
    BY <2>1, <2>2, <2>3
<1>7. Trying(c)'
  <2>1. ASSUME at[c] <= Len(order[c])
        PROVE  /\ Current(c) \in Node /\ attempt[c] = 1 /\ Absent(c, Current(c))
               /\ attempt[c] \in 1 .. MaxAttempts[Current(c)]
    BY <1>2, <2>1, OneIsAnAttempt DEF TypeOK, Own, Control, Current
  <2> QED
    <3> SUFFICES ASSUME o = "ok", at'[c] <= Len(order'[c]) PROVE Trying(c)'
      BY <1>2, <1>5 DEF Trying
    <3>1. /\ attempt'[c] \in 1 .. MaxAttempts[Current(c)'] /\ attempt'[c] = 1 /\ pc'[c] = "node"
          /\ \A k \in Attempts : nodeRuns'[c][<<Current(c)', k>>] = "absent"
      BY <1>2, <1>5, <2>1 DEF Absent, Current
    <3>2. \A l \in Attempts : ~(l < 1)
      BY AttemptsAreNumbers
    <3> QED
      BY <3>1, <3>2 DEF Trying
<1>8. Control(c)'
  BY <1>2, <1>5 DEF Control, Own, Stopped
<1> QED
  BY <1>3, <1>4, <1>6, <1>7, <1>8 DEF Own

LEMMA AllDoneStep ==
  ASSUME TypeOK, NEW c \in Call, Own(c), AllDone(c)
  PROVE  TypeOK' /\ OthersKeep(c) /\ Own(c)'
<1> USE DEF AllDone, rowVars
<1>1. pc'[c] = "finish" /\ want'[c] = "completed" /\ at[c] > Len(order[c])
  BY DEF TypeOK, Goto
<1>2. TypeOK'
  <2>1. pc' \in [Call -> {"idle", "returned", "threw"} \cup Active]
    BY DEF TypeOK, Goto, Active
  <2>2. want' \in [Call -> Stopped \cup Finished \cup {"none"}]
    BY DEF TypeOK, Stopped
  <2> QED
    BY <2>1, <2>2 DEF TypeOK
<1>3. OthersKeep(c)
  BY DEF OthersKeep, Goto, TypeOK
<1>4. Placed(c)' /\ Progress(c)' /\ Fed(c)'
  BY Kept DEF Own
<1>5. Trying(c)' /\ Control(c)'
  <2>1. runStatus[c] \notin Stopped
    BY DEF Own, Control
  <2> QED
    BY <1>1, <2>1 DEF Trying, Control, Stopped
<1> QED
  BY <1>2, <1>3, <1>4, <1>5 DEF Own

LEMMA FinishStep ==
  ASSUME TypeOK, NEW c \in Call, Own(c), Finish(c)
  PROVE  TypeOK' /\ OthersKeep(c) /\ Own(c)'
<1>1. PICK o \in Outcomes :
       /\ Count(o)
       /\ runStatus' = IF Wrote(o) THEN [runStatus EXCEPT ![c] = want[c]] ELSE runStatus
       /\ IF o = "ok" THEN /\ Goto(c, "returned")
                           /\ result' = [result EXCEPT ![c] = want[c]]
                           /\ Remember(c, want[c])
                      ELSE FinishRejected(c)
  BY DEF Finish
<1>2. /\ pc[c] = "finish"
      /\ UNCHANGED <<order, deps, at, attempt, want, outputs, nodeRuns, inputs, artifacts, gates, late>>
  BY DEF Finish
<1>3. want[c] \in Stopped /\ (want[c] = "completed" => at[c] > Len(order[c])) /\ runStatus[c] \notin Stopped
  BY <1>2 DEF Own, Control
<1>4. pc'[c] \in {"returned", "threw"} /\ runStatus'[c] \in {want[c], runStatus[c]}
  BY <1>1 DEF TypeOK, Goto, FinishRejected
<1>5. TypeOK'
  <2>1. pc' \in [Call -> {"idle", "returned", "threw"} \cup Active]
    BY <1>1 DEF TypeOK, Goto, FinishRejected
  <2>2. result' \in [Call -> Stopped \cup {"none", "running"}]
    BY <1>1, <1>3 DEF TypeOK, FinishRejected
  <2>3. runStatus' \in [Call -> Stopped \cup {"absent", "running"}]
    BY <1>1, <1>3 DEF TypeOK
  <2>4. store' \in [Key -> [run : Call \cup {None}, status : Stopped \cup {"none", "running"}]]
    BY <1>1, <1>3, RuntimeAssumption DEF Remember, TypeOK, FinishRejected
  <2> QED
    BY <1>1, <1>2, <2>1, <2>2, <2>3, <2>4, CountTyped DEF TypeOK
<1>6. OthersKeep(c)
  BY <1>1, <1>2 DEF OthersKeep, Goto, TypeOK, FinishRejected
<1>7. Placed(c)' /\ Progress(c)' /\ Fed(c)'
  BY <1>2, Kept DEF Own
<1>8. Trying(c)' /\ Control(c)'
  BY <1>2, <1>3, <1>4 DEF Trying, Control, Stopped
<1> QED
  BY <1>5, <1>6, <1>7, <1>8 DEF Own

LEMMA StartNodeStep ==
  ASSUME TypeOK, NEW c \in Call, Own(c), StartNode(c)
  PROVE  TypeOK' /\ OthersKeep(c) /\ Own(c)'
<1>1. PICK o \in Outcomes :
       /\ Count(o)
       /\ SetRow(c, "running", o)
       /\ inputs' = IF Wrote(o) THEN [inputs EXCEPT ![c][Current(c)] = HandedOn(c)] ELSE inputs
       /\ Goto(c, IF o = "ok" THEN "handler" ELSE "threw")
  BY DEF StartNode
<1>2. /\ pc[c] = "node" /\ at[c] <= Len(order[c])
      /\ UNCHANGED <<order, deps, at, attempt, want, result, outputs, store, runStatus, artifacts, gates, late>>
  BY DEF StartNode
<1>3. /\ Current(c) \in Node /\ attempt[c] \in Attempts
      /\ at[c] \in 1 .. Len(order[c]) /\ order[c] \in Seq(Node)
  BY <1>2, CurrentTyped
<1>4. TypeOK'
  <2>1. pc' \in [Call -> {"idle", "returned", "threw"} \cup Active]
    BY <1>1 DEF TypeOK, Goto, Active
  <2>2. nodeRuns' \in [Call -> [Node \X Attempts -> Stopped \cup Finished \cup {"absent", "running"}]]
    BY <1>1, <1>3 DEF TypeOK, SetRow, Row
  <2>3. inputs' \in [Call -> [Node -> [Node -> {0} \cup Attempts]]]
    <3>1. HandedOn(c) \in [Node -> {0} \cup Attempts]
      BY DEF HandedOn, TypeOK
    <3> QED
      BY <1>1, <1>3, <3>1 DEF TypeOK
  <2> QED
    BY <1>1, <1>2, <2>1, <2>2, <2>3, CountTyped DEF TypeOK
<1>5. OthersKeep(c)
  BY <1>1, <1>2 DEF OthersKeep, Goto, TypeOK, SetRow
<1>6. CASE o = "before"
  <2>1. nodeRuns'[c] = nodeRuns[c] /\ inputs'[c] = inputs[c] /\ pc'[c] = "threw"
    BY <1>1, <1>6 DEF SetRow, Wrote, Goto, TypeOK
  <2> QED
    BY <1>2, <1>4, <1>5, <2>1, Untouched
<1>7. CASE o # "before"
  <2>1. /\ \A i \in 1 .. Len(order[c]) :
             /\ i < at[c] => Through(c, order[c][i])'
             /\ i > at[c] => Absent(c, order[c][i])'
        /\ \A n \in Node : n # Current(c) => \A k \in Attempts : nodeRuns'[c][<<n, k>>] = nodeRuns[c][<<n, k>>]
        /\ \A k \in Attempts : k # attempt[c] =>
             nodeRuns'[c][<<Current(c), k>>] = nodeRuns[c][<<Current(c), k>>]
        /\ nodeRuns'[c][<<Current(c), attempt[c]>>] = "running"
    BY <1>1, <1>2, <1>3, <1>7, RowWritten
  <2>2. inputs'[c] = [inputs[c] EXCEPT ![Current(c)] = HandedOn(c)] /\ pc'[c] \in {"handler", "threw"}
    BY <1>1, <1>7 DEF TypeOK, Wrote, Goto
  <2>3. Placed(c)'
    <3>1. Placed(c)
      BY DEF Own
    <3> QED
      BY <1>2, <3>1 DEF Placed
  <2>4. Progress(c)'
    BY <1>2, <2>1 DEF Progress
  <2>5. Fed(c)'
    BY <1>2, <2>1, <2>2, FedStays
  <2>6. Trying(c)'
    <3>1. Trying(c)
      BY DEF Own
    <3> QED
      BY <1>2, <1>3, <2>1, <2>2, <3>1 DEF Trying, Current
  <2>7. Control(c)'
    <3>1. runStatus[c] \notin Stopped
      BY <1>2 DEF Own, Control
    <3> QED
      BY <1>2, <2>2, <3>1 DEF Control, Stopped
  <2> QED
    BY <1>4, <1>5, <2>3, <2>4, <2>5, <2>6, <2>7 DEF Own
<1> QED
  BY <1>6, <1>7

\* What RowWritten says, with an artifact or an output of the current node: the
\* order, the progress, the inputs.
LEMMA PlaceStays ==
  ASSUME TypeOK, NEW c \in Call, Own(c), at[c] <= Len(order[c]),
         pc[c] \in {"handler", "artifact", "mark", "fail"},
         NEW s, NEW o, SetRow(c, s, o),
         order'[c] = order[c], deps'[c] = deps[c], at'[c] = at[c], inputs'[c] = inputs[c],
         artifacts \subseteq artifacts',
         \A n \in Node : n # Current(c) => outputs'[c][n] = outputs[c][n]
  PROVE  /\ Placed(c)' /\ Progress(c)' /\ Fed(c)'
         /\ \A k \in Attempts : k # attempt[c] =>
              nodeRuns'[c][<<Current(c), k>>] = nodeRuns[c][<<Current(c), k>>]
         /\ o # "before" => nodeRuns'[c][<<Current(c), attempt[c]>>] = s
         /\ o = "before" => nodeRuns'[c] = nodeRuns[c]
<1>1. /\ Current(c) \in Node /\ attempt[c] \in Attempts
      /\ at[c] \in 1 .. Len(order[c]) /\ order[c] \in Seq(Node)
  BY CurrentTyped
<1>2. /\ \A i \in 1 .. Len(order[c]) :
           /\ i < at[c] => Through(c, order[c][i])'
           /\ i > at[c] => Absent(c, order[c][i])'
      /\ \A n \in Node : n # Current(c) => \A k \in Attempts : nodeRuns'[c][<<n, k>>] = nodeRuns[c][<<n, k>>]
      /\ \A k \in Attempts : k # attempt[c] =>
           nodeRuns'[c][<<Current(c), k>>] = nodeRuns[c][<<Current(c), k>>]
      /\ o # "before" => nodeRuns'[c][<<Current(c), attempt[c]>>] = s
      /\ o = "before" => nodeRuns'[c] = nodeRuns[c]
  BY <1>1, RowWritten
<1>3. Placed(c)'
  <2>1. Placed(c)
    BY DEF Own
  <2> QED
    BY <2>1 DEF Placed
<1>4. Progress(c)'
  BY <1>2 DEF Progress
<1>5. ~Absent(c, Current(c))
  BY <1>1 DEF Own, Trying, Absent
<1>6. Fed(c)'
  BY <1>2, <1>5, FedStays
<1> QED
  BY <1>2, <1>3, <1>4, <1>6

LEMMA HandlerReturnsStep ==
  ASSUME TypeOK, NEW c \in Call, Own(c), HandlerReturns(c)
  PROVE  TypeOK' /\ OthersKeep(c) /\ Own(c)'
<1>1. PICK s \in MayAsk[Current(c)] :
       /\ want' = [want EXCEPT ![c] = s]
       /\ gates' = IF s = "awaiting_approval" THEN gates \cup {Id(c)} ELSE gates
  BY DEF HandlerReturns
<1>2. /\ pc[c] = "handler"
      /\ UNCHANGED <<order, deps, at, attempt, result, store, runStatus, nodeRuns, inputs, artifacts, late, rejections>>
      /\ \/ Goto(c, "artifact") /\ UNCHANGED outputs
         \/ Goto(c, "mark") /\ HandOnNothing(c)
  BY DEF HandlerReturns
<1>3. at[c] <= Len(order[c]) /\ runStatus[c] \notin Stopped
  BY <1>2 DEF Own, Control
<1>4. /\ Current(c) \in Node /\ attempt[c] \in Attempts
      /\ at[c] \in 1 .. Len(order[c]) /\ order[c] \in Seq(Node)
  BY <1>2, <1>3, CurrentTyped
<1>5. s \in Stopped \cup Finished
  BY <1>1, <1>4, RuntimeAssumption DEF Stopped, Finished
<1>6. TypeOK'
  <2>1. pc' \in [Call -> {"idle", "returned", "threw"} \cup Active]
    <3>1. pc' = [pc EXCEPT ![c] = "artifact"] \/ pc' = [pc EXCEPT ![c] = "mark"]
      BY <1>2 DEF Goto
    <3> QED
      BY <3>1 DEF TypeOK, Active
  <2>2. want' \in [Call -> Stopped \cup Finished \cup {"none"}]
    BY <1>1, <1>5 DEF TypeOK
  <2>3. gates' \subseteq Call \X Node \X Attempts
    BY <1>1, <1>4 DEF TypeOK, Id
  <2>4. outputs' \in [Call -> [Node -> {0} \cup Attempts]]
    <3>1. CASE UNCHANGED outputs
      BY <3>1 DEF TypeOK
    <3>2. CASE outputs' = [outputs EXCEPT ![c][Current(c)] = 0]
      BY <1>4, <3>2 DEF TypeOK
    <3> QED
      BY <1>2, <3>1, <3>2 DEF HandOnNothing
  <2> QED
    BY <1>2, <2>1, <2>2, <2>3, <2>4 DEF TypeOK
<1>7. OthersKeep(c)
  BY <1>1, <1>2 DEF OthersKeep, Goto, TypeOK, HandOnNothing
<1>8. /\ pc'[c] \in {"artifact", "mark"} /\ want'[c] = s
      /\ \A n \in Node : n # Current(c) => outputs'[c][n] = outputs[c][n]
      /\ pc'[c] = "mark" => outputs'[c][Current(c)] = 0
  BY <1>1, <1>2, <1>4 DEF TypeOK, Goto, HandOnNothing
<1>9. SetRow(c, "running", "before")
  BY <1>2 DEF SetRow, Wrote
<1>10. Placed(c)' /\ Progress(c)' /\ Fed(c)'
  BY <1>2, <1>3, <1>8, <1>9, PlaceStays
<1>11. Trying(c)'
  BY <1>2, <1>3, <1>8 DEF Own, Trying, Current
<1>12. Control(c)'
  <2>1. s # "none"
    BY <1>5 DEF Stopped, Finished
  <2>2. attempt[c] # 0
    BY <1>4, AttemptsAreNumbers
  <2>3. Current(c)' = Current(c)
    BY <1>2 DEF Current
  <2> QED
    BY <1>2, <1>3, <1>8, <2>1, <2>2, <2>3 DEF Control, Stopped
<1> QED
  BY <1>6, <1>7, <1>10, <1>11, <1>12 DEF Own

\* The attempt fails before its row is marked.
LEMMA AttemptFails ==
  ASSUME TypeOK, NEW c \in Call, Own(c), pc[c] = "handler", Goto(c, "fail"),
         UNCHANGED <<order, deps, at, attempt, want, result, outputs, store, runStatus, nodeRuns, inputs, artifacts>>
  PROVE  OthersKeep(c) /\ Own(c)'
<1>1. OthersKeep(c)
  BY DEF OthersKeep, Goto, TypeOK
<1>2. pc'[c] = "fail" /\ at[c] <= Len(order[c]) /\ runStatus[c] \notin Stopped
  BY DEF TypeOK, Goto, Own, Control
<1>3. Placed(c)' /\ Progress(c)' /\ Fed(c)'
  BY Kept DEF Own
<1>4. Trying(c)'
  BY <1>2 DEF Own, Trying, Current
<1>5. Control(c)'
  BY <1>2 DEF Control, Stopped
<1> QED
  BY <1>1, <1>3, <1>4, <1>5 DEF Own

LEMMA HandlerFailsStep ==
  ASSUME TypeOK, NEW c \in Call, Own(c), HandlerThrows(c) \/ HandlerTimesOut(c)
  PROVE  TypeOK' /\ OthersKeep(c) /\ Own(c)'
<1>1. /\ pc[c] = "handler" /\ Goto(c, "fail")
      /\ UNCHANGED <<order, deps, at, attempt, want, result, outputs, store, runStatus, nodeRuns, inputs, artifacts>>
  BY DEF HandlerThrows, HandlerTimesOut, rowVars
<1>2. OthersKeep(c) /\ Own(c)'
  BY <1>1, AttemptFails
<1>3. at[c] <= Len(order[c])
  BY <1>1 DEF Own, Control
<1>4. Id(c) \in Call \X Node \X Attempts
  BY <1>1, <1>3, CurrentTyped DEF Id
<1>5. /\ gates' \subseteq Call \X Node \X Attempts /\ late' \subseteq Call \X Node \X Attempts
      /\ rejections' \in 0 .. MaxRejections
  <2>1. CASE HandlerThrows(c)
    <3>1. rejections' \in 0 .. MaxRejections
      <4>1. CASE UNCHANGED rejections
        BY <4>1 DEF TypeOK
      <4>2. CASE "after" \in Outcomes /\ Count("after")
        BY <4>2, CountTyped
      <4> QED
        BY <2>1, <4>1, <4>2 DEF HandlerThrows
    <3> QED
      BY <1>4, <2>1, <3>1 DEF HandlerThrows, TypeOK
  <2>2. CASE HandlerTimesOut(c)
    BY <1>4, <2>2 DEF HandlerTimesOut, TypeOK, rowVars
  <2> QED
    BY <2>1, <2>2
<1>6. pc' \in [Call -> {"idle", "returned", "threw"} \cup Active]
  BY <1>1 DEF TypeOK, Goto, Active
<1>7. TypeOK'
  BY <1>1, <1>5, <1>6 DEF TypeOK
<1> QED
  BY <1>2, <1>7

LEMMA MakeArtifactStep ==
  ASSUME TypeOK, NEW c \in Call, Own(c), MakeArtifact(c)
  PROVE  TypeOK' /\ OthersKeep(c) /\ Own(c)'
<1>1. PICK o \in Outcomes :
       /\ Count(o)
       /\ artifacts' = IF Wrote(o) THEN artifacts \cup {Id(c)} ELSE artifacts
       /\ IF o = "ok" THEN Goto(c, "mark") /\ outputs' = [outputs EXCEPT ![c][Current(c)] = attempt[c]]
                      ELSE Goto(c, "fail") /\ UNCHANGED outputs
  BY DEF MakeArtifact
<1>2. /\ pc[c] = "artifact"
      /\ UNCHANGED <<order, deps, at, attempt, want, result, store, runStatus, nodeRuns, inputs, gates, late>>
  BY DEF MakeArtifact
<1>3. at[c] <= Len(order[c]) /\ runStatus[c] \notin Stopped /\ want[c] # "none"
  BY <1>2 DEF Own, Control
<1>4. /\ Current(c) \in Node /\ attempt[c] \in Attempts
      /\ at[c] \in 1 .. Len(order[c]) /\ order[c] \in Seq(Node)
  BY <1>2, <1>3, CurrentTyped
<1>5. /\ \/ o = "ok" /\ pc'[c] = "mark" /\ outputs'[c][Current(c)] = attempt[c] /\ Id(c) \in artifacts'
         \/ o # "ok" /\ pc'[c] = "fail"
      /\ \A n \in Node : n # Current(c) => outputs'[c][n] = outputs[c][n]
  BY <1>1, <1>4 DEF TypeOK, Goto, Wrote
<1>6. artifacts \subseteq artifacts' /\ \A a \in artifacts' \ artifacts : a = Id(c)
  BY <1>1
<1>7. TypeOK'
  <2>1. pc' \in [Call -> {"idle", "returned", "threw"} \cup Active]
    BY <1>1 DEF TypeOK, Goto, Active
  <2>2. artifacts' \subseteq Call \X Node \X Attempts
    BY <1>1, <1>4 DEF TypeOK, Id
  <2>3. outputs' \in [Call -> [Node -> {0} \cup Attempts]]
    <3>1. CASE o = "ok"
      <4>1. outputs' = [outputs EXCEPT ![c] = [outputs[c] EXCEPT ![Current(c)] = attempt[c]]]
        BY <1>1, <3>1
      <4>2. [outputs[c] EXCEPT ![Current(c)] = attempt[c]] \in [Node -> {0} \cup Attempts]
        BY <1>4 DEF TypeOK
      <4> QED
        BY <4>1, <4>2 DEF TypeOK
    <3>2. CASE o # "ok"
      BY <1>1, <3>2 DEF TypeOK
    <3> QED
      BY <3>1, <3>2
  <2> QED
    BY <1>1, <1>2, <2>1, <2>2, <2>3, CountTyped DEF TypeOK
<1>8. OthersKeep(c)
  <2>1. \A a \in artifacts' \ artifacts : a[1] = c
    BY <1>6 DEF Id
  <2> QED
    BY <1>1, <1>2, <1>6, <2>1 DEF OthersKeep, Goto, TypeOK
<1>9. SetRow(c, "running", "before")
  BY <1>2 DEF SetRow, Wrote
<1>10. Placed(c)' /\ Progress(c)' /\ Fed(c)'
  BY <1>2, <1>3, <1>5, <1>6, <1>9, PlaceStays
<1>11. Trying(c)'
  BY <1>2, <1>3, <1>5 DEF Own, Trying, Current
<1>12. Control(c)'
  <2>1. Current(c)' = Current(c) /\ Id(c)' = Id(c)
    BY <1>2 DEF Current, Id
  <2> QED
    BY <1>2, <1>3, <1>5, <2>1 DEF Control, Stopped
<1> QED
  BY <1>7, <1>8, <1>10, <1>11, <1>12 DEF Own

LEMMA FailNodeStep ==
  ASSUME TypeOK, NEW c \in Call, Own(c), FailNode(c)
  PROVE  TypeOK' /\ OthersKeep(c) /\ Own(c)'
<1>1. PICK o \in Outcomes :
       /\ Count(o)
       /\ SetRow(c, "failed", o)
       /\ IF o # "ok" THEN Goto(c, "threw") /\ UNCHANGED <<at, attempt, want>>
          ELSE IF Exhausted(c) THEN GiveUp(c)
          ELSE Goto(c, "node") /\ attempt' = [attempt EXCEPT ![c] = @ + 1] /\ UNCHANGED <<at, want>>
  BY DEF FailNode
<1>2. /\ pc[c] = "fail"
      /\ UNCHANGED <<order, deps, result, outputs, store, runStatus, inputs, artifacts, gates, late>>
  BY DEF FailNode
<1>3. at[c] <= Len(order[c]) /\ runStatus[c] \notin Stopped
  BY <1>2 DEF Own, Control
<1>4. /\ Current(c) \in Node /\ attempt[c] \in Attempts
      /\ at[c] \in 1 .. Len(order[c]) /\ order[c] \in Seq(Node)
  BY <1>2, <1>3, CurrentTyped
<1>5. \/ o # "ok" /\ Goto(c, "threw") /\ UNCHANGED <<at, attempt, want>>
      \/ o = "ok" /\ Goto(c, "finish") /\ want' = [want EXCEPT ![c] = "failed"] /\ UNCHANGED <<at, attempt>>
      \/ /\ o = "ok" /\ ~Exhausted(c) /\ Goto(c, "node") /\ attempt' = [attempt EXCEPT ![c] = @ + 1]
         /\ UNCHANGED <<at, want>>
  BY <1>1 DEF GiveUp
<1>6. UNCHANGED at
  BY <1>5
<1>7. attempt[c] \in Nat \ {0} /\ Attempts \subseteq Nat \ {0}
  BY <1>4, AttemptsAreNumbers
<1>8. TypeOK'
  <2>1. pc' \in [Call -> {"idle", "returned", "threw"} \cup Active]
    BY <1>5 DEF TypeOK, Goto, Active
  <2>2. nodeRuns' \in [Call -> [Node \X Attempts -> Stopped \cup Finished \cup {"absent", "running"}]]
    BY <1>1, <1>4 DEF TypeOK, SetRow, Row, Stopped
  <2>3. want' \in [Call -> Stopped \cup Finished \cup {"none"}]
    BY <1>5 DEF TypeOK, Stopped
  <2>4. attempt' \in [Call -> Nat \ {0}]
    BY <1>5, <1>7 DEF TypeOK
  <2> QED
    BY <1>1, <1>2, <1>6, <2>1, <2>2, <2>3, <2>4, CountTyped DEF TypeOK
<1>9. OthersKeep(c)
  BY <1>1, <1>2, <1>5 DEF OthersKeep, Goto, TypeOK, SetRow
<1>10. /\ Placed(c)' /\ Progress(c)' /\ Fed(c)'
       /\ \A k \in Attempts : k # attempt[c] =>
            nodeRuns'[c][<<Current(c), k>>] = nodeRuns[c][<<Current(c), k>>]
       /\ o # "before" => nodeRuns'[c][<<Current(c), attempt[c]>>] = "failed"
  BY <1>1, <1>2, <1>3, <1>6, PlaceStays
<1>11. Trying(c)'
  <2>1. CASE pc'[c] # "node"
    BY <1>5, <2>1 DEF TypeOK, Goto, Trying
  <2>2. CASE pc'[c] = "node"
    <3>1. o = "ok" /\ ~Exhausted(c) /\ attempt'[c] = attempt[c] + 1
      BY <1>5, <2>2 DEF TypeOK, Goto
    <3>2. /\ attempt[c] \in 1 .. MaxAttempts[Current(c)]
          /\ \A l \in Attempts :
               /\ l < attempt[c] => nodeRuns[c][<<Current(c), l>>] = "failed"
               /\ l > attempt[c] => nodeRuns[c][<<Current(c), l>>] = "absent"
      BY <1>2, <1>3 DEF Own, Trying
    <3>3. attempt'[c] \in 1 .. MaxAttempts[Current(c)]
      BY <1>4, <3>1, <3>2, RuntimeAssumption DEF Exhausted
    <3>4. Current(c)' = Current(c)
      BY <1>2, <1>6 DEF Current
    <3>5. ASSUME NEW l \in Attempts
          PROVE  /\ l < attempt'[c] => nodeRuns'[c][<<Current(c), l>>] = "failed"
                 /\ l >= attempt'[c] => nodeRuns'[c][<<Current(c), l>>] = "absent"
      <4>1. l \in Nat /\ attempt[c] \in Nat
        BY <1>7
      <4>2. CASE l = attempt[c]
        BY <1>10, <3>1, <4>1, <4>2
      <4>3. CASE l # attempt[c]
        BY <1>10, <3>1, <3>2, <4>1, <4>3
      <4> QED
        BY <4>2, <4>3
    <3>6. attempt'[c] \in Nat
      BY <1>7, <3>1
    <3>7. pc'[c] = "node"
      BY <2>2
    <3>8. ASSUME NEW l \in Attempts
          PROVE  /\ l < attempt'[c] => nodeRuns'[c][<<Current(c)', l>>] = "failed"
                 /\ l > attempt'[c] => nodeRuns'[c][<<Current(c)', l>>] = "absent"
                 /\ l = attempt'[c] => nodeRuns'[c][<<Current(c)', l>>] = "absent"
      <4>1. l \in Nat /\ attempt'[c] \in Nat
        BY <1>7, <3>6
      <4> QED
        BY <3>4, <3>5, <4>1
    <3> QED
      BY <3>3, <3>4, <3>7, <3>8 DEF Trying
  <2> QED
    BY <2>1, <2>2
<1>12. Control(c)'
  BY <1>2, <1>3, <1>5 DEF Control, Stopped, TypeOK, Goto
<1> QED
  BY <1>8, <1>9, <1>10, <1>11, <1>12 DEF Own

LEMMA MarkStep ==
  ASSUME TypeOK, NEW c \in Call, Own(c), Mark(c)
  PROVE  TypeOK' /\ OthersKeep(c) /\ Own(c)'
<1>1. PICK o \in Outcomes :
       /\ Count(o)
       /\ SetRow(c, want[c], o)
       /\ IF o # "ok" THEN Goto(c, "fail") /\ UNCHANGED <<at, attempt>>
          ELSE IF want[c] \in Finished THEN NextNode(c)
          ELSE Goto(c, "finish") /\ UNCHANGED <<at, attempt>>
  BY DEF Mark
<1>2. /\ pc[c] = "mark"
      /\ UNCHANGED <<order, deps, want, result, outputs, store, runStatus, inputs, artifacts, gates, late>>
  BY DEF Mark
<1>3. at[c] <= Len(order[c]) /\ runStatus[c] \notin Stopped /\ want[c] # "none"
  BY <1>2 DEF Own, Control
<1>4. /\ Current(c) \in Node /\ attempt[c] \in Attempts
      /\ at[c] \in 1 .. Len(order[c]) /\ order[c] \in Seq(Node)
  BY <1>2, <1>3, CurrentTyped
<1>5. want[c] \in Stopped \cup Finished /\ want[c] # "absent"
  BY <1>3 DEF TypeOK, Stopped, Finished
<1>6. attempt[c] \in Nat \ {0} /\ Attempts \subseteq Nat \ {0}
  BY <1>4, AttemptsAreNumbers
<1>7. \/ o # "ok" /\ Goto(c, "fail") /\ UNCHANGED <<at, attempt>>
      \/ o = "ok" /\ want[c] \in Finished /\ NextNode(c)
      \/ o = "ok" /\ want[c] \notin Finished /\ Goto(c, "finish") /\ UNCHANGED <<at, attempt>>
  BY <1>1
<1>8. TypeOK'
  <2>1. pc' \in [Call -> {"idle", "returned", "threw"} \cup Active]
    BY <1>7 DEF TypeOK, Goto, Active, NextNode
  <2>2. nodeRuns' \in [Call -> [Node \X Attempts -> Stopped \cup Finished \cup {"absent", "running"}]]
    BY <1>1, <1>4, <1>5 DEF TypeOK, SetRow, Row
  <2>3. at' \in [Call -> Nat] /\ \A e \in Call : at'[e] \in 1 .. Len(order[e]) + 1
    <3>1. CASE UNCHANGED at
      BY <3>1 DEF TypeOK
    <3>2. CASE NextNode(c)
      <4>1. at' = [at EXCEPT ![c] = at[c] + 1] /\ at[c] + 1 \in 1 .. Len(order[c]) + 1
        BY <1>4, <3>2 DEF NextNode
      <4> QED
        BY <4>1 DEF TypeOK
    <3> QED
      BY <1>7, <3>1, <3>2
  <2>4. attempt' \in [Call -> Nat \ {0}]
    BY <1>7 DEF TypeOK, NextNode
  <2> QED
    BY <1>1, <1>2, <2>1, <2>2, <2>3, <2>4, CountTyped DEF TypeOK
<1>9. OthersKeep(c)
  BY <1>1, <1>2, <1>7 DEF OthersKeep, Goto, TypeOK, SetRow, NextNode
<1>10. CASE UNCHANGED <<at, attempt>> /\ ((Goto(c, "finish") /\ want[c] \notin Finished) \/ Goto(c, "fail"))
  <2>1. /\ Placed(c)' /\ Progress(c)' /\ Fed(c)'
        /\ \A k \in Attempts : k # attempt[c] =>
             nodeRuns'[c][<<Current(c), k>>] = nodeRuns[c][<<Current(c), k>>]
        /\ o # "before" => nodeRuns'[c][<<Current(c), attempt[c]>>] = want[c]
        /\ o = "before" => nodeRuns'[c] = nodeRuns[c]
    BY <1>1, <1>2, <1>3, <1>10, PlaceStays
  <2>2. Current(c)' = Current(c) /\ pc'[c] \in {"finish", "fail"}
    BY <1>2, <1>10 DEF Current, TypeOK, Goto
  <2>3. nodeRuns'[c][<<Current(c), attempt[c]>>] # "absent"
    <3>1. nodeRuns[c][<<Current(c), attempt[c]>>] # "absent"
      BY <1>2, <1>3, <1>4 DEF Own, Trying
    <3> QED
      BY <1>5, <2>1, <3>1
  <2>4. Trying(c)'
    <3>1. /\ attempt[c] \in 1 .. MaxAttempts[Current(c)]
          /\ \A l \in Attempts :
               /\ l < attempt[c] => nodeRuns[c][<<Current(c), l>>] = "failed"
               /\ l > attempt[c] => nodeRuns[c][<<Current(c), l>>] = "absent"
      BY <1>2, <1>3 DEF Own, Trying
    <3>2. ASSUME NEW l \in Attempts
          PROVE  /\ l < attempt[c] => nodeRuns'[c][<<Current(c), l>>] = "failed"
                 /\ l > attempt[c] => nodeRuns'[c][<<Current(c), l>>] = "absent"
      BY <1>6, <2>1, <3>1
    <3> QED
      BY <1>10, <2>2, <2>3, <3>1, <3>2 DEF Trying
  <2>5. Control(c)'
    BY <1>2, <1>3, <1>5, <1>10, <2>2 DEF Control, Stopped, Finished, TypeOK, Goto
  <2> QED
    BY <1>8, <1>9, <2>1, <2>4, <2>5 DEF Own
<1>11. CASE o = "ok" /\ want[c] \in Finished /\ NextNode(c)
  <2>1. pc'[c] = "node" /\ at'[c] = at[c] + 1 /\ attempt'[c] = 1
    BY <1>11 DEF TypeOK, Goto, NextNode
  <2>2. /\ \A i \in 1 .. Len(order[c]) :
             /\ i < at[c] => Through(c, order[c][i])'
             /\ i > at[c] => Absent(c, order[c][i])'
        /\ \A n \in Node : n # Current(c) => \A k \in Attempts : nodeRuns'[c][<<n, k>>] = nodeRuns[c][<<n, k>>]
        /\ \A k \in Attempts : k # attempt[c] =>
             nodeRuns'[c][<<Current(c), k>>] = nodeRuns[c][<<Current(c), k>>]
        /\ nodeRuns'[c][<<Current(c), attempt[c]>>] = want[c]
    BY <1>1, <1>2, <1>3, <1>4, <1>11, RowWritten
  <2>3. Placed(c)'
    <3>1. Placed(c)
      BY DEF Own
    <3> QED
      BY <1>2, <3>1 DEF Placed
  <2>4. ASSUME NEW i \in 1 .. Len(order[c]), i = at[c] PROVE Through(c, order[c][i])'
    <3>1. \A l \in Attempts :
            /\ l < attempt[c] => nodeRuns[c][<<Current(c), l>>] = "failed"
            /\ l > attempt[c] => nodeRuns[c][<<Current(c), l>>] = "absent"
      BY <1>2, <1>3 DEF Own, Trying
    <3>2. \A l \in Attempts \ {attempt[c]} :
            nodeRuns'[c][<<Current(c), l>>] = IF l < attempt[c] THEN "failed" ELSE "absent"
      <4> SUFFICES ASSUME NEW l \in Attempts, l # attempt[c]
                   PROVE  nodeRuns'[c][<<Current(c), l>>] = IF l < attempt[c] THEN "failed" ELSE "absent"
        OBVIOUS
      <4>1. nodeRuns'[c][<<Current(c), l>>] = nodeRuns[c][<<Current(c), l>>]
        BY <2>2
      <4>2. l \in Nat /\ attempt[c] \in Nat
        BY <1>6
      <4> QED
        BY <3>1, <4>1, <4>2
    <3>3. /\ outputs'[c][Current(c)] \in {0, attempt[c]}
          /\ outputs'[c][Current(c)] = attempt[c] => <<c, Current(c), attempt[c]>> \in artifacts'
      BY <1>2 DEF Own, Control, Id
    <3>4. nodeRuns'[c][<<Current(c), attempt[c]>>] \in Finished
      BY <1>11, <2>2
    <3>5. order'[c][i] = Current(c)
      BY <1>2, <2>4 DEF Current
    <3> QED
      BY <1>4, <3>2, <3>3, <3>4, <3>5 DEF Through, Done
  <2>5. Progress(c)'
    <3>1. at[c] \in Nat /\ at'[c] = at[c] + 1
      BY <1>4, <2>1
    <3>2. ASSUME NEW i \in 1 .. Len(order[c])
          PROVE  /\ i < at'[c] => Through(c, order[c][i])'
                 /\ i > at'[c] => Absent(c, order[c][i])'
      BY <2>2, <2>4, <3>1
    <3> QED
      BY <1>2, <3>2 DEF Progress
  <2>6. Fed(c)'
    <3>1. ~Absent(c, Current(c))
      BY <1>2, <1>3, <1>4 DEF Own, Trying, Absent
    <3> QED
      BY <1>2, <1>3, <2>2, <3>1, FedStays
  <2>7. Trying(c)'
    <3> SUFFICES ASSUME at'[c] <= Len(order'[c]) PROVE Trying(c)'
      BY DEF Trying
    <3>1. at'[c] \in 1 .. Len(order[c]) /\ at'[c] > at[c]
      BY <1>2, <1>4, <2>1
    <3>2. order[c][at'[c]] \in Node
      BY <1>4, <3>1
    <3>3. ASSUME NEW i \in 1 .. Len(order[c]), i > at[c], NEW k \in Attempts
          PROVE  nodeRuns'[c][<<order'[c][i], k>>] = "absent"
      BY <2>2, <3>3 DEF Absent
    <3>4. \A k \in Attempts : nodeRuns'[c][<<order'[c][at'[c]], k>>] = "absent"
      BY <3>1, <3>3
    <3>5. 1 \in 1 .. MaxAttempts[order'[c][at'[c]]]
      BY <1>2, <3>2, OneIsAnAttempt
    <3> QED
      BY <1>6, <2>1, <3>4, <3>5 DEF Trying, Current
  <2>8. Control(c)'
    BY <1>2, <1>3, <2>1 DEF Control, Stopped
  <2> QED
    BY <1>8, <1>9, <2>3, <2>5, <2>6, <2>7, <2>8 DEF Own
<1> QED
  BY <1>7, <1>10, <1>11

-----------------------------------------------------------------------------
(* The whole state.                                                         *)

LEMMA StepKeeps ==
  ASSUME TypeOK, NEW c \in Call, Own(c), Begin(c) \/ Step(c)
  PROVE  TypeOK' /\ OthersKeep(c) /\ Own(c)'
BY BeginStep, StartRunStep, StartNodeStep, AllDoneStep, HandlerReturnsStep, HandlerFailsStep,
   MakeArtifactStep, MarkStep, FailNodeStep, FinishStep DEF Step, Handler

\* A call that acts is not that of a stopped run.
LEMMA ActiveIsNotStopped ==
  ASSUME NEW c \in Call, Own(c), Begin(c) \/ Step(c)
  PROVE  runStatus[c] \notin Stopped
<1>1. pc[c] \notin {"returned", "threw"}
  BY DEF Begin, Step, Handler, StartRun, StartNode, AllDone, HandlerReturns, HandlerThrows, HandlerTimesOut,
         MakeArtifact, Mark, FailNode, Finish
<1> QED
  BY <1>1 DEF Own, Control

\* What a step does to the store and to the results.
LEMMA StepRecords ==
  ASSUME TypeOK, NEW c \in Call, Own(c), Begin(c) \/ Step(c)
  PROVE  /\ \/ UNCHANGED store
            \/ \E s : /\ KeyOf[c] # None /\ store' = [store EXCEPT ![KeyOf[c]] = [run |-> c, status |-> s]]
                      /\ s \in Stopped => runStatus'[c] = s
         /\ \/ UNCHANGED result
            \/ KeyOf[c] # None /\ result' = [result EXCEPT ![c] = store[KeyOf[c]].status]
            \/ result' = [result EXCEPT ![c] = runStatus'[c]]
<1>1. CASE Begin(c)
  BY <1>1 DEF Begin
<1>2. CASE StartRun(c)
  <2>1. UNCHANGED result
    BY <1>2 DEF StartRun
  <2>2. UNCHANGED store \/ (KeyOf[c] # None /\ store' = [store EXCEPT ![KeyOf[c]] = [run |-> c, status |-> "running"]])
    BY <1>2 DEF StartRun, Remember
  <2>3. "running" \notin Stopped
    BY DEF Stopped
  <2> QED
    BY <2>1, <2>2, <2>3
<1>3. CASE Finish(c)
  <2>1. \/ UNCHANGED <<store, result>>
        \/ /\ runStatus' = [runStatus EXCEPT ![c] = want[c]]
           /\ result' = [result EXCEPT ![c] = want[c]]
           /\ UNCHANGED store \/ (KeyOf[c] # None /\ store' = [store EXCEPT ![KeyOf[c]] = [run |-> c, status |-> want[c]]])
    BY <1>3 DEF Finish, Remember, FinishRejected, Wrote
  <2>2. runStatus' = [runStatus EXCEPT ![c] = want[c]] => runStatus'[c] = want[c]
    BY DEF TypeOK
  <2> QED
    BY <2>1, <2>2
<1>4. CASE StartNode(c) \/ AllDone(c) \/ Handler(c) \/ MakeArtifact(c) \/ Mark(c) \/ FailNode(c)
  BY <1>4 DEF StartNode, AllDone, Handler, HandlerReturns, HandlerThrows, HandlerTimesOut, MakeArtifact,
              Mark, FailNode
<1> QED
  BY <1>1, <1>2, <1>3, <1>4 DEF Step

\* The rows of a stopped run stay.
FrozenStep ==
  \A c \in Call : runStatus[c] \in Stopped =>
    /\ runStatus'[c] = runStatus[c] /\ nodeRuns'[c] = nodeRuns[c]
    /\ \A a \in artifacts' \ artifacts : a[1] # c

LEMMA CallStepFreezes ==
  ASSUME RuntimeInv, NEW c \in Call, Begin(c) \/ Step(c)
  PROVE  FrozenStep
<1>1. OthersKeep(c) /\ runStatus[c] \notin Stopped
  BY StepKeeps, ActiveIsNotStopped DEF RuntimeInv
<1> QED
  BY <1>1 DEF FrozenStep, OthersKeep

LEMMA CallStepRecords ==
  ASSUME RuntimeInv, NEW c \in Call, Begin(c) \/ Step(c)
  PROVE  StoreRecorded' /\ ResultIsRecorded'
<1> USE DEF RuntimeInv
<1>1. \A e \in Call : runStatus[e] \in Stopped => runStatus'[e] = runStatus[e]
  BY CallStepFreezes DEF FrozenStep
<1>2. Own(c) /\ TypeOK
  OBVIOUS
<1>3. StoreRecorded'
  <2>1. CASE UNCHANGED store
    BY <1>1, <2>1 DEF StoreRecorded
  <2>2. ASSUME NEW s, KeyOf[c] # None, store' = [store EXCEPT ![KeyOf[c]] = [run |-> c, status |-> s]],
               s \in Stopped => runStatus'[c] = s
        PROVE  StoreRecorded'
    <3>1. KeyOf[c] \in Key
      BY <2>2, RuntimeAssumption
    <3> SUFFICES ASSUME NEW k \in Key, store'[k].status \in Stopped
                 PROVE  /\ store'[k].run \in Call /\ KeyOf[store'[k].run] = k
                        /\ runStatus'[store'[k].run] = store'[k].status
      BY DEF StoreRecorded
    <3>2. CASE k = KeyOf[c]
      <4>1. store'[k] = [run |-> c, status |-> s]
        BY <2>2, <3>2 DEF TypeOK
      <4> QED
        BY <2>2, <3>2, <4>1
    <3>3. CASE k # KeyOf[c]
      <4>1. store'[k] = store[k]
        BY <2>2, <3>3 DEF TypeOK
      <4> QED
        BY <1>1, <4>1 DEF StoreRecorded
    <3> QED
      BY <3>2, <3>3
  <2> QED
    BY <1>2, <2>1, <2>2, StepRecords
<1>4. ResultIsRecorded'
  <2> SUFFICES ASSUME NEW d \in Call, result'[d] \in Stopped
               PROVE  \E e \in Call : runStatus'[e] = result'[d] /\ (e = d \/ (KeyOf[d] # None /\ KeyOf[e] = KeyOf[d]))
    BY DEF ResultIsRecorded
  <2>1. CASE result'[d] = result[d]
    BY <1>1, <2>1 DEF ResultIsRecorded
  <2>2. CASE d = c /\ KeyOf[c] # None /\ result'[c] = store[KeyOf[c]].status
    <3>1. KeyOf[c] \in Key
      BY <2>2, RuntimeAssumption
    <3> QED
      BY <1>1, <2>2, <3>1 DEF StoreRecorded
  <2>3. CASE d = c /\ result'[c] = runStatus'[c]
    BY <2>3
  <2>4. \/ UNCHANGED result
        \/ KeyOf[c] # None /\ result' = [result EXCEPT ![c] = store[KeyOf[c]].status]
        \/ result' = [result EXCEPT ![c] = runStatus'[c]]
    BY <1>2, StepRecords
  <2> QED
    BY <2>1, <2>2, <2>3, <2>4 DEF TypeOK
<1> QED
  BY <1>3, <1>4

\* A late handler and a crash touch no call's rows.
LEMMA QuietStep ==
  ASSUME RuntimeInv, (\E h \in late : LateHandlerEnds(h)) \/ Crash \/ UNCHANGED vars
  PROVE  RuntimeInv' /\ FrozenStep
<1> USE DEF RuntimeInv, callVars, rowVars, vars
<1>1. /\ UNCHANGED <<order, deps, at, attempt, want, result, outputs, runStatus, nodeRuns, inputs, artifacts>>
      /\ \A c \in Call : pc'[c] = pc[c] \/ pc'[c] \in {"returned", "threw"}
      /\ UNCHANGED store \/ store' = [k \in Key |-> [run |-> None, status |-> "none"]]
  BY DEF LateHandlerEnds, Crash
<1>2. TypeOK'
  <2>1. CASE \E h \in late : LateHandlerEnds(h)
    <3>1. PICK h \in late : LateHandlerEnds(h)
      BY <2>1
    <3>2. gates' \subseteq Call \X Node \X Attempts /\ late' \subseteq Call \X Node \X Attempts
      BY <3>1 DEF LateHandlerEnds, TypeOK
    <3> QED
      BY <3>1, <3>2 DEF LateHandlerEnds, TypeOK
  <2>2. CASE Crash
    <3>1. pc' \in [Call -> {"idle", "returned", "threw"} \cup Active]
      BY <2>2 DEF Crash, TypeOK
    <3>2. store' \in [Key -> [run : Call \cup {None}, status : Stopped \cup {"none", "running"}]]
      BY <2>2 DEF Crash
    <3>3. late' = {}
      BY <2>2 DEF Crash
    <3> QED
      BY <2>2, <3>1, <3>2, <3>3 DEF Crash, TypeOK
  <2>3. CASE UNCHANGED vars
    BY <2>3 DEF TypeOK
  <2> QED
    BY <2>1, <2>2, <2>3
<1>3. ASSUME NEW c \in Call PROVE Own(c)'
  BY <1>1, Untouched
<1>4. StoreRecorded'
  BY <1>1 DEF StoreRecorded, Stopped
<1>5. ResultIsRecorded'
  BY <1>1 DEF ResultIsRecorded
<1>6. FrozenStep
  BY <1>1 DEF FrozenStep
<1> QED
  BY <1>2, <1>3, <1>4, <1>5, <1>6

LEMMA InitEstablishes == Init => RuntimeInv
<1> SUFFICES ASSUME Init PROVE RuntimeInv
  OBVIOUS
<1> USE DEF Init
<1>1. TypeOK
  <2>1. NoOutputs \in [Node -> {0} \cup Attempts]
    BY DEF NoOutputs
  <2>2. rejections \in 0 .. MaxRejections
    BY RuntimeAssumption
  <2>3. /\ order \in [Call -> Seq(Node)] /\ deps \in [Call -> [Node -> Seq(Node)]]
        /\ at \in [Call -> Nat] /\ \A c \in Call : at[c] \in 1 .. Len(order[c]) + 1
    OBVIOUS
  <2>4. /\ outputs \in [Call -> [Node -> {0} \cup Attempts]]
        /\ inputs \in [Call -> [Node -> [Node -> {0} \cup Attempts]]]
    BY <2>1
  <2>5. nodeRuns \in [Call -> [Node \X Attempts -> Stopped \cup Finished \cup {"absent", "running"}]]
    OBVIOUS
  <2> QED
    BY <2>2, <2>3, <2>4, <2>5 DEF TypeOK
<1>2. ASSUME NEW c \in Call PROVE Own(c)
  <2>1. /\ pc[c] = "idle" /\ order[c] = << >> /\ at[c] = 1 /\ attempt[c] = 1 /\ runStatus[c] = "absent"
        /\ \A n \in Node : \A k \in Attempts : nodeRuns[c][<<n, k>>] = "absent"
    OBVIOUS
  <2>2. Len(order[c]) = 0 /\ ToSet(order[c]) = {}
    BY <2>1 DEF ToSet
  <2>3. Placed(c) /\ Progress(c) /\ Fed(c)
    BY <2>2 DEF Placed, Progress, Fed
  <2> QED
    BY <2>1, <2>3 DEF Own, Trying, Control, Absent, Stopped
<1>3. StoreRecorded /\ ResultIsRecorded
  BY DEF StoreRecorded, ResultIsRecorded, Stopped
<1> QED
  BY <1>1, <1>2, <1>3 DEF RuntimeInv

LEMMA NextKeeps == RuntimeInv /\ [Next]_vars => RuntimeInv' /\ FrozenStep
<1> SUFFICES ASSUME RuntimeInv, [Next]_vars PROVE RuntimeInv' /\ FrozenStep
  OBVIOUS
<1>1. ASSUME NEW c \in Call, Begin(c) \/ Step(c) PROVE RuntimeInv' /\ FrozenStep
  <2>1. TypeOK' /\ OthersKeep(c) /\ Own(c)'
    BY <1>1, StepKeeps DEF RuntimeInv
  <2>2. ASSUME NEW d \in Call, d # c PROVE Own(d)'
    BY <2>1, <2>2, Untouched DEF OthersKeep, RuntimeInv
  <2>3. FrozenStep /\ StoreRecorded' /\ ResultIsRecorded'
    BY <1>1, CallStepFreezes, CallStepRecords
  <2> QED
    BY <2>1, <2>2, <2>3 DEF RuntimeInv
<1>2. CASE (\E h \in late : LateHandlerEnds(h)) \/ Crash \/ UNCHANGED vars
  BY <1>2, QuietStep
<1> QED
  BY <1>1, <1>2 DEF Next

LEMMA Invariance == Spec => []RuntimeInv
<1>1. RuntimeInv /\ [Next]_vars => RuntimeInv'
  BY NextKeeps
<1> QED
  BY InitEstablishes, <1>1, PTL DEF Spec

\* The types of the state of run's calls.
THEOREM TypeCorrect == Spec => []TypeOK
<1>1. RuntimeInv => TypeOK
  BY DEF RuntimeInv
<1> QED
  BY Invariance, <1>1, PTL

\* A node starts on what the finished attempts of its dependencies handed on,
\* whatever statement of which call rejected and whenever the process died.
THEOREM InputsAreFinished == Spec => []InputsComeFromFinishedAttempts
<1>1. RuntimeInv => InputsComeFromFinishedAttempts
  BY DEF RuntimeInv, Own, Fed, InputsComeFromFinishedAttempts
<1> QED
  BY Invariance, <1>1, PTL

\* A run whose row says completed has one finished attempt of every node, after
\* failed ones only.
THEOREM CompletedIsWhole == Spec => []CompletedRunIsWhole
<1>1. RuntimeInv => CompletedRunIsWhole
  <2> SUFFICES ASSUME RuntimeInv, NEW c \in Call, runStatus[c] = "completed", NEW n \in ToSet(order[c])
               PROVE  \E k \in Attempts :
                        /\ nodeRuns[c][<<n, k>>] \in Finished
                        /\ \A l \in Attempts \ {k} :
                             nodeRuns[c][<<n, l>>] = IF l < k THEN "failed" ELSE "absent"
    BY DEF CompletedRunIsWhole
  <2>1. TypeOK /\ Own(c) /\ at[c] > Len(order[c])
    BY DEF RuntimeInv, Own, Control
  <2>2. order[c] \in Seq(Node) /\ at[c] \in Nat
    BY <2>1 DEF TypeOK
  <2>3. PICK i \in 1 .. Len(order[c]) : n = order[c][i]
    BY <2>2 DEF ToSet
  <2>4. i < at[c]
    BY <2>1, <2>2
  <2>5. Through(c, n)
    BY <2>1, <2>3, <2>4 DEF Own, Progress
  <2> QED
    BY <2>5 DEF Through, Done
<1> QED
  BY Invariance, <1>1, PTL

\* What a call returns, its own status or a stored copy, is in the row of a run
\* of its key.
THEOREM ResultsAreRecorded == Spec => []ResultIsRecorded
<1>1. RuntimeInv => ResultIsRecorded
  BY DEF RuntimeInv
<1> QED
  BY Invariance, <1>1, PTL

\* A run that stopped, for an approval too, is written no more.
THEOREM StoppedRunsAreFrozen == Spec => StoppedRunIsFrozen
<1>1. RuntimeInv /\ [Next]_vars =>
        [\A c \in Call : runStatus[c] \in Stopped =>
           /\ runStatus'[c] = runStatus[c] /\ nodeRuns'[c] = nodeRuns[c]
           /\ \A a \in artifacts' \ artifacts : a[1] # c]_vars
  BY NextKeeps DEF FrozenStep
<1> QED
  BY Invariance, <1>1, PTL DEF Spec, StoppedRunIsFrozen
=============================================================================
