--------------------------- MODULE OperatingGraph ---------------------------
(***************************************************************************)
(* One run of the operating graph (src/lib/workplane/callscore-operating-   *)
(* graph.ts): the preflights, the graph-owned mutation nodes with the guard *)
(* they share, the goal loop, and the audit of what the nodes report.  The  *)
(* nodes run one after another; a mutation node awaits the media bridge and *)
(* then the provider, and both calls have effects outside.                  *)
(*                                                                          *)
(* The input of a mutation node is a record: whose graph_context it carries,*)
(* what the request looks like, and where payload hash, canonical package,  *)
(* media, approval and an earlier provider response stand.  Lists of        *)
(* blockers and errors are kept as the set of the nodes that gave any.      *)
(***************************************************************************)
EXTENDS Naturals, Sequences, SequencesExt

CONSTANTS
  Mutation,      \* the graph-owned mutation nodes
  LiveOrder,     \* those tried in the mode live_owned_public, in order
  BoundedOrder,  \* those tried in the mode bounded_write
  Chained,       \* x_owned_publish_node and linkedin_owned_publish_node
  CopyNodes,     \* whop_listing_update_node: no media, always a package
  ApprovalNodes, \* the nodes whose guard asks for an approval
  PublicNodes,   \* the nodes of a public family: the response names an object
  Config,        \* the goal configurations
  NoInput,       \* a node without an input
  GivenInputs    \* the inputs of a run, by node

Input ==
  [ context   : {"own", "foreign", "other", "invalid", "none"},
    request   : {"whole", "split", "empty", "toolless"},
    valid     : BOOLEAN,  \* the payload passes validateKnownProviderPayload
    hash      : BOOLEAN,  \* the payload is the approved one
    canonical : {"none", "approved", "blocked"},
    media     : {"free", "attached", "available", "local", "absent"},
    approval  : BOOLEAN,
    response  : {"none", "object", "bare", "failed"},
    receipt   : BOOLEAN ]

Mode == {"dry_run", "draft_only", "approved_publish", "live_owned_public", "read_live", "bounded_write"}

Fixed   == {"hard_gate_preflight", "external_mutation_preflight", "goal_loop", "collect_receipts", "operating_summary"}
NodeId  == Fixed \cup Mutation
Status  == {"none", "ok", "blocked", "failed"}

ASSUME GraphAssumption ==
  /\ LiveOrder \in Seq(Mutation) /\ BoundedOrder \in Seq(Mutation)
  /\ Chained \cup CopyNodes \cup ApprovalNodes \cup PublicNodes \subseteq Mutation
  /\ Chained \subseteq ToSet(LiveOrder) /\ Chained \cap ToSet(BoundedOrder) = {}
  /\ Mutation \cap (Fixed \cup {"end"}) = {}
  /\ Config \subseteq [mode : Mode, dryRun : BOOLEAN, approval : BOOLEAN]
  /\ NoInput \notin Input
  /\ GivenInputs \subseteq [Mutation -> Input \cup {NoInput}]

VARIABLES
  config,   \* the normalized goal configuration
  given,    \* graph_mutation_inputs as handed in
  input,    \* the same records: the nodes write into them
  at,       \* the running node
  phase,    \* where a mutation node is
  results,  \* node_results by node: status, mutation flags, claim without proof
  blockers, \* the nodes that gave blockers
  errors,   \* the nodes that gave errors
  uploads,  \* media uploads by node, done at the provider
  sends     \* provider mutations by node, done at the provider

stateVars == <<results, blockers, errors>>
vars == <<config, given, input, at, phase, stateVars, uploads, sends>>

TypeOK ==
  /\ config \in Config
  /\ given \in [Mutation -> Input \cup {NoInput}] /\ input \in [Mutation -> Input \cup {NoInput}]
  /\ at \in NodeId \cup {"end"}
  /\ phase \in {"run", "bridge", "call"}
  /\ results \in [NodeId -> [status : Status, flagged : BOOLEAN, claim : BOOLEAN]]
  /\ errors \subseteq blockers /\ blockers \subseteq NodeId
  /\ uploads \in [Mutation -> 0 .. 1]
  /\ sends \in [Mutation -> 0 .. 1]

Init ==
  /\ config \in Config
  /\ given \in GivenInputs
  /\ input = given
  /\ at = "hard_gate_preflight" /\ phase = "run"
  /\ results = [n \in NodeId |-> [status |-> "none", flagged |-> FALSE, claim |-> FALSE]]
  /\ blockers = {} /\ errors = {}
  /\ uploads = [n \in Mutation |-> 0]
  /\ sends = [n \in Mutation |-> 0]

-----------------------------------------------------------------------------
(* The guard: runGraphOwnedMutationNode over external-mutation-guard.ts.    *)

Decision(s, code, f) == [status |-> s, code |-> code, flagged |-> f]
Blocked(code)        == Decision("blocked", code, FALSE)

MediaMissing(i) == i.media \in {"available", "local", "absent"}

\* canonicalReceiptBlocker: asked for by the keys or by required media.
CanonicalBlocks(i) ==
  (i.canonical # "none" \/ i.media # "free") /\ i.canonical # "approved"

\* runWhopListingUpdateNode's own checks.
CopyBlocks(n, i) == n \in CopyNodes /\ (i.canonical # "approved" \/ i.media # "free")

\* evaluateExternalMutationRequest for the request of node n.
GuardBlocks(n, i) ==
  \/ i.context # "own" \/ i.request = "empty" \/ ~i.hash
  \/ n \in ApprovalNodes /\ ~i.approval

\* finalizeExternalMutationReceipt, with the flags of a success.
Finalize(n, i) ==
  IF i.response \in {"none", "failed"} THEN Decision("failed", "provider_success_required", FALSE)
  ELSE IF n \in PublicNodes /\ i.response = "bare" THEN Decision("failed", "external_object_required", FALSE)
  ELSE Decision("ok", "none", TRUE)

\* The checks in the order of runGraphOwnedMutationNode.
Runner(n, i) ==
  IF \/ CopyBlocks(n, i) \/ i.context = "other" \/ i.request \in {"toolless", "split"} THEN Blocked("request")
  ELSE IF MediaMissing(i) THEN Blocked("required_media_missing")
  ELSE IF CanonicalBlocks(i) \/ GuardBlocks(n, i) THEN Blocked("gate")
  ELSE IF ~i.receipt THEN Blocked("execution_receipt_required")
  ELSE Finalize(n, i)

\* Decisions a provider call may turn into a success.
Provisional == {"required_media_missing", "execution_receipt_required", "provider_success_required"}

\* Mutant of Preliminary: the runner is not asked before the provider.
PreliminaryUnasked(n, i) == TRUE

Preliminary(n, i) ==
  LET d == Runner(n, i) IN d.status = "ok" \/ d.code \in Provisional

NeedsProviderCall(i) == i.request \in {"whole", "split"} /\ i.response = "none"

\* preflightGraphOwnedProviderCall: a context that does not parse makes the
\* guard throw; a foreign one, of another platform, is taken at its word.
Preflight(i) ==
  IF \/ i.context \in {"none", "other"} \/ ~i.valid \/ MediaMissing(i) \/ i.request = "split" THEN "blocked"
  ELSE IF i.context = "invalid" THEN "throws"
  ELSE IF ~i.hash THEN "blocked" ELSE "ok"

\* mutateProviderPayload: the payload gets its media, and whatever
\* graph_context there is gets the hash of the new payload.
WithMedia(i) == [i EXCEPT !.media = "attached", !.hash = @ \/ i.context # "none"]

-----------------------------------------------------------------------------
(* Routing.                                                                 *)

\* Mutant of NodeAlreadyRan: the results are not consulted.
NodeNeverRan(n) == FALSE

NodeAlreadyRan(n) == results[n].status # "none"

HasInput(n) == input[n] # NoInput

Waiting(n) == HasInput(n) /\ ~NodeAlreadyRan(n)

\* The first of a list that is waiting, if any is.
FirstWaiting(list) ==
  { list[i] : i \in { i \in DOMAIN list : Waiting(list[i]) /\ \A j \in 1 .. i - 1 : ~Waiting(list[j]) } }

\* routeAfterExternalMutationPreflight, without trouble so far.
AfterMutationPreflight ==
  LET first == FirstWaiting(CASE config.mode = "live_owned_public" -> LiveOrder
                              [] config.mode = "bounded_write"     -> BoundedOrder
                              [] OTHER                             -> <<>>)
  IN  IF first = {} THEN {"goal_loop"} ELSE first

\* Mutant of AfterMutation: the chain goes on whatever happened.
AfterMutationBlindly(n, trouble) ==
  LET rest == { m \in Chained \ {n} : Waiting(m) }
  IN  IF n \in Chained /\ rest # {} THEN CHOOSE m \in rest : TRUE ELSE "collect_receipts"

\* routeAfterXOwnedPublish, routeAfterLinkedInOwnedPublish; an edge for others.
AfterMutation(n, trouble) ==
  LET rest == { m \in Chained \ {n} : Waiting(m) }
  IN  IF ~trouble /\ n \in Chained /\ rest # {} THEN CHOOSE m \in rest : TRUE ELSE "collect_receipts"

\* nodeResultToStatePatch: the result of node n, with blockers or without.
Patch(n, status, flagged, claim, lists) ==
  /\ results' = [results EXCEPT ![n] = [status |-> status, flagged |-> flagged, claim |-> claim]]
  /\ blockers' = IF lists THEN blockers \cup {n} ELSE blockers
  /\ errors' = IF lists /\ status = "failed" THEN errors \cup {n} ELSE errors

Trouble == blockers' # {} \/ errors' # {}

Outside == <<config, given, input, uploads, sends>>

\* hardGatePreflightNode, whose verdict the environment gives, and
\* routeAfterPreflight.
HardGatePreflight ==
  /\ at = "hard_gate_preflight"
  /\ \E status \in {"ok", "blocked"} :
       /\ status = "ok" =>
            config.approval \/ config.dryRun \/ config.mode \notin {"approved_publish", "bounded_write"}
       /\ Patch(at, status, FALSE, FALSE, status = "blocked")
  /\ at' = IF Trouble THEN "collect_receipts" ELSE "external_mutation_preflight"
  /\ UNCHANGED <<Outside, phase>>

\* externalMutationPreflightNode and its route.
ExternalMutationPreflight ==
  /\ at = "external_mutation_preflight"
  /\ LET ok == config.approval \/ config.mode \notin {"approved_publish", "bounded_write"}
     IN  Patch(at, IF ok THEN "ok" ELSE "blocked", FALSE, FALSE, ~ok)
  /\ at' \in IF Trouble THEN {"collect_receipts"} ELSE AfterMutationPreflight
  /\ UNCHANGED <<Outside, phase>>

\* The result of mutation node n, and the way on.
Conclude(n, d) ==
  /\ Patch(n, d.status, d.flagged, FALSE, d.status # "ok")
  /\ at' = AfterMutation(n, Trouble)
  /\ phase' = "run"

\* graphOwnedMutationWrapperNode up to its first await.
RunMutation(n) ==
  /\ at = n /\ phase = "run"
  /\ IF ~NeedsProviderCall(input[n]) THEN Conclude(n, Runner(n, input[n]))
     ELSE IF config.dryRun THEN Conclude(n, Blocked("draft_only"))
     ELSE IF ~Preliminary(n, input[n]) THEN Conclude(n, Runner(n, input[n]))
     ELSE phase' = "bridge" /\ UNCHANGED <<at, stateVars>>
  /\ UNCHANGED Outside

\* bridgeGraphOwnedProviderMedia.  An upload may fail, before or after it took
\* effect, or bring no media id.
BridgeMedia(n) ==
  /\ at = n /\ phase = "bridge"
  /\ \/ /\ ~MediaMissing(input[n])
        /\ phase' = "call"
        /\ UNCHANGED <<input, uploads, at, stateVars>>
     \/ /\ input[n].media \in {"available", "local"}
        /\ phase' = "call"
        /\ input' = [input EXCEPT ![n] = WithMedia(@)]
        /\ uploads' = [uploads EXCEPT ![n] = IF input[n].media = "local" THEN @ + 1 ELSE @]
        /\ UNCHANGED <<at, stateVars>>
     \/ /\ input[n].media \in {"local", "absent"}
        /\ uploads' \in {uploads} \cup
             (IF input[n].media = "local" THEN {[uploads EXCEPT ![n] = @ + 1]} ELSE {})
        /\ Conclude(n, Blocked("media_bridge"))
        /\ UNCHANGED input
  /\ UNCHANGED <<config, given, sends>>

\* The answers of executeGraphOwnedProviderCall: done with or without an object
\* in the response, refused, or done with the answer lost.
Answer == {"object", "bare", "refused", "lost"}

\* Mutant of AfterCall: the answer is not looked at.
AfterCallUnchecked(n, i) == IF i.response = "failed" THEN Decision("ok", "none", FALSE) ELSE Runner(n, i)

\* The result after the provider was called: its failure, or the runner again.
AfterCall(n, i) == IF i.response = "failed" THEN Blocked("provider_call_failed") ELSE Runner(n, i)

CallProvider(n) ==
  /\ at = n /\ phase = "call"
  /\ LET pre == Preflight(input[n])
     IN  \/ /\ pre # "ok"
            /\ Conclude(n, Decision(IF pre = "throws" THEN "failed" ELSE "blocked", "preflight", FALSE))
            /\ UNCHANGED <<input, sends>>
         \/ /\ pre = "ok"
            /\ \E a \in Answer :
                 LET done == [input[n] EXCEPT !.receipt = TRUE,
                                !.response = IF a \in {"refused", "lost"} THEN "failed" ELSE a]
                 IN  /\ input' = [input EXCEPT ![n] = done]
                     /\ sends' = [sends EXCEPT ![n] = IF a = "refused" THEN @ ELSE @ + 1]
                     /\ Conclude(n, AfterCall(n, done))
  /\ UNCHANGED <<config, given, uploads>>

\* A goal loop: any status, any flags, and perhaps a claim to have published
\* with nothing to show for it.
GoalLoop ==
  /\ at = "goal_loop"
  /\ \E status \in {"ok", "blocked", "failed"}, flagged, claim, lists \in BOOLEAN :
       /\ status = "ok" => ~lists
       /\ status = "failed" => lists
       /\ Patch(at, status, flagged, claim, lists)
  /\ at' = "collect_receipts"
  /\ UNCHANGED <<Outside, phase>>

\* auditPublishedReceiptIntegrity.
Audit == \E n \in NodeId : results[n].claim

\* computeCollectStatus.
CollectStatus ==
  LET has(s) == \E n \in NodeId : results[n].status = s
  IN  IF Audit \/ errors # {} \/ has("failed") THEN "failed"
      ELSE IF blockers # {} \/ has("blocked") THEN "blocked" ELSE "ok"

AnyFlag == \E n \in NodeId : results[n].flagged

\* collectReceiptsNode lists the audit's blockers.
CollectReceipts ==
  /\ at = "collect_receipts"
  /\ Patch(at, CollectStatus, AnyFlag, FALSE, Audit)
  /\ at' = "operating_summary"
  /\ UNCHANGED <<Outside, phase>>

\* operatingSummaryNode.
OperatingSummary ==
  /\ at = "operating_summary"
  /\ Patch(at, IF blockers # {} THEN "blocked" ELSE "ok", AnyFlag, FALSE, FALSE)
  /\ at' = "end"
  /\ UNCHANGED <<Outside, phase>>

Next ==
  \/ HardGatePreflight \/ ExternalMutationPreflight \/ GoalLoop \/ CollectReceipts \/ OperatingSummary
  \/ \E n \in Mutation : RunMutation(n) \/ BridgeMedia(n) \/ CallProvider(n)

Spec == Init /\ [][Next]_vars

\* The graph's runner goes on, and provider calls return or break off.
FairSpec == Spec /\ WF_vars(Next)

-----------------------------------------------------------------------------
(* Properties.                                                              *)

\* Nothing is sent by a dry run, past a blocked preflight, in a mode that does
\* not own the node, without the node's own context or with an invalid
\* payload; and unless media had to be attached, not without the canonical
\* package, the approval and the approved payload, whatever came in.
SendsAreGated ==
  \A n \in Mutation : sends[n] > 0 =>
    /\ ~config.dryRun
    /\ results["hard_gate_preflight"].status = "ok"
    /\ \/ config.mode = "live_owned_public" /\ n \in ToSet(LiveOrder)
       \/ config.mode = "bounded_write" /\ n \in ToSet(BoundedOrder) /\ config.approval
    /\ given[n].context \in {"own", "foreign"} /\ given[n].request = "whole" /\ given[n].valid
    /\ ~MediaMissing(given[n]) =>
         ~CanonicalBlocks(given[n]) /\ ~CopyBlocks(n, given[n]) /\ ~GuardBlocks(n, given[n])

\* Once any node has given a blocker or an error nothing leaves any more: the
\* chain of the two owned posts stops at the first that did not succeed.
NothingLeavesAfterTrouble ==
  [][blockers \cup errors # {} => sends' = sends /\ uploads' = uploads]_vars

\* A run that ends as completed reports exactly what was done: the nodes that
\* are flagged are those that sent or were handed a successful response.
CompletedRunReportsExactly ==
  at = "end" /\ results["operating_summary"].status = "ok" =>
    \A n \in Mutation :
      results[n].flagged <=>
        \/ sends[n] > 0
        \/ results[n].status # "none" /\ given[n].response \in {"object", "bare"}

\* Every run ends: the two owned nodes lead to each other, and not for ever.
RunEnds == <>(at = "end")

-----------------------------------------------------------------------------
(* What the repository says and the code does not do.                       *)

\* "media upload is itself a provider mutation and must not happen when
\* canonical package, approval, graph context, or payload hash gates would
\* block the final publish" (callscore-operating-graph.ts:265-267).
UploadsAreGated ==
  \A n \in Mutation : uploads[n] > 0 =>
    /\ given[n].canonical = "approved"
    /\ given[n].context = "own"
    /\ n \in ApprovalNodes => given[n].approval
=============================================================================
