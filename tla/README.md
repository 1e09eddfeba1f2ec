# CallScore in TLA+

CallScore is a Next.js application and a set of long-running scripts that collect finance videos, extract
trading calls from them, match them with prices, score their creators and publish the results. This directory
holds a formal model of the parts of it that run concurrently, fail halfway, or decide what may leave the system:
TLA+ modules translated from the source, TLC configurations that check them on small instances, and proofs that
TLAPS checks for every instance.

Paths below are relative to the repository's `src/` (so `lib/pipeline.ts` is `src/lib/pipeline.ts` of the
repository). `PROJECT.json` names, for every definition, the lines it models.

## 1. The system

### Components, their state and what makes them correct

| component | state | operations | hard behaviour | correct when |
|---|---|---|---|---|
| **Pipeline job queue** `lib/pipeline.ts`, `scripts/hermes-worker.ts`, `scripts/workplane-laptop-job.ts`, `lib/db.ts` | rows of `pipeline_runs` and `pipeline_jobs`: status, owner, lease, attempts, run_after | enqueue, claim, lease override, heartbeat, stale reset, complete, retry or fail | no transaction around the statements of an operation; updates name neither owner nor attempt; heartbeats are not awaited; statements whose answer is lost are sent again | no job is lost, run twice under one attempt, or revived; every job settles |
| **Channel-head decision kernel** `lib/autonomy/*` | none: context in, decision out | nine gates, seven handlers, a router | handlers run some of the gates, or others, before the chain | no handler opens a way around a gate |
| **Agent heartbeat and channel tasks** `scripts/callscore-agent-heartbeat.ts`, `lib/channel-agent-tasks.ts` | a state file per agent; rows of `channel_tasks` | heartbeat over the roster, upsert of the next task, claim, run, complete, fail | no lease, no owner, one attempt; no lock between heartbeat runs, which interleave with each other and with workers | one worker per task, one open task per agent unless two upserts raced, the heartbeat never throws on a state file, an agent comes free again |
| **Workflow runtime** `lib/control-plane/*` | runs, node runs, artifacts, gates; an idempotency store in memory | `WorkflowRuntime.run` | retries, timeouts that do not stop the handler, rejected writes, two calls with one key, process death | nodes start on finished inputs; a stopped run is left alone; a result is never ahead of the rows |
| **Operating graph** `lib/workplane/callscore-operating-graph.ts` with its node wrappers | the graph's state: results, blockers, errors, mutation flags | preflights, guarded mutation nodes, media bridge, provider call, goal loop, audit | two outside effects per node, answers lost or without proof, nodes that lead to each other | nothing is sent that a gate would block; the report says what was done |
| **Continuous pipeline lock** `scripts/run-continuous-data-pipeline.ts` | one lock file | acquire, rewrite before each cycle, release | exists, read, remove and write are separate file operations; stale detection by pid and age | one loop at a time; a dead loop's lock does not stop the pipeline |
| **Data pipeline, daily pipeline, backfill** `scripts/run-data-pipeline.ts`, `scripts/run-daily-pipeline.ts`, `scripts/backfill-transcripts.ts` | videos, transcripts, marks; two exclusive lock files | stages in order, each a process | one failing stage stops the rest; lists are loaded once and worked through while others write; a killed run leaves its lock file | stored calls are those of the transcript; a captioned video whose transcript is not poor is counted at last |
| **Extraction, shadow, promotion** `scripts/extract-calls-llm.ts`, `scripts/shadow-*.ts`, `scripts/promote-shadow-extractions.ts` | calls per video; record files in an audit directory | extract, shadow, validate, compare, promote | the review and the promotion are separate runs over files that can change | what is promoted was compared and reviewed, and stays |
| **Price matching** `scripts/match-prices*.ts`, `scripts/repair-prices.ts`, `scripts/binance-candle-fallback.ts` | columns of `calls`; candles; a session-level advisory lock | refresh, repair, match a batch | lock, work and unlock go through a pool; whole rows rewritten from earlier lookups | one matcher at a time; every call is matched, and no outcome lost |
| **Scoring and leaderboards** `lib/recompute-stats.ts`, `scripts/audit-recompute.ts` | scores, periods, ranks, snapshots, decisions | audit, score, aggregate, rank | a period is deleted, inserted and ranked in three statements | decisions are applied, leaderboards whole, scores follow the rows |
| **Verifier and promotion** `lib/ml-verifier.ts`, `lib/ml-promotion.ts` | verdict rows, promotion audits, confidences | batch of candidates, promote, record, retry | selection, UPDATE and record are statements apart; jobs retry; a second runner has no lease | the audit says which calls were raised; every candidate gets a verdict |
| **Video queue and stages** `video/*`, `lib/workplane/node-wrappers/video-pipeline-nodes.ts`, `scripts/video-queue-consumer.ts` | a directory of queue files, `state.json` per job | schedule, take the oldest entry, run its stage, enqueue the next | crashes between file operations; whole-file rewrites of the state; one entry can hold up the rest | no video lost, none uploaded unchecked; every video ends, or waits behind one that needs somebody |
| Email alerts, webhooks `lib/alerts.ts`, `lib/webhooks.ts` | claimed alert rows; one row per delivery | claim, send, give back; three attempts | claim first, send later | — |
| Admission, trust, self-correction | reports and verdicts | pure functions over evidence | thresholds | — |
| Backtests, statistics, Markov and transition reports | tables of numbers | batch computation | floating point | — |
| Prompting and parsing, public API, web interface, authentication | none of their own | per-request work | string processing and I/O | — |

### How they interact

- The **heartbeat** asks the **decision kernel** for each agent, moves the agent's state file and upserts its
  next **channel task**; channel-agent workers claim it. `ChannelTasks` extends `ChannelDecision` for that call.
- **Hermes workers** claim from the **job queue** and run the job inside the `worker_dispatch_once` goal of the
  **operating graph**. The outcome is recorded by the node, and an error of the node or of the graph around it is
  handled at one of two places; the queue and task models keep that as `level`. The jobs match prices, run verifier
  batches and promotions: the `worker` of `CallOutcomes` and `CallVerification`.
- The **laptop runner** claims and completes jobs of the same queue through one-shot commands.
- The **workflow runtime** runs inside a job's handler and keeps its own rows.
- The **continuous loop** holds its lock (`ContinuousLock`) and spawns the **data pipeline** as a child, which outlives
  a crash of the loop: `DataPipeline` has the child of a running loop and the orphan of a crashed one.
- The pipeline's price and score stages work on the rows of **calls**, beside cron's matchers, repairs, audits and
  recomputations (`CallOutcomes`).
- Extraction replaces calls, and audits write confidences, under the **verifier and its promotions**
  (`CallVerification`).
- The scheduler, the consumer script, `video:daily` and the graph's **video node** share the directory of queue files
  (`VideoQueue`).
- Every statement goes to the database through `query()`, which sends it again when its answer is lost.

## 2. The modules

| module | models | size of the instance checked |
|---|---|---|
| `AttemptLedger` | what the queue promises about attempts (abstract) | |
| `PipelineQueue`, `PipelineQueueProps`, `PipelineQueue_proofs`, `MCPipelineQueue` | the job queue and its workers | 2 jobs, 2 Hermes workers, 1 laptop runner |
| `ChannelDecision` | gates, handlers and router as operators | |
| `ChannelRouting`, `ChannelHeads_proofs`, `MCChannelRouting` | the router applied to every context and agent | contexts two fields from all-clear, 8 authority lists |
| `ChannelTasks`, `ChannelTasksProps`, `ChannelHeads_proofs`, `MCChannelTasks` | heartbeat, state files, task rows, workers | 4 casts of up to 2 agents, 3 heartbeat runs and 2 workers; 2 hours |
| `TopologicalSort`, `WorkflowRuntime`, `WorkflowRuntime_proofs`, `MCWorkflowRuntime` | the runtime, and the sort it starts with | 2 calls, 2 nodes, 1 rejection |
| `OperatingGraph`, `OperatingGraph_proofs`, `MCOperatingGraph` | one run of the graph | 4 mutation nodes, inputs two fields from a sendable one |
| `ContinuousLock`, `Locks_proofs`, `MCContinuousLock` | the lock file and the loops around it | 3 processes, 3 pids, stale age 2 |
| `DataPipeline`, `DataPipeline_proofs`, `MCDataPipeline` | pipeline, daily and backfill runs over videos, calls and audit directories | 2 videos of one creator, 6 casts of runs, 2 transcript versions, 1 trouble |
| `CallOutcomes`, `Locks_proofs`, `MCCallOutcomes` | candles, matchers, repair, audit, scores and leaderboards | 2 calls, 3 markets, 8 pairs of processes, 1 trouble |
| `CallVerification`, `CallVerification_proofs`, `MCCallVerification` | verifier batches and promotions | 3 calls, 3 pairs of runners, 2 tries, 2 audits, 1 trouble |
| `VideoQueue`, `VideoQueue_proofs`, `MCVideoQueue` | queue files, `state.json`, stages, scheduler | 2 videos, one process of each kind, 1 trouble |

Each statement or file operation is one action; anything else may happen between two of them. A process is a
`pc` naming the statement it is about to issue and the copy of the row it holds. Data that no guard reads
(payloads, metrics, events, reason codes, scores beyond their band) is left out. A "trouble" is a crash, a failure
or a rejection; `MaxTrouble` bounds their number per behaviour, not their place.

### Correspondence with the code

**PipelineQueue.** `EnqueueRun` and `EnqueueJob` are the two upserts of `enqueuePipelineJob`; `ResetStale`,
`Claim`, `MarkRun` and `OverrideAndCollect` the statements of `claimNextPipelineJob` and its callers. An execution
is `StartExecution`, heartbeats `SendHeartbeat` (the interval) and `LandHeartbeat` (the UPDATE, at any later
moment), `FinishExecution`. `CompleteJob`, `CompleteRun`, `Report` are the statements of `completePipelineJob`;
`RetryOrFail`, `FailRun`, `RetryEvent` those of `retryOrFailPipelineJob`. The laptop runner collects without a
keepalive (`LaptopHeartbeat` is a command of its own) and reloads its row before it completes (`LaptopReload`).
Faults are switched on by name: `"crash"` (at any statement), `"db"` (a statement rejects, or `query()` sends it
twice: `ClaimUnanswered`, `OutcomeUnanswered`), `"graph"` (the graph throws after its node), `"stall"` (a lease runs
out under a live worker). Time is the number of ticks left on each lease and each backoff.

**ChannelDecision and ChannelRouting.** A context is a function from field names to values; each gate is an
operator that answers `"clear"` or a decision, `EvaluateGates` takes the first that triggers, each handler is one
operator and `Act` throws where the schemas of `contracts.ts` reject the decision.

**ChannelTasks.** A heartbeat run goes through `BeginBeat`, then `Decide`, `ReadOpen`, `InsertTask` and `BeatEvent` for
each agent of the roster; the context an agent is decided on is the one `buildHeartbeatDecisionArtifacts` builds.
`ReadOpen` and `InsertTask` are the two halves of one statement: its `NOT EXISTS` reads a snapshot and does not see what
another run inserts meanwhile, its unique key does. Any number of runs may be under way at once, cron's and those an
operator starts with `npm run agents:heartbeat`; `raced` remembers which pairs of keys were found free together.
`ClaimTask` to `FailEvent` are the worker. A task is named by its agent and the hour in which its heartbeat run began,
as its idempotency key is. A cast says which runs and workers take part.

**WorkflowRuntime.** A call goes through `start`, `node`, `handler`, `artifact`, `mark`, `fail` and `finish`, the
places where `run` awaits. A statement and its event row either succeed, reject before the row is written, or
reject after. A handler that timed out goes on in `late`. The idempotency store dies with the process.

**OperatingGraph.** `at` is the running node, `phase` the place within a mutation node: the guard before the media
bridge (`RunMutation`), the bridge, the second guard, the call, the answer. `given` is what the caller handed in and
`input` what the nodes have made of it; `uploads` and `sends` count the outside effects. An answer names an object,
has none, is a refusal, or is lost.

**ContinuousLock.** A loop goes through `exists`, `read`, `remove`, `create`, `fill` (acquire), then `renew`/`refill`
(rewrite), `cycle`, `sleep`, and `release`. A write truncates the file before it fills it, so others can read an
unreadable file in between; `{}` is then taken for stale. Processes crash, are signalled, fail to write, and pids
are reused.

**DataPipeline.** A run is at one stage of its sequence (`Stages`: the data pipeline's or the daily one's); a stage
that loads a list of videos takes one step per video of it (`plan`), so other runs fall between. Videos are published;
those that have captions get transcripts, in up to `MaxVersion` versions (`IngestTranscript`, also from the collector's
delivery), and each may be `poor`, below the quality the extractors ask for; a call set is a content, the transcript version it was made from and who wrote it. Shadow records and the
comparison are sequences per audit directory, and two runs may be given one. The six stages before extraction and
the audits after the scores only succeed or fail.

**CallOutcomes.** `RefreshSymbol` fills candles; `FindNearestCandle` and `AttachPrice` are the repair; a matcher goes
through `Acquire`, `SelectBatch`, `Lookup`, `WriteRow`, `Unlock`, the long-lived ones keeping what they looked up; the
lock belongs to a database session and `SessionEnds` takes it away. `PersistDecision` and `ApplyAuditResults` are the
audit; a recomputation is `ReadScores`, `WriteScores`, then `DeletePeriod`, `InsertPeriod`, `RankPeriod` for each period,
and `SyncCreatorSnapshots`. A price
column is filled or not, a score one of three grades.

**CallVerification.** A verifier's batch is `SelectBatch` (buckets in the code's order, calls without a verdict of the
model), `Think` per call (the pre-check answers without the model), `InsertVerdict`. A promotion is
`SelectPromotable`, `InsertAudit`, `Promote` (the UPDATE), `RecordPromotion` or `FailPromotion`, or `Blocked`. `Throw` is
an attempt that ends in an exception: the worker's job starts again while tries are left, the quality gate's does not.
`LoseReply` is an answer of the database that never arrived: `query()` sends the UPDATE again and gets no rows.
`ReplaceCall` and `AuditCall` are extraction and `audit-recompute` beside them. `raises` is history.

**VideoQueue.** Entries are records of video, stage and the file's order; `form` and `saved` are `state.json`, whole,
torn or absent, and what it says. A process goes through `Take`, `ReadState`, `Work`, `WriteState`, `CreateEntry` and
`FillEntry`, `Unlink`; the consumer removes what it cannot parse, the graph's node skips it. `Daily` runs a job directly,
beside its entry; the scheduler writes `state.json` and then the first entry.

## 3. What the runs check

| run | question | distinct states |
|---|---|---|
| `queue_faults` | under all faults at once, what survives the missing owner checks: attempt numbers fence, and attempts form the ledger (`AttemptLedger`) | 1.05 million |
| `queue_settles` | with timely leases and crashes: mutual exclusion, finality, settling, runs that follow their job | 100 674 |
| `routing` | does a publication pass all nine gates, and does a stopped agent wait, whatever the handlers run before the chain? | 103 824 |
| `tasks_faults` | under every fault: one worker per task, one open task unless two upserts raced, no reopening, no stuck state file; agents come free unless their worker is lost | 288 979 |
| `runtime` | inputs, completeness, frozen stops, results and rows, termination | 404 635 |
| `graph` | gated sends, nothing after trouble, exact reports, termination | 1.58 million |
| `graph_media` | are media uploads gated as sends are? No | violation |
| `lock` | one loop while nobody meets at the file, the file is its holder's, a loop always resumes | 780 336 |
| `video` | no video lost, none uploaded unchecked, repeated work in step; cron's runs finish every video unless the oldest entry waits for somebody | 968 869 |
| `outcomes` | outcomes kept by the scripts, decisions applied, leaderboards whole, every call matched, scores follow | 246 480 |
| `pipeline` | calls are the transcript's, promotions reviewed and kept, every captioned video with a transcript that is not poor is counted | 590 232 |
| `verifier` | the audit accounts for every raise, every lasting candidate gets its verdict | 675 549 |

The properties are stated, each with the behaviour it is about, in the `Props` modules or at the end of the
component's module. `PROJECT.json` gives each a mutant: a plausible mistake in one mapped definition that violates
it on the same configuration.

### Bounds, and why they are enough

- **Queue.** Two Hermes workers and a laptop runner give every race of two processes over a row, and a third that
  overtakes both; two attempts for the Hermes job give a first claim, a reset and a last claim, and the laptop job
  has one attempt as in the code. Lease 1 or 2 and backoff at most 3 make every order of expiry, retry and
  heartbeat happen. `Hermes` is symmetric; the liveness run declares no symmetry. No state constraint is used:
  attempts are bounded by the budget and time by what is left on leases.
- **Routing.** Two gates that disagree, or a gate and a handler's own check, differ in at most two fields besides the
  risk class, which is taken in full; sets of switches are taken one element at a time because each is only tested
  for emptiness or for members. The theorems hold for every context.
- **Tasks.** Two agents give the roster an order, two hours an old and a new task of one agent, two and three heartbeat
  runs each order of their reads and inserts, across the change of the hour too. More runs than hours add no new keys
  to insert; the theorem holds for any number of both.
- **Runtime.** Two calls under one key, one definition that is declared against its dependency and one with a cycle;
  one rejection per behaviour, anywhere. `EverySmallGraphIsSorted` checks the sort on every graph of three nodes
  with up to two dependencies each, duplicates and undeclared names included.
- **Graph.** One node of each kind (chained post, approval, copy, bounded write); inputs with at most two fields away
  from one that is sent as it stands, from the packaged one, and from one with media.
- **Lock.** Three processes so that a third meets the file while two race; as many pids as processes so that a pid
  can be reused; a record can be young, at the limit, and too old.
- **Video.** One graph run at a time and again and again, one run of the script, one of `video:daily` and one of the
  scheduler, so each pair of kinds overlaps; two videos so that one can hold up the other; one crash, failed stage or
  overlap in a behaviour, at any step. The theorems hold for any number of each.
- **Pipeline.** Two videos of one creator, so that one is newer and limits of one and two differ; a second transcript
  version; six casts: a loop, a daily run and a dry run alone with one failure or crash; an extracting run beside a promoting
  one in one directory, a daily run beside a promotion, a loop beside an orphan, without further failures.
  `PromotionWasReviewed` leaves out two runs in one directory, which `shared` names, and `ExtractedIsCurrent` the
  videos in `raced`: the window is real, and the property says that there is no other.
- **Outcomes.** Two calls, on a coin that may lack candles and one that does not, and bitcoin; three markets (one candle comes late;
  a coin has none; a coin's come late and bitcoin lacks one). Eight casts cover the pairs of processes that
  share a row: two matchers, matcher and repair, matcher and audit, matcher and recomputation, two recomputations. The
  cast with the long-lived worker and the one of a matcher beside a recomputation run without trouble: what can go
  wrong in either of the two happens in another cast. The theorems hold for every cast, with any amount of trouble. The
  horizons are the 30-day and the 90-day one; the 7-day one behaves as the former. What a cast cannot read starts with
  one value.
- **Verifier.** Three calls, in each of the three buckets the batch is ordered by, and a batch of two, so that a batch
  leaves one out; the worker beside the quality gate, the worker beside a promotion, two promotions. The code tries a
  job three times, the run twice; one crash, rejection or lost reply.

### Deadlock and fairness

Deadlock is checked for the queue, the tasks, the lock and the verifier, whose processes poll for ever.
`CHECK_DEADLOCK FALSE` is set where a behaviour ends: one decision (`routing`), a finite set of calls (`runtime`), one
run (`graph`, `graph_media`), videos that are all published and a cast whose runs are done (`pipeline`, `video`), calls
that are matched and scored (`outcomes`).

- Queue: weak fairness of every worker's next statement, of its restart and of time. Workers poll in an endless
  loop and docker restarts them. That a handler ends (returns or throws) is an assumption: `executeJob` waits for
  it without a limit. Enqueueing, crashes and heartbeats are not fair. `EventuallySettles` assumes finitely many
  crashes, `RunFollowsJob` none.
- Tasks: the same for workers, and a heartbeat run that has started goes on; none has to start. `AgentsComeFree` excepts an agent whose
  task is held by a worker that crashed, which is how the code behaves (section 5).
- Runtime: a running call goes on (a handler returns, throws or times out; a statement ends).
- Graph: a running graph goes on. The code gives the provider call no time limit, so this assumes that it returns.
- Lock: a process that ended is started again by its scheduler, every process goes on, time passes. `LoopResumes`
  assumes that crashes and failing writes end.
- Video: a process that has started goes on, and cron starts the graph's node again and again, as
  `docs/ops/o13-production-entrypoint-inventory.md` says it does every five minutes, without an approval. Approved runs
  may happen and need not, so the queue may end at its first publication. `VideosEndOrWait` says that nothing else ends
  it: either all that is queued is done again and again, or the oldest entry waits for an approval (or an
  upload that is refused each time) or has a `state.json` left torn. Crashes, failing stages and overlaps are all in it.
- Pipeline: a run that has started goes on, the loop and the daily cron start again, cooldowns pass. A run by hand,
  new captions, the collector and faults are not fair. `EveryVideoCounts` is about videos that are `Countable` for good:
  a video with a poor transcript is not, and by a daily pipeline none is once a lock file was left behind.
- Outcomes: processes go on, cron starts recomputations and matchers again, and a matcher that finds the lock free
  again and again takes it once (strong fairness of `Acquire`, for the scripts; the long-lived workers need not);
  a session without a user is closed by the pool.
- Verifier: every night enqueues a batch and a worker finishes what it began; a model that hangs is given up by its
  client's time limit. Promotions, the quality gate, replacements and audits are not fair.

## 4. What is proved

Every theorem holds for all values of the constants that satisfy the module's named assumptions: any number of
jobs, workers, agents, hours, calls, nodes, loops, pids, videos, runs, matchers and promotions, any budgets, leases,
rosters, batches and leaderboard periods. Every safety invariant and action property that a passing run checks is
stated by a theorem.

**Job queue** (`PipelineQueue_proofs`): `TypeCorrect`, `RunningIsRecoverable`, `AttemptsStayBounded`,
`FailureIsExhaustion`, `AttemptIsAFence`, `QueueImplementsLedger`. The invariants are not inductive one by one.
`QueueInv` joins them with `LedgerInv`, which says what the history `started` and the copies held by processes have
to do with the row: copies are never newer than the row, a started pair was granted, and a process that has
claimed and not started holds an attempt nobody has started. The last part is what makes the refinement go
through, and it needs `AttemptNumbersUnique`, which in turn needs that a claim's number is larger than every copy.
To keep one case per action small, `StepShape` first shows that each of the actions does one of few things to a
row and a process (it is quiet, claims for its process, claims unheard, reloads, starts); the invariant is then
proved per shape. `QueueImplementsLedger` maps `granted` to `attempts`: a claim is a `Grant`, also one whose answer
was lost, `StartExecution` is a `Start`, everything else stutters.

`TimelyExclusion` and `SettledIsFinal` need more than the code promises by itself and say so in a hypothesis,
`Timing`: crashes are the only fault, a lease is longer than one tick, and a retry waits. The code's numbers are a
lease of 600 s under a heartbeat every 30 s, and a backoff of 60 s or more. `TimelyInv` says that the row speaks for whoever
holds it (`SpeaksFor`): it runs under that process with a live lease until the outcome is recorded, and from then on it
is succeeded, failed, or pending and waiting. Its crux is `Tick`: time does not pass over a lease that a live process is
about to renew, nor over the backoff of a job whose process has yet to write the retry event.

**Decision routing** (`ChannelHeads_proofs`): `PublicationNeedsEveryGate`, `RestrictedRiskIsGated`,
`StoppedAgentsAlwaysWait`, `RoutingTypeCorrect`. The state invariant is only that the outcome is the router's; the work is
in the lemmas about operators: `ChainIsClear` (the chain is clear exactly when all nine gates are, by finding the
first that triggers), `ClearMeans` (what that says of the context, gate by gate) and `HandlersAreGuarded` (each handler stops,
acts behind the full chain, or prepares something internal while live and not killed).

**Channel tasks** (`ChannelHeads_proofs`): `TypeCorrect`, `BudgetIsMutualExclusion`, `OneTaskOpen`,
`NothingReopens`, `HeartbeatGoesOn`. The inductive invariant `IInv` relates rows and processes: a task not yet taken was never
attempted or run, and a taken one has spent exactly one attempt; workers hold taken tasks only, never two the same
one, and a held task has not run before the dispatch node starts it, so it runs at most once. For the open tasks of an agent,
`NothingElseOpen` says that whatever is open, or is about to be inserted by a run that found the agent free, was found
free together with every other such key of that agent, and so is in `raced`. That a taken task never becomes fresh again is what makes the budget of one a mutual exclusion.
`HeartbeatGoesOn` joins the two components: no decision of the kernel on a context the heartbeat builds leads to `ACTING`
(`HeartbeatChainStops`), so no state file keeps a state the next run could not leave, wherever a run ends. It rests on
`LaneAssumption`: an agent whose lane may be owned has no authorities, or first one whose handler goes through the
whole chain, as every present entry of the registry has.

**Workflow runtime** (`WorkflowRuntime_proofs`): `TypeCorrect`, `InputsAreFinished`, `CompletedIsWhole`,
`ResultsAreRecorded`, `StoppedRunsAreFrozen`. `RuntimeInv` has one part per call, `Own`, and one for the store. `Own`
says that the order is a topological one (`Placed`), that nodes before the current one are through and those after it
untouched (`Progress`), that earlier attempts of the current node failed and later ones do not exist (`Trying`), what
each `pc` implies (`Control`), and that what a started node was given came from attempts that finished (`Fed`). Each
action touches one call; `OthersKeep` carries the rest over. `StoreRecorded` is what makes the result of a call that
found a stored run true of that run's row. The proof takes from `RuntimeAssumption` that `Sorted(d)` is a topological
order of the nodes whenever the definition is `Sortable`; that is checked by TLC on every small graph.

**Operating graph** (`OperatingGraph_proofs`): `TypeCorrect`, `SendsGated`, `ReportsExactly`, `QuietAfterTrouble`. In
`GraphInv`, `Way` says what has been passed where the run is (behind the preflights nothing has gone wrong, a
mutation node runs in a mode that owns it and has not run before), `Asked` what a node past its first await was let
through on, and `Account` ties what left to the node's result and flag. `GraphAssumption` says how the two orders and
the chained nodes lie; it is what keeps a node that another leads to from running twice.

**Locks** (`Locks_proofs`) joins two components whose safety is that of a lock. Of the *lock file*: `TypeCorrect`,
`OneLoopAtATime`, `TheFileIsTheHoldersOwn`. `LockInv` says that live processes have different pids and that, while
`calm`, no two processes are deciding about the file and the file belongs to the one loop that is held or halfway
through acquiring. `FreeMeansFree` is the crux: in a quiet state, a process that may take the file for absent or stale
sees no live holder.

Of the *rows of outcomes and scores*: `RowsTypeCorrect`, `PromotionsArrive`, `LeaderboardsEndWhole`, `ScriptsKeepOutcomes`.
Every step belongs to the matchers or to the recomputations (`TwoSides`), and what one side's invariant speaks of the
other leaves alone (`BoardUntouched`, `OutcomesUntouched`).

- `PromotionInv` adds `Audited`: an audit holds exactly the verdicts of the calls it still has to record, and nothing
  that could be written outside that place. A decision can then only be recorded and not applied by an audit that
  goes on, or that was cut off.
- `BoardInv` is about any number of recomputations that overlap. `Pursued` says that a period without rows, a period
  that is not ranked, and a snapshot that differs from the first period each have a recomputation that will see to
  it. The crux is `Carries`: a recomputation about to insert rows that are already there fails on the unique key and
  does *not* reach the snapshots, so it cannot be the one relied upon; but the one that inserted them can.
- `OutcomesInv` holds under all trouble in its first three parts: all that is stored, remembered or about to be
  written is what the exchange has (`Real`), copies exist only of rows still to be written (`Copied`), and who is at work
  holds the lock unless something went wrong (`Locked`). `Complete` is what the property needs: while nothing goes wrong
  and only scripts take part, no copy lacks a price that its row has. `SmoothStep` derives `KeptByScripts` from it.

**Data pipeline** (`DataPipeline_proofs`): `CallsAreCurrent`, `PromotedCallsAreKept`, `PromotionsAreReviewed`. `PipelineInv`
adds to the property that the list an extraction still has to work through was loaded from transcripts the videos
still have, and names no promoted and extracted video, unless `raced` has it (`ListsAreFresh`), and that only walking
stages have a list. Most steps leave the rows alone and only shorten lists (`Quiet`); loading, delivering a transcript,
extracting and promoting are proved apart. `PromotionsAreReviewed` has an invariant of its own, `FilesInv`, about the
files a promotion reads: a comparison never outlives the shadow record it was made of (`ComparedAreShadows`), two
runs in one directory are known to `shared` (`Alone`), past the validation a directory has one record per video
(`ValidatedAreUnique`), and what a promotion has read is what the files still hold (`PlansBelong`). Only together do
they carry the review, which names a video, to the content that is written. `PipelineAssumption` lets each run have any
arguments of the command line's shape.

**Call verification** (`CallVerification_proofs`): `AuditsAccount`, for any number of promotions beside each other. `AuditInv`
says that a promotion between its statements has a row of the audit that is there and still running
(`RowIsThere`), that no two promotions have the same row (`RowsDiffer`), and that a promotion is only caught when
something went wrong (`FailedInTrouble`). The property counts succeeded rows and promotions under way per call; the
counting lemmas show how each statement moves one unit between the two counts.

**Video queue** (`VideoQueue_proofs`): `TypeCorrect`, `NothingIsLost`, `UploadsPassedQa`, `EntriesStayInStep`. `QueueInv` says
that stamps identify entries (`Stamps`), that a process's entry is of its video (`Owns`), that a file being filled is
still there (`Fills`), and that whoever is about to remove an entry leaves a readable one of the same video, or its
end, behind (`Behind`): the order "next entry first, then the removal" as an invariant, for any number of runs that
overlap. The other two properties are about runs that do not overlap; `CalmInv` shows that then a consumer always works
on the oldest readable entry (`HoldsOldest`), so the entries of a repeated stage move one behind the other (`Lockstep`)
and the first reaches its publication only when all have passed QA. Hence the verdict in `state.json` is about the file
on disk (`SavedIsChecked`). A `video:daily` run has a video of its own, because the date names it.

All proofs follow the same plan: `Init => Inv`, `Inv /\ [Next]_vars => Inv'` with one case per action or per shape of
action, `Inv => property`, and one temporal step. `TypeOK` and four invariants that hold under every fault (`Recoverable`,
`AttemptsBounded`, `FailedMeansExhausted` of the queue, `RestrictedRiskIsGated` of the router) are proved and not
run; so is `OwnerIsNewest`, a part of `AttemptIsAFence`.

**Only model-checked:** liveness (fairness and ENABLED are outside the prover's reach): `EventuallySettles`,
`RunFollowsJob`, `AgentsComeFree`, `EveryCallEnds`, `RunEnds`, `LoopResumes`, `VideosEndOrWait`, `EveryVideoCounts`,
`EveryCallMatched`, `ScoresSettle`, `EveryCandidateVerified`. That `Sorted` sorts is checked on small graphs and assumed in
`RuntimeAssumption`; it would need induction over data.

## 5. Findings and observations

One run ends in a violation, because the code disagrees with its own comment; `PROJECT.json` quotes both sides.

- `graph_media` — media are uploaded although the guard's remaining gates would block the post.

Observations, kept for whoever changes this code. The properties state the condition under which things go well, and
these are the cases the conditions except.

Queue, tasks, lock:

- A job whose worker dies in its last attempt is reset to pending, reported as recovered, and never claimable again;
  its run stays running. A graph failure after a recorded completion makes a succeeded job pending again.
- A crashed worker's channel task stays running: there is no lease and no reset, and the upsert gives its agent no
  other, although `docs/ops/callscore-full-autonomy-heartbeat-contract.md` wants each channel head to be
  independently operable.
- Nothing keeps two heartbeat runs apart. When one begins before the hour changes and one after it, both upserts can
  find an agent free and insert under different keys, and the agent has two open tasks.
- The channel task's outcome is written without owner or attempt; only `max_attempts = 1` keeps two workers apart.
- `ACTING` is a state with no way back to evaluation in the heartbeat. No present soul and registry entry leads to
  it; `HeartbeatNeverThrows` fails as soon as a decision does.
- Two loops can run: two starters that both find no file or a stale one, a starter that reads a file halfway through
  its rewriting, or a cycle longer than `staleLockMs`. A lock left by a crashed loop is refused for up to `staleLockMs`
  when its pid lives on in another process, as after a container restart.

Graph, decisions, runtime:

- The header of `draft-artifact.ts` calls drafts non-mutating; the handler hands on to the full chain, which
  may propose a publication, behind every gate. Originality and media that are unknown pass their gate. So does a
  workplane that warns or is unknown, where `docs/ops/callscore-full-autonomy-heartbeat-contract.md:127` asks for
  `OK`: `PublicationIsFullyGated` says what the gate does, that a blocked workplane stops the publication.
- Two calls with one idempotency key can both miss the in-memory store and both run; the later one is remembered.
  A handler that outlived its attempt may still create an approval gate.
- A provider answer that is lost leaves the mutation flags blank although the call may have had its effect; the
  run is then not reported as completed. The approved payload hash is rewritten when the media bridge changes the
  payload.

Video:

- The cron that runs the node asks for no approval: the first publish entry, being the oldest, blocks the queue.
  Nothing under `src/` writes the graph context an upload needs. A publish that crashed after the provider's answer is
  uploaded again.
- A crash while `state.json` is written is permanent for that video. A stage beside another run of the same video
  writes back what it read and can wipe the QA report; its publish then throws each time.
- A scheduler that dies between `state.json` and the first entry leaves a day without a video: the next run finds the
  state and skips it.

Pipeline:

- A daily or backfill run that is killed leaves its exclusive lock file, and nothing removes it.
- A transcript of quality 0.2 or less (the backfill and the collector give one of fewer than 50 words 0.1) is never
  extracted, and since the column is filled nothing fetches it again; only a delivery with `--overwrite` replaces it.
- One failing stage stops a run before its scores: a video that defeats every model, or a creator without transcripts,
  for which the shadow validation has no record.
- `--video-ids` and `--reviewed-video-ids` given to the loop switch off the skipping of promotion, but the pipeline
  reads `--shadow-promote-video-ids` only: each cycle fails at that stage. `--write` without reviewed ids and statuses
  always does.
- A daily dry run still extracts, matches and scores. Videos beyond the channel listing's limit are never scraped; a
  handoff to the collector leaves no cooldown mark. A promoted video that is not yet marked as extracted is overwritten
  by the next extraction.
- The review of a promotion names video ids, not contents; what protects it is that the directory's records are
  validated to be one per video.

Prices and scores:

- The worker's job and the set-based matcher know no exchange fallback and write NULL over an outcome that the
  fallback filled; `KeptByScripts` is about the scripts only. A long-lived worker remembers a missing candle for ever.
- A refusal of the exchange (4xx, rate limits too) counts as "no candle". Calls that can never be matched come first
  in every batch and can use up its limit. A busy lock ends a matcher with exit code 0.
- A crash between recording a decision and applying it leaves the call low for ever, since a recorded decision is not
  revised. Two recomputations beside each other fail on a unique key; readers see a period missing or unranked
  between its statements.

Verifier:

- A promotion takes the latest *approve* of any model, whatever another model or a later row says, and looks at
  neither reason code nor evidence, while the safety notes of the trust decision say that suppressed verifier outputs
  cannot reach public scoring. An approve without evidence stays an approve when it is parsed.
- A crash, a rejection or a lost answer between the UPDATE and its record leaves raised calls in no succeeded audit row.
  A blocked promotion adds an audit row per attempt.
- The quality gate marks its job as running by a plain UPDATE without lease or attempt; a worker can claim it in
  between, or after a reset, and run the same batch beside it.
- A provider failure is stored as a review and never verified again. A call whose verdict the database always refuses
  would throw back every batch.

## 6. Not modelled, and why

- Numeric code (the arithmetic of scores, backtests, statistics, Markov and transition reports, the verifier's
  regression): floating point over price series.
- Prompting, parsing, serialisation, rendering, the web interface: text and layout without shared state.
- Authentication, API keys and access: a check per request, single statements.
- Alerts: every send path stops at the check for a graph-owned context, and the cron routes run the dry-run graph.
  Webhooks: three attempts per delivery without shared state, reached only from that sender and from a test request.
- Creator admission, trust and review decisions, self-correction: independent thresholds over evidence; nothing in
  this code follows from the record they produce. The campaign and channel graphs are linear sequences around the
  modelled kernel and graph.
- Job handlers other than matching, verification and promotion: what a job does is opaque to the queue. It returns,
  throws, or is cut off by a crash. The job tables of the workplane are static.
- Inside the models: agent and heartbeat rows and autonomy events; the node's fixture mode, `--no-publish` and
  `--skip-render` of the video scripts; videos without a date in the data pipeline; consensus
  detection and e-mails of the weekly cron; filters of a promotion by provider and model.

## 7. Plan

Modelled first were the components whose mistakes would lose work or let something out unchecked, then the ones that
make the published numbers. What could come next:

1. Abstract specifications of more components, with their refinements proved: a task of a channel head as a cell
   written once, the outcome of a call as a value that only grows, one audit row per raise.
2. The approval gates of the runtime (`lib/control-plane/runtime.ts:143`): the model has the late handlers, but no
   document says what a gate created by one should mean.
3. One composition of the queue with a job it runs, so that a replayed verifier batch or match is a step of the
   queue's retry and not of a count of tries.
4. The liveness arguments by hand: the variants that `EventuallySettles` and `VideosEndOrWait` rest on, as action
   properties that can be proved.
