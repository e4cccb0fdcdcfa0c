# dvsa-api: verification project

TLA+ models of this repository (drone video analysis: a Django application with
an agent mission engine, ephemeral cloud reasoning sessions, chat agents over
indexed frames, vision routines, autonomous runners and a streaming connector),
model-checked with TLC and, for most components, proved with TLAPS for every size.
`PROJECT.json` maps every definition to the lines it models and lists runs,
mutants, findings, hazards and theorems.

Contents: 1 the system, 2 the modules, 3 the runs with bounds and fairness,
4 what was seen while modelling, 5 proofs, 6 plan, 7 what is not modelled.

## 1. The system

| Component | Where | State it keeps | Operations | Module |
| --- | --- | --- | --- | --- |
| Mission executor | `dvsa_api/mcp/executor.py` | the task graph's nodes while a mission runs | waves, retries, candidates, deadlines, follow-ups, cancel, timeout | `MissionExecutor`, `MissionRun` |
| Task graph, planner | `dvsa_api/mcp/planner.py` | `TaskGraph._nodes` | `validate`, `ready_tasks`, `add`, `plan_mission` | `TaskGraph`, `MissionPlanner` |
| Mission sessions, HTTP API | `dvsa_api/mcp/session_manager.py`, `api/mcp_router.py` | dict of sessions; rate-limit windows | create, run, command, list | `MissionSessions`, `RateLimiter` |
| Agent registry | `dvsa_api/mcp/registry.py` | manifests, factories, instances, round-robin counters | discover, get, list, select | `LazyRegistry`, `AgentRegistry` |
| Message bus | `dvsa_api/mcp/message_bus.py` | subscribers and history per topic | subscribe, publish, unsubscribe | `MessageBus` |
| MCP protocol server | `dvsa_api/mcp/server.py`, `tool_registry.py`, `resource_registry.py` | none of its own | JSON-RPC lines, batches, notifications, tools, resources | `McpStdio` |
| Foundry sessions | `dvsa_api/reasoning/azure_session_manager.py` | in-memory store; cloud resources; vault keys | create, heartbeat, check_can_infer, record_usage, teardown, sweep | `FoundrySessions` |
| Foundry adapter | `dvsa_api/reasoning/azure_foundry_adapter.py` | none | predict | `FoundryCalls` |
| Reasoning registry, router | `dvsa_api/reasoning/registry.py`, `api/reasoning_router.py` | models | select, run with timeout, fall back | `ModelRegistry`, `ReasoningService` |
| Cloud runner | `agent_kits/cloud_autonomous/cloud_runner.py` | capacity semaphore, draining flag | /run, probes, shutdown | `CloudRunner` |
| Integrations | `agent_kits/integrations/` | run tracker | webhook and Slack triggers | `RunTracker` |
| Orchestration | `agent_kits/orchestration/` | none | partition, run children, merge | `Orchestration` |
| Agent kit pipeline, local harness | `agent_kits/common/`, `local_interactive/` | none | run a command under a profile | `LocalHarness` |
| Analyses | `apps/analytics/views.py`, `tasks.py` | `Analysis` rows, Celery queue | request, run task | `AnalysisRuns` |
| Vision routines | `apps/analytics/routines/` | trackers' state during a run | sampling, tiles, zones, parking, tracks | `FrameRoutines`, `ObjectTracks`, `CentroidTracks` |
| Videos | `apps/videos/` | `Video` rows, blobs, frame rows | upload, extract, corners | `VideoUpload`, `FrameStore`, `SurveyCorners` |
| Observability | `apps/observability/` | sinks' buffers, event rows | emit, flush, ingest, summarise | `EventStream` |
| Chat agents | `core/azure/agents.py`, `analyzer.py`, `qwen_agent.py` | threads and runs of the agent service, a thread pool | tool loop, team turn, frame tools | `AgentRun`, `ChatTurn`, `FrameTools` |
| Azure sessions, provisioning, deployment | `core/azure/session.py`, `provisioning.py`, `terraform.py`, `deploy.py`, `foundry_provisioning.py` | registry of sessions, indexes, agents | create, ingest, ask, teardown, deploy, register agents | `SearchIndex`, `AgentRegistration` |
| Custom models | `custom_model/`, `custom_models/` | a detector shared by threads | choose, load, tile, merge, close | `TileDetector`, `ModelChoice` |
| Databricks connector | `dvsa_databricks_connector/` | checkpoint and Delta table | micro-batches of inference | `StreamingInference` |
| Storage, users, configuration, simulators, infrastructure | see `components` | CRUD rows, settings | sequential | none (section 7) |

### How they interact

An HTTP request creates a mission session; on the request's own thread the
session manager plans the mission and calls the executor.  The executor runs the
graph in waves on a thread pool, each worker calls an agent (registry, local or
remote) in a daemon thread with a deadline.  Another request may send `cancel`,
which sets a shared event.  Reasoning agents may call a Foundry session through
the adapter: check, inference, accounting.  A periodic job sweeps Foundry
sessions.  Webhooks and Slack post runs to the cloud runner, which executes the
pipeline in its own thread pool.

Saving an uploaded video's row starts the ingestion of its frames into the index
of the account's session; requests extract the same frames; a chat turn searches
an index, runs agents whose tools read frames, and narrates what they found.
Analyses go through Celery and a database row, and emit commentary through
sinks.  A deployment rebuilds the shared index and the agents while all of this
goes on.

### What is hard, and what makes each part correct

- **Executor.** Waves against follow-ups, deadlines against late answers,
  retries against a cancel.  Correct: dependencies before dependents, with their
  results; priority order; bounded attempts; a settled task stays settled; the
  mission returns, and its outcome matches its tasks.
- **Foundry sessions and calls.** Every request is a thread, and the store's lock
  covers one access only; cloud calls fail.  Correct: nothing provisioned is lost
  from sight, "torn_down" is true, quotas and cost caps hold up to a stated slack,
  an expired session is reaped, an answer that is seen is charged once.
- **Services around them.** Time read outside a lock, callbacks on a snapshot,
  caches dropped by a discovery, workers left behind by a timeout, a semaphore
  taken on an event loop.  Correct: limits hold up to the number of threads, nobody
  who stays is missed or unknown, an answer is that of its request, everyone is
  answered.
- **Rows and frames.** Whole-row saves of stale copies, effects started by a save,
  uploads one by one, two ids with one slug.  Correct: a row is no mixture of runs;
  what is answered, stored and indexed agree.
- **Numbers.** Overlapping windows and tiles, ages and streaks of tracks, weights,
  degenerate pixels.  Correct: what is reported is what is seen, once.

The full list, with lines, is `hazards` in `PROJECT.json`.

## 2. Modules

Definitions called "Variant of X" are plausible wrong versions of X.  They are in
no specification; each is substituted for X to see that a property notices.
Every component has variables and operators with a prefix of its own (`rl`, `bus`,
`rg`, ...), its `Init`, `Next` and type invariant, so that several fit in one
instance.

| Module | Models | State and steps |
| --- | --- | --- |
| `TaskGraph` | pure operations of `planner.py`'s graph, `_mission_status` | operators only |
| `MissionRun` | what a caller of `run_mission` may rely on (abstract) | waves, settled tasks, outcome |
| `MissionExecutor` | `executor.py` with `run_with_timeout`; implements `MissionRun` | below |
| `FoundrySessions` | `azure_session_manager.py` with its wrapper and adapter | below |
| `MissionPlanner` | `plan_mission`: adding a template's tasks, Kahn's algorithm | in-degrees and queue; a step per task taken.  Compared with the graph-theoretic definition of an acyclic, complete template |
| `MissionSessions` | create, run, command, against one store of sessions by mission id | a request's place between `save` and `get`, `CheckStatus` and `WriteCancelled`, `WriteStatus` and `SaveFinal`; the executor reduced to one task, which may raise |
| `RateLimiter` | the sliding window of the HTTP views | clock, queue per key; reading the clock and taking the lock are two steps |
| `MessageBus` | subscribe, unsubscribe, publish | the snapshot of a publisher and what it still has to call |
| `LazyRegistry` | discovery, listing and lazy instances of both registries | a step per folder and per hold of the lock; folders dropped in later |
| `AgentRegistry`, `ModelRegistry` | the two registries: `LazyRegistry` with round robin and allow-list, or with selection policies | candidates read, then drawn or chosen |
| `ReasoningService` | `_infer`, the timeout runner, fallback, the Azure adapter's retries | a worker per call, which may end late or never |
| `FoundryCalls` | `predict` in detail: check, request, retries, shaping, accounting, teardown at the hard limit | a call's place and answer; usage read, written and held against the limit in steps of their own; the session may end between any two |
| `McpStdio` | server and stdio client, envelopes, batches, notifications, tools and resources | two pipes; what each method's handling comes to is computed from the call; a notification whose handling raises is answered like a request |
| `AgentRun` | one run of a Foundry agent: create, poll, tool rounds, deadline | clock, pool places kept by abandoned calls |
| `ChatTurn` | the members of a turn, budgets, consolidation; uses `AgentRun` | the member at work, the sources so far |
| `AnalysisRuns` | view, Celery task, commentary and trace on the one `Analysis` row of a video | a copy of the row per request; whole or partial saves, any of which may fail; broker refusals, dying workers |
| `EventStream` | sinks, their flush, event ingestion, summaries, the aggregate | buffers, stored rows, sent signals |
| `VideoUpload` | form, copy, inspection, screen, blob, row, ingestion | one upload that may fail or be killed between any two steps, signing the stored blob's address among them |
| `FrameStore` | extraction and ingestion of frames: list, sample, upload one by one, sync rows, index | storage per folder, rows, requests in flight, failures; a request may name an address beside a row |
| `FrameTools` | the tools that hand frames to agents; composed with `FrameStore` | a tool run's resolved video, list and picks, while frames come and go |
| `SurveyCorners` | the corners endpoint | folder, corners put one by one |
| `SearchIndex` | indexes of sessions, global resources, teardown, restart, the deployment's count, drop and rebuild | documents per index name, registry in memory |
| `AgentRegistration` | versioned and classic agents: deployments, the runtime's own rewriting, people's edits | versions per name, classic agents, snapshots; a deployment may sync some agents only (`--only`) |
| `FrameRoutines` | sampling, tiles, zones, parking spots | one frame after the other; coordinates on a line |
| `ObjectTracks` | SORT and trajectories | tracks with ages and streaks; any one-to-one matching may come |
| `CentroidTracks` | greedy centroid tracker | objects with places and misses |
| `TileDetector` | ONNX/Torch tiling, scaling, merging, on one detector for all threads | `preprocess`, each region's `infer` and each round of the merge as steps over the shared shape; any objects and scores, fragments of cut objects, an `infer` that raises |
| `ModelChoice` | selector, discovery by file, adapters | a query or file, the adapter's life cycle |
| `Orchestration` | partition, children, merge | requested window, width of the frames (or none), parts done, detections, failures |
| `LocalHarness` | profile, mode, guardrails, gate | the command's progress |
| `CloudRunner` | handlers on the event loop, semaphore, retries, drain | requests' places, permits, who blocks the loop |
| `RunTracker` | webhook and Slack deliveries sharing a run id | records with history |
| `StreamingInference` | the streaming query: plan, infer, append, commit, die, restart | landed rows, plans, sink lines, commits |
| `MissionExecutorProofs`, `FoundrySessionsProofs` | theorems about one module each | |
| `SharedProofs` | theorems about what threads share: `LazyRegistry`, `AgentRegistry`, `ModelRegistry`, `RateLimiter` | |
| `CallerProofs` | theorems about `MessageBus`, `CloudRunner`, `ReasoningService`, `FoundryCalls`, `McpStdio`, `ChatTurn`, `AnalysisRuns` | |
| `ServiceProofs` | theorems about `MCService`, from the two above | |
| `RecordsProofs` | theorems about `MCRecords`: uploads, kit, tracker, index, registration, commentary, sessions | |
| `FramesProofs` | theorems about `MCRecords`: frames, tools, corners | |
| `VisionProofs` | theorems about `MCRecords`: tracks, model choice, detector, orchestration | |
| `MCMissionExecutor`, `MCFoundrySessions` | constants of the small instances of the two | |
| `MCService`, `MCRecords` | the other components side by side | `part` says whose behaviour it is |

What all of them abstract: names, texts, images and embeddings are members of small
sets; two-dimensional geometry is one-dimensional where the axes are treated alike;
neural networks, the agent service, Azure and Spark are external and may do whatever
the code has to expect of them.

### MissionExecutor

State: the nodes (`status`, `error`, `attempts`, `results`), the graph (`ids`,
`deps`), per task the place of its worker in `_run_task` (`phase`, candidate
`current` of `total`, `tries` on it, `calls` since a worker took the task, the
rest `spawn` of an answer's follow-up list), the agent calls still running (`live`), the runner's place (`pc`), and
what other threads set (`cancel`, `expired`), and whether the configured backoff is
one that `sleep` refuses (`badBackoff`).

Actions: the branches of the loop (`LoopExit`, `LoopTimeout`, `LoopBlocked`,
`LoopWave`), `WaveEnd`, `WaveRaises` (a negative backoff raises in a worker and out
of `run_mission`), `Finish`; for a worker `StartTask`, `CancelledAttempt`,
`CallAgent`, the ends of a call (`Answer`, `TimeOut`, `Raise`, `Unavailable`),
one follow-up at a time (`SpawnFollowup`, `MalformedFollowup`), `TaskEnd`,
`Exhausted`; `LateAnswer` of an abandoned call; `Cancel` and `Expire` at any time.
The status an agent answers is stored as it is: a settling one, `in_progress`,
`pending`, after which the next wave takes the task again, or `running`, after
which the loop takes it for stuck and fails it.  A text that is no node status is
treated like `in_progress` everywhere, which stands for it.  The follow-up list is
any of a given set, including one with an entry that is not a dict: that raises
after earlier entries were added, and the completed task is tried again.  A task in
`NoDeadline` is called inline (`metrics.py:133`): its call is never given up and may
never come back.

Left out: the data of contexts and results (who has a result, and who was handed
it, is kept), logging, metrics, bus messages, backoff sleeps, follow-up ids (the
scheme of default ids is a hazard listed but not modelled).

Actions are as fine as other threads can tell: `StartTask` covers reading the
candidates, `Answer` writing result and status.  Python's own thread switches
inside such a step touch only the worker's own node.

### FoundrySessions

A session is one shared object; the store says only whether its id is known
(`store`, and `order` for the dict's order that `sweep` follows).  Cloud side:
`res` (none, partial, full) and `keys`.  A thread has a place `pc`, the session
`sid` it works on, why it tears down, the cost it has read, and the rest of a
sweep's snapshot.  One action per access to the store or to the cloud, so any two
threads interleave between `get` and `put`, check and store, pop and reinsert,
read and write of the cost.

`CheckQuota` already draws the id that the code draws after the checks; a
rejected create gives it back.  `RejectCreate` stands for the user's quota and
for a cost estimate above the cap.  Time is abstracted to two events per session,
`Expire` and `IdleOut`; prices to small numbers.  `backend`, one of
`Backends`, is SDK, Terraform or dry run.  With Terraform, `init` may raise, `destroy` may fail
silently.  With the SDK the delete may raise; resources then stay as they were.
A delete that Azure has accepted counts as done (the wrapper does not wait for
the poller either).  `delete_secret` may silently fail.  `Told`
marks the step in which a teardown answers `torn_down`, also for an id it does not
find in the store (`AlreadyGone`).

## 3. Runs

Mission executor (passing):

- `waves`: three tasks; one planned task, a chain of two, or three side by side for a
  pool of two; answers with any status and no follow-up, one after `a`, one that waits
  for itself, one followed by an entry that is no dict; one retry, three different
  priorities, one task without a deadline.  The instance has more ready tasks than
  workers, follow-ups that make new waves, tasks that are run again, and blocked tasks.
  Checks types, `AttemptedAfterDeps`, `PriorityRespected`, `BlockedHasUnmetDependency`,
  `NothingLeftPending`, `SettledTasksStay`, `ImplementsMissionRun`.  2.6 million states.
- `attempts`: up to two candidates and one retry, one worker, a spawned second task
  whose calls have no deadline.  Checks `AttemptBudget`, `Termination`,
  `CancelIsReported`.

Foundry (passing):

- `foundry_sdk`: two threads, three sessions under a cap of one, every cloud call may
  fail: `TypeOK`, `NeverOrphaned`, `TornDownMeansGone`, `QuotaOvershoot`.  Three sessions
  are what it takes to exceed the bound of two.  3.8 million states.
- `foundry_backends`: the three backends, each in the situation it matters to
  (`Situation`): with the SDK one client's sessions run out and are swept, one of them
  can never be deleted; with dry run three clients use one session, cap 2, calls that
  cost 0 or 1, forced or not, so that stale reads overwrite newer costs; with Terraform
  two clients create, use and destroy two sessions, whose steps raise or fail silently.
  Checks `CapNoticed`, `ReapedInTheEnd`.

### service

`MCService` puts twelve components side by side.  They share no state, so a behaviour
is about one of them: `part` is chosen at the start, every other component stands
still, and the state space is the sum of theirs, not the product.  Three parts
compose modules: "agents" and "models" extend `LazyRegistry`, "chat" is `ChatTurn`
over `AgentRun`.  About 250,000 states.

| Conjunct | Says | Instance |
| --- | --- | --- |
| `ServiceTypes` | types | |
| `RateWindowKept` | workers that read the clock outside the lock bend the limit by no more than their number, either way | 4 requests, 2 workers, 2 per window, clock to 3 |
| `SteadySubscriberTold` | a callback registered throughout a publication is called by it | 2 publishers, 2 callbacks, topic and wildcard, 4 changes |
| `RegistryServes`, `InstancesSettle` | overlapping discoveries do not show: lists complete, installed names found, turns fair, private scenes local; cached instances stay | 2 threads, 3 folders, one broken, one late |
| `AnswersOwn` | an answer belongs to the request it is taken for (reasoning), or on stdio is shifted by one for each notification whose handling raised; usage is never more than the answered calls, and exactly those when no accounting overlapped another; nothing is asked again after a settling answer | 3 requests and 3 notifications, some of which raise; 2 retries and a fallback; 2 Foundry calls with a retry on a session |
| `PlanSound` | the planner takes the valid templates and no others, doubled dependencies apart | templates of up to 3 tasks |
| `ChatKept` | a turn ends within a round of its deadline or the search's end; evidence found is shown unless a run raised, or the run that makes the chat agent was given up and its last tool's text shown | turn of 8, reserve 2, calls of 3, pool of 2 |
| `AnalysesSound` | the row is no mixture of runs and settles unless a write of its status failed; its trace is whole | 2 requests, 2 frames, batches of 2 |
| `RunnerDrains` | no permit is lost or made up; a draining runner only empties | 3 requests, 2 permits, a probe, SIGTERM |
| `SinkLines` | no line lost, and at most one batch doubled per death | 3 rows, one death |
| `EveryoneAnswered` | liveness of six parts | |

### records

`MCRecords` does the same with sixteen components in eighteen parts ("index" and
"slugs" are two views of `SearchIndex`: one session with deployments, two sessions of
one slug without; "registration" and "versions" two of `AgentRegistration`; "frames"
is `FrameStore`, "tools" is `FrameTools` over it).  About two million states.

| Conjunct | Says | Instance |
| --- | --- | --- |
| `SessionsAddUp` | missions of racing requests: each is run by its request only, statuses and saved copies agree, and one that raised stays `running`, and only such a one | 2 creates with one fixed id, a command |
| `UploadSound` | answer, blob, row agree, up to a blob whose address could not be signed; what is stored was inspected and screened | every clip, failures anywhere |
| `EventsSound` | what is reported stored is stored; summaries agree with what is stored | 2 runs, both sink orders, batches of 2 |
| `RunsAddUp` | duplicated triggers leave an end, a full history, the own answer | 3 deliveries, 2 run ids |
| `CutIsExact` | how what a plan covers is cut does not show: windows and tiles lose and double nothing of it, and the best detection wins; it covers the requested window with one window, the whole video with more | videos of 5 kinds, ends at seams, 2 requested windows, frames with and without a width |
| `ProfileObeyed` | the ceiling and the gate are obeyed | 5 profiles, all command lines |
| `DetectorReports` | tiles leave no gap; what is found is where it was seen; the merge drops only what is like something better; a whole object is reported once; scaling uses the own frame or one brought meanwhile; exceptions stated | 2 threads, frames of 3 and 4 with up to 2 objects, 3 scores, 5 configurations |
| `ChoiceWorks` | the model selected, discovered, loaded can do the work | 3 models, all queries |
| `TracksSound` | trajectories are where objects were seen; tracks retire; per-frame routines and the centroid tracker report what is there | 5 frames, 2 detections; 9 pixels; 3 updates |
| `ImagesSound` | frames and corners are those of the video they are taken for | 3 extractions, one by address and one that may name an address beside its row, and an ingestion; up to 2 frames; one tool run; 2 corner requests |
| `DeploymentsSound` | deployments keep documents and tools outside of two windows that the property names, and registered every agent they were to sync when they report no error | 2 sessions of one slug; 2 deployments, 2 agents, 2 chats |

Where the code falls short of the plain statement, the property says exactly how far
(for instance "unless two deployments ...", "doubled at most once a death"), and
section 4 lists the case.

`CHECK_DEADLOCK FALSE` is set for the Foundry runs because the model runs out of
session ids, where the program would draw a new one, and for `service` and `records`
because their requests are finitely many and then nothing is left to do.

Bounds.  Every number above is a CONSTANT of its module, marked "bound" where the
program has none; the cfgs give their values.  In the executor `AttemptBound` is where
the count of a task's attempts stops, since nothing bounds how often an agent may
answer `pending`; `LiveBound` is how many abandoned calls of a task are told apart.  Calls of a worker, tries, retries and batches are
bounded by the code itself.  In Foundry `CostBound` is needed although there is a
soft stop: a stale write can lower the cost below the limit again while a call that
read a higher value is still to write.  Each bound was raised until the case it is
there for occurred: every action of every part fires, and every property fails for a
wrong variant of the code under the same bounds.

### Fairness

Executor: the runner and every worker keep running (`WF`), a call with a deadline
ends for its caller, and the clock passes the mission's own deadline (`WF(Expire)`;
without it a task answered `pending` would be run for ever).  Nothing makes an
abandoned call answer, a cancel arrive, or a call without a deadline return:
`Termination` supposes that none of the latter hangs (`NoHang`).  Foundry: a request that has begun goes on, the periodic sweep keeps being
started, and the cloud does not refuse for ever to delete a group that can be
deleted (`SF` on the delete of each session; sessions in `Stuck` are exempt
because their delete is never enabled).  Clients owe nothing.

`service`, each stated for its part: a request's own steps in `ReasoningService`
(`InOwnSteps`: it starts workers, joins with a timeout, answers; workers owe nothing);
the stdio server serves and its client reads (`Serve`, `ReadLine`); a chat turn's own
thread goes on (`TurnSteps`; the pool's workers owe nothing); each analysis task runs
(`TaskSteps(r)`, though its worker may die); the runner's loop and pool threads run
(`RnServes`); the streaming query is restarted and goes on (`QuerySteps`).  Other
parts have no fairness and no liveness property.

### Disagreements between the code and what is said of it

Runs with `expect: violation` each check one statement of a doc or comment that
the code does not keep; `findings` quotes the line.

| Run | What happens |
| --- | --- |
| `completed_with_open_task` | a mission is "completed" although a task's agent answered `in_progress` |
| `foundry_inactive_infer` | a heartbeat revives a torn-down session, and inference is let through |
| `screen` | the screen raises on a textured colour picture before the verdict, so a clip that declares its generator is stored |
| `chat_index` | a saved video is ingested into the index of its account's session, and questions are asked of the shared one |
| `ask` | in `auto` mode an always-ask action that the profile's allowed skills name is carried out unconfirmed |
| `deploy_drops_documents` | documents ingested between a deployment's count and its delete are lost with the index, and the deployment reports success |

## 4. Seen while modelling

Facts the models contain; each is how the code behaves, and the properties allow for
them explicitly.  File names are relative to `src/`.

Missions and services

- Executor: an answer `failed` is final, without retry or fallback agent; a task whose
  agent answers `pending` is run again in the next wave, without end but for the
  mission's deadline (`executor.py:139`); one whose agent answers `running` is failed as
  "blocked by failed dependency" though it was attempted and had all it needed, and so
  is a follow-up that waits for itself; a deadline of 0 or less means none at all
  (`metrics.py:133`), and a call that hangs then hangs the mission; a negative
  `backoff_ms` raises in `time.sleep` (156) and out of `run_mission`; calls abandoned at
  their deadline run on beside the next ones, beyond `MCP_MAX_CONCURRENCY`.
- Planner: a dependency named twice is reported as a cycle.
- Mission sessions: two creates with one id may run one graph concurrently; create may
  answer with a session that never ran (`session_manager.py:99`); when the executor
  raises (`executor.py:61`, 156) the answer is 500 and the session stays `running`
  (`session_manager.py:119-125`).
- Registries: get ignores folders dropped in after the discovery
  (`reasoning/registry.py:133`).
- MCP server: `protocol_errors.py:60` and `tool_registry.py:81` say a tool's error is
  surfaced as a tool error; it is re-raised as a JSON-RPC error (`server.py:142-144`),
  and only arguments that cannot be searched are answered as a tool error.  The
  last-resort handler answers notifications too (`server.py:71` against 73-75), for
  example when a resource file cannot be parsed: the line with a null id is taken for
  the answer to the client's next request, and every later one is shifted.  Telemetry records "ok" for calls
  that raised.
- Cloud runner: readyz is always ready, also while draining; a request that waits on
  the loop for capacity always ends in 429, because no release can happen meanwhile.

Foundry

- Two creates that pass the same quota check store more sessions than the cap; a
  session may stay in the store as `over_budget`; a Terraform session is stored
  without a key in the vault; a failed `terraform apply` leaves partial resources; a
  teardown whose delete fails raises; `torn_down` is answered for an id that is not in
  the store while another thread's delete is under way or about to put it back (508-510);
  concurrent usage updates lose each other's cost;
  each CLI command has its own in-memory store.
- Calls: a 200 answer whose content is JSON but no object raises inside the retry loop
  and is paid for again (`azure_foundry_adapter.py:217-227`).  An answer whose actions or
  trace are no lists, or whose token count is no number, raises before its usage is
  recorded: paid for, not charged, and lost to the caller.  After a teardown at the
  hard limit that fails, the session can be used with force beyond its cap.

Chat and Azure

- Turn: any exception of a run loses the whole turn; the consolidation reserve
  (`agents.py:86-89`, "never starved" at 679-680) can be used up by the search; an
  abandoned tool call is still executed later, and when a run is given up the text of
  its last tool call, an error's as well, becomes its answer and is shown in place of
  the evidence (`agents.py:361` against 352-353).
- Search: the path filter (`agents.py:576`) never matches, because ingestion writes the
  full SAS address as the path; documents are keyed by account and frame number only,
  so a later video overwrites an earlier one's (`document.py:46`).
- Ingestion uploads with the video blob's read-only SAS; "indexed" counts frames whose
  upload reported errors.
- Sessions: slugs collide, so the teardown of one session deletes another's index;
  `naming.py` says teardown can reconstruct every name, but an isolation override is
  lost on restart and the index leaks; `delete_global` only records an operation
  (`session.py:407`); the return code of terraform apply is recorded and
  `global_provisioned` set regardless; under filter isolation a teardown leaves the
  session's documents.
- Deployment: a deployment that is blocked keeps `ok` true; a failed re-ensure leaves no index.
- Agents: runtime and deployment rewrite each other's instructions; the tools
  "preserved as-is" (`foundry_provisioning.py:274-275`) are those of the listing, and one
  that somebody adds between the listing and the update is lost; a
  changed schema alone counts as unchanged (295-296); missing models do not change
  `ok` of `verify_deployments`.
- Tools: `count_multiple_matches` counts only the members of cluster 1
  (`analyzer.py:131`); `groupRectangles` with threshold 1 drops single matches;
  `ask_perplexity` falls back to frames 0..19 that need not exist; overlapping
  extractions double `curated_frame_urls`; frame number 0 counts as not given in
  `get_object_uri` and `get_scene_uri`; `select_frames` does not keep the last for a
  limit of 1; `agentic_retrieval` resolves the account's last video twice.

Videos, analyses, events

- Screen: generator hints of three letters are found in raw bytes by chance, and a
  camera's clip is refused.
- Frames: a request that names both a row and an address samples the address's video
  into the row's folder (`views.py:598-627`), and later requests for the row are given
  its frames; requests by raw address share a folder per account; the stride is ignored
  once frames exist; a row's address expires after an hour; clip names have a
  resolution of one second.
- Corners: requests without a row share folder 0, and a request that names both a row
  and an address puts another video's corners into the row's folder.
- Upload: the blob is stored before its address is signed (`views.py:406-420`); when the
  signing fails the answer is 500 and the blob stays, without a row.
- Analyses: when the database fails a write of the status (`tasks.py:101`, 165) the row
  stays `pending` or `processing`; whole-row saves of stale copies (`views.py:62`, `tasks.py:119`); the trace id
  may belong to another run than the results.
- Events: a database failure stops the collector's flush; `group_by` trace_id is
  always "null"; a semantic rollup counts events of both runs; `commentator.py:134`
  reads "counts" where zone counting writes "zone_counts" (`zone_counting.py:192`).

Vision, models, kits, connector

- Routines: a positive `hit_streak` needs one more detection than `min_hits` suggests;
  gating after the assignment may drop a pair above the threshold; the centroid tracker
  skips an object whose nearest centroid is taken; a parking spot left of the frame is
  cropped from its far edge; an object on the border of two zones counts in neither,
  and overlapping zones of one name count it twice; `iter_frames` with 0 frames yields one;
  background subtraction reports the sampled position (`motion.py:52`), other routines the
  source frame.
- Tiles: with no overlap the last column is missed when the step divides the width less
  one (`onnx_inference.py:188`); boxes that end within 1.5 pixels are taken for normalised;
  an untiled `infer` scales to another thread's frame; fragments of a cut object are
  counted beside it or replace it; of two like boxes the better survives, also when it
  is the fragment; a class the profile does not name raises and loses the frame
  (`onnx_inference.py:348-352`).
- Choice: a `.engine` file is mapped to ONNX, whose loader refuses it; the weights do not
  let classes dominate (`selector.py:28-29`).
- Kits: a denied write_output answers `executed: False` although the pipeline ran;
  the guardrail `max_frames`, which the profile and the README list, is not enforced.
  With more than one window the orchestrator ignores the requested time window
  (`parent_orchestrator.py:103-104`); frames without a width are cut as if one pixel wide (106).
  Boxes without an area are never merged.
- Connector: `streaming.py` says "exactly-once + restart safety"; a crash between append and
  commit doubles lines.  A remote answer `null` gives a row without result or error.

## 5. Proofs

`tlapm` checks them for every value of the constants that meets the `ASSUME`s of the
modules involved; TLC evaluates each of those on the small instance too.  The
assumptions are what the code's types and settings give (limits are naturals, sets of
threads that a count is taken of are finite, placeholders such as "none" are no names).
These say more:

- `LhAssumption`: a profile's ceiling is one of the three modes.
- `AzAssumption`: no session's slug makes the name of the shared index.
- `ReadableAssumption` and `FrameToolsAssumption`: the outcomes that stand for pixels
  and for an agent's arguments are sequences of labels and of frame numbers.
- `EvAssumption`: what a run has to say is a list of findings.
- `DtAssumption`: every width a region of a frame can have divides the unit in which
  the model answers, scores are naturals and scenes are finite.  The code computes in
  floats; with such a unit scaling is exact, so the theorem is about tiling, merging and
  whose shape is used, and says nothing of rounding.
- `OrAssumption`: a video's detections are finitely many, with places and times in the
  naturals; widths may be 0, which is a frame without one.
- `FsAssumption`: an ingestion names no address; requests that name an address beside
  a row (`FsMixed`) are extractions.
- `ExecutorAssumption`: `NoDeadline` is any set of tasks, priorities and retries are
  naturals.
- `CcAssumption`: the catalog has a model, a query asks for something, and the classes it
  asks for are finitely many (`Score` counts them).
- `PlAssumption`: dependencies are lists of task numbers, and templates have a greatest
  length.

The proofs have one pattern.  The property is seldom inductive, so a strengthening is
kept by every action, one lemma for each action that disturbs it and one for what
stands still ("Stays", "Same"), and implies the property.  In `ServiceProofs`,
`RecordsProofs`, `FramesProofs` and `VisionProofs` a step of the whole is a step of the component in question or leaves its
variables alone, so each component's invariant carries over.

| Theorem | Property | Invariant, and why it is needed |
| --- | --- | --- |
| **`MissionExecutorProofs`** | | |
| `TypeCorrect` | `TypeOK` | `TypeInv` adds `WorkerOK`: whether `current` indexes the list and `live` may be lowered depends on the phase |
| `DependencyOrder` | `AttemptedAfterDeps` | `OrderInv`: a busy task is in the current wave, and the barrier between waves keeps a dependency from being worked on while a dependent is; what was handed over stays, done tasks keep results |
| `SettledForGood` | `SettledTasksStay` | an action property, from `TypeInv` alone |
| `NoTaskForgotten` | `NothingLeftPending` | `FlowInv`: how a runner comes to finish |
| `ExecutorImplementsMissionRun` | `ImplementsMissionRun` | the refinement: every action maps to `StartWave`, `Settle`, `Grow`, `Abandon`, `Conclude` or a stutter |
| `AttemptsAreBounded` | `AttemptBudget` | `BudgetInv` splits the calls of a worker into those of candidates already given up, each at most `max_retries + 1`, and the tries of the current one; a task called before is only queued again after an answer `pending` |
| `UrgentFirst` | `PriorityRespected` | a wave is queued when nobody works (`OrderInv`), and from then on its queue only shrinks |
| `BlockedIsTrue` | `BlockedHasUnmetDependency` | `BlockedInv`: whoever failed tasks as blocked does not come back to its loop, so no dependency is done afterwards; `AnsweredInv`: what has a result was attempted |
| **`FoundrySessionsProofs`** | | any number of threads and sessions |
| `TypeCorrect` | `TypeOK` | a thread at work holds a session |
| `NothingOrphaned`, `TornDownIsTrue` | `NeverOrphaned`, `TornDownMeansGone`; SDK | `OriginInv`: only creates make resources, never of a session that anybody knows; a teardown reaches its last step only after the delete (`ScrubbedGone`); an id that is not in the store while its resources exist has a thread at its delete |
| `QuotaHolds` | `QuotaOvershoot` | `QuotaInv` bounds what is claimed, in the store or on its way there; only the quota check claims, when the store is below its limit, and a thread claims one session at most |
| `CapIsNoticed` | `CapNoticed`; dry run | `CapInv`: a thread about to pop counts only if `record_usage` began its teardown.  The property is about dry run only; with other backends it fails: a delete that raises ends the teardown and leaves the session `active` |
| **`SharedProofs`** | | |
| `InstancesKept` | `InstancesSettle` | an action property |
| `LimitHolds` | `RateWindowKept` | `QueueInv` ties each entry of a queue to the request that owns it, and an entry is followed by at most `RlWorkers - 1` older ones; `WindowInv` says that before a time after a window is read its queue still has all of it, and then only the requests in flight at that moment add to it |
| **`CallerProofs`** | | |
| `SteadyIsTold` | `SteadySubscriberTold` | `BusInv`: a steady subscriber has been told or is on the publisher's list |
| `DrainHolds` | `RunnerDrains` | an action property; permits taken are those of requests at work |
| **`ServiceProofs`** | | |
| `RegistriesServe` | `RegistryServes` | `ScanInv`: what a thread has still to look at and what is known make up what was installed; `RoundInv`: the counter is so many rounds and so far into the next; `PickInv`: what policies ask of a choice |
| `AnswersAreOwn` | `AnswersOwn` | `InInv`: the second call follows a first that could not be used; `FcInv`: usage is at most the number of calls past their write, and that number while no two accountings have overlapped; `StInv`: what is in the pipes and taken, as counts of answers and of null lines, the latter no more than the notifications that raised |
| `TurnsAreKept` | `ChatKept` | `CtInv` counts the calls of a round as spent when the round begins, so the clock and what is still to be called stay within a round of the budget |
| `AnalysesAreSound` | `AnalysesSound` | `AnInv`: the row and every copy of it point at runs that stay as they are, so whichever copy is saved is true as a whole, and a write that fails changes nothing |
| `SinkLinesKept` | `SinkLines` | `SiInv`: no row is planned twice, the log is at most one batch ahead of its commits, the answers so far and the rows still to ask about are the batch (`Answering`), and a batch not yet written has at most as many lines of each row as the query died (`TableKept`) |
| `PlansAreSound` | `PlanSound` | `KahnInv`: an in-degree is the length of a task's list less the taken tasks on it, each queued task has in-degree 0 and is queued once, and what was taken is acyclic.  When the queue runs dry with every task taken, the template is; when tasks are left and no list names one twice, each of them depends on another one left, which is a cycle |
| `ServiceIsTyped` | `ServiceTypes` | the type parts of all the above together; `SiCounts` bounds the streaming query's logs by its rows and deaths |
| **`RecordsProofs`** | | |
| `UploadsAreSound` | `UploadSound` | `UpInv`: what has been done of an upload that stands at a step |
| `ProfileIsObeyed` | `ProfileObeyed` | `LhInv`: the mode is at most the ceiling, and nothing stands between a gated output and the store any more |
| `RunsAreTracked` | `RunsAddUp` | `TkInv` counts the history of a run against the deliveries that wrote it |
| `DeploymentsAreSound` | `DeploymentsSound` | `IxInv`: what a running deployment may still drop; `RegInv`: a snapshot's version against the current one, every agent a deployment is to sync and is past left right or an error (`PastAreRight`), classic agents against the threads that found none |
| `CommentaryIsStored` | `ReportsAreStored`, a conjunct of `EventsSound` | `EvInv`: each run has made a list of events, ever later, has emitted `k` and stored `j` of them; its buffers hold what lies between, the rows of its own are the first `j`, each once, and the collector has nothing of it or everything (`RunAt`).  Rows that clients and the semantic agent add are no run's own |
| `SessionsAgree` | `SessionsAddUp` | `LinkInv`: what requests hold exists, and each runs one session; `ReachInv`: what is found under an id is a request's own until another takes the id; `RunInv`: a session that reads `running` has a request at it or one that raised, and then its task never ended; `SaveInv`: a status the hook has not seen has a request on its way to it |
| **`FramesProofs`** | | |
| `ImagesAreSound` | `ImagesSound` | `FsInv`: rows are no more than the frames seen in the folder, folders are never emptied, a frame in a folder is of a video some request for it downloads, and a request alone with a folder leaves it whole; `FtInv`: where a run stands, whose frames it has and that they are there (`RunPath`, `RunVideo`, `RunFrames`); `SelectionsAreFair`: half-even rounding of an even spacing starts, ends and increases as it should; `CoInv`: every corner listed was put by a request of the same folder |
| **`VisionProofs`** | | |
| `TrajectoriesAreHonest` | `TracksHonest`, `TracksRetire`: the "tracks" conjunct of `TracksSound` | `SoInv`: a live track knows when it was last detected and for how many frames running, an identity without one went undetected for too long (`TracksAt`); a matching uses up its detections, so a frame is held by at most as many identities (`FewHeld`) |
| `ChoicesWork` | `ChoiceWorks` | `CcInv`: the model at hand is the best of the query's, or found by the name of its file, and one that failed to load could not be loaded.  Of two models of one task, one that knows every class asked for scores 3 for them and one that knows none makes up at most 2, by altitude and tiling, so the first is chosen (`ScoreParts`, `BestIsBest`) |
| `DetectionsAreSound` | `DetectorReports` | `DtInv`: a thread at work has its own frame's width among those seen since it began; each detection is where the network saw its part unless misread (`DetectionFacts`, from `ScaledBack`: scaling there and back is exact); what the merge is past is kept or like something kept that scores no less, and what is kept is unlike (`MergedAt`).  Tiles no further apart than they are wide leave no gap (`TilesLeaveNoGap`); detections of one whole object are like each other, so one stays (`ReportedOnce`) |
| `CuttingIsExact` | `CutIsExact` | `OrInv`: the outputs hold of the video's detections those of the parts already run, so each part is still to be run or has left all of its own.  Windows and tiles whose edges are on the grid leave no gap (`PiecesCover`), so in the end nothing of what the plan covers is missing.  A greedy pass by rank keeps a detection exactly if none it kept before is like it (`PassChooses`), which has one answer for one set of detections, whatever their order and copies (`OneChoice`, `MergeOfSet`) |

Lemmas about operators are stated once: what `Listing` returns (by the order of the
names instead of the library's sort), the least element of a set of naturals
(`WFMin`, in place of an induction theorem, which the installed provers cannot
instantiate), what `Selection` and Python's rounding give, what popping a queue leaves,
that the lists `iter_batches` cuts a batch into are the batch when put together again,
that `SetToSeq` has every element once, that a list sorted by the places its entries
take is a permutation of it in order (`OrderedSorts`), and that a list whose entries differ has as many
of them as places.

### Only model-checked

- Liveness: `Termination`, `CancelIsReported`, `ReapedInTheEnd`, `EveryoneAnswered`.  The
  prover has no rule for `ENABLED` and fairness.
- `SummariesAgree`, the other conjunct of `EventsSound`: rows filtered (`SelectSeq`),
  sorted, and added up by folds on both sides of the equation.
- The "routines" and "centroids" conjuncts of `TracksSound`: per-frame routines and the
  centroid tracker fold over boxes and rows, and the latter filters with `SelectSeq`.
  (`ObjectTracks` keeps its tracks as a set for that reason: nothing in the code depends
  on their order, since any matching may come out of the geometry.)
- `RecordTypes`, the types of all of `MCRecords` at once, for the lists that the
  commentary and the centroid tracker fold and filter.  Each proof above carries the types
  it needs, often weaker ones (a domain instead of a range).

No module declares a RECURSIVE operator.

## 6. Plan

Done: every component of section 1 modelled and checked; every safety property of the
runs proved except what section 5 lists as only model-checked.  What would come next:

1. The sorted lists of the summaries by their order alone, as those of `Orchestration`
   are (`Ordered`), which would bring `SummariesAgree` and `RecordTypes` nearer.
2. `MissionSessions` over `MissionRun` in place of its one-task executor.

## 7. Not modelled

- CRUD views, serializers, users, storage settings, pagination: sequential, no state
  of their own.
- Pixel, tensor and embedding arithmetic: the outcome is any the code must expect.
  The screen's verdict is modelled from its features, not from pixels.
- The agent service, Azure, Spark, Delta, Celery's broker, OpenTelemetry: external;
  they answer, fail or lose what the code's handlers allow for.
- Video Indexer, Qwen servers, MLflow logging, the connector's local runner, model
  adapters beyond ONNX and Torch tiling: one call each, without state that others see.
- Simulators and example agents: the executor lets an agent answer anything.
- Infrastructure declarations and workflows.

`components` in `PROJECT.json` says for each part marked "partly" what is left out.
