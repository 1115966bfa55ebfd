# Agent-Team-OS: a TLA+ development

Agent-Team-OS (`src/agent_team_os`, Python, FastAPI, SQLite) delivers a change to
one or several Git repositories with a team of language-model agents. A person
opens a *delivery*; a pipeline of stages, run by the external ACWM graph engine,
executes it; each stage is a *Workcell*: a Main agent that plans, delegates to
Child agents (a Writer, Reviewers, Artifact delegates) and synthesizes a result.
The product's promise is that no model's word is taken for a result: a candidate
passes machine verification, independent review and human gates, in that order,
whatever fails or stops in between. This directory specifies that promise and
checks the code's protocols against it.

Paths below are relative to the repository root.

## Inventory

The server is one process. Coroutines share an asyncio event loop; SQLite is
reached through synchronous calls, so a stretch of code between two `await`s is
not interleaved with other coroutines. Three kinds of code do run beside it, in
threads: the external forward release, the knowledge workers, and the HTTP
handlers written as plain `def` (projects, identity, catalogue, knowledge,
Workcell teams), which FastAPI runs in its thread pool. What such a handler has
checked may be gone when its transaction commits. The database survives the
process; tasks, threads, locks and provider calls do not.

| component | state it keeps | operations | hard behaviour | what makes it correct |
|---|---|---|---|---|
| Workcell execution kernel `modules/workcells/execution_{application,repository,domain}.py` | `workcell_runs` (status, version, error), `agent_runs`, `agent_attempts`, `delegation_plans`, verifications, reviews, validations, results | submit plan, start / finish child, retries, record verification / review / validation, start synthesis, complete, cancel, fail, time out, interrupt at startup | reads and writes of concurrent callers; version checked on one row only; a failed child overwrites the run; retries; restart | one verdict per run, on complete evidence; no phantom Attempt; a stopped run is quiet |
| Workcell stage driver `modules/workcells/stage_driver.py` | where `execute()` is, the lanes of a running batch | plan, run producers in batches, verify, review, synthesize, complete, publish | gather of lanes, errors of one lane, cancellation at any await, deadline, crash | always returns; its outcome agrees with the run; nothing runs on after it |
| Delivery coordinator `delivery.py` | delivery rows (status, version, gates, receipt), registry of background tasks | enqueue, prepare context, request and take decisions at three gates, cancel, recover | decisions, cancellation, background work and recovery race for one row; some saves compare the version, some do not | the winner of a compare-and-set is final; a cancelled delivery is never applied; a cancel request returns |
| Pipeline execution `modules/delivery/pipeline_execution.py` | projection of an ACWM run into the delivery, projection locks | advance, execute stages and workcells, open gates, apply or release, fail, recover | unconditional saves beside compare-and-sets; row and graph in separate commits; crash in between | who awaits a decision stands at its gate; completed only with a receipt |
| External forward release `modules/releases/v2_*.py` | candidates, bundle, apply attempt, remote receipts, manifest, health | preflight, push each repository in order, resume, finalize, demote | failure between two pushes, lost answer or receipt, a remote that moved, a resume beside a dying apply | forward only; no receipt without a push; manifest only with all receipts; the lease is kept |
| Project governance and lease `modules/projects/` | projects, workspaces, memberships, bindings, onboarding, `active lease` | create, provision, retry, patch, archive, take and release the lease, reconcile at startup, members | handlers in threads beside the event loop, sagas of several transactions | one delivery at a time, on an active and complete project; an owner is left |
| Workcell catalogue and teams `modules/workcells/{application,project_application,snapshot_compiler,builtin}.py` | definitions, team and workspace bindings, verification profiles | bind, assign, verify, qualify, activate; compile an immutable snapshot | a profile admitted before a delivery and stored after | a running delivery keeps the profile it was frozen with |
| Identity and authorization `modules/identity/` | users, sessions | bootstrap, patch users, log in | counting guards over two tables | an administrator is left |
| Knowledge synchronisation `modules/knowledge/{sync_runtime,tenant_repository,tenant_application}.py` | sync jobs (status, attempts, lease), source heads, scope, connection | enqueue due, acquire, complete, fail, defer, recover expired, refresh, diagnose | lease expiry under a slow worker, one call of a batch that raises, restart | a head moves only with its job; no job lost |
| Knowledge index and context `modules/knowledge/{index,context}_*.py` | index revisions, evaluation reports, active pointer; preparation runs, stage results | build, evaluate, activate; prepare, retry, cancel | long evaluations beside activations; authorization that changes between stages; a thread that outlives its task | what is served was passed by an evaluation and failed by none; a delivery sees one context under one authorization |
| Role document publication `modules/knowledge/publication.py` | publications, document revisions, project space | register, publish, retry, barrier, archive and reconcile the space | agents and people write one document; retries; hooks after archiving | nobody overwrites what he has not seen |
| Pipeline catalogue and run ledger `modules/orchestration/`, `infrastructure/acwm/` | drafts, revisions, active revision; PipelineRuns | validate, publish, activate, migrate at startup; start, transition | reads before writes, startup migration | published is what was validated; an operator's revision is not replaced |
| Agents `modules/agents/`, runtime instances in `control_plane.py` | profiles, deployments, instances, run ledger | patch, qualify, enable, check; refresh at startup | instances saved as they were read | a re-pinned deployment is disabled until it is qualified |
| Managed (V1) release `modules/releases/{application,repository}.py`, `git_sandbox.py` | apply attempt with receipts, active manifest, the mains of local bare repositories | preflight, apply, record, activate, compensate, recover | a fault or somebody's push between two repositories, a receipt that is never written, a restart | whole or undone; nobody's commit is thrown away |
| Release acceptance `modules/releases/acceptance_application.py` | acceptance report | re-read and judge the rows of a completed delivery | rules about retries written a second time | accepts what the driver delivers |
| Evaluation `modules/evaluation/` | runs, reports, calibrations | create, execute, cancel, calibrate | threads of several runs, a cancellation meanwhile | a cancelled run stays cancelled; calibrated once, by runs it did not gate |
| Git and verification adapters `infrastructure/{git,verification,github}`, `git_*.py` | worktrees, subprocesses | prepare, commit, push, run commands | external failures | |
| Evidence, extensions, console, developer tools | records, packages | | little that a state-machine model would add | |

Calls go downwards: HTTP request -> delivery coordinator -> (background task or
the request itself) pipeline execution -> ACWM graph -> stage driver -> kernel
-> SQLite. Back up go return values and errors: an error that leaves
`execute()` fails the ACWM node and the delivery, and a `repair` outcome asks
the ACWM loop for one more iteration with a new WorkcellRun. Cancellation goes
sideways: a request cancels the delivery's background task, if the registry
knows one, and the WorkcellRun rows directly. Projects admit a delivery by a
lease that its first save takes and its terminal save gives back; a delivery
reads its context, its documents' publications and its frozen catalogue
revisions, and hands its candidates to the release.

## Plan

Modules in the order of importance.

1. **Workcell kernel** (done, proved): `WorkcellStore` (rows, checks,
   transactions), `WorkcellKernel` (concurrent callers over them),
   `WorkcellContract` (what a run promises).
2. **Stage driver** (done): `StageDriver` over the same `WorkcellStore` and the
   same contract.
3. **Delivery** (done): `Delivery`, the coordinator and the pipeline execution
   over one delivery row, one ACWM run (external) and the lease.
4. **Forward release and project lease** (done): `ReleaseContract` (a list of
   repositories that moves forward, and one announcement at the end) and
   `ForwardRelease`, which implements it.
5. **Knowledge** (done): `KnowledgeSync`, `KnowledgeIndex`, `KnowledgeContext`.
6. **Governance and catalogue** (done): `ProjectLifecycle`, `ProjectMembers`,
   `RolePublication`, `PipelineCatalog`.
7. **Managed release, acceptance, evaluation** (done): `ManagedRelease`,
   `WorkcellAcceptance` (over the rows of `WorkcellStore`), `Evaluation`.
8. **Below and beside the delivery** (done): `PipelineTurns` (the loops of a
   pipeline and the agent turns of their stages), `LinearDelivery` (deliveries
   without a pipeline), `WriterWorkspace` (worktree, candidate, views, overlay),
   `MachineVerification` (the verification of a candidate and its processes).
9. Left: the evaluation of knowledge profiles, sessions, the scores of an
   evaluation, the compilation of execution snapshots.

Theorems: every module has its safety properties proved (see *Proofs*): the kernel,
the stage driver with the acceptance of its successes, the delivery, its loops,
deliveries without a pipeline, machine verification, the workspaces, both releases,
synchronisation, index and context of the knowledge, members, project life,
publications, the catalogue and the evaluation. What is left to TLC is liveness, and
the runs that put instances of several modules side by side.

## Modules

### WorkcellStore

The rows of one WorkcellRun as variables, one operator per transaction of
`SQLiteWorkcellExecutionRepository`, and one `May*` operator per set of checks
`WorkcellExecutionModule` makes before it.

| TLA+ | code |
|---|---|
| `run` | `workcell_runs.status`, `version`, `error_code` |
| `agent[a]` | `agent_runs.status`; `Main`, and one Child per slot, `"absent"` before `put_plan` inserts it |
| `attempts[a]` | `agent_attempts` of the AgentRun in order: phase and status |
| `plan` | `delegation_plans` rows, each a set of slots (the table is unique per run) |
| `verification`, `validation`, `reviews[s]`, `result` | the evidence rows: absent, or their verdict |
| `clock` | now against `deadline_at`: ample, too short for a transient retry, expired |
| `Slot`, `Purpose` | slots and purposes frozen in the Workcell snapshot |
| `Max*` | the snapshot's `DelegationPolicy`, and the two-attempt limit of invalid answers |
| `CompareAndSet(seen, ...)` | `_update_workcell`: `WHERE version = ?`, writing the row that was read |

Abstracted: artifact contents, hashes, reports and findings (a verification is
passed or failed, a review clean or blocking); which of the five invalid-review
codes a failure has; events and timestamps other than the deadline. Ids are the
slots themselves. The checks that compare hashes of one candidate are left out:
a run has a single Writer's candidate.

### WorkcellKernel

`Begin*` is the first half of a call: the tree is read and its checks pass
(`call[c].seen` is the run row it read). `Commit*` is the transaction. Between
them any other caller may act, the deadline may pass and the process may die.
`Abort` is a transaction that raises. Finishing and retrying a Child are one
step: only the coroutine that drives that Child makes these calls, and the
transaction compares the child's own row. `Restart` drops pending calls and
runs `recover_interrupted_attempts`, which happens before anything else at
startup (`preview.py`).

Reading the tree is several queries. `tree()` reads the run row first; a row of
another table that is newer than the run row therefore comes with a newer
version, and the compare-and-set refuses the call. Reading all at once loses no
committed behaviour.

### StageDriver

`WorkcellStageDriver.execute` over the same rows. `pc` is where the coroutine
is: at an await (`Awaiting`) or in a synchronous stretch, where other
coroutines do not run and every kernel call is one step. `lane[s]` is the
coroutine of a Child in `asyncio.gather`, `batch` the Children launched and not
yet collected.

| action | code |
|---|---|
| `PlanningAnswered`, `TransientMain` | `_main_planning`, `_run_readonly_agent_with_retry`, `submit_delegation_plan` |
| `LaunchProducers`, `LaneStep`, `ProducersGathered`, `CollectProducer`, `BatchCollected` | `_execute_producers` and the repair codes of `execute` |
| `VerifierAnswered` | the verifier's answer and `record_candidate_verification` |
| `LaunchReviewers`, `LaneStep`, `ReviewsGathered`, `CollectReviewer`, `ReviewersCollected`, `RecordReview` | `_execute_reviews` |
| `LaunchSynthesis`, `SynthesisAnswered`, `Complete` | `start_synthesis`, `_main_synthesis`, result validation, `complete`, publication |
| `Raise`, `DeadlineError` | `_terminalize_workcell_failure`, `_ensure_deadline` |
| `CancelTask` | the delivery's background task is cancelled at an await |
| `CancelRun` | the cancel endpoint, while the driver runs in another request and so is not in the registry of background tasks |
| `Restart` | the process dies anywhere; recovery at startup; nothing resumes `execute()` |

`pc` ends as `succeeded`, `repair`, `raised`, `cancelled` or `dead`. Members of
a batch are taken in any order, where the code has one fixed order.

### WorkcellContract

The abstract specification: an outcome (open, accepted, refused) that is decided
once, a team fixed before anything else, one verification, reviews only of a
verified candidate, refusal in the same step as a failed verification or a
blocking review, acceptance only on complete evidence. `WorkcellKernel` and
`StageDriver` implement it under the same mapping (`Contract`, in `WorkcellStore`): the outcome is
`accepted` when the run succeeded and `refused` in every other terminal status.

### Delivery

One delivery of a pipeline project: its row (`row`: status, gate decisions,
version, receipt), its ACWM PipelineRun (`graph`: the node it stands at), its
lease (`lease`), the lanes of its workcell stages, and the asyncio tasks and
requests that work on it (`task[t]`). A step of a coroutine is the synchronous
stretch between two awaits; `Stretch` lists its commits in order, and the
process may die between any two of them, so row and graph drift apart exactly
where the code commits them apart. A save is `save` (writes the copy the
coroutine holds over whatever is there) or `save_if_current` (version compared).

| action | code |
|---|---|
| `BeginPrepare`, `PrepareReturns`, `PrepareFails` | `DeliveryModule._prepare_then_execute`, the context preparation awaited, `_fail_context` |
| `BeginAdvance`, `Advance`, `OpenGate` | `PipelineExecution.advance`: terminal runs, the next node, the gate with its publication barrier |
| `RoleReturns`, `RoleReturnsDocument`, `RoleFails` | a role stage answers; its document is registered for publication |
| `LaneReturns`, `LaneFails`, `LaneStops`, `WorkEnds` | the stages of a work node in a `TaskGroup`: one that fails stops its siblings |
| `Fail`, `SaveFailed` | `PipelineExecution.fail` and the coordinator's own failure save |
| `RequestDecision`, `DecideEarlyGate`, `DecideCandidate` | the gate requests: gate version and subject compared, decision claimed by compare-and-set, then the run transition, then the next work |
| `ApplyReturns`, `ApplyFails`, `ApplyNeedsAttention`, `ResumeForward` | the release in its thread, seen from the delivery; the request that resumes it |
| `RequestCancel`, `FinishCancel`, `Stops`, `DoneCallback` | the cancel request, the tasks it cancels and waits for, the callback that drops a task from the registry |
| `ResumePublications`, `Rival` | publications retried after a failure; another delivery of the project asks for the lease |
| `Crash`, `Restart`, `Recover` | the process dies; `recover()` and `recover_applying()` at startup |

### LinearDelivery

The deliveries of a workspace that run without a pipeline (`delivery.py` with
`LocalGitSandbox` in `git_sandbox.py`): several rows, one bare repository whose
`main` is the sequence of its revisions, one task registry. As in `Delivery` a
stretch lists its commits and the process may die between two of them; only the
agents are awaited, Git and the verification run inside a stretch.

| action | code |
|---|---|
| `Create` | `_ensure_workspace_available`, the first save, `_schedule` |
| `BeginPlan`, `PlanReturns`, `AgentFails` | `_plan_queued` with the planners awaited |
| `AskDecision`, `JudgePlan`, `WorkReturns`, `JudgeCandidate` | the two gates by compare-and-set; `_execute` with its worktree, the verification, `_apply` with `apply_candidate` on main |
| `AskCancel`, `CancelEnds`, `StopsWorker`, `WorkerDone` | as in `Delivery`: a cancellation waits for the task and is refused while `applying` |
| `SomebodyPushes`, `DirectCrash`, `DirectRestart`, `RecoverRow` | somebody pushes to main; the process dies; `recover()` per row |

### PipelineTurns

One bounded loop of a pipeline (`_execute_loop`) below the node that `Delivery`
treats as one: iterations, batches of stages in a `TaskGroup`, and per stage a
lane (`turn`) that waits for a dispatch, which is an asyncio task of its own. The loop is
data, as in the code: `definition` is one of `Definitions`, records of the stages of the
body, their edges, which of them are planners, the roles that have a candidate before the
loop, whether it exits with a bundle, whether a knowledge guard is configured, and
`max_iterations`.

| action | code |
|---|---|
| `StartIteration`, `BatchEnds`, `GroupFails` | `_execute_loop`: body nodes of an iteration, ready nodes, the exit condition, exhaustion, an error of the group |
| `Begin`, `Resolve`, `Answers`, `Polls`, `Raises`, `StopsLane` | `_execute_loop_capability`, `_dispatch_with_knowledge_guard`, the runtime dispatcher and its adapters, the AgentRun of the turn |
| `RecordCandidate`, `RecordPlan` | `_record_repository_candidate` under the lock of the delivery, with the verification of the bundle; a planning artifact |
| `Cancel`, `PatchInstance`, `Revoke` | around the loop: a cancel request, an operator's patch of the runtime instance, the revocation of the delivery's knowledge |

Three definitions, from which `TurnsInit` picks: the `code-repair` loop of the backend pipeline, the
`implementation-repair` loop of the full-stack one (three repositories, a bundle),
and planners under a knowledge guard.

### WriterWorkspace

`ExternalGitWorkspaceManager` (`infrastructure/git/workspace_v2.py`) and the
places, processes and method overlay of `CodexWorkcellAgent`
(`infrastructure/acwm/codex_workcell.py`). Revisions are numbers with a parent, the set of
their ancestors and the kinds of files they change: what the policy allows, what is outside it,
generated files, the overlay, secrets.

| action | code |
|---|---|
| `PrepareWriter`, `Freeze`, `PrepareView` | `prepare_writer`, `freeze_candidate` (policy, commit, policy again, push without force, read back), `prepare_review_view` |
| `Enter`, `Exit`, `Leave`, `Damage`, `Retry` | `CodexWorkcellAgent.run`: a place of the semaphore, the overlay installed by the first and removed by the last, the process that ends, runs out of time or is stopped |
| `Write`, `WriterFailed`, `Verified`, `ReviewsEnd`, `Stop` | what the agent does to the worktree, and what the driver does with each answer |
| `Somebody`, `Others` | other people's pushes; other workcells that take places |

### MachineVerification

The verification of the candidates of one delivery
(`CommandWorkcellMachineVerifier` in `modules/workcells/stage_driver.py` and what it
calls):
`call` is the coroutine of one verification, `group` the process group of its
current command, `reaper` the task that ends a group, `runs[w]` the WorkcellRuns of a
workcell, by which the packages for later workcells are named.

| action | code |
|---|---|
| `Begin`, `Prepare` | a candidate is frozen; tools compared with the qualified ones, the source tree and the packages of the sources laid out, the first command started |
| `Spawned`, `Communicated`, `TimesOut`, `Finished` | the awaits of a command: the spawn, its output read to the end, its time limit; what is left of the group is ended, then the next command, or package and verdict |
| `Cancel`, `Cleaned`, `CleaningFails` | a cancellation at any await, and `_await_verification_cleanup`, which further cancellations do not interrupt |
| `Reap`, `Processes` | SIGTERM, a second, SIGKILL, wait; the runner and what it has started |
| `Reviewed`, `ChangeTools` | what follows a verified candidate; somebody upgrades a tool |

### ReleaseContract and ForwardRelease

`ReleaseContract` promises: what is applied only grows, in the order of the
repositories for each delivery; a delivery is announced as finished only when
all its repositories are applied, and only after the one before it has.
`ForwardRelease` implements it with `applied <- receipts` and
`finished <- announced`. Commits are named by who made them (the seed, somebody
else, a delivery), with `lineage` as the ancestry that `fetch` can see.

| action | code |
|---|---|
| `Admit`, `OpenCandidateGate`, `End`, `Accept`, `Resume` | first save with the lease, freezing of the bundle, a terminal save, the candidate gate's decision, `POST .../resume-forward` |
| `PreflightPasses`, `PreflightRefuses`, `OpenAttempt` | `_preflight` over all repositories, `get`/`put` of the apply attempt |
| `Step`, `Fetch`, `Send`, `ReadBack`, `PutReceipt` | one repository: skip what has a receipt, look at the remote, push with lease on the expected head, read the head back, persist the receipt |
| `WorkFails`, `Caught`, `DemoteAttempt`, `DriftHealth`, `MarkDelivery`, `DemotionFails` | any of these calls raises; `_needs_attention` with its separate transactions |
| `Finalize`, `Close` | manifest, attempt, health, event and lease in one transaction; what the delivery does with the answer |
| `Outsider`, `Restart` | somebody else pushes to a main; the process dies and `reconcile_leases` runs |

`Send` may succeed and its answer be lost; a push that raced with somebody
else's is refused by the remote.

### KnowledgeSync, KnowledgeIndex, KnowledgeContext

| module | actions | code |
|---|---|---|
| `KnowledgeSync` | `EnqueueSyncJob`, `RunOnce`, `WorkerCalls`, `RequestSync`, `Admit`, `Complete`, `MarkSourceHead`, `DegradeConnection`, `Defer`, `Fail`, `RefreshBinding`, `DiagnoseConnection`, `DeadlinePasses`, `RestartSupervisor` | `KnowledgeSyncSupervisor.run_once` and its worker threads, the inline sync of a request, `TenantKnowledgeApplication.sync`, the job transactions of `tenant_repository.py` |
| `KnowledgeIndex` | `BeginBuild`/`EndBuild`, `BeginEvaluation`/`Record`, `BeginActivation`/`Activate`, `Restart` | the shadow build, the evaluation of a revision under a policy and the pointer move of `index_application.py` and `index_repository.py` |
| `KnowledgeContext` | `StartThread`, `Enter`, `Acquire`, `Resolve`, `ReuseStage`, `RetrieveStage`, `MissStage`, `Confirm`, `Succeed`, `FailAttempt`, `TimePasses`, `Wake`, `Deliver`, `Cancel`, `Change`, `Restart` | `KnowledgeContextPreparation.prepare` in its thread, its lease, stage results, retry timer; the delivery that waits and may be cancelled; an authorization that changes meanwhile (`Change`) |

A worker's remote call is the gap between `Admit` and its outcome; a lease may
expire inside it (`DeadlinePasses`) and another thread take the job. Revisions of a
source are a counter; the stamp of a context is the epoch of the authorization
it was retrieved under.

### ProjectLifecycle, ProjectMembers, RolePublication, PipelineCatalog

| module | actions | code |
|---|---|---|
| `ProjectLifecycle` | `Create`, `BindTeam`, `Provision`, `Provisioned`, `RetryWorkspace`, `Patch`, `Archive`, `PrepareDelivery`, `AdmitDelivery`, `OpenGate`, `EndDelivery`, `CompleteOnboarding`, `Assign`, `VerifyWorkspace`, `Qualify`, `ActivateTeam`, `RestartProject` | `modules/projects/{application,repository,integration}.py`, `modules/workcells/project_application.py`: handlers in threads, each a read and a later transaction |
| `ProjectMembers` | `BeginPatchUser`/`PatchUser`, `BeginPutMembership`, `BeginDeleteMembership`, `PutOrDeleteMembership` | the guards of `identity` and `projects` that count administrators and owners |
| `RolePublication` | `Register`, `PublishRequired`, `BeginRetry`/`Retry`, `DeliveryEnds`, `BeginEdit`/`CommitEdit`, `ArchiveProject`, `ReconcileSpace`, `RestartWiki` | `modules/knowledge/publication.py` and the document store behind it |
| `PipelineCatalog` | `BeginInstance`/`SaveInstance`, `BeginDeployment`/`SaveDeployment`, `BeginPatchDraft`, `BeginSnapshot`, `TakeSnapshot`, `SaveDraft`, `PublishDraft`, `BeginActivate`/`Activate`, `Startup` (with `Migrate`) | `modules/orchestration/`, `modules/agents/`, instances of `control_plane.py`, and the startup migration of the built-in pipeline |

A pair `BeginX`/`X` is a request whose checks and whose transaction are apart.

### ManagedRelease, WorkcellAcceptance, Evaluation

`ManagedRelease` is the release of a managed project, whose repositories are
local: per repository `main` is the reviewed base or the candidate, with
somebody's commits on it or not; `coordinator` is the call with the receipts it has in
memory, `application` the row of the attempt, `applied` the status of the delivery.

| action | code |
|---|---|
| `CallApply`, `ApplyNext`, `ReadHeadBack`, `Record`, `ActivateManifest`, `Finish` | `ReleaseCoordinator.apply` and `_continue`: preflight, one repository by `update-ref`, `apply_candidate` reading main again, the receipt, the manifest, the end of the attempt |
| `Compensate`, `Undo`, `Restored`, `CloseApplication` | `_compensate`: in reverse, what has a receipt, only while main is where apply left it |
| `Return`, `Somebody`, `RestartCoordinator` | the delivery completes; somebody pushes to a main; the process dies and `recover_applying` calls `apply` again |

Each git command and each transaction may fail (`Fault`); an error leaves the
delivery `applying` until the next start.

`WorkcellAcceptance` translates what `ReleaseAcceptanceVerifierV2` asks of the
final WorkcellRun of a stage into an operator on the rows of `WorkcellStore`,
`Accepted`. It has no actions: the driver's part of `MCExecution` evaluates it in
every state. Hashes, bindings and artifacts, which the rows do not have, are
left out.

`Evaluation` has the runs of one pipeline revision: `CreateRun`, `Read`, `Begin`,
`RunCases`, `BuildReport`, `SaveReport`, `ReadSample`, `SaveCalibration`, `EndRun`
are the transactions of `EvaluationService.execute` in their order, `Fault`,
`ReadError`, `Fail` its error path, `BeginCancel`/`Cancel` the cancel request.
A calibration takes the first three reports in the order of their `created_at`,
which is set when a report is built and not when it is saved (`stamped`).

### Union modules

Components that share no state are checked by one TLC run (a delivery's own part sees
a loop as a lane, a loop sees a code workcell as an agent, and so on, so nothing is
lost by not composing them in one state space): `MCExecution`, `MCKnowledge` and
`MCGovernance` have a variable `part`, their initial states pick one, and only that
part moves. The components with theorems are extended, so that the run checks the very
definition the theorem states: `MCExecution` extends `Delivery`, `PipelineTurns`,
`WriterWorkspace` and `LinearDelivery`, `MCGovernance` both releases and the five modules of
`GovernanceProofs`, `MCKnowledge` its three modules. Those that a run needs twice, with
different constants, are instances: `StageDriver`, `WorkcellAcceptance` and
`MachineVerification` in `MCExecution`, `WorkcellKernel` with the largest fan-out a policy
admits in `MCGovernance`. Each part
sees the others as its environment: the delivery's release is an answer or an error
(`ApplyReturns`, ...), the release's delivery is a status and a lease, and so on. A
property of such a run holds of its part in every state in which the part is picked,
and trivially elsewhere.

## Runs

### Bounds

Every bound is a CONSTANT of its module and a guard of the action it limits.

*Workcells.* The instances are those of the product (`builtin.py`): at most three
Children, two at a time, one Writer, two attempts for an invalid answer and two
for a transient error. Its Workcells come in two shapes, a Writer with two
Reviewers, or two Artifact delegates, and both are instances here;
the fan-out part of `governance` takes the largest fan-out a policy admits, because only there the
concurrency limit is what stops a start. Nothing else is bounded: a run ends by
itself. Two callers are enough for every pairwise race of a read and a write; a
third caller's commit differs from the second's only in being another commit
between the same read and write, and the invariant that matters there
(`CurrentCallIsValid`) is proved for any number of callers. Reviewers and
callers are interchangeable, so `kernel_safety` uses symmetry (it checks no
liveness).

*Delivery.* A pipeline with one node of each kind, a role, the plan gate, one
workcell (design), the design gate, two workcells in parallel (api, console),
the candidate gate; three coroutines at a time (the delivery's task, a decision,
a cancellation); one crash. `PatientClients` says that a client decides a gate
only after the done callbacks of the task that opened it have run: a decision
needs the gate's version and subject, which take a round trip to learn.

*Without a pipeline.* Two deliveries of one workspace (`DirectDelivery`), two tasks or
requests at a time (`MaxWorkers`), one crash (`MaxDeaths`), one push by somebody else
(`Pushed`): two deliveries because the rule is that they exclude each other.

*Loops.* The run starts in one of three definitions: one stage with three iterations
(a repair, and a repair after it); three repositories with two iterations, so that a
candidate of the first can meet one of the second; two planners in sequence with two
iterations, one revocation and one patch of the instance.

*Workspaces.* Two Reviewers for two places, one of which another workcell may take;
two iterations; four revisions (the base, a commit of the agent, the frozen one and
somebody's); two faults, because a lost answer matters only when something else
follows.

*Machine verification.* A chain of three workcells (design, backend with two
commands, qa with the packages of both) with V2 profiles, and one workcell with a V1
profile of two commands; two iterations of a loop, two cancellations (one to stop, one
that comes while the group is being ended), one change of the tools.

*Release.* Two deliveries one after the other, two repositories (a push, and one
behind a push), two moves of a main by somebody else, one restart, attempts up
to version 4. `PatientOperator` says that nobody accepts a gate or resumes a
release while a worker of it still runs; `release_demotion` drops it and shows
what then happens.

*Knowledge.* Sync: one source, two jobs, two threads, two attempts, one newer
revision. Index: two manifests, two policies, two administrators, two
activations. Context: two required stages and an optional one, two attempts,
two changes of the authorization, one restart.

*Governance.* Two concurrent requests in each part, which again covers every
race of two; two deliveries, two users, two documents of one stage with two
writers, three pipeline contents (the one shipped before, the new one, and an
unsound one); one restart, and versions bounded at four so that a version can
move, and move again, under a request that has read it. The managed release has
three repositories, so that there is one before and one behind the one where it
goes wrong, two pushes by somebody else, two faults and two restarts. Evaluation
has the three lists of runs that matter (four self-comparisons; and lists with a
live and a paired run among them), two executing at once, one trouble: a cancel
request, a step that raises or a restart.

| run | question | result |
|---|---|---|
| `kernel_safety` | one Writer, two Reviewers, two concurrent callers | all nine properties hold; about a million states |
| `execution` | the delivery, with and without a pipeline; one `execute()` of a code Workcell and of the preparation Workcell; its workspaces; machine verification; three loops | all twelve hold, one of them liveness; 184 000 states |
| `knowledge` | sync, index, context preparation | all six hold, one of them liveness; 260 000 states |
| `governance` | release, project, members, publications, catalogue, managed release, evaluation, delegates at the limit | all thirteen hold; 1 350 000 states |
| `driver_phantom` | does the preparation Workcell end without phantom Attempts? | no: finding 1 |
| `driver_restart` | does a crash anywhere leave the run ended after recovery? | no: finding 2 |
| `release_demotion` | does a completed delivery stay completed? | no: finding 3 |
| `delivery_late_errors` | does a late error yield to a cancellation? | no: finding 4 |
| `knowledge_scope` | does a source taken out of scope leave search? | no: finding 5 |
| `managed_compensation` | is a compensated release undone everywhere? | no: finding 8 |
| `members_owner` | is an effective owner left under two requests? | no: finding 6 |
| `loop_repair` | does a failed candidate cost an iteration, and not the delivery? | no: finding 7 |

Deadlock checking is off in all runs: a run that is over accepts no call, an
execution that has returned takes no step, a delivery ends, and bounded counters
stop.

### Properties

Of the rows of a WorkcellRun, stated in `WorkcellStore`: `AttemptMatchesAgent`,
`SucceededOnEvidence`, `AdverseEvidenceIsFatal`, `ReviewAfterVerification`,
`StoppedRunIsQuiet`, `ProviderLoadBounded`. Of concurrent callers:
`CurrentCallIsValid` (the compare-and-set of one row protects the whole tree a
caller has read), `SucceededIsFinal`, `ImplementsContract`.

Of the driver: `DriverInOrder` (its outcome agrees with the run, no lane works on
after it has returned, a repair sees the findings of the whole batch; and of a code
Workcell no Attempt stays open), `EverythingReturns`,
`ImplementsContract`; and `SuccessIsAccepted`: what it calls a success passes
the acceptance's rules about Attempts, candidates and reviews, unless a producer
was tried twice (see below).

Of the delivery: `GatesHold` (what is applied was accepted at its gates, and
completed means a receipt; who awaits a decision stands at that gate of his run),
`ActiveHoldsLease` (a delivery that is not over holds the project),
`DecisionsHold` (a rejection stays one, a cancelled delivery is not applied),
`EverythingReturns` (a cancel request does). Without a pipeline: `DirectInOrder`
(main takes a delivery once, from the base that was reviewed, one delivery works at a
time, refusals stand).

Of the loops: `TurnsInOrder` (a loop that succeeded has what its exit condition
promises, the candidates at the gate passed, one AgentRun of a stage is at work at
most, and none for a delivery that is over), `EverythingReturns`. The last clause is not
asked of a guarded loop (`NoDetachedTurn`), where it fails (see below).

Of the workspaces: `WorkspacesInOrder` (the overlay is there exactly as long as an
attempt is inside; what is verified and reviewed is the frozen candidate, and within
the policy). Of machine verification: `VerificationInOrder` (nothing of a process
group outlives its call; what passed was verified against one package of each source,
of the candidate that was reviewed; a stage that was asked to stop starts nothing),
`EverythingReturns`.

Of the release: `ReceiptIsTrue` (a receipt is only of a commit that was at the
head of its main), `PushesInOrder`, `UnfinishedHoldsLease`, `ImplementsRelease`.

Of knowledge: `IndexServes` (the active revision was passed by an evaluation
under a policy and failed by none), `ContextsShareStamp` (all the stages of a
delivery read one context under one authorization), `HeadMovesWithJob` (search is given
a revision only together with the success of the job that fetched it, and what a job
ended in stands), `PreparationIsFinal`, `KnowledgeSettles` (every sync job is over in the end, and no
delivery prepares for ever).

Of governance: `ProjectInOrder` (an unfinished delivery holds the lease, a lease
is of an active project, an active project has its workspace and team),
`ProfilesFrozen`, `OwnerRemains`, `DocumentInOrder` (nobody overwrites a
revision he has not seen; a barrier opens only behind what it waits for),
`CatalogInOrder` (an active revision was validated as it is; an operator's
choice survives a restart; a re-pinned deployment is disabled until qualified).

`ReleaseCompensates` (a managed release is whole when its manifest is active, is
undone where it has receipts when it is given up, and never moves a main that
somebody else has moved), `EvaluationInOrder` (a run that has ended stays as it
ended; the calibration is there once three self-comparisons are completed, is
made of runs it did not gate, and is not made twice).

Each union run has one type invariant (`ExecutionTypeOK`, `KnowledgeTypeOK`,
`GovernanceTypeOK`); that of `knowledge` also says that no two calls own a job
(`OneOwner`). Next to a definition, an operator marked *Mutant* is a
plausible bug of the same code; with it in place of the definition TLC finds the
property it is meant for violated, which shows the property depends on the code.

### Fairness

Only the liveness properties need it.

*Driver.* `WF(DriverStep)` and `WF(LaneStep(s))` for each slot. The event loop
runs every ready coroutine, and each await of the driver ends: agent calls and
verification commands have timeouts, and `_run_readonly_agent_with_retry` bounds
read-only calls by the deadline. Nothing is assumed of cancellation, the clock
or the process.

*Loops.* Weak fairness of the loop and of each stage's turn: the event loop runs
ready coroutines, and an agent's turn has a time limit.

*Machine verification.* Weak fairness of the call, its reaper and the spawning of its
process (`CallStep`): the command has a time limit, the reaper ends with SIGKILL.
Nothing is assumed of the processes. A child that left the group for a session of its
own and keeps the pipes open is not modelled; the call would wait for it.

*Delivery.* The event loop resumes a task that was asked to
stop, ends a `TaskGroup` whose lanes have ended, calls done callbacks, and
resumes requests that wait; a workcell that was asked to stop stops; the service
manager starts the server again. Nothing is assumed of providers: an agent may
never answer.

*Knowledge* (`KnowledgeSettles`). One weak fairness condition on
the supervisor, its threads and the passing of time. The steps of a part are
bounded, so weak fairness of their disjunction is enough. Remote calls end
because their clients have timeouts (`infrastructure/feishu/tenant_provider.py:72`,
`:103`, `infrastructure/ollama/embedding.py:17`), and the supervisor polls.

The part of a union run never changes, so one fairness condition of the run may
name an action of each part: weak fairness of the disjunction is, in every
behaviour, weak fairness of the picked part's action.

The governance parts state none: what must eventually happen there waits for a
person.

### Findings

1. *Phantom Attempt* (`driver_phantom`). `_execute_producers` raises the first
   failed result of a batch (`stage_driver.py:1036`) before it has finished the
   later members; `finish_child` has already failed the run, so `kernel.fail`
   returns early, and the other delegate stays `running`. The docstring of
   `fail` promises the opposite (`execution_application.py:785`). Reviews are
   collected to the end before an error is raised.
2. *Run open after a restart* (`driver_restart`). Recovery finds runs by their
   running Attempts (`execution_repository.py:859`); during machine
   verification there is none. The delivery is failed, its WorkcellRun stays in
   `delegating` (`README.en.md:70` says otherwise).
3. *A completed delivery is demoted* (`release_demotion`). The error path of
   `apply()` ends with an unconditional `needs_attention` of the delivery
   (`v2_application.py:383`); a resume-forward that ran in between has completed
   it (ADR-0015, lines 96-97).
4. *A late error overwrites a cancellation* (`delivery_late_errors`).
   `PipelineExecution.fail` saves `failed` without comparing the version
   (`pipeline_execution.py:551`), over `cancelling`; ADR-0015:59-61 and the
   comment at `delivery.py:953` say the opposite.
5. *A source out of scope is active* (`knowledge_scope`). `complete` writes the
   head without looking at the scope (`tenant_application.py:457`): a refresh
   that removed the source during the fetch is undone (ADR-0017:72).
6. *A project without an effective owner* (`members_owner`). The guards for the
   last owner count in one transaction and write in another
   (`projects/application.py:245`), or count an owner whose global role was
   lowered (ADR-0016:60-61).
7. *A failed candidate fails the delivery* (`loop_repair`). In the full-stack loop
   the bundle is verified as soon as all roles have a candidate and the newest one
   passed (`pipeline_execution.py:1263`); a sibling whose candidate failed makes that
   raise, and the delivery fails with iterations left, where the loop exists to
   repair it. `BundlesAreMadeAtOnce` proves how far this goes: a bundled loop of several
   stages succeeds in its first iteration or never.
8. *A compensated release that is still there* (`managed_compensation`). A
   repository whose main was moved and whose receipt was not written is not
   rolled back (`modules/releases/application.py:118`, `:171`): the attempt ends
   `compensated` and the main holds the candidate (the class docstring and
   ADR-0012:24 say partial updates are compensated and conflicts go to a person).

Disagreements met while modelling that no run shows, because no line of the
repository states the opposite as plainly, or because they need a caller the
instances exclude:

- Release: drift at the first preflight, or a crash during it, leaves a delivery
  `applying` that resume refuses, cancel refuses and recovery ignores. Two
  releases that both own a recovery refuse the startup.
- Acceptance: ADR-0019, line 52, admits one `delegate(1)` Attempt of an ordinary
  Child, and so does the acceptance; the driver gives a producer a second Attempt
  after a rejected citation (`stage_driver.py:1241`, and a test wants it:
  `tests/test_workcell_stage_driver.py:1381`). Such a delivery is completed and
  never accepted; `SuccessIsAccepted` excepts it.
- Delivery: with impatient clients `ActiveHoldsLease` and `DecisionsHold`
  fail (a decision overtakes a done callback). `recover()` leaves an interrupted
  node alone when publications are registered. `queued` is not recovered. A
  crash inside a reject leaves an open gate over a cancelled run.
- Knowledge: of two jobs of one source the older may move the head last. An
  index revision whose build died is returned for ever by
  `create_index_revision`. `evaluate()` admits a qualified revision that
  `record_evaluation` then refuses. A cancel that arrives before the preparation
  run exists does not prevent it.
- Loops: `_dispatch_with_knowledge_guard` waits with `asyncio.wait`, which does not
  cancel what it waits for: when the stage is stopped under a guard, the dispatch
  works on for a delivery that is over (`NoDetachedTurn` fails there).
- Machine verification: a cancellation that arrives while a timed-out group is ended
  is dropped, and the call ends as a timeout. When the spawn fails under a
  cancellation, the `OSError` leaves the call instead of the cancellation.
- Pipelines: `BackendDeliveryPipelinePolicy` accepts a role stage behind the plan
  gate; see *What the proofs found*.
- Startup: an instance that was disabled or fails its check makes
  `agents/bootstrap.py:227` raise before the guarded part of the startup.
- Governance: an instance is saved as it was read (`control_plane.py:356-390`).
  An onboarding whose evaluation failed stays `in_evaluation`. A patch during
  provisioning leaves a project `provisioning` until the next start.
  `ensure_builtin_pipeline` patches the first draft, which may be an operator's.
  A publication in `HUMAN_CONFLICT` is never repaired by a retry. A create hook
  that arrives late reactivates the space of an archived project until the next
  start.

## Proofs

Eight modules hold theorems; each EXTENDS the module it is about. Everything is
proved to the last leaf, for every value of the constants that the `ASSUME` of
the module admits:

| module | about | assumption on the constants, and why it is the code's |
|---|---|---|
| `WorkcellStoreProofs`, `WorkcellKernelProofs` | the rows of a WorkcellRun and their callers | `KernelAssumption`: a finite set of slots with Main outside it, any purposes, positive limits |
| `StageDriverProofs` | one `execute()` over the same rows, and what the release acceptance says of them | `KernelAssumption`; two theorems have a hypothesis of their own, see below |
| `DeliveryProofs` | one delivery with its tasks; the loops of a pipeline | `DeliveryAssumption`: at least one task; one plan gate, at most one design gate, and the candidate gate last; role stages exactly before the plan gate. The built-in pipelines have this shape; see below for what happens to one that has not. `TurnsAssumption`: the body of a loop has no cycle, and what ends the loop is a bundle that one code stage completes after all others, its one code stage `backend`, or planners only; the built-in loops are of these kinds |
| `ForwardReleaseProofs` | the external release; the managed one | `ReleaseAssumption`: at least one repository; ids of deliveries are none of the four marks the model uses beside them. `BundleAssumption`: at least one repository, bounds are numbers |
| `CandidateProofs` | machine verification; the workspaces of a code workcell; deliveries without a pipeline | `SourcesAreWorkcells`, a hypothesis of the theorems about verification: a profile asks for packages of workcells of the delivery. `WorkspaceAssumption`: finitely many Reviewers, none of which is the Writer; bounds are numbers. `DirectAssumption`: a candidate, somebody's commit and the first commit are three revisions |
| `KnowledgeProofs` | synchronisation of the sources; index revisions; the context of a delivery | `SyncAssumption`: a job has at least one attempt, bounds are numbers. `IndexAssumption`, `ContextAssumption`: bounds are numbers, no stage is both required and optional |
| `GovernanceProofs` | users and members; the life of a project; role documents; the pipeline catalogue; evaluation | `MembersAssumption`: finitely many users, with the founder among them. `LifecycleAssumption`, `PublicationAssumption`: the mark for "none" is no delivery and no artifact, bounds are numbers. `CatalogAssumption`: what the first build ships compiles. `EvaluationAssumption`: finitely many runs |

All theorems about the delivery row (`Delivery`), and those about the external release but
`ReceiptsAreTrue`, also assume what people do:
`PatientOperator` (nobody accepts a gate or resumes a release while a worker of it
still runs) and `PatientClients` (nobody decides a gate while a task is
registered). The code does not enforce them; they are stated as hypotheses of the
theorems concerned, and runs show what happens without them.

### What is proved

| theorem | statement | hypothesis |
|---|---|---|
| `Invariance` | the kernel's inductive invariant, `Spec => []Inv` | |
| `TypeCorrect` | `TypeOK` | |
| `AttemptsMatchAgents` | `AttemptMatchesAgent` | |
| `SuccessNeedsEvidence` | `SucceededOnEvidence` | |
| `AdverseEvidenceDecides` | `AdverseEvidenceIsFatal` | |
| `ReviewsFollowVerification` | `ReviewAfterVerification` | |
| `StoppedRunsAreQuiet` | `StoppedRunIsQuiet` | |
| `CurrentCallsAreValid` | `CurrentCallIsValid` | |
| `ProviderLoadIsBounded` | `ProviderLoadBounded` | |
| `SuccessIsFinal` | `SucceededIsFinal`, an action property | |
| `KernelImplementsContract` | `ImplementsContract`, a refinement | |
| `DriverTypeCorrect` | `DriverTypeOK` | |
| `DriverEndsInOrder` | `DriverInOrder` | |
| `DriverKeepsEvidence` | `AttemptMatchesAgent`, `SucceededOnEvidence`, `AdverseEvidenceIsFatal`, `ReviewAfterVerification`, `StoppedRunIsQuiet` of an execution | |
| `OneProducerLeavesNoPhantom` | `NoPhantomAttempts` | `OneProducerAtATime` |
| `DriverImplementsContract` | `ImplementsContract` of an execution, a refinement | |
| `SuccessOfDriverIsAccepted` | `SuccessIsAccepted` | `AtMostOneRetry` |
| `DeliveryTypeCorrect` | `DeliveryTypeOK` | `PatientClients` |
| `GatesMeanWhatTheySay` | `GatesHold` | `PatientClients` |
| `ActiveDeliveriesHoldLease` | `ActiveHoldsLease` | `PatientClients` |
| `DecisionsStand` | `DecisionsHold` | `PatientClients` |
| `TurnsTypeCorrect`, `TurnsStayInOrder` | `TurnsTypeOK`, `TurnsInOrder` | |
| `BundlesAreMadeAtOnce` | `BundledAtOnce` | |
| `DirectTypeCorrect`, `DirectStaysInOrder` | `LinearTypeOK`, `DirectInOrder` | |
| `VerificationsAreInOrder` | `VerificationInOrder` | `SourcesAreWorkcells` |
| `AskedStartsNothing` | `StartsNothing`, an action property | `SourcesAreWorkcells` |
| `WorkspaceTypeCorrect` | `WorkspaceTypeOK` | |
| `WorkspacesStayInOrder` | `WorkspacesInOrder` | |
| `ReceiptsAreTrue` | `ReceiptIsTrue` | |
| `UnfinishedReleasesHoldLease` | `UnfinishedHoldsLease` | `PatientOperator` |
| `ReleaseTypeCorrect` | `ReleaseTypeOK` | `PatientOperator` |
| `PushesAreInOrder` | `PushesInOrder`, an action property | `PatientOperator` |
| `CompletedStaysCompleted` | `NeverDemoted`, an action property | `PatientOperator` |
| `ReleaseImplementsContract` | `ImplementsRelease`, a refinement | `PatientOperator` |
| `ManagedTypeCorrect`, `ManagedReleaseCompensates` | `ManagedTypeOK`; `ReleaseCompensates`, which has a part about steps | |
| `SyncTypeCorrect`, `JobsHaveOneOwner` | `SyncTypeOK`, `OneOwner` | |
| `HeadsMoveWithJobs` | `HeadMovesWithJob`, an action property | |
| `IndexTypeCorrect`, `IndexServesFit` | `IndexTypeOK`, `IndexServes` | |
| `ContextTypeCorrect`, `FrozenContextsShareStamp` | `ContextTypeOK`, `ContextsShareStamp` | |
| `EndedPreparationIsFinal` | `PreparationIsFinal`, an action property | |
| `MembersTypeCorrect`, `SomebodyRemains` | `MembersTypeOK`, `OwnerRemains` | |
| `LifecycleTypeCorrect`, `ProjectStaysInOrder` | `LifecycleTypeOK`, `ProjectInOrder` | |
| `ProfilesStayFrozen` | `ProfilesFrozen`, an action property | |
| `PublicationTypeCorrect`, `DocumentsStayInOrder` | `PublicationTypeOK`, `DocumentInOrder` | |
| `CatalogTypeCorrect` | `CatalogTypeOK` | |
| `CatalogStaysInOrder` | `CatalogInOrder`, an action property | |
| `EvaluationTypeCorrect` | `EvaluationTypeOK` | |
| `EvaluationStaysInOrder` | `EvaluationInOrder`, an action property | |

### Along which argument

*Kernel.* `TypeOK` and `AttemptMatchesAgent` are nearly inductive; the rest is not,
for two reasons. First, `SucceededOnEvidence` speaks of the moment `complete`
commits, when its caller has long read the evidence. The strengthening is
`CurrentCallIsValid`: as long as the version a caller read is current, everything
its check established still holds, because every transaction that could falsify it
bumps the version. One transaction does not, `put_result_validation`, and it can
only make checks true. Second, evidence must not be withdrawn between synthesis and
completion: `SynthesisOnEvidence` says it is complete while the run synthesizes, and
`MainInPhase`, `UnplannedIsAbsent` and `ReviewsOfReviewers` say which rows a
transaction can meet in which status. `RowInv` is their conjunction, and
`Inv == TypeOK /\ RowInv /\ CurrentCallIsValid` is inductive. The load of the
provider follows from no row alone: Main runs only while the run plans or
synthesizes, when no Child does (`LoadInv`), and of the callers that all read a free
slot only those may start a Child whom the count inside the transaction lets.

*Driver.* No call of the driver is interrupted between its check and its
transaction, so `RowInv` comes from the same lemmas about transactions; what has to
be added ties the coroutines to the rows. A lane at work is one that `execute()`
awaits (`BusyIsAwaited`), who runs has been launched and not yet collected
(`RunningIsLaunched`), and Reviewers wait until the machine has verified
(`ReviewersWait`). With `ReturnMatchesRun` and `RepairSeesWholeBatch` this is
inductive.
`RowStep` forgets who takes a step and when (`StepIsRowStep`); on row steps the
refinement of `WorkcellContract` is the kernel's, lemma by lemma.
That no Attempt stays behind as running needs `OneProducerAtATime` (no two producers
in one batch: a code workcell has one Writer, and a policy may set
`max_concurrency` 1): then the batch of producers has one member, and Reviewers are
either all running or all stopped (`TogetherInv`). The theorem cannot be had without
the hypothesis: finding 1 is the counterexample.
That the acceptance of the release agrees with a success is about the whole history
of Attempts: `Histories` says, for each AgentRun that runs or has succeeded, how its
Attempts got there (`ChildTale`, `MainTale`: p planning Attempts, then q of
synthesis, the last of each the one that counts). `AtMostOneRetry` is the code's:
`max_transient_attempts` is at most 2 (`domain.py`, `DelegationPolicy`) and nothing
overrides `max_attempts = 2`; with more, the acceptance would refuse the run.
Before they were proved, TLC checked all three invariants on the code team of
`MCStageDriver` (16,810 states) and on the team of two artifact producers (there
`TogetherInv` with `MaxConcurrency = 1`).

*Delivery.* Row, graph run and role document are committed apart, and the process
may die between two commits, so the invariant has two halves. `RowInOrder` holds
after every commit, hence also where the process dies: which gate is decided
determines how far the graph has come, a receipt and a completed graph go with the
statuses of a release, and a delivery that is not over holds its lease.
`TasksInOrder` holds while the process lives and says which task may still write
what it likes: at most one task drives (`OneDrives`), the others have been asked to
stop or only finish a cancellation (`CancelAsks`), at startup the recovery is alone
(`BootsAlone`), and what a driving task meets when it goes on after an await is what
it left (`DriverInOrder`). This is the point of the whole proof: the code saves
copies of the row that were read before an await without comparing versions, and the
reason this loses nothing is not a lock but that nobody else drives.
A stretch of a task is treated as its list of commits: `RunsOrDies` says that if
each commit of the list leaves the row in order, so does the stretch, wherever it is
cut short; one lemma per action shows the list to be of that kind.

*Loops.* `TurnsInv` has the types, the promise itself and six parts. `NodesInOrder`:
a coroutine is at work exactly for a running node, and a node runs after its sources.
As the body has no cycle, an iteration in which nothing is ready any more has ended
(`NoneReadyAllEnded`). `LoopQuiet`: nothing runs in a loop that is over. `TurnRuns`: a
stage has at most one AgentRun an iteration, and the one a lane waits for is its
newest. `TurnDispatches`: without a guard a dispatch is awaited by its lane as long
as it is there. `Conditions` says what each mark in `emitted` stands for. For a loop with one
code stage or with planners that is enough; of a bundle one has to know that it was
made of candidates that no stage replaces afterwards, and that is `BundleLast`: it is
made only when the last stage has recorded, when all others have ended.
`BundlesAreMadeAtOnce` adds `RepairsInVain`: from the second iteration on every stage
has a candidate already, so that the first one to pass verifies a bundle with the
failed one of the last stage in it.

*Deliveries without a pipeline.* `DirectInv` is about the rows, main, and the tasks
while the process lives. `RowsInOrder` says what a row has been through in each
status; `MainInOrder` that no revision is on main twice and that a candidate lies on
the base it was reviewed on, and only if its delivery is being applied or completed.
`WorkersInOrder` ties the registry to the tasks: a delivery has one task at most and
it is the registered one; unless it was asked to stop, it finds its row in the status
it left it in; if it was, it finds `cancelling`; and the request that cancels waits
for it. As in `Delivery` each stretch is a list of commits, and `CommitAllowed` is
what every one of them has to be.

*Machine verification.* `GroupInOrder` says, for each await of the call, what its
process group may be and which reaper is at work on it; a group is gone when its
reaper is done, and the call ends only then. `PackagesInOrder` carries the packages a
call was started with to its verdict: a run that has succeeded is never written again,
because the next run of a workcell is appended and only to one that has failed.

*Workspaces.* `AttemptsInOrder` says who may be at work in which stage of the driver:
the Writer alone while it writes, the Reviewers alone and in the view of the frozen
candidate while they review, nobody in between, and after a stop only who is on his
way out. From it follows that nothing moves the worktree between freeze and the end of
the reviews. `CandidateInOrder` then needs that commits add to the history and change
nothing in it (`Committed`), and that a frozen candidate is either a commit on top of
a descendant of the base or that descendant itself. A revision of the model carries
the set of its ancestors, so that `Descends` is no recursion. The overlay is a matter of
counting: the lease of a workspace is the number of attempts inside (`OverlayReturned`
is inductive with the types), and `PlacesInOrder` keeps the semaphore from going below
the attempts that hold a place.

*Release.* `Shape` and `Evidence` hold whatever operators do: a worker comes to
write a receipt only after it has read main back. With patient operators one worker
at most is at work on a delivery, each place of its code knows which receipts are
there, and the attempt's version has not moved under it; from this follow the lease,
the order of the pushes and that every step is a step of `ReleaseContract`.

*Managed release.* `CoordinatorInOrder` has the two directions of a call: going forward,
every repository behind it holds the candidate; going back, none behind it that has a
receipt in memory does. `ManifestEnds` (nothing is applied or undone behind an active
manifest) and `CompensationEnds` (what was given up is not taken up again) keep the two
apart. Somebody's commit turns `base` or `candidate` into `beside` or `atop`, and neither
direction touches such a main.

*Knowledge.* Of synchronisation (`SyncInv`): a job that waits has an attempt left, so
that claiming it stays within `max_attempts`; and each call at work has a version of
its job that no other call has, because taking over a lease bumps it. A call whose
version is the row's is its one owner, and `complete` writes the head only for such a
call. Of the index: a builder alone builds a revision that is being built, reports and
status of a revision agree (`Evaluated`), the pointer names the one active revision
(`PointerNamesActive`). Of the context (`ContextInv`): no stamp is of an epoch still
to come, what the thread has gathered carries the stamp the thread took when it began,
and a thread that is about to freeze has all required stages, each retrieved under
that stamp; a run that has ended waits for nothing.

*Project.* A handler reads in one transaction and writes in a later one.
`CallsInOrder` says what the version a request holds tells about the project as long
as it is current: in which status the project was read, and that a request which is
past its claim of the version is alone with it. `OneMaker` (one request at most makes
the workspace), `ProjectIsFresh` (a project that is absent, or could not be provisioned, has no team),
`UnboundHasNoProfile` and `SitesAreBound` complete `LifecycleInv`. `ProfilesFrozen`
follows because the transaction that stores a profile looks for the lease again.

*Documents.* `DocumentInOrder` is about who may write over which revision; what makes
it inductive is that an artifact is the agent's (`ArtifactsAreAgents`), that a
publication which waits for its retry expects a revision the agent has made
(`ExpectsAgents`), that the document a request goes on with is there
(`TargetIsThere`) and that a retry is one of the publication it read
(`RetryIsOfPublication`).

*Catalogue.* A request writes what it made of a row it read a while ago, so
`ChangesInOrder` says what that still tells about the row: a draft that is being
published has the content it was read with as long as its version is current, its
bindings were qualified, and a deployment about to be written either pins what the
row pins or is disabled (`ReadInOrder`). Whoever writes the row bumps its version,
after which the request says nothing about it any more (`ReadStays`). That versions
are bounded follows from counting writes: one per request, at most four per startup
(`Top`). With `ValidDraftIsSound` this is inductive.

*Evaluation.* `RowInOrder` ties the status of a run to its version, which is what
makes the compare-and-swap of a late thread fail; `ExecutionInOrder` says where a
thread, a cancel request and a report can be in each status. That the calibration is
never missed rests on a count: `Contenders` are the self-comparisons that have
completed or have looked for a sample and are about to, and without a calibration
there are two of them at most (`CalibrationInOrder`), because all contenders have
saved their report before they look, so the third to look finds three.

*Members.* The last administrator and the last owner are looked for in the
transaction that writes, so `OwnerRemains` is inductive with the types and the
contents of requests (`MembersInv`); the proof is about finite sets of more than one
member. That an owner is left who may still act as one is looked up before the
transaction; `EffectiveOwnerRemains` says so, and the run `members_owner` violates
it.

### What the proofs found

- Without `PatientClients` `ActiveHoldsLease` and `DecisionsHold` fail: a decision
  that overtakes a done callback has its task dropped from the registry, and a
  cancellation then neither finds nor stops it. TLC shows both on the instance of
  `execution` with `PatientClients = FALSE`.
- `DeliveryAssumption` was not there at first. `BackendDeliveryPipelinePolicy`
  accepts a pipeline with a role stage behind the plan gate, and for such a one
  `ActiveHoldsLease` is false even with patient clients: a failed publication is
  retried by `resume_publications`, which goes on into the workcells without
  registering a task; a cancellation does not see them, and a workcell that ends
  late revives the cancelled delivery, whose lease is gone. No built-in pipeline has
  that shape, so the theorem excludes it.
- `TurnsAssumption` was not there at first. With two code stages in parallel and no
  bundle, or with a bundle and no stage behind all others, a loop can succeed with a
  failed candidate: the exit condition looks at marks that an earlier stage or
  iteration has left. `BackendDeliveryPipelinePolicy` says nothing of the body of a
  loop; no built-in pipeline has such a one.
- The repair iterations of a bundled loop cannot repair it (`BundlesAreMadeAtOnce`), which
  is finding 7 for every body with a last stage and every `max_iterations`.
- Nobody but a worker with the open attempt pushes, but the error path of `apply()`
  needs `PatientOperator` (finding 3).

### What is only model-checked

Liveness under fairness (`EverythingReturns`, `KnowledgeSettles`), which is out of the
prover's reach. And the invariants that a union run states over several instances at
once: its type invariant (`ExecutionTypeOK`, `KnowledgeTypeOK`, `GovernanceTypeOK`),
and `DriverInOrder`, `SuccessIsAccepted` and `VerificationInOrder` of `MCExecution`
and `ProviderLoadBounded` of `MCGovernance`, which apply the definition of a module to
the instances made there (`Code!`, `Artifact!`, `Machine!`, `FanOut!` and the like).
What each of them says of one instance is a theorem of its module
(`DriverTypeCorrect`, `DriverEndsInOrder`, `SuccessOfDriverIsAccepted`,
`VerificationsAreInOrder`, `ProviderLoadIsBounded` and the `...TypeCorrect` theorems).
## Not modelled

- Of the stage driver: prompt assembly, the content
  of knowledge citations (their two error codes are modelled). Publication of the
  candidate and the building of the bundle happen after the run has succeeded and
  enter as the error they may raise.
- Of the delivery: the assembly of a stage's inputs and prompts; `submit()`, which
  plans in the request.
- Of the release: pull requests and the recording of candidates; what the release
  acceptance asks beyond the Workcells (hashes of bundle, pull requests, knowledge
  and packages: it changes nothing but its own report).
- Of evaluation: scores, assessments by people, the files of a report.
- Of knowledge: retrieval and ranking, evaluation scores, creation of connections
  and bindings. Of governance: settings no delivery reads again, the provisioning
  of the four full-stack repositories.
- Git, subprocesses, model providers, Feishu and Ollama are external: an answer,
  an error, or no answer.
- The console, the extensions, the developer tools and the readiness reports keep
  no state of the running system; evidence, artifacts and handoff are
  content-addressed storage and projections of recorded rows. A state machine of
  them would restate single assignments.
