# TLA+ models of Nidin BOS

Nidin BOS (`src/app`) is a FastAPI application in front of one PostgreSQL
database.  It runs as several gunicorn processes, a scheduler process
(`src/run_scheduler.py`) and a webhook worker (`src/run_webhook_worker.py`).
The processes share nothing but the database, so almost everything that is hard
about the program happens between two commits: a row is read, something is
awaited, and the row is written with what was read.

These modules specify the parts where that matters most: who may cause a side
effect, how often, and what is left behind when a process dies in the middle.
Paths below are relative to `src/app` unless they start with `src/`.

## Contents

| Module | What it is |
| --- | --- |
| `ApprovalExecution.tla` | approvals, their decisions, and the one execution each may cause (HTTP handlers, e-mail sending, expiry sweep) |
| `GuardedEffect.tla` | the abstract promise of that subsystem |
| `ApprovalExecution_proofs.tla` | TLAPS proofs about it |
| `JobQueue.tla` | the persistent job queue: claims, leases, retries, recovery |
| `ExclusiveWork.tla` | the abstract promise of a work queue |
| `JobQueue_proofs.tla` | TLAPS proofs about it |
| `WorkflowRun.tla` | one workflow run: its steps, their approvals, whoever drives it, pause, retry and recovery; implements `GuardedEffect` too |
| `WorkflowRun_proofs.tla` | TLAPS proofs about it, with any number of drivers at once |
| `WorkflowOrder_proofs.tla` | TLAPS proofs about it, with one driver at a time |
| `WebhookDelivery.tla` | outgoing webhooks: inline dispatch, queueing, two retry loops, pruning, replay |
| `DeadLetterStore.tla` | the dead-letter store; instantiated by `WebhookDelivery` with an entry for each delivery |
| `WebhookDelivery_proofs.tla` | TLAPS proofs about both |
| `SyncScheduler.tla` | the scheduler process: its loop, worker pools, circuit breakers, on-demand syncs, stop and restart |
| `SyncScheduler_proofs.tla` | TLAPS proofs about it |
| `AIKeyCache.tla` | the caches of the AI providers' keys: process memory, Redis, integration rows, environment |
| `AIRouter.tla` | the calls that use them: circuit breakers, retries, fallback, connect and disconnect |
| `AIRouter_proofs.tla` | TLAPS proofs about both |
| `ApprovalPattern.tla` | what decisions teach: the counters of a pattern |
| `AutonomyPolicy.tla` | the policy and rollout of an organization: changes, rollback, the checks before an execution |
| `AutoApproval.tla` | the two composed with the request that may be approved automatically |
| `AutoApproval_proofs.tla` | TLAPS proofs about all three |
| `MC*.tla`, `*.cfg` | the instances TLC checks |
| `PROJECT.json` | components, runs, mutants, the map from definitions to source lines, findings, hazards, theorems |

## Inventory

Each part of the system, the state it keeps, its operations, what it talks to
and what makes it correct.  "Hard" says what unit tests hardly reach.

**Approval requests and decisions** (`api/v1/endpoints/approvals.py`,
`services/approval.py`, `jobs/approval_jobs.py`).  State: the `approvals` table
(`status`, `approved_by`, `executed_at`).  Operations: request (optionally under
an `Idempotency-Key`, optionally auto-approved by a learnt pattern), approve,
reject, expire.  Calls the execution engine when an approve carries
`YES EXECUTE`.  Hard: every endpoint reads, awaits and then writes; several
approvers and the sweep compete.  Correct when a decision is final, and a risky
action needs an explicit human grant.

**Execution engine** (`services/execution_engine.py`, `services/execution.py`).
State: the `executions` table (unique on `approval_id` and on
`(organization_id, execution_key)`), and the `executed_at` column used as a lock.  Operation:
`execute_approval`.  Hard: timeouts whose thread goes on, swallowed database
errors, crashes between the side effect and the record of it.  Correct when a
side effect happens at most once, only after a grant, and is not recorded if it
did not happen.

**E-mail drafting and sending** (`services/email_service.py`,
`api/v1/endpoints/email.py`, `tools/gmail.py`).  State: the `emails` table
(`approval_id`, `draft_reply`, `reply_sent`).  Operations: draft a reply (asks
the AI, requests an approval, links it), compose, send.  Two paths lead to a
sent reply: the execution engine and `POST /email/{id}/send`; both compete for
`executed_at`.  Correct when a mail goes out once.

**Job queue** (`services/job_queue.py`).  State: the `job_queue` table.
Operations: enqueue, claim (recovers stale rows first), run the handler, write
the outcome.  Hard: leases, crashes, backoff, priorities.  Correct when a job
is run by one worker at a time, settles once and truthfully, and does settle.

**Workflow runtime** (`engines/execution/workflow_runtime.py`,
`workflow_recovery.py`, `domains/automation/service.py`,
`application/automation/use_cases.py`).  State: `workflow_runs`,
`workflow_step_runs`.  Operations: start, advance, approve a step, pause,
retry, resume, recover stuck runs.  Uses approvals and executions, is called by
endpoints, the job queue and the scheduler.  Hard: ORM objects that are stale
after an await, two callers driving one run, crashes between steps.  Correct
when a step that needs approval is not run without one, a step acts once per
attempt, and a run does not stay running for ever.

**Outgoing webhooks** (`services/webhook.py`, `src/run_webhook_worker.py`).
State: `webhook_endpoints`, `webhook_deliveries`.  Operations: dispatch inline
or queue, retry due deliveries, prune, replay a dead letter, switch or delete
the endpoint.  Hard: two processes retry one delivery without a claim, with rows
they loaded before up to fifty POSTs.  Correct when a delivery is given up only
after its attempts, is never reopened, and is settled in the end.

**Dead-letter store** (`platform/dead_letter`).  State: `dead_letter_entries`.
Operations: capture (by webhooks and the scheduler), retry, resolve, archive.
Hard: overlapping requests for one entry.  Correct when a resolved entry stays so.

**Scheduler and sync** (`services/sync_scheduler.py`, `src/run_scheduler.py`).
State: in the memory of one process, the throttle and lock of each organization
and the failure streak and circuit of each integration.  Operations: a periodic
round of two worker pools, on-demand syncs, replays, stop.  Hard: exceptions in
the middle of a run, workers that die, one database session for 24 jobs.
Correct when a round reaches every organization and ends, and a failing
integration, and no other, is left alone.

**Automation scheduler** (`services/automation_scheduler.py`).  Decides which
scheduled workflow definitions are due and enqueues them.  Hard: a job that is
still waiting when the next tick looks for its run.

**AI provider router** (`engines/brain/router.py`,
`api/v1/endpoints/integrations_ai.py`).  State: per process a cache of keys and
the circuit of each provider; Redis; the integration rows, read at start only.
Operations: call with retries and fallback, stream, status, connect, disconnect.
Hard: three caches with lifetimes, and calls that overlap.  Correct when a
withdrawn key disappears, circuits open only after failures, and a call ends.

**Approval patterns and autonomy policy** (`services/approval_pattern.py`,
`services/autonomy_policy.py`).  State: counters of decisions per type; one
policy row, its versions, and a copy in the organization.  Operations: record a
decision, configure or delete a pattern; change or roll back the policy, change
the rollout; rewrite another part of the JSON that holds the copy; the checks
before executing and before approving automatically.
Hard: every one of them is several statements, and the checks are made twice.
Correct when nothing is approved or started against every rule that held
meanwhile, and the counters never run ahead of the decisions.

**Idempotency cache** (`core/idempotency.py`).  State: stored responses by key.
Hard: get, run and store are three steps.

**Account lockout, nonces, quotas, rate limits** (`core/account_security.py`,
`core/oauth_nonce.py`, `core/middleware.py`, `services/api_quota.py`).  State:
counters with windows.

**Signals** (`platform/signals`), **CRM, finance and content services**,
**integrations**, **web pages, SDKs, migrations**: records of what happened,
independent rows without a protocol between them, clients of external services,
presentation.  They are listed as components and not modelled.

## Approvals and their execution (`ApprovalExecution`)

### State

| Variable | Code |
| --- | --- |
| `status`, `approvedBy`, `executedAt` | columns of `approvals`; `executed_at` is compared by value when it is released, so the slot holds the worker whose timestamp it is |
| `execution` | the row of `executions` with this `approval_id`: status and key |
| `link`, `replySent` | `emails.approval_id`, `emails.reply_sent` |
| `rpc` | how far the request or draft that creates the approval has come |
| `worker` | the locals of each request handler (approve, reject, send): next step, approval, slot, key, outcome |
| `orphans` | sends whose `asyncio.wait_for` gave up and whose thread goes on |
| `granted`, `refused`, `effects` | history: who was allowed, who was refused, what was done |

Every action is the code from one commit (or one read followed by an await) to
the next.  A request for an approval has its own little automaton `rpc`:
`CheckRequestKey`, `CreateRequest`, `StoreRequestKey`, then `AutoApprove` or
`LeavePending` for the endpoint; `StartDraft`, `RequestDraft`, `LinkDraft` for
`draft_reply`.  A worker goes through `BeginApprove` (all the checks the
endpoint makes before it awaits), `Approve` (the conditional UPDATE),
`CreateExecution` (INSERT under two unique constraints), the path by type
(`LoadReply`, `LoadCompose`, `ClaimSlot`, `RunHandler`, `Send...`,
`ReleaseSlot`, `MarkReplySent`) and `FinalizeExecution`; `BeginSend` enters the
same path from `/send` without an execution.  `Crash` may end a worker at every
step, after or before its side effect.

### What is checked

* `AtMostOnce`: no approval is carried out twice.
* `EffectNeedsGrant`: a side effect needs an approve with `YES EXECUTE`, and no
  rejected or expired approval acts.
* `SucceededIsReal`: an execution recorded as succeeded did act.
* `ReleasedUnused`: the slot is given back only if nothing was sent under it and no
  thread may still send.
* `RiskyDecisionFinal`: the decision on a risky approval is final.
* `ImplementsGuardedEffect`: all of it refines `GuardedEffect`: decided once,
  carried out once, only if granted.
* `GrantedIsExecuted` (liveness): a grant ends in a finished execution, or its
  idempotency key already belongs to another one.

`ApprovalMail` has two replies to the same e-mail (the link moves from one to
the other while the first is executed), two workers, failures and crashes; it
checks all but `RiskyDecisionFinal` and `GrantedIsExecuted`.  `ApprovalLive` has a reply, a composed mail and a
digest that may be auto-approved, the last two requested under one key, one
worker and no failures; it checks
these two, under the fair specification.

`ApprovalDraftRace` (see `findings`) shows two drafts of one e-mail creating two
approvals, where the code says it prevents that.  Other weaknesses are in the
model without a run of their own:

* The auto-approval of an approval that is not risky overwrites a rejection
  committed while the pattern was looked up.  `RiskyDecisionFinal` is about the
  risky types, for which the code is right.
* Two requests in flight under one `Idempotency-Key` create two approvals,
  because the key is stored by a second commit.
* `gmail.send_email` turns every error into `False`, so a mail that went out may
  be reported as not sent; the slot is then given back, and the mail can be sent
  again.  `AmbiguousSend = TRUE` has this; `AtMostOnce` is false then, and the
  passing runs assume `AmbiguousSend = FALSE`.  Only a reply can be sent twice in
  this way (`OnlyRepliesRepeat`): a composed mail has one execution, which is never
  started again.  What needs a grant still needs it, and a recorded success is
  still true.
* An execution denied by the policy in the engine, after the endpoint has
  committed the approval, leaves it approved, not executed, and with no way to
  execute it (`DenyByPolicy`).  The same after a crash between the two.

### Bounds

Two or three approvals, one e-mail, one or two workers, two keys.  Every conflict
of this subsystem is between two actors over one row, or one row reached from two
others (a link, a key); two of each is the smallest instance in which all of
them occur, and no counter is bounded: the histories stay finite because an
approval acts once.  The theorems carry the safety results to every size.

### Fairness

`FairSpec` assumes weak fairness of each worker's `Continue`: a handler that has
been called and is not killed runs on.  All its awaits have timeouts, so this is
what asyncio gives.  Nothing is assumed of callers: nobody has to
approve, reject or send.

## The job queue (`JobQueue`)

### State

`status`, `attempts`, `wait` (seconds until `run_after`), `born` (the order of
`created_at`), `age` (seconds since `locked_at`) are the row; `worker` is the
loop of one process, with what the session that writes the outcome has loaded
of the row (`seen`), because the ORM writes only columns that differ from what
was loaded.  `locked_by` is never read by the code and is left out.

`Claim` is `_claim_job`: recovery of stale rows and the claim of the first due
one in a single transaction (`FOR UPDATE SKIP LOCKED`); with no due row it returns without a
commit.  `EndHandler` is the handler's end and the read of the row, `Settle` the
commit of the outcome: completed, dead, or pending again with backoff.
`Abandon` is a crash, a cancellation at shutdown, or a failed write of the
outcome.

### What is checked

One run, `Queue`, checks all of it under `FairSpec`:

* `RunByOne`, `SettledForGood`, `OutcomeIsTrue` and the refinement
  `ImplementsExclusiveWork`: run by one worker at a time, settled once and
  truthfully.
* `AttemptsAccounted`: attempts beyond `max_retries` are those lost in crashes.
  The recovery does not look at `max_retries`, so a job that always kills its
  worker is attempted for ever; nothing tighter holds.
* `EventuallySettled` (liveness).

### Bounds

Three jobs (two of equal priority, one more urgent; with and without delay; one
has no handler), two workers, a lease of two ticks, a backoff base of
one, and at most `MaxCrashes` = 1 lost attempts.  `age` stops one tick after the
lease, `wait` counts down, so time is unbounded but the state is finite.  Two
workers are enough for a conflict, three jobs for the ordering.

`MayOverrun` lets a handler run longer than `JOB_QUEUE_STALE_TIMEOUT_SECONDS`.
The code does not prevent it (no timeout, no renewal of the lease), and then
`RunByOne` is false: with `MayOverrun = TRUE` TLC finds a job claimed a second
time beside its first handler.  The run, and the theorems about exclusion and about
attempts, assume that handlers are faster than their lease, which is the
deployment's side of the bargain; a final status is true even without it
(`OutcomesAreTrue`).

### Fairness

Time passes (`WF(Tick)`) and each worker loop goes on polling and finishing
(`WF(Work(w))`).  Without `MayOverrun` the fairness of `Work` is what the
assumption about handlers says.

## Workflow runs (`WorkflowRun`)

### State

`run` and `step` are the rows of `workflow_runs` and `workflow_step_runs`
(statuses, `current_step_index`, `approval_id`, `attempt_count`,
`idempotency_key`), `approval` and `execKey` the approvals of type
`workflow_step_execute` and the keys of their executions.  `driver` is a request
or job: what it does next, the steps it still has to run, the approval at hand,
and its ORM session - `view` the attributes of its objects, `base` their values
at the last flush.  `Commit` writes the attributes in which the two differ,
since that is what SQLAlchemy does, and nothing reloads an object
(`expire_on_commit=False`).  A driver can therefore act on, and write back,
what it read before somebody else's commit.  `granted`, `refused` and `acts`
are history.

Actions end at a commit or before a slow await.  `BeginRun`/`InsertRun` are
`run_workflow_definition`; `RequestApproval`, `ApproveOwn`, `CreateExecution`,
`CompleteStep`, `FailStep` the loop of `run_workflow_plan` and
`_execute_approved_step`; `Approve`, `LookUp`, `Reject`, `CancelStep` what
the approval endpoints do with a step; `BeginPause`, `BeginRetry`,
`BeginResume`, `ResumeRun`, `BeginFailStuck` the endpoints and the recovery job.
`CommitAndLeave` is the last commit of each.  `ActAgain` is what happens after
`create_execution` found an execution of the same key: its rollback expires
every object, the handler is dispatched nevertheless, and the driver fails at
the next attribute it reads.

### What is checked

* `WorkflowConcurrent`, two drivers at once, the run's key used again:
  `GatedNeedsGrant` (a step that requires approval acts only after some grant
  of this or an earlier step) and `ImplementsGuardedEffect`: each approval acts at
  most once and only if approved.
* `Workflow`, one driver at a time and a key used once, but with pauses, retries,
  rejections, recovery and crashes beside it: `KeyActsOnce` (an action has an
  execution of its own, with a key no other action of the step has),
  `ActsInOrder` and `CompletedMeansDone` (no pause, rejection, retry or restart skips
  a step), and `RunningRests`.
* `WorkflowGate` (see `findings`): only the first gate of a run is asked for.

`SucceededActed`, a step is recorded as succeeded only if it acted, has no run:
it is proved.

Weaknesses in the model without a run of their own: a process that dies between
the commit of a run and its start (`use_cases.py`:204) leaves it pending, and the
recovery job looks at running and failed runs only; a second request under one
key, beside the first, repeats actions (`ActAgain`); an approval that expires,
or is granted with `YES EXECUTE`, leaves its run awaiting; a step whose process
died after the side effect is done again under its next attempt; a cancelled
step counts as done when the run is resumed.

Two drivers of one run can complete it over a step that is not done and, with three
steps, act out of order.  So can one driver whose run's key is used again: the
request begins the plan anew and, where it has to wait at a gate, the approval
continues with the pending steps only (`workflow_runtime.py`:228), so a step that a
crash left `running` is passed over.  A retry or a resume instead starts at the
first step that is not done and resets it (`StartIndex`, `Reset`), which is why
order holds over crashes as long as the key is used once.

### Bounds

Two steps, three approvals (one pass, and one repeated step) and two drivers; the
gate is on the second step.  Two steps are enough for an order, a gate behind an ungated step and a
remaining plan; longer runs are left to the theorems; two drivers for every lost
update.  Approvals are numbered and `NextId` takes the smallest unused one, as an
autoincrement column does.  `Rerun`, `OneDriver` and `MayCrash` choose the
environment.  The heartbeat timeout (an hour) exceeds a handler's (30 s), so only
a run that nobody drives is `Stuck`.

### Fairness

A driver runs on (`WF(Continue(d))`: handlers have timeouts), the recovery
job finds its turn again and again (`SF(Recover)`: it is a periodic job in
another process, with FEATURE_WORKFLOW_RELIABILITY on), and crashes stop some
day.  Users are not assumed to do anything.  `OutOfApprovals` excuses
behaviours that have used up the model's approvals.

## Outgoing webhooks and dead letters (`WebhookDelivery`, `DeadLetterStore`)

### State

`row` is `webhook_deliveries` (status, `attempt_count`, whether `next_retry_at`
is set), `endpoint` the one endpoint (active, active with a secret the process
cannot decrypt, inactive or deleted), `caller` a request that dispatches
(`Trigger`, `SendTest`, `Replay`, `Queue`), `retrier` a process that runs
`retry_failed_deliveries`: the rows its SELECT `loaded`, those still `todo`, and
how it `seen` the endpoint first.  `entry` and `request` belong to
`DeadLetterStore`, instantiated with an entry for each delivery.  `posts`
(the attempts made: a POST, or a refusal of the URL by `_validate_url`, which counts
as one), `accepted` and `blurred` are history; `blurred` are the deliveries two
loops held at once, or whose attempt a killed process forgot.

An inline dispatch is `Post` (repeated), `Insert` (the row is committed only
now), `Capture`, `Prune` and, for a replay, `Mark`.  A retry loop is `Select`,
then for each row `Take`, `Repost`, `Write`.  `Flushed` is the ORM: an UPDATE
writes the columns that differ from what was loaded, and fails if the row is
gone, which ends the batch.  So does a secret that cannot be decrypted (`Take`,
`services/webhook.py`:719, outside the `try`): nothing is counted, and the next
batch meets the same row again.  A dispatch that cannot decrypt it ends before it has
done anything; queueing needs no secret.

### What is checked

One run, `Webhooks`:

* `RowIsTrue`: a delivery that is not blurred counts every attempt made and is a
  success exactly if the receiver accepted it.
* `GivenUpOnlyExhausted`: lost counts never lead to giving up early.
* `NeverReopened`: a row loaded long before and written late does not bring a
  settled delivery back.  It holds because only changed columns are written.
* `ReopenedOnlyByFirstRetry`: the store takes a resolved entry up again only by
  a first retry that overlapped the resolution.
* `EventuallySettled` (liveness): if from some time on the secret can be decrypted,
  every open delivery is settled or is `Stranded`: refused in the one inline attempt
  that `max_retries` = 1 allows, it stays failed with nothing scheduled.  Without the
  first hypothesis a delivery of an endpoint with an unreadable secret stays open
  for ever, attempted by no one.

`EntryIsOfDeadLetter`, the store speaks only of deliveries that were given up,
has no run: it is proved.

Weaknesses in the model without a run: a delivery the retry loop gives up is not
captured as a dead letter (`docs/ARCHITECTURE_PLAN_NEXT_PHASE.md`:365 wants no
silent loss); one endpoint whose secret cannot be decrypted also keeps the
deliveries of other endpoints behind it in the batch from being retried (the model
has one endpoint); two replays of one dead letter both send; a
process killed in an inline dispatch leaves no row; pruning deletes open
deliveries; the SELECT takes fifty rows in no order, so that fifty rows of a
failing batch may keep others waiting.

### Bounds

Two deliveries, one caller, two loops, two requests on the store, a batch of two,
one row kept by pruning; three deployments (inline with background retries,
`max_retries` = 3; inline that gives up at once, `max_retries` = 2; queued with
`max_retries` = 1 and one kill).  Two loops with one delivery are the conflict, and
three attempts let a loop write back a refusal, still open, after the other has
settled the row; the second delivery makes batches, pruning and replays
possible.  Who calls whom and how often is otherwise unbounded.

### Fairness

`WF(RetrierStep(r))`: both loops are `while True` with a bounded sleep, a POST
has a timeout, clocks advance.  Nothing is assumed of callers or people.

## The scheduler process (`SyncScheduler`)

### State

`loop` is where `_scheduler_loop` and `stop_scheduler` are, `pool` the
`asyncio.Queue` of each pool with its count of unfinished tasks, `task` what every
worker, on-demand sync and replay is doing (organization, step, whether its
session is `broken`), and `streak`, `open`, `fresh`, `locked` the dictionaries of
the module.  `failed` and `served` are history.  A run is a sequence of steps
(`Steps`): guarded integrations, the mailbox, the inbox controls and the rest of
`_run_integrations`; or the jobs of `_run_automation_jobs_for_org`.  A step may
`Succeed`, `Fail` with a listed error (which may have broken the session), or
`Raise` one that nobody lists.

### What is checked

`Scheduler`:

* `JoinedAfterAll`, `RoundEnds`: a round reaches every organization, and ends
  unless all workers of a pool have died.
* `OneRunEach`: the lock keeps on-demand syncs of one organization apart, though
  it is looked at in one task and taken in another.
* `PausedAfterFailures`: whichever of the loop, on-demand syncs and replays write
  it, a circuit is open only after failures without a success between.
* `CalledOnUsableSession`: with signals and dead letters on, no integration and no
  job is handed a session that an earlier one broke.  The inbox controls are the
  exception: a failure of the mailbox is logged only (:549-570), and they are called
  at :571 on the session it left; recording their failure then ends the run.
* `NothingAfterStop`.

`StuckMeansAllDied`, a pool stands still only when every worker of it has died,
has no run: it is proved.

`SchedulerHangs` (see `findings`): an `EmailSyncError` is in no list, kills the
workers of a pool, and the loop waits for the queue for ever.

Weaknesses in the model without a run: "each job is isolated" (:871) depends on
`DEAD_LETTER_ENABLED`, and the commit that captures a failure commits the failed
job's partial work; the loop ignores the lock of on-demand syncs;
`_last_synced` is set before the sync; the comment that the circuit breaker
survives restarts (:364) is not so; an `EmailSyncError` never counts for the
circuit.

### Bounds

Two organizations at most, one integration besides the mailbox, two jobs, a
threshold of two (3 in the code), and five deployments with one or two workers per
pool, on-demand syncs or a replay, and chosen steps that may fail (`Crews`).  A
second organization is what a dead worker leaves behind; the third is like it.

### Fairness

`WF(TaskStep)`, `WF(LoopStep)`, `WF(EndStop)`: every await in a step has a
timeout, the loop's sleep ends, and so does the grace period.

## AI providers (`AIRouter`, `AIKeyCache`)

### State

`l1`, `l2`, `stored`, `env` are the keys in the memory of each process and in
Redis with their remaining lifetimes, in the integration rows, and in the
environment; `rows` is what a starting process has read of the rows.  `circuit`
is `_provider_circuit_state` of each process, `caller` a request: the order of
its candidates, the attempt, the key it used.  `gone` counts how long a withdrawn
key has been withdrawn, and `failures` is history.

`Ask` is `call_ai` up to its first call; `Answer`, `Retry`, `FailTransiently`,
`FailForGood` and `Escape` (an error of a type nobody lists) are what a provider may
do.  `Vague` and `Untimed` are what is particular of Gemini: its refusal of a key is
a `ClientError` and counts as transient, and its client gets no timeout.  `Connect`, `Save`, `TakeBack`,
`Disconnect`, `CommitDisconnect` the endpoints; `Restart` and `Load` the start
of a process; `Tick` the clock of the caches.

### What is checked

* `StaleKeyBounded`: a key that was replaced, disconnected or refused is used
  nowhere two lifetimes of the cache later, although processes that still have
  it warm each other through Redis.  One lifetime is not enough.
* `OpenAfterFailures`: a circuit is open only after `Threshold` failures since the
  last answer, whichever calls they came from.
* `CallsEnd` (liveness): a call ends, unless it waits for ever for an `Untimed`
  provider.

The code disagrees with two of its comments, and no property states either: "Authentication
errors do NOT trigger a fallback" (`engines/brain/router.py`:13) is not true of
Gemini, whose refusal of a key is retried, falls back and opens the circuit
(`router.py`:113, 982-986); "never raises" (`router.py`:558) is not true of an
error outside the listed types (`Escape`), after which a key that was being
connected stays in the caches, though it is never saved.

Weaknesses in the model without a run: rows are read at start only, so an hour
later a connected key is no longer found (the comment at `router.py`:148 says
"refresh from DB hourly"); the test call of a connect may be answered by another
provider, where the circuit of the chosen one is open or Gemini refuses the key, and
the key is saved unvalidated (`integrations_ai.py`:71); a failed
reconnect clears the caches of the good key that is still stored.  The second
`break` in the loop of `call_ai` is dead code.

### Bounds

Three providers, a lifetime of two ticks, a threshold of two (3 in the code), two
attempts, four deployments (`Hosts`): two overlapping calls of one process; a
chosen provider that refuses its key; two processes, Redis and a managed key; a key
validated beside another provider, which may fail.  The ages of keys stop at twice the lifetime.

### Fairness

`WF(TimedStep(c))`: a call of a provider that is given `AI_TIMEOUT_SECONDS` is
answered, refused or broken off.  Gemini's is not (`router.py`:959, 966-974), and
nothing is assumed of a call while it waits for Gemini.

## Automatic approval (`AutoApproval`, `ApprovalPattern`, `AutonomyPolicy`)

### State

`pattern`, `decider` (`ApprovalPattern`) are the patterns of one type, and a
decision being recorded: `Find`, `Create`, `Read`, `Write`.  `record`, `versions`,
`legacy` (`AutonomyPolicy`) are the policy row, its versions and the copy in the
organization; `admin` a change under way (`Begin`, `ReadRollout`, `LoadRow`,
`Write`, `Sync`), `editor` a request that rewrites another part of the same JSON
(`ReadJson`, `WriteJson`: the feature flags; the command-center and SLA settings
are written alike), `executor` an approve that checks `can_execute_post_approval`
in the endpoint and again in the engine (`ReadSwitch`, `CountActions`,
`ReadMode`, `FailLookup`, `Start`).  A workflow step is executed without that
(`StartStep`, `workflow_runtime.py`:104).  `AutoApproval` adds the requests that look the
pattern up (`LookUpPattern`), then the rollout and the policy, and are approved or
left pending.

### What is checked

* `ApprovedByRule`: an automatic approval has as many human approvals behind it
  as its threshold asks for, and the kill switch was off, and auto-approval
  allowed, at some moment since its request.
* `StartsUnderSwitch`: no execution of an approval starts of which a check saw
  only a kill switch that was on throughout, unless the engine's look-up failed.
* `CapNearlyKept`: the daily cap is exceeded only by the requests checked
  together, less one, and by workflow steps.
* `WritesItsColumns`: a change, which sets every column, gives another value to
  its own columns only, and to those that others have changed since it began.
* `InStep`: the last version, and the copy in the organization, are what is in
  force.  `apart` says when they need not be: the version after a change that was
  committed although others had changed the policy since it began; the copy after
  one that was disturbed in anything, or died before it wrote the copy, or that
  was synchronized during an edit of the JSON.  The next undisturbed change puts
  either back in step.
* `CountsWereDecided`: however recordings overlap and rows are deleted, a pattern
  counts no decision that was not made.

`NoneLost`, no decision is lost where recordings do not overlap, has no run: it
is proved.

Weaknesses that the model shows and the properties make allowance for:

* the executions of workflow steps are counted by the cap (`autonomy_policy.py`:640)
  but created without any check, so where workflows run the cap bounds nothing, and
  they start while the kill switch is on;
* `update_feature_flags` writes back all of `policy_json` as it read it
  (`organization.py`:237-246): the copy of a policy changed meanwhile is reverted,
  though no two changes overlapped.  The comparison of `config_version` comes
  before the write and does not prevent it.  Only the prompts read the copy once
  there is a row;
* a kill switch thrown while the policy is being edited may be written back to off;
* two first decisions create two patterns, after which every query of the type
  raises.

### Bounds

Six scenarios (`All`): two administrators and an editor; two executors and two
workflow steps a day; one executor; two deciders, a
request and a pattern that is configured and deleted; an administrator, a decider
and a request.  Caps of one and two, two versions at most.

## Proofs

The theorems hold for every number of approvals, e-mails, jobs, drivers,
deliveries, organizations, callers and requests, and of the workers and
processes that compete for them.  They assume what the modules name
(`ConstantsAssumption`, `QueueAssumption`, `PowersAreNumbers`,
`WorkflowAssumption`, `WebhookAssumption`, `SchedulerAssumption`,
`RouterAssumption`, `AutoApprovalAssumption`, `ScenariosAssumption`: mostly that
counters and delays are numbers, sets that are counted are finite, and a constant
that stands for nothing is not one of the things), which TLC evaluates on every
run, and the hypothesis a theorem states itself.  Each module has a `TypeCorrect`.

### Approvals

`ApprovalExecution_proofs` proves the inductive invariant `IInv` (`Invariance`),
from which `OnlyRepliesRepeat`, `CarriedOutOnce`, `ActsOnlyIfGranted`,
`RecordsAreTrue` and `OnlyUnusedReleased` follow; `RiskyFinal`, which needs only
the conditional UPDATEs; and `Implementation`, the refinement of `GuardedEffect`.
Only `CarriedOutOnce`, `OnlyUnusedReleased` and `Implementation` suppose
`AmbiguousSend = FALSE`, without which they are false.

The safety properties are not inductive: nothing in "acts at most once" says
why a worker about to act finds the slot unused.  `IInv` adds it in four parts.
`DecisionInv`: what the status of a row implies about who decided it.
`SlotInv`: nothing is known to have been sent under an empty slot, a taken one
presupposes the grant, and what is not a reply is touched only by its own
execution (`Untouched`).  `JobInv`/`SlotHeld`: what a worker may rely on at each
step, above all that a worker between claim and release holds its slot and
nobody has acted under it.  `OneExecutes`: an approval is executed by one
worker, which is what keeps a composed mail from being sent again after a failure
that was none.  The proof has one lemma for the worker that moves
(`OwnStep`, one case for each action), one for the others (`WorkersKept`: a step
can only strengthen what they rely on), and one for each of the tables
(`DecisionKept`, `SlotKept`, `SucceededKept`).

### Jobs

`JobQueue_proofs` proves that, when no handler outlives its lease
(`MayOverrun = FALSE`), a busy worker's row is running, unexpired, held by nobody
else and as it was loaded (`Leases`, the inductive invariant with the types of
the rows it reads); then `RunAlone`, `SettledStays` and `ImplementsQueue`.
`Accounts` adds to it that an open job nobody runs has an attempt left, counting
the attempts that crashes have taken: `AttemptsBounded`.  `TypeCorrect` and
`OutcomesAreTrue` need no hypothesis on handlers: several workers may then settle
one job from stale copies of its row, but what each of them knows stays true
(`Truth`: attempts only grow, a handler that has returned once has returned).

### Workflow runs

`WorkflowRun_proofs` proves `GrantFirst`, `SuccessIsReal` and `Implementation`,
for any number of drivers that each hold stale copies of the rows.  A property of
the tables alone is not inductive, because a driver may write back what it read
before.  The invariant therefore says of each driver's `view` what it says of the
tables (`TrueSteps`): a step is linked to an approval of its own, and is succeeded
only if it acted.  Mixing columns of several such copies, which is what an UPDATE
of the changed columns does, keeps that, since what it says of a column depends on
nothing but history that only grows.  `Alone` says that an approval about to
be used is approved, unused and held by one driver.

`WorkflowOrder_proofs` adds two invariants that hold when one driver at a time works
on the run (`OneDriver`), however many others pause, reject, look up or
overwrite its status meanwhile, and whoever is killed.

`Keyed` (`KeysInvariance`), from which `OneKeyEach` follows.  The executions of a
step have keys no greater than its attempts, and a step linked to an approval not yet
used has the key of the next attempt.  So the INSERT of an execution never finds
its key taken and nobody reaches `ActAgain`.  A driver writes attempts and links from
its session; that this is harmless rests on what the others write: whoever
overwrites a status leaves these columns alone, so what the driver loaded or
flushed is still what the tables hold (`KeysHeld`).

`Order` (`OrderInvariance`, also with `Rerun = FALSE`), from which
`NothingLeftUndone` and `OneAfterTheOther` follow.  A driver at work has flushed
exactly what the step table holds; everything before the step in hand is done and
nothing after it has begun (`Ready`), in the table and in its view; and no step
waits except the one whose approval was just granted (`WorkOK`).  A step waits only
when its turn has come (`AwaitOK`), and whoever overwrites the status of the run
changes no step but the one whose approval he rejected, which still waits
(`OverwriteOK`).  Hence a pause, a rejection or a crash at any point leaves a table in
which the first step that is not done is where to go on.

`NothingLeftUndone` and `OneAfterTheOther` are false without either hypothesis (see
"What is checked"), `OneKeyEach` without `OneDriver`; `GrantFirst`, `SuccessIsReal`
and `Implementation` need neither.

### Webhooks

`WebhookDelivery_proofs` proves `RowsAreTrue`, `GivenUp`, `NeverReopens`,
`DeadLettersOnly` and `Reopened`.  The invariant has three parts.  `Counted`: no
row, and no copy a loop has loaded, counts more attempts than were made.
`Kept`: a delivery in the dead-letter store was born as a dead letter, and no loop
holds it.  `Exact`, of the deliveries that are not blurred: one loop at most holds
such a delivery, has loaded it as it is or finds it deleted, and knows what has
become of its attempt; only from that does "the row says whether the receiver
accepted" follow when a loop writes.

### Scheduler

`SyncScheduler_proofs` has three independent invariants.  `BreakerInv`: the
history never counts less than the code does (`PausedRightly`).  `SessionInv`: a
broken session ends with its run where failures are recorded, and where the
mailbox only logs its own, the inbox controls are next (`SessionsUsable`).
`RunInv`: the queue of a pool, its count of unfinished tasks and its workers
account together for every organization, and the locks are exactly those of the
on-demand tasks that hold one (`OneRun`, `NobodyDropped`, `StopsClean`,
`StandsStillWhenDead`).

### AI providers

`AIRouter_proofs` has `CircuitInv` (`OpenedRightly`) and `KeyInv`.  "In no cache
two lifetimes after it was withdrawn" is not inductive; `KeyInv` bounds the age of
every copy by where it lies: in Redis a key can be no longer withdrawn than it has
lain there, plus one tick; in the memory of a process it may have come from Redis
and lived there a lifetime more; in a request, a key that is being connected is
known to nobody else.  `StaleKeys` follows.

### Automatic approval

`AutoApproval_proofs` has one invariant in four parts.  `PatternInv`: the count a
writer has read leaves room for all decisions still being recorded, its own
included (`CountsAreDecisions`); where recordings have not overlapped, counted and
pending decisions are exactly those made (`NoDecisionLost`).  `AdminPart`: the
columns that others have not changed since a change began are, in what it loaded
and in what it wrote, as they are in the row (`OwnColumnsWritten`), and an edit
that is not stale holds the copy that is there (`CopiesAgree`).  `ExecutorPart`:
what an execution has seen of the switch (`SwitchObeyed`), and that there is room
under the cap, the unchecked steps left aside, for everyone the endpoint has let
pass (`CapBounds`).  `RequestPart`: what a request has seen
(`RuleKept`).

### Model-checked only

The liveness properties: TLAPS does not prove liveness under fairness.  The
violations are TLC's.  Every invariant and action property of a passing run is
proved, some under the hypotheses that the section above names.

## Plan

Done, in this order: `ApprovalExecution` with `GuardedEffect`; `JobQueue` with
`ExclusiveWork`; `WorkflowRun`; `WebhookDelivery` with `DeadLetterStore`;
`SyncScheduler`; `AIRouter` with `AIKeyCache`; `AutoApproval` composing
`ApprovalPattern` and `AutonomyPolicy`; proofs about each.

Left, most important first:

- the automation scheduler composed with `JobQueue` and `WorkflowRun`, once its
  jobs run as a user that exists;
- the idempotency cache for the endpoints whose effects are not guarded again in
  the database; account lockout, nonces and quotas;
- pure functions (confidence scores, digest ranking, text similarity) against
  reference definitions.

## Not modelled

Within the models: the actions that the workflow policy blocks have no handler,
so their steps are run like safe ones, and skipped.  The next retry time of a run
and its counter are left out: a due retry may come at any time.  The text of
drafts, the AI's answers and the parameters of handlers are left out: no decision
modelled here depends on them.  Whether a policy denies, a pattern matches or a
handler fails is a free choice.  Organizations are independent of each other; the
models are of one organization, but for the scheduler, which serves several.

Whole components:

* the automation scheduler: its jobs run as user 0, which a foreign key refuses,
  so on PostgreSQL it creates no run to reason about;
* the idempotency cache outside approvals: a look-up before and a write after a
  handler, which protects rows that nothing else depends on;
* account lockout, nonces, quotas and rate limits: counters with time windows that
  no component modelled here reads;
* signals: an append-only record that feeds no decision modelled here;
* CRM, finance and content services: independent rows without a protocol;
* integrations: clients of external services, which appear as outcomes;
* web pages, SDKs and migrations: presentation and generated code.

These make up most of the source, so the models cover a small part of its lines:
the part in which several actors meet over one row.  The number of properties is
kept small on purpose: one that restates a guard would add a run and no
information.
