# AgentFlow core backend: a TLA+ model

This directory models the backend under `backend/`: the durable task queue and
its workers, the event pipeline, the admission of models, the agent that runs
inside a task, and the services round them: the event feed, the sandbox,
uploads and extractions, the audited model calls and the schema migrations.
`PROJECT.json` lists every run, the lines each definition stands for, the
hazards and the theorems.

## The system

Users create tasks over HTTP; workers execute them with a local model or an
agent. PostgreSQL holds what must survive, Redis streams carry events, and any
number of API and worker processes run beside each other.

| component | state | operations | interacts by |
|---|---|---|---|
| Task lifecycle: `tasks/service.py`, `tasks/router.py`, `tasks/runner.py`, `worker/main.py` | table `tasks` (status, worker, lease, attempts, retry_of), `event_records`; per process `active_tasks` and its coroutines | create, cancel, retry; claim, execute, settle; interrupt; recover expired leases | rows in PostgreSQL, events `task.queued` and `task.cancel.requested` |
| Event pipeline: `events/publisher.py`, `dispatcher.py`, `consumer.py` | `outbox_events`; the stream, its consumer group and pending list, `processed:` keys, `attempts:` hashes, dead letter stream; batches of each loop | publish in the caller's transaction, dispatch a batch, read, check the key, handle, acknowledge, reap | rows, Redis calls, the handler callback |
| Resource manager: `models_ai/resource_manager.py` | loaded models with active requests, number of waiters | acquire, wait, evict, release, lease | an `asyncio.Condition`, a measured snapshot, an unload callback |
| Agent: `agents/graph.py`, `executor.py`, `orchestrator.py`, `approval.py`, `trace_store.py` | plan, current step, retry count, error, traces, approvals | plan, execute, observe, reason, decide an approval | called by the runner; commits in the runner's session; publishes events |
| Realtime: `realtime/manager.py` | connections per project, last ids of the streams | connect, disconnect, broadcast, tail the streams | Redis streams, WebSockets |
| Sampler: `monitoring/sampler.py` | table of metrics | sample, commit, publish | outbox |
| Auditor: `security/application_auditor.py` | bounded history, counters | record, classify, report | HTTP hooks |
| Sandbox: `sandbox/runner.py` | a container, its output so far | create, start, read, time out, remove | Docker |
| Routing: `models_ai/router.py`, `router_v2.py`, `registry.py` | tables, a health map | select, run with fallbacks | providers |
| Workflow: `workflow.py` | a graph | validate, compile | none |
| Workspace: `workspace/*` | files, chunks with embeddings | upload, chunk, embed | PostgreSQL, a model |

What is hard here: several writers of one row that do not look at it (the API,
late runners, interrupted runners, recovery); leases that end under a runner
that goes on; events delivered late, twice, to the wrong worker or not at all;
processes that die between two awaits; and errors of a call that had its
effect. `PROJECT.json` lists the hazards line by line.

What makes each component correct:

* lifecycle: no two runners inside their leases; a finished task stays
  finished; an outcome is announced and nearly always final; nothing stays
  RUNNING for ever, nor QUEUED while no worker dies;
* pipeline: nothing committed is dropped in silence, nothing is handled twice
  without an error that explains it, everything settles;
* resource manager: a model is never unloaded under an active request, counts
  are exact, waiters are bounded, leave, and miss no wake-up;
* agent: bounded plans, success only where the model judged a passed tool, no
  tool run or planned while an approval is awaited, an outcome stored while
  the database lets it;
* realtime: the tail leaves no entry out, a broadcast reaches every open
  connection unless somebody left while it was under way;
* sandbox: the call ends and the container is gone on every way out;
* workspace: the chunks of an extraction are there whole or not at all, unless
  it was cancelled;
* model calls and auditor: no call unrecorded, what was admitted is given back,
  the report agrees with everything that was recorded, a slow stream loses the
  oldest envelopes only;
* migrations: the chain adds up to the models, also after going down again, all
  but the tables `users` and `project_members`, which no migration creates (see
  Departures).

## Modules

| module | what it is |
|---|---|
| `TaskLifecycle` | the task row, API requests, workers and runners |
| `TaskContract` | what the task table promises; `TaskLifecycle` implements it (`ImplementsContract`) |
| `MCTaskLifecycle` | TLC instances (symmetry) |
| `TaskLifecycleProofs` | theorems about `TaskLifecycle` |
| `EventPipeline` | outbox, dispatchers, stream, consumers, reapers |
| `EventDelivery` | what the pipeline promises; `EventPipeline` implements it (`ImplementsDelivery`) |
| `MCEventPipeline` | TLC instances (symmetry) |
| `EventPipelineProofs` | theorems about `EventPipeline` |
| `ResourceManager` | leases of local models, waiting and eviction under one condition |
| `MCResourceManager` | TLC instances |
| `ResourceManagerProofs` | theorems about `ResourceManager` |
| `AgentRun` | one agent task: graph, executor, approval gate, orchestrator, the runner's commit |
| `MCAgentRun` | TLC instances |
| `AgentRunProofs` | theorems about `AgentRun` |
| `Realtime` | the feed of one project: stream tail, broadcast, connections |
| `Sandbox` | one call of `run_in_sandbox` and the Docker daemon |
| `Ingestion` | uploads of a file and extractions of it into chunks |
| `AuditedCalls` | calls of `OllamaProvider`, admission facade, auditor, event streams |
| `SchemaMigration` | the Alembic chain and the tables the models expect |
| `MCServices` | TLC instance of the last five |
| `RealtimeProofs`, `AuditedCallsProofs` | lemmas about `Realtime` and `AuditedCalls` |
| `ServicesProofs` | lemmas about the other three, theorems about all five |

### TaskLifecycle

A step is one transaction, or the handling of one event. `row` is the table;
`events` the types committed to `event_records`; `stream` counts the events
that are committed and not yet delivered; `proc`, `runner` and `active` are the
processes, their coroutines and the dict `active_tasks`; `client` are requests.

* `CancelRead`/`CancelCommit`, `RetryRead`/`RetryCommit`: a request reads the
  row in `check_task_access` and commits later. The ORM session keeps what it
  read (`expire_on_commit=False`, identity map), so the commit acts on `seen`.
* `HandleQueued`, `HandleCancel`: `process_event`. A cancel interrupts at the
  await the coroutine is in. With no database call in progress the wrapper's
  block runs (`Release`, `Announce`); inside one the session is unusable, the
  block's own UPDATE raises and the coroutine ends.
* `Claim`, `SkipClaim`, `Begin`, `Succeed`, `Raise`, `Fail`: `TaskRunner.run`.
  `SucceedRaises` is the commit of a success (`runner.py:108`) that takes effect and
  raises: it is inside the `try`, so the runner goes on to `Raise`, reads the row
  again as COMPLETED and writes FAILED over it. `BeginRaises` is the commit of
  `task.started`, outside the `try`: the coroutine ends.
  `OrmSettle` is the UPDATE the ORM emits: only columns that differ from the
  values loaded (`snap`), and no condition on the current row.
* `Recover`: `recover_expired_tasks`, over any set of expired rows not locked.
* `DbFault`, `LoseEvent`: a call raises, without effect.
* `Crash`: the process dies with its coroutines. A SIGTERM is one too, since the
  worker installs no handler for it.
* `ShutDown`: a Ctrl-C, or an exception out of `main`. `asyncio.run` cancels every
  `_run_task_wrapper`, which commits CANCELLED as if it had been asked to (`Release`,
  `Announce`), or ends where a database call was in progress. `Kill` ends a worker
  that is being shut down.

Delivery is taken from the pipeline's contract: an event not yet delivered goes
to any worker in any order (`Consume`), is lost by an error or with the worker
that had read it (`LoseEvent`, `LeaveEvents`), and may come again after the end of a
dispatcher (`LeaveEvents`, second disjunct). `EventPipeline` shows that this is what
the pipeline does: an event is lost or comes back only in a step where
something goes wrong. Second deliveries are modelled together with the end of a
worker, so the bound on those (`MaxCrashes` counts crashes and shutdowns) bounds them; two errors alone can also cause one.

Left out: projects and access checks, payloads, heartbeats (written at the
claim and by recovery and read by nothing), and the recovery loop of a process
whose consumer has stopped.

### EventPipeline

A step is one transaction or one Redis call. Entries are positions in `log`;
`pending` is the group's pending list. A call that raises (`Fault`) may have had
its effect or not; `faults` counts them. The order of a dispatcher's batch is
left open, since `created_at` is the time at which a transaction began. Time is
left out: any pending entry may have been idle for thirty seconds.

Left out: the expiry of idempotency keys after a day, envelopes that do not
parse (the publisher writes none) and the creation of the consumer group.

### ResourceManager

A step is the code between two awaits that may suspend. `pc` says where each
request is in `acquire`, in its inference or in `release`; `lock` is the request
that holds the condition's lock across an await (a snapshot, an unload
callback); `loaded` and `active` are `_loaded`, `waiters` is `_pending`, `late` the
requests whose deadline has passed. `replaced` is history: the models whose
entry `Grant` has overwritten.

* `EnterLoaded`, `EnterFull`, `EnterPending`: `acquire` up to the first snapshot.
* `Snapshot...`, `Unloaded`, `UnloadRaises`: one turn of the loop. A snapshot finds
  the memory unavailable, enough or short; nothing relates two snapshots, since
  the runtime and other programs use the memory too.
* `TimeOut`, `Resume`, `Expire`, `LeaveCancelled`: the ways out of
  `condition.wait()`, each of which first queues for the lock.
* `Finish`, `Release`, `Evict`, `Cancel`. A release that queues for the lock can be
  cancelled after the lease has been marked (`leaked`). With the provider and
  callback of the product no await under the lock suspends and this cannot
  happen; `ResourceProvider` and `unload_callback` allow it.

Left out: which idle model is unloaded first, and the execution mode of a lease.
The facade `GPUResourceManager` is in `AuditedCalls`: a provider makes one of its own
and calls it once at a time, so its waiters can only time out.

### AgentRun

A step is a node of the graph, with the edge that follows it, or what the
orchestrator and the runner do with the result. `node` is the node to run next,
`supersteps` what LangGraph counts, `plan`, `current_step_index`, `step_count`,
`retry_count` and `status` are the fields of `AgentState`, `lastResult` the success
of the last step result, `approval` the request in the gate. `session` is the
database session that trace, events and the task's outcome share: a flush that
fails leaves it unusable until it is rolled back.

* `PlanAccepted`, `PlanRefused`: `plan_node`. What the model answers is a choice.
* `ExecuteNothing`, `AskApproval`, `ExecuteInjected`, `ExecuteDefault`: `execute_node`. The
  default executor records a `ToolExecution` whose `plan_step_id` is an id that
  `execute_node` made up and no row of `plan_steps` has; its flush raises, the trace in the
  except clause raises too, and the graph ends. So with the default executor a
  tool runs at most once, whatever it returns; runs with an injected executor go
  through the whole graph.
* `Observe`, `ReasonFailed`, `ReasonToolFailed`, `ReasonToolPassed`, `Continue`.
* `Decide`: the gate decides, and decides again. Nothing resumes the graph.
* `TraceRaises`, `OutOfSteps`, `OrchestratorReturns`.
* `StoreCompleted`, `StoreFailed`, `StoreFails`: the runner. The commit of the success may
  raise with or without effect; then the except block stores FAILED. With `database`
  "down" (chosen at the start) that block's own row read, publish or commit may
  raise too: the coroutine ends and a RUNNING row is `ABANDONED`, which is where recovery
  (`TaskLifecycle`, `RunningIsLeft`) takes over.

The cancellation of a run, its lease and the row of the task are `TaskLifecycle`'s,
where `Succeed`, `SucceedRaises`, `Fail` and `DbFault` are what `StoreCompleted`, `StoreFailed`
and `StoreFails` are here.

Left out: arguments and results of tools, the texts for the model, and the answers of the approval endpoints, which change no task.

### Realtime

A step is what the event loop does between two awaits: an `XREAD` that starts or
ends, one message up to its first send, one send up to the next. A broadcast is
`target`, `cursor` and `attached`: Python walks the live list by index, so that a
`Leave` shifts the list under the walk, and a list whose room was deleted and made
anew is another list. `delivered` is history. One project and one stream: the
tail treats its streams alike.

An `XREAD` returns at most `ReadCount` entries (ten in the code), and those that are left
come with the next one.

Left out: the token and the membership check, which change no state.

### Sandbox

`pc` is the place of the call, `create`, `start` and `removals` are the docker
processes, `container` is what the daemon holds. The program in the container
ends, loops, or prints more than the pipe and the readers take. `Cancel` is the
cancellation at the await the call is at, as often as `MaxCancels`; `cut` notes that
one hit the final clean-up before its process was made.

Left out: the archive, the output, and the limits given to docker.

### Ingestion

`disk` is whose bytes the file holds, `torn` between the truncation and the last
write. Extractions look at the file, then at the row, then at the file again
(`StartExtract`, `Parse`), embed chunk by chunk and commit once. `ocr` is the flag of
`get_ocr_engine`, which is set before the engine is loaded.

What `chunk_and_embed` has added when it breaks off is still in the session, and the
next commit there would store it. After an error or the tool's timeout (`EmbedFails`)
that would be the record of the failure, whose flush raises (`RecordFails`), so all
is rolled back. After a cancellation (`Interrupt`) it is the wrapper's commit of CANCELLED,
which does store it: `CancelledError` is no `Exception`, nothing in between rolls back.
A commit of the chunks that raises took effect or did not (`CommitBreaks`).

Left out: the parsers' texts (a number of chunks), and the resolution of paths.

### AuditedCalls

Every operation of the auditor is one step: it never awaits inside its lock.
`log` is history, of which `history`, the counters and the last external
connection are what the code keeps. A provider is used by one caller at a time.
A stream is `subscribed` when the endpoint has made its queue, and `streaming` once
the generator runs, whose `finally` is what unsubscribes.

Left out: bytes, which no caller gives, and the time stamps.

### SchemaMigration

A migration is a record of the tables and columns it creates, drops, adds,
removes and relaxes; `Run` applies a path of them in one transaction as `env.py`
does, and stops at the first that the database or Alembic refuses: a table that
is there or is not, a required column added to rows, a constraint without a
name. Between two calls the release that goes with the revision inserts rows.
`Migrated` holds the columns the SQLAlchemy models write.

Left out: types (but for the cast of `tier_used`), indexes, actions of foreign keys.

### MCServices

The five services share no state. One run chooses one of them in `component` and
holds the variables of the others at `Absent`, so every behaviour is one of a
single service, and each property is asked of its own. They are
instances (`RT`, `SB`, `ING`, `AC`, `SM`) and keep their own names; the fairness is
`Sandbox`'s, restricted to its behaviours.

## Runs

| run | instance | shows |
|---|---|---|
| `lifecycle_race` | 1 task, 2 workers, 3 runners, 1 request, lease 1, clock 2, 1 crash or shutdown, errors | types, leases, `active_tasks`, what has been announced, which outcome replaces which, finality, the contract |
| `lifecycle_pending` | 2 tasks, 1 worker, 2 runners, 1 request, clock 2, nothing fails; fair | a QUEUED task has an event or a runner, finishes, and retries are of finished tasks |
| `lifecycle_recovery` | 1 task, 2 workers, 2 runners, clock 4, 1 crash or shutdown, errors; fair | a RUNNING task is left, after a crash too |
| `pipeline_faults` | 1 event, 2 workers, 1 crash, 2 errors | nothing dropped, no handling twice that no error explains, the delivery contract |
| `pipeline_batches` | 2 events, batches of 2, 2 workers, 1 crash | dispatchers do not collide, a batch is finished, the delivery contract |
| `pipeline_settles` | 1 event, 2 workers, 1 crash, 1 error; fair | every event is handled or dead-lettered |
| `resources_leases` | 3 requests, 2 models, one with fallback, a queue of 2; fair | counts are exact, no wake-up is missed, no model in use is unloaded unless its entry was overwritten, waiters leave |
| `agent_run` | 2 tools, one of them to be approved, both executors; fair | success is earned, plans are bounded, a pause holds, an outcome is stored unless the database fails the except block |
| `services` | one of five services per behaviour; fair sandbox | see below |
| `find_completed_cancelled` | 1 task, 1 worker, 1 request | violated: a COMPLETED task becomes CANCELLED |
| `find_unload_in_use` | 2 requests, 1 model | violated: a model is unloaded under a request |
| `find_failed_completed` | as `agent_run` | violated: a run that failed is stored as COMPLETED |

`services` shows: a broadcast reaches every connection that stays (`ReachesAll`) and the
tail has no gap (`TailHasNoGap`); a sandbox call ends and its container is gone
(`CleanedUp`); extractions are whole unless cancelled (`WholeExtractions`); calls are recorded and
given back (`CallsAccounted`), the report is true (`ReportTrue`), streams keep the newest
envelopes (`StreamsKeepNewest`); upgrades fit the models (`UpgradesFit`).

Bounds. A lease of one tick and a clock of two or more let a lease end, a
second runner claim, and the first go on and write. Three runners are a claim,
the recovery's and a duplicate's. The request is a cancel that has read the row as QUEUED or
as RUNNING and commits whenever it likes; a second one beside three runners is too many states. One crash or shutdown leaves one process, and rows touch each other
only through retries, so two tasks appear only where retries are checked. Two
errors are what a second handling takes (a duplicate and an XACK that raises),
and one dispatcher's batch and one reader's batch are what loops forget.
`MaxAttempts` is 2 (1 with batches) where the code has 4: the count is only
compared with it. Three requests are two
for one model and one that wants its memory, and exceed a queue of two where
the code has eight. Deadlock is not checked: the clock stops at its bound,
requests are made once, and a system whose tasks are finished has nothing to do.

In `agent_run` `MaxRetries` is the code's default, plans have up to two steps and
the step limit (2, the default is 10) ends a run in its second plan, so that passes
and failures alternate in one run;
18 supersteps (LangGraph's default is 25) are fewer than the longest such run takes and more
than `PlansBounded` needs to be broken, so that the recursion limit is met and does
not hide the other two. In `services`: three entries are one that `$` passes
over, one that answers it and one after it, and reads of two (`ReadCount`) are cut short by them; and two clients are the one that
leaves and the one behind it in the list; two cancellations are one and the one
that meets its clean-up; two uploads and two extractions overwrite and read the
same path; three recorded calls are more than a history and a queue of
two hold; the tables that rows are put into (`Filled`) are those some
migration adds to, drops or empties, and their parents.

Fairness. `lease_recovery_loop` and `consume` catch exceptions and loop, so
recovery and the handling of a stream that is not empty are weakly fair; a
coroutine is scheduled again, and its model call has a timeout, so a runner's
next step is; a request that was read is answered; the clock moves. Crashes,
errors, lost events and new requests are never fair. `RunningIsLeft` excepts a
lease that ends at `MaxClock`, which the bounded clock never passes. In
`EventPipeline` the three loops of a process that is alive go on. In
`ResourceManager` an `asyncio.Lock` is first come, first served, so a request that
needs it has it in the end (strong fairness), and deadlines pass; nobody has to
cancel or evict. In `AgentRun` the coroutine goes on (`Step`): the calls of the model and of the tools
have timeouts; those of the database have none, and are assumed to return or to raise, as
they are for runners and requests in `TaskLifecycle`; nobody has to decide an approval. In `Sandbox` the call goes on,
since its own timeout fires, and the daemon answers commands; no program has to
end and no cancellation has to come.

### Departures without a run

What a definition or a document says and the code does not do. The first five
are defined in their modules next to the properties, and are violated when they are
added to a cfg.

* `CancelReachesRunner` (`TaskLifecycle`, 1 task and 2 workers): the consumer group
  hands `task.cancel.requested` to one worker, which may not be the one that runs the task.
* `QueuedIsLeft` (`TaskLifecycle`, fair, 1 crash): a worker dies with `task.queued` read and
  not handled; the reaper never hands it to a handler and the task stays QUEUED.
* `DeadLetterWasTried` (`EventPipeline`): the reaper counts its own claims as attempts.
* `DispatchedIsSent` (`Realtime`): the dispatcher writes the field `envelope`
  (`events/dispatcher.py`), the tail looks for `payload` (`realtime/manager.py:87`):
  nothing that goes through the outbox reaches a WebSocket.
* `HeadHasMembers` (`SchemaMigration`): no migration creates `users` and `project_members`.
* The record of a tool execution names a plan step that no row has (`executor.py:88`),
  so a task whose plan calls a tool through the default executor fails, after the tool
  ran, and its `agent.step.started` has no end event.
* A failed result from before an approval was asked for is judged again and clears
  the plan that awaits the approval (`graph.py:214`).
* An upload truncates the file of the same name before its row is committed
  (`workspace/router.py:53`); a failure leaves the old row with other bytes.
* The sampler publishes its event after the commit and commits no more
  (`monitoring/sampler.py:60`): the event is rolled back.
* A commit of a success that takes effect and raises leaves `task.completed` and `task.failed`
  both published, and the task FAILED (`runner.py:108`).
* The shutdown of a worker cancels its tasks for good (`worker/main.py:141`): they are
  CANCELLED, which nothing queues again, although nobody asked for it.
* A worker that dies between the commit of CANCELLED and `task.cancelled` (`worker/main.py:42`)
  leaves the status without its event.
* A cancelled extraction leaves its first chunks in `document_chunks` (`worker/main.py:42`
  after `embedding_service.py:38`).
* A disconnect during a broadcast shifts the list under the walk, and the next connection
  gets nothing (`realtime/manager.py:39`); `ReachesAll` is about the other broadcasts.
* The auditor records the decision `blocked` and the call is made all the same.
* An event stream whose generator is never started leaves its queue subscribed.

## Proofs

`TaskLifecycleProofs` proves, for every set of tasks, workers, runners and
requests, every lease time and every bound, with crashes and errors:

* `TypeCorrect`, `LeaseExclusion`, `LeaseShapeKept`, `ActiveEntriesLive`,
  `FinishedForever`;
* `OutcomesAnnounced`, `RetriesOfFinished`, `QueuedHasRunner`, `OutcomesFinal`;
* `ContractImplemented`: `TaskLifecycle` implements `TaskContract`.

The assumptions are `NullAssumption` (the null values are none of the others)
and `BoundsAssumption` (the bounds are numbers). The inductive invariant is

    IInv == TypeOK /\ RowInv /\ LeaseInv
    RowInv == SnapFinished /\ RowsExist /\ ActiveIsLive /\ LeaseShape
    LeaseInv == PastNow /\ ClaimShape /\ LeaseRecorded /\ LeaseExclusive

`LeaseExclusive` is not inductive: that nobody can claim a task executed inside
a lease needs the row to carry that lease (`LeaseRecorded`), that the claimer
compares it with a time not in the future (`PastNow`), and that a runner that
executes has claimed (`ClaimShape`). `NoResurrection` needs that a column the
ORM does not write already had a final value (`SnapFinished`): a runner that
had loaded CANCELLED and fails does not write over it, and nothing can have
reopened the row since. `LeaseShape` needs `RowsExist`. The steps are not taken action by action
each time: `RowChange` and `RunnerChanges` reduce every action to what it does
to one row (`RowStep`) and to one runner (`RunnerChange`), and the other lemmas
are about these.

The second half of the theorems rests on `IInv` and on a second invariant, about
what was announced and who can still write:

    OutcomeInv == OutcomeAnnounced /\ CancelAsked /\ ClaimsCounted /\ RetryShape
                  /\ RetryOfFinished /\ AbsentIsEmpty /\ QueuedIsPending

* `OutcomeAnnounced` needs `CancelAsked`: a runner releases a task as CANCELLED
  because it was interrupted, long after the request; that the request's event is
  committed must be carried through the stream and the interrupted coroutine. A worker
  that is shut down interrupts unasked: `SomeStopped` is the one exception, and a
  `Crash` leaves none.
* `OutcomeFinal` needs `ClaimsCounted`: `attempts` is written by claims only, so a
  row claimed once has one runner that may still write, and after that one has
  settled it none, but the same one on its way from a commit of COMPLETED that raised.
  So COMPLETED becomes FAILED after one claim only by the runner of both, and FAILED
  becomes COMPLETED only after two; CANCELLED may replace either at any time.
* `RetryOfFinished` needs `RetryShape`: between its read and its commit the task
  a retry read as finished stays finished, which is `NoResurrection` again.
* `QueuedIsPending` needs `CancelAsked` and `ActiveIsLive`: the runner that an event
  would start exists already only if it is alive, and only a cancel that was asked
  for, a crash or an error takes the runner or the event away.

The refinement is proved step by step (`ContractStep`): `Tick` is `Pass`, `CreateTask` and
`RetryCommit` are `Submit`, `Claim` is `HandOver` (the lease it wrote is not later than a lease from
now, by `PastNow`), `Recover` is `Requeue`, `CancelCommit`, `Succeed`, `Fail` and `Release` are `Settle`
or a stutter, and every other action is a stutter. `Submit` needs `AbsentIsEmpty`.

`ResourceManagerProofs` proves, for every finite set of requests, all models and
every queue length:

* `PendingCounted`, `LeasesCounted`, `WakeupsKept`, `UnloadsIdle`.

The assumption is `ManagerAssumption`: finitely many requests (so that they can be
counted), `MaxPending` a number, `NoRequest` no request. The invariant is

    IInv == TypeOK /\ LockHeld /\ PendingExact /\ CountsLeases /\ NoMissedWakeup

`LockHeld` says which requests are inside the lock; without it a rejection could
give away another's lock. `PendingCount` and `LeaseCount` turn what a step does to
one request into what it does to the two cardinalities, and `StepCases` reduces
the ways out of the `try` block to a grant or a rejection. `UnloadsIdle` rests on
`CountsLeases`: an idle model whose entry was never overwritten has no lease.
So `find_unload_in_use` has one cause, the overwriting.
`ManagerTyped` states the types of the same invariant.

`EventPipelineProofs` proves, for every finite set of events, all workers, batch
sizes and numbers of attempts, with crashes and errors:

* `NothingLost`, `EntriesHandledOnce`, `EventsSentOnce`, `EventsHandledOnce`, `PipelineTyped`;
* `DeliveryImplemented`: `EventPipeline` implements `EventDelivery`.

The assumption is `LimitsAssumption`: finitely many events, and limits that are
numbers. The invariant has two halves, which meet only in the stream:

    IInv == DispatchInv /\ ConsumeInv
    DispatchInv == DispatchTypes /\ Locks /\ LogPaid /\ Written /\ Sound
    ConsumeInv == ConsumeTypes /\ Batches /\ Reaped /\ Counted /\ SkipSafe

For the dispatchers (`DispatchInv`), an event is `Claimed` when its row is marked or
a live transaction has sent it: a claimed event is in the stream (`Written`), and
without a failure an entry is of a claimed event and the only one (`Sound`), as
no two transactions lock one row (`Locks`). `LogPaid` counts: an entry is the first of
a claimed event, or a crash or an error has made up to `FetchLimit` claims void and is
charged for all events. So the stream stays within `MaxEntries`, the domain on which
`attempts` and `handled` are total.

For the readers (`ConsumeInv`), `NothingDropped` is not inductive: an entry whose key was
set is acknowledged without its handler, so whoever skips it relies on another entry.
`SkipSafe` says that there is one, for each key that is set and for each consumer
about to skip: an entry read, pending, dead-lettered or handled (`Rescued`) that nobody will
skip any more (`Passed`). It needs `Batches`: no entry is in two batches, so that
the entry that set a key is not skipped by another consumer. A consumer that sets
a key and then dies leaves an entry that is passed and pending: not lost, not
handled either, and only a reaper moves it on, to the dead letter stream. A step of the dispatchers
extends the stream (`Extends`), a step of the readers leaves it alone (`Aside`), and
that is all the other half needs to know.

`EventsHandledOnce` adds `GivenPaid`: of the entries of one event, those given to a handler
are no more than the calls that raised, and one more if the key is set. Setting
the key is what pays for a handling, and the key is removed only in the wake of an error.
`DeliveryImplemented` adds `DeliveryInv == LogCommitted /\ SkipJustified`: what is in the
stream was committed, and who skips an entry does so while the key is set or after
a handler got the event. The refinement mapping is `Fate`, the best of what became of
an event's entries. A step in which nothing crashed and nothing raised changes no
fate except that `Publish` is the contract's `Commit` and `Handle` its `Deliver`; in
all others the contract allows any loss, and charges it to `trouble`.

`AgentRunProofs` proves, for every set of tools, plans of every length and all limits:

* `RunTyped`, `SuccessEarned`, `PlansWithinLimits`, `PauseKept`.

The assumption is `LimitsAssumption`: the limits are numbers and `MaxSteps` is not zero
(with zero a run would make one plan more than the bound says). The invariant is

    IInv == TypeOK /\ Place /\ EndJudged /\ StartedIsError /\ Budget
            /\ PlansBounded /\ Unapproved /\ SuccessIsEarned

`PlansBounded` is not inductive: `Budget` says that whoever is at the plan node has a
plan left, bought by a retry after a failure or found under the step limit after
a pass. `Place` keeps a run that waits away from the planner and the executor; it
rests on the edge after the reason node (`ContinueCases`), which looks at the
approval before it looks at the plan.

`ServicesProofs` proves, for all sets of clients, uploads, providers, streams and tables,
every number of cancellations, chunks and entries, and every capacity:

* `ServicesTyped`, `ExtractionsWhole`, `CallsStayAccounted`, `ReportStaysTrue`, `StreamsHoldNewest`,
  `RemovalsFollow`, `TailReadsOn`, `BroadcastsReachAll`.

The assumption is `ServicesAssumption` of `MCServices`: the bounds are numbers, clients and
providers are finitely many, and a subscriber's queue holds something (`asyncio.Queue`
takes a maximum of zero for none; the code's default is 64). `ServicesInv` says that a
behaviour is of one service and that this service's own invariant holds:

* `RealtimeInv == RT!TypeOK /\ Follows /\ Members /\ Walk`. `ReachesAll` is about one step and
  needs the whole walk: a room that nobody left during it has been sent to up to the
  cursor (`Reached`), it holds every open connection and each once, and those marked dead are
  not open (`Members`), so that cleaning up after one broadcast takes nobody from the next.
  A connection that joins goes behind the cursor. `Follows`, for the tail, says that a
  batch goes on where the pointer stands, or where `$` was while there is none.
* `AuditorInv == AC!TypeOK /\ Shape /\ AC!CallsAccounted /\ AC!ReportTrue /\ Fed`. `ReportTrue`
  needs that the history is the end of the log at every length (`NewestIsSuffix`,
  `NewestOfAppend`). `StreamsKeepNewest` needs `Fed`: what waits for a subscriber is a run without gaps
  that ends with the last event (`Gapless`), also where an event dropped the oldest.
* `IngestionInv == ING!TypeOK /\ Extracted`: of an extraction under way no chunk
  is committed, and of another all it had added or none, where all it had added is the whole
  text unless it was cancelled. A row of `files` is never taken back, which keeps `file_id` good.
* `SandboxInv == SB!TypeOK /\ Removed /\ SB!RemovalFollows`: `Removed` bounds the removals by the place
  of the call (two at most), and says that a create still under way when the call
  cleans up means that the call was cancelled, and then nothing starts the container.
* `SchemaMigration`'s types: a path of migrations leaves rows only in tables that were
  filled and still exist (`RunKeepsRows`).

`Without` (a room without some connections) and `Run` (a path of migrations) are recursive
functions. Facts about them go by induction on a set of numbers (`Induction`, from the
well-foundedness of `<` in the library): that the defining equation has a solution
(`KeptExists`, `StatesExist`), that the function chosen satisfies it (`WithoutKeeps`, `StatesLead`), and
then what it returns (`WithoutIn`, `RunKeepsRows`).

Model-checked only: all liveness (`QueuedFinishes`, `RunningIsLeft`, `EventSettles`, `WaiterLeaves`,
`OutcomeStored`, `CleanedUp`), since the prover has neither `ENABLED` nor fairness; and `UpgradesFit`,
which speaks of one fixed chain of migrations: its schemas are few, TLC meets them all, and a
proof would evaluate tables of column names. `RemovalFollows`, which no run checks, is the
safety half of `CleanedUp`: whenever the call has ended, the removal is done or under way.

## Not modelled

* The routing tables, `registry.py` and `catalog.py`: a first match in a table that the
  program fills once; nothing in the program writes the persistent catalog.
* `workflow.py`: a check of a graph that keeps no state. `artifacts/`: a
  checksum and a file. `auth.py`, `audit.py`: stateless checks, an append.
* `monitoring/`: one loop of two calls (see above); its lost event needs no model.
* `main.py`, `db.py`: wiring. The filesystem tools and `document.query`: input and output.
* `agents/planner.py` and `agents/validator.py`: imported by nothing.
* Of the event pipeline: the expiry of idempotency keys after a day (time is left
  out; a copy that late needs all workers to be down for a day), envelopes that do not
  parse, and the creation of the group.

## Plan

1. done: `TaskLifecycle`*, `TaskContract`, `EventPipeline`*, `EventDelivery`.
2. done: `ResourceManager`*.
3. done: `AgentRun`*.
4. done: `Realtime`*, `Sandbox`*, `Ingestion`*, `AuditedCalls`*, `SchemaMigration`*.
5. done: the refinements of `TaskLifecycle` and `EventPipeline`, and a theorem for every safety
   property of a passing run but `UpgradesFit`.
6. left, proofs: the safety halves of the liveness properties of `TaskLifecycle` and `EventPipeline`
   (what each fair step brings nearer); `UpgradesFit`, from the schema of each revision.
7. left, models: `AgentRun` composed with the runner of `TaskLifecycle`, so that
   cancellations and lost leases meet the nodes of the graph.

(* with proofs.)
