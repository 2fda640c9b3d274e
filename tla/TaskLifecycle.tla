--------------------------- MODULE TaskLifecycle ---------------------------
(***************************************************************************)
(* The durable life of a task: its row in PostgreSQL (app/tasks/models.py), *)
(* the API requests that create, cancel and retry it (app/tasks/service.py, *)
(* app/tasks/router.py), the TaskRunners that claim it under a lease and    *)
(* execute it (app/tasks/runner.py) and the worker processes that start,    *)
(* interrupt and replace those runners (worker/main.py).                    *)
(*                                                                         *)
(* Every step is one database transaction, or the handling of one event, as *)
(* everything between two of them may interleave with the other processes.  *)
(* An event committed to the outbox is in `stream' from that moment: how it *)
(* gets to a consumer is the module EventPipeline's business, and here it   *)
(* is delivered to any worker, in any order, or lost with the worker that   *)
(* had read it.                                                             *)
(***************************************************************************)
EXTENDS Naturals, Integers, FiniteSets

CONSTANTS
    Tasks,       \* identities a task row may get
    Workers,     \* identities a worker process may get (worker_<pid>_<random>)
    Runners,     \* slots for live TaskRunner coroutines: bounds how many are live
    Clients,     \* API requests: each cancels or retries one task, once
    NoTask,      \* SQL NULL, of a task reference
    NoWorker,    \* SQL NULL, of worker_id
    NoRunner,    \* absence of an entry of active_tasks
    LeaseTime,   \* TASK_LEASE_SECONDS, in ticks of the clock
    MaxClock,    \* bound on the clock
    MaxCrashes,  \* bound on the workers that crash or are shut down
    Faults       \* whether a call to the database or to Redis may raise

ASSUME NullAssumption ==
    /\ NoTask \notin Tasks
    /\ NoWorker \notin Workers
    /\ NoRunner \notin Runners

ASSUME BoundsAssumption ==
    /\ LeaseTime \in Nat
    /\ MaxClock \in Nat
    /\ MaxCrashes \in Nat
    /\ Faults \in BOOLEAN

VARIABLES
    clock,    \* the time every process reads with datetime.now
    row,      \* the tasks table, one row per task
    retryOf,  \* its column retry_of_task_id
    events,   \* the types of the events committed for each task (event_records)
    stream,   \* how many undelivered task.queued and cancel requests there are
    proc,     \* the worker processes: off, up, stopped (see ShutDown) or dead
    runner,   \* the coroutines running TaskRunner.run under _run_task_wrapper
    active,   \* each worker's dict active_tasks
    client    \* the API requests in progress

dbVars == <<row, retryOf, events, stream>>
vars == <<clock, row, retryOf, events, stream, proc, runner, active, client>>

-----------------------------------------------------------------------------

Terminal == {"COMPLETED", "FAILED", "CANCELLED"}

\* CREATED is not here: no transaction commits it. ABSENT is a row not inserted.
Statuses == {"ABSENT", "QUEUED", "RUNNING"} \cup Terminal

NoLease == -1

Row == [status   : Statuses,
        worker   : Workers \cup {NoWorker},
        lease    : Nat \cup {NoLease},
        attempts : Nat]

NoRow == [status |-> "ABSENT", worker |-> NoWorker, lease |-> NoLease, attempts |-> 0]
NewRow == [NoRow EXCEPT !.status = "QUEUED"]

\* The two event types process_event acts on; other types it only acknowledges.
Commands == {"queued", "cancel_requested"}
EventTypes == Commands \cup {"created", "started", "completed", "failed", "cancelled"}

Phases == {"free",       \* no coroutine
           "claiming",   \* run: before the claiming UPDATE commits
           "claimed",    \* run: claimed, task.started and the refresh to come
           "executing",  \* run: awaiting the model or the agent
           "raised",     \* run: COMPLETED is committed, and the commit raised
           "failing",    \* run: in the except block, the row read again
           "releasing",  \* wrapper: in its CancelledError block
           "announcing"} \* wrapper: CANCELLED committed, its event to come

Runner == [phase   : Phases,
           worker  : Workers \cup {NoWorker},
           task    : Tasks \cup {NoTask},
           now     : Nat,      \* `now' of run, read before its first await
           claimed : BOOLEAN,  \* whether its UPDATE returned the row
           snap    : Row]      \* the attribute values its ORM object was loaded with

FreeRunner == [phase |-> "free", worker |-> NoWorker, task |-> NoTask,
               now |-> 0, claimed |-> FALSE, snap |-> NoRow]

Client == [op   : {"idle", "cancelling", "retrying", "done"},
           task : Tasks \cup {NoTask},
           seen : Statuses]

IdleClient == [op |-> "idle", task |-> NoTask, seen |-> "ABSENT"]

Live(r) == runner[r].phase # "free"

\* The lease_expiry a runner computes, from the time at which it started.
ExpiryOf(r) == runner[r].now + LeaseTime

\* lease_expiry < now, which SQL makes false for a NULL lease_expiry.
LeaseOver(t, now) == row[t].lease # NoLease /\ row[t].lease < now

\* publish: the events become part of the transaction that writes the row.
Publish(ts, types) ==
    /\ events' = [t \in Tasks |-> IF t \in ts THEN events[t] \cup types ELSE events[t]]
    /\ stream' = [k \in Commands |-> [t \in Tasks |->
                    IF t \in ts /\ k \in types THEN stream[k][t] + 1 ELSE stream[k][t]]]

Consume(kind, t) ==
    /\ stream[kind][t] > 0
    /\ stream' = [stream EXCEPT ![kind][t] = @ - 1]

\* Variant: the wrapper without its `finally'.
EndRunnerKeepsEntry(r) ==
    /\ runner' = [runner EXCEPT ![r] = FreeRunner]
    /\ UNCHANGED active

\* The coroutine ends. `finally: active_tasks.pop(task_id, None)' removes the
\* entry of its task, whichever runner the entry names.
EndRunner(r) ==
    /\ runner' = [runner EXCEPT ![r] = FreeRunner]
    /\ active' = [active EXCEPT ![runner[r].worker][runner[r].task] = NoRunner]

\* The UPDATE the ORM emits for an object loaded as snap: a column whose new
\* value equals the loaded one is not written. Nothing in its WHERE clause
\* but the id: the current row is not compared with anything.
OrmSettle(cur, snap, status) ==
    [cur EXCEPT !.status = IF snap.status = status THEN @ ELSE status,
                !.worker = IF snap.worker = NoWorker THEN @ ELSE NoWorker,
                !.lease  = IF snap.lease = NoLease THEN @ ELSE NoLease]

-----------------------------------------------------------------------------

Init ==
    /\ clock = 0
    /\ row = [t \in Tasks |-> NoRow]
    /\ retryOf = [t \in Tasks |-> NoTask]
    /\ events = [t \in Tasks |-> {}]
    /\ stream = [k \in Commands |-> [t \in Tasks |-> 0]]
    /\ proc = [w \in Workers |-> "off"]
    /\ runner = [r \in Runners |-> FreeRunner]
    /\ active = [w \in Workers |-> [t \in Tasks |-> NoRunner]]
    /\ client = [c \in Clients |-> IdleClient]

Tick ==
    /\ clock < MaxClock
    /\ clock' = clock + 1
    /\ UNCHANGED <<dbVars, proc, runner, active, client>>

-----------------------------------------------------------------------------
(* API requests                                                            *)

\* POST /projects/{id}/tasks: CREATED, QUEUED and their events in one commit.
CreateTask(t) ==
    /\ row[t].status = "ABSENT"
    /\ row' = [row EXCEPT ![t] = NewRow]
    /\ Publish({t}, {"created", "queued"})
    /\ UNCHANGED <<clock, retryOf, proc, runner, active, client>>

\* The request's session loads the task in check_task_access; the SELECT of
\* cancel_task finds it in the identity map and keeps the loaded values.
CancelRead(c, t) ==
    /\ client[c].op = "idle"
    /\ row[t].status \in {"QUEUED", "RUNNING"}
    /\ client' = [client EXCEPT ![c] = [op |-> "cancelling", task |-> t,
                                        seen |-> row[t].status]]
    /\ UNCHANGED <<clock, dbVars, proc, runner, active>>

\* Variant: the status that _enforce_transition knows as a target is stored.
CancelCommitStoresRequest(c) ==
    LET t == client[c].task IN
    /\ client[c].op = "cancelling"
    /\ row' = [row EXCEPT ![t].status = "CANCEL_REQUESTED"]
    /\ Publish({t}, {"cancel_requested"})
    /\ client' = [client EXCEPT ![c].op = "done"]
    /\ UNCHANGED <<clock, retryOf, proc, runner, active>>

\* Variant: a queued task is cancelled in place, without an event.
CancelCommitSilent(c) ==
    LET t == client[c].task IN
    /\ client[c].op = "cancelling"
    /\ IF client[c].seen = "QUEUED"
       THEN /\ row' = [row EXCEPT ![t].status = "CANCELLED"]
            /\ UNCHANGED <<events, stream>>
       ELSE /\ Publish({t}, {"cancel_requested"})
            /\ UNCHANGED row
    /\ client' = [client EXCEPT ![c].op = "done"]
    /\ UNCHANGED <<clock, retryOf, proc, runner, active>>

\* One commit: the cancel request event and, when the task was read as QUEUED,
\* status = CANCELLED whatever the row has become.
CancelCommit(c) ==
    LET t == client[c].task IN
    /\ client[c].op = "cancelling"
    /\ row' = IF client[c].seen = "QUEUED"
              THEN [row EXCEPT ![t].status = "CANCELLED"]
              ELSE row
    /\ Publish({t}, {"cancel_requested"})
    /\ client' = [client EXCEPT ![c].op = "done"]
    /\ UNCHANGED <<clock, retryOf, proc, runner, active>>

\* Variant: any task may be retried.
RetryReadAny(c, t) ==
    /\ client[c].op = "idle"
    /\ row[t].status # "ABSENT"
    /\ client' = [client EXCEPT ![c] = [op |-> "retrying", task |-> t,
                                        seen |-> row[t].status]]
    /\ UNCHANGED <<clock, dbVars, proc, runner, active>>

\* Only a task read as finished may be retried.
RetryRead(c, t) ==
    /\ client[c].op = "idle"
    /\ row[t].status \in Terminal
    /\ client' = [client EXCEPT ![c] = [op |-> "retrying", task |-> t,
                                        seen |-> row[t].status]]
    /\ UNCHANGED <<clock, dbVars, proc, runner, active>>

\* retry_task leaves the old row alone and queues a new one that refers to it.
RetryCommit(c, new) ==
    /\ client[c].op = "retrying"
    /\ row[new].status = "ABSENT"
    /\ row' = [row EXCEPT ![new] = NewRow]
    /\ retryOf' = [retryOf EXCEPT ![new] = client[c].task]
    /\ Publish({new}, {"created", "queued"})
    /\ client' = [client EXCEPT ![c].op = "done"]
    /\ UNCHANGED <<clock, proc, runner, active>>

-----------------------------------------------------------------------------
(* Worker processes                                                        *)

Start(w) ==
    /\ proc[w] = "off"
    /\ proc' = [proc EXCEPT ![w] = "up"]
    /\ UNCHANGED <<clock, dbVars, runner, active, client>>

\* process_event of a task.queued: a coroutine is created, which reads the
\* clock before it first waits, and takes the task's place in active_tasks.
HandleQueued(w, t, r) ==
    /\ proc[w] = "up"
    /\ Consume("queued", t)
    /\ ~Live(r)
    /\ runner' = [runner EXCEPT ![r] = [FreeRunner EXCEPT !.phase = "claiming",
                                          !.worker = w, !.task = t, !.now = clock]]
    /\ active' = [active EXCEPT ![w][t] = r]
    /\ UNCHANGED <<clock, row, retryOf, events, proc, client>>

\* process_event of a cancel request. The worker that got it interrupts the
\* runner its dict names; any other worker's runner goes on. CancelledError is
\* raised at the await the runner is in. With no database call in progress the
\* wrapper's block runs (Interrupt); inside one, the session is left unusable,
\* the block's own UPDATE raises and the coroutine ends (the last disjunct).
Interruptible == {"claiming", "executing", "raised", "failing"}

HandleCancel(w, t) ==
    /\ proc[w] = "up"
    /\ Consume("cancel_requested", t)
    /\ LET r == active[w][t] IN
         \/ /\ r = NoRunner
            /\ UNCHANGED <<runner, active>>
         \/ /\ r # NoRunner
            /\ runner[r].phase \in Interruptible
            /\ runner' = [runner EXCEPT ![r].phase = "releasing"]
            /\ UNCHANGED active
         \/ /\ r # NoRunner
            /\ EndRunner(r)
    /\ UNCHANGED <<clock, row, retryOf, events, proc, client>>

\* A Redis call of the consumer raises before the handler: the event stays
\* pending, no loop reads it again, and it ends in the dead letter stream.
LoseEvent(kind, t) ==
    /\ Faults
    /\ Consume(kind, t)
    /\ UNCHANGED <<clock, row, retryOf, events, proc, runner, active, client>>

\* What becomes of the events a worker that goes away had in hand. Those it had
\* read from the stream and not yet handled stay pending under its name and only
\* ever go to the dead letter stream (see EventPipeline). Those its dispatcher
\* had added and not yet marked as processed are added a second time, and
\* handled a second time if the XACK of the first raised.
LeaveEvents ==
    \/ \E lost \in SUBSET {e \in Commands \X Tasks : stream[e[1]][e[2]] > 0} :
          stream' = [k \in Commands |-> [t \in Tasks |->
                       IF <<k, t>> \in lost THEN stream[k][t] - 1 ELSE stream[k][t]]]
    \/ \E again \in SUBSET {e \in Commands \X Tasks : e[1] \in events[e[2]]} :
          /\ Faults
          /\ stream' = [k \in Commands |-> [t \in Tasks |->
                          IF <<k, t>> \in again THEN stream[k][t] + 1 ELSE stream[k][t]]]

MayLeave(w) ==
    /\ proc[w] = "up"
    /\ Cardinality({v \in Workers : proc[v] \in {"stopped", "dead"}}) < MaxCrashes

OfWorker(w) == {r \in Runners : runner[r].worker = w}

\* The process dies with its coroutines and its dict: a kill, also a SIGTERM,
\* for which the worker installs no handler.
Crash(w) ==
    /\ MayLeave(w)
    /\ proc' = [proc EXCEPT ![w] = "dead"]
    /\ runner' = [r \in Runners |-> IF r \in OfWorker(w) THEN FreeRunner ELSE runner[r]]
    /\ active' = [active EXCEPT ![w] = [t \in Tasks |-> NoRunner]]
    /\ LeaveEvents
    /\ UNCHANGED <<clock, row, retryOf, events, client>>

\* Ctrl-C, or an exception out of main: asyncio.run cancels the loops and every
\* wrapper, and waits for them. As in HandleCancel, the block of CancelledError
\* runs for the runners in `kept' and the other ones end. Nobody asked for it.
ShutDown(w) ==
    /\ MayLeave(w)
    /\ proc' = [proc EXCEPT ![w] = "stopped"]
    /\ \E kept \in SUBSET {r \in OfWorker(w) : runner[r].phase \in Interruptible} :
         LET ended == OfWorker(w) \ kept IN
         /\ runner' = [r \in Runners |->
                         IF r \in ended THEN FreeRunner
                         ELSE IF r \in kept THEN [runner[r] EXCEPT !.phase = "releasing"]
                         ELSE runner[r]]
         /\ active' = [active EXCEPT ![w] = [t \in Tasks |->
                         IF \E r \in ended : runner[r].task = t THEN NoRunner ELSE active[w][t]]]
    /\ LeaveEvents
    /\ UNCHANGED <<clock, row, retryOf, events, client>>

\* A second Ctrl-C, or a kill, before the wrappers of a stopped worker are done.
Kill(w) ==
    /\ proc[w] = "stopped"
    /\ runner' = [r \in Runners |-> IF r \in OfWorker(w) THEN FreeRunner ELSE runner[r]]
    /\ active' = [active EXCEPT ![w] = [t \in Tasks |-> NoRunner]]
    /\ UNCHANGED <<clock, dbVars, proc, client>>

\* Variant: recovery leaves the worker and the lease in the row.
RecoverKeepsLease(w) ==
    /\ proc[w] = "up"
    /\ \E t \in Tasks :
         /\ row[t].status = "RUNNING" /\ LeaseOver(t, clock)
         /\ row' = [row EXCEPT ![t].status = "QUEUED"]
         /\ Publish({t}, {"queued"})
    /\ UNCHANGED <<clock, retryOf, proc, runner, active, client>>

\* Variant: recovery publishes nothing.
RecoverSilently(w) ==
    /\ proc[w] = "up"
    /\ \E t \in Tasks :
         /\ row[t].status = "RUNNING" /\ LeaseOver(t, clock)
         /\ row' = [row EXCEPT ![t].status = "QUEUED", ![t].worker = NoWorker,
                              ![t].lease = NoLease]
    /\ UNCHANGED <<clock, retryOf, events, stream, proc, runner, active, client>>

\* Variant: a worker recovers only the tasks it had claimed itself.
RecoverOwn(w) ==
    /\ proc[w] = "up"
    /\ \E t \in Tasks :
         /\ row[t].status = "RUNNING" /\ LeaseOver(t, clock) /\ row[t].worker = w
         /\ row' = [row EXCEPT ![t].status = "QUEUED", ![t].worker = NoWorker,
                              ![t].lease = NoLease]
         /\ Publish({t}, {"queued"})
    /\ UNCHANGED <<clock, retryOf, proc, runner, active, client>>

\* recover_expired_tasks: one transaction over the expired rows it could lock
\* (SKIP LOCKED passes over the others).
Recover(w) ==
    /\ proc[w] = "up"
    /\ \E ts \in SUBSET {t \in Tasks : row[t].status = "RUNNING" /\ LeaseOver(t, clock)} :
         /\ ts # {}
         /\ row' = [t \in Tasks |->
                      IF t \in ts THEN [row[t] EXCEPT !.status = "QUEUED",
                                                      !.worker = NoWorker,
                                                      !.lease = NoLease]
                                  ELSE row[t]]
         /\ Publish(ts, {"queued"})
    /\ UNCHANGED <<clock, retryOf, proc, runner, active, client>>

-----------------------------------------------------------------------------
(* A runner                                                                *)

\* Variant: a RUNNING task is claimed whether or not its lease is over.
ClaimableInLease(t, now) == row[t].status \in {"QUEUED", "RUNNING"}

\* Variant: an old lease is enough, whatever the status.
ClaimableByLease(t, now) == row[t].status = "QUEUED" \/ LeaseOver(t, now)

\* The WHERE clause of the claiming UPDATE.
Claimable(t, now) ==
    \/ row[t].status = "QUEUED"
    \/ row[t].status = "RUNNING" /\ LeaseOver(t, now)

\* Variant: attempt_count is set, and not counted.
ClaimUncounted(r) ==
    LET t == runner[r].task IN
    /\ runner[r].phase = "claiming"
    /\ Claimable(t, runner[r].now)
    /\ row' = [row EXCEPT ![t] = [status |-> "RUNNING", worker |-> runner[r].worker,
                                  lease |-> ExpiryOf(r), attempts |-> 1]]
    /\ runner' = [runner EXCEPT ![r].phase = "claimed", ![r].claimed = TRUE]
    /\ UNCHANGED <<clock, retryOf, events, stream, proc, active, client>>

\* The conditional UPDATE ... RETURNING and its commit.
Claim(r) ==
    LET t == runner[r].task IN
    /\ runner[r].phase = "claiming"
    /\ Claimable(t, runner[r].now)
    /\ row' = [row EXCEPT ![t] = [status |-> "RUNNING", worker |-> runner[r].worker,
                                  lease |-> ExpiryOf(r), attempts |-> @.attempts + 1]]
    /\ runner' = [runner EXCEPT ![r].phase = "claimed", ![r].claimed = TRUE]
    /\ UNCHANGED <<clock, retryOf, events, stream, proc, active, client>>

\* No row returned: another runner has it, or it is finished.
SkipClaim(r) ==
    /\ runner[r].phase = "claiming"
    /\ ~Claimable(runner[r].task, runner[r].now)
    /\ EndRunner(r)
    /\ UNCHANGED <<clock, dbVars, proc, client>>

\* task.started in a transaction of its own, then the refresh of the object.
Begin(r) ==
    LET t == runner[r].task IN
    /\ runner[r].phase = "claimed"
    /\ Publish({t}, {"started"})
    /\ runner' = [runner EXCEPT ![r].phase = "executing", ![r].snap = row[t]]
    /\ UNCHANGED <<clock, row, retryOf, proc, active, client>>

\* The commit of task.started takes effect and raises, or the refresh raises:
\* outside run's try block, so the coroutine ends.
BeginRaises(r) ==
    /\ Faults
    /\ runner[r].phase = "claimed"
    /\ Publish({runner[r].task}, {"started"})
    /\ EndRunner(r)
    /\ UNCHANGED <<clock, row, retryOf, proc, client>>

\* The result, the status and task.completed in one commit.
Succeed(r) ==
    LET t == runner[r].task IN
    /\ runner[r].phase = "executing"
    /\ row' = [row EXCEPT ![t] = OrmSettle(@, runner[r].snap, "COMPLETED")]
    /\ Publish({t}, {"completed"})
    /\ EndRunner(r)
    /\ UNCHANGED <<clock, retryOf, proc, client>>

\* The same commit takes effect and raises all the same (the connection is lost
\* before the answer): inside the try block, so the except block is next.
SucceedRaises(r) ==
    LET t == runner[r].task IN
    /\ Faults
    /\ runner[r].phase = "executing"
    /\ row' = [row EXCEPT ![t] = OrmSettle(@, runner[r].snap, "COMPLETED")]
    /\ Publish({t}, {"completed"})
    /\ runner' = [runner EXCEPT ![r].phase = "raised"]
    /\ UNCHANGED <<clock, retryOf, proc, active, client>>

\* The execution raised, or the commit of its success, with or without effect:
\* rollback, and the row is read again.
Raise(r) ==
    /\ runner[r].phase \in {"executing", "raised"}
    /\ runner' = [runner EXCEPT ![r].phase = "failing", ![r].snap = row[runner[r].task]]
    /\ UNCHANGED <<clock, dbVars, proc, active, client>>

\* Variant: the failure is announced and not written.
FailUnwritten(r) ==
    /\ runner[r].phase = "failing"
    /\ Publish({runner[r].task}, {"failed"})
    /\ EndRunner(r)
    /\ UNCHANGED <<clock, row, retryOf, proc, client>>

\* The except block's write, over whatever the row has become since its read.
Fail(r) ==
    LET t == runner[r].task IN
    /\ runner[r].phase = "failing"
    /\ row' = [row EXCEPT ![t] = OrmSettle(@, runner[r].snap, "FAILED")]
    /\ Publish({t}, {"failed"})
    /\ EndRunner(r)
    /\ UNCHANGED <<clock, retryOf, proc, client>>

\* The wrapper's UPDATE after an interruption, without a condition on the row.
Release(r) ==
    /\ runner[r].phase = "releasing"
    /\ row' = [row EXCEPT ![runner[r].task] = [@ EXCEPT !.status = "CANCELLED",
                                        !.worker = NoWorker, !.lease = NoLease]]
    /\ runner' = [runner EXCEPT ![r].phase = "announcing"]
    /\ UNCHANGED <<clock, retryOf, events, stream, proc, active, client>>

\* task.cancelled in a second transaction; the CancelledError is raised again.
Announce(r) ==
    /\ runner[r].phase = "announcing"
    /\ Publish({runner[r].task}, {"cancelled"})
    /\ EndRunner(r)
    /\ UNCHANGED <<clock, row, retryOf, proc, client>>

\* A database call outside run's try block raises: the coroutine ends.
DbFault(r) ==
    /\ Faults
    /\ runner[r].phase \in {"claiming", "claimed", "raised", "failing", "releasing", "announcing"}
    /\ EndRunner(r)
    /\ UNCHANGED <<clock, dbVars, proc, client>>

-----------------------------------------------------------------------------

RunnerStep(r) ==
    \/ Claim(r) \/ SkipClaim(r) \/ Begin(r) \/ Succeed(r) \/ Raise(r)
    \/ Fail(r) \/ Release(r) \/ Announce(r)

RunnerFault(r) == BeginRaises(r) \/ SucceedRaises(r) \/ DbFault(r)

WorkerEnd(w) == Crash(w) \/ ShutDown(w) \/ Kill(w)

Next ==
    \/ Tick
    \/ \E t \in Tasks : CreateTask(t)
    \/ \E c \in Clients :
         \/ CancelCommit(c)
         \/ \E t \in Tasks : CancelRead(c, t) \/ RetryRead(c, t) \/ RetryCommit(c, t)
    \/ \E w \in Workers :
         \/ Start(w) \/ WorkerEnd(w) \/ Recover(w)
         \/ \E t \in Tasks : HandleCancel(w, t) \/ \E r \in Runners : HandleQueued(w, t, r)
    \/ \E r \in Runners : RunnerStep(r) \/ RunnerFault(r)
    \/ \E kind \in Commands, t \in Tasks : LoseEvent(kind, t)

Spec == Init /\ [][Next]_vars

\* Time passes; a worker is started; every worker's consumer and recovery
\* loops keep running (consumer.py, lease_recovery_loop); a coroutine that can
\* go on is scheduled, and the model call it waits for ends or times out; a
\* request that has been read is answered.
Fairness ==
    /\ WF_vars(Tick)
    /\ \A t \in Tasks : WF_vars(\E w \in Workers, r \in Runners : HandleQueued(w, t, r))
    /\ \A t \in Tasks : WF_vars(\E w \in Workers : HandleCancel(w, t))
    /\ \A w \in Workers : WF_vars(Start(w)) /\ WF_vars(Recover(w))
    /\ \A r \in Runners : WF_vars(RunnerStep(r))
    /\ \A c \in Clients : WF_vars(CancelCommit(c))

FairSpec == Spec /\ Fairness

-----------------------------------------------------------------------------
(* Safety                                                                  *)

\* Every variable has the type its declaration says (models.py, main.py).
TypeOK ==
    /\ clock \in Nat
    /\ row \in [Tasks -> Row]
    /\ retryOf \in [Tasks -> Tasks \cup {NoTask}]
    /\ events \in [Tasks -> SUBSET EventTypes]
    /\ stream \in [Commands -> [Tasks -> Nat]]
    /\ proc \in [Workers -> {"off", "up", "stopped", "dead"}]
    /\ runner \in [Runners -> Runner]
    /\ \A r \in Runners : Live(r) => runner[r].worker \in Workers /\ runner[r].task \in Tasks
    /\ active \in [Workers -> [Tasks -> Runners \cup {NoRunner}]]
    /\ client \in [Clients -> Client]
    /\ \A c \in Clients : client[c].op # "idle" => client[c].task \in Tasks

Holds(r, t) == Live(r) /\ runner[r].task = t /\ runner[r].claimed
InLease(r) == clock <= ExpiryOf(r)
SomeStopped == \E w \in Workers : proc[w] = "stopped"

\* Two coroutines, of one worker or of two, never both execute a task inside
\* their leases: the claim of runner.py and the recovery of main.py let the
\* next runner in only when the lease of the last is over.
LeaseExclusive ==
    \A t \in Tasks : \A r, s \in Runners :
        Holds(r, t) /\ Holds(s, t) /\ InLease(r) /\ InLease(s) => r = s

\* The row of a RUNNING task names a worker and a lease, which recovery needs
\* to find it again; a QUEUED row has neither, although runners write only the
\* columns that differ from what they had loaded.
LeaseShape ==
    \A t \in Tasks :
        /\ row[t].status = "RUNNING" => row[t].worker # NoWorker /\ row[t].lease # NoLease
        /\ row[t].status = "QUEUED" => row[t].worker = NoWorker /\ row[t].lease = NoLease

\* What was committed with a status has been announced with it: no COMPLETED
\* or FAILED without its event (runner.py), and no CANCELLED without a request
\* but by the shutdown of a worker, which cancels its wrappers unasked
\* (main.py); a crash leaves no CANCELLED that was not there.
OutcomeAnnounced ==
    \A t \in Tasks :
        /\ row[t].status = "COMPLETED" => "completed" \in events[t]
        /\ row[t].status = "FAILED" => "failed" \in events[t]
        /\ row[t].status = "CANCELLED" => "cancel_requested" \in events[t] \/ SomeStopped

\* The dict active_tasks names only live coroutines of its own worker, and of
\* the task it is keyed by, although a coroutine that ends pops the entry of
\* its task without looking whether a newer one owns it.
ActiveIsLive ==
    \A w \in Workers : \A t \in Tasks :
        active[w][t] # NoRunner =>
            LET r == active[w][t] IN
            Live(r) /\ runner[r].worker = w /\ runner[r].task = t

\* A retry is of a task that is finished, and stays so (service.py retry_task
\* reads the old row long before it commits).
RetryOfFinished ==
    \A t \in Tasks : retryOf[t] # NoTask =>
        retryOf[t] # t /\ row[retryOf[t]].status \in Terminal

\* A finished task is never queued or run again: claims, recoveries, requests
\* and late runners only take a terminal status to a terminal status.
NoResurrection ==
    [][\A t \in Tasks : row[t].status \in Terminal => row'[t].status \in Terminal]_vars

\* An outcome is only replaced by CANCELLED (a cancel that had read the task as
\* QUEUED, an interrupted runner: neither looks at the row), or by a runner that
\* holds the task. After one claim (runner.py counts them) that is the runner of
\* the outcome itself, and only to put FAILED for its own COMPLETED: the commit
\* of its success raised after it took effect. A second runner, started beside
\* one slower than its lease, replaces an outcome after two claims or more only.
OutcomeFinal ==
    [][\A t \in Tasks :
         /\ row[t].status \in {"COMPLETED", "FAILED"}
         /\ row'[t].status \notin {row[t].status, "CANCELLED"}
         => \E r \in Runners :
              /\ Holds(r, t)
              /\ runner'[r] # runner[r]
              /\ row[t].attempts = 1 => /\ row[t].status = "COMPLETED"
                                       /\ runner[r].phase = "failing"
                                       /\ runner[r].snap.status = "COMPLETED"]_vars

\* An undelivered event or a runner about to claim stands behind every QUEUED
\* task that nobody has asked to cancel, so that somebody will run it: while
\* no worker dies or stops and no database call of a runner raises.
QueuedIsPending ==
    ~Faults /\ (\A w \in Workers : proc[w] \in {"off", "up"}) =>
        \A t \in Tasks :
            row[t].status = "QUEUED" /\ "cancel_requested" \notin events[t] =>
                \/ stream["queued"][t] > 0
                \/ \E r \in Runners : runner[r].task = t /\ runner[r].phase = "claiming"

\* The task table keeps the contract stated in TaskContract.
Contract == INSTANCE TaskContract WITH
    status <- [t \in Tasks |-> row[t].status],
    lease <- [t \in Tasks |-> row[t].lease]

\* Every step of requests, workers and runners is one the contract allows.
ImplementsContract == Contract!Spec

-----------------------------------------------------------------------------
(* What the safety properties rest on                                      *)

\* A runner that executes has claimed, and one that has not got there has not.
ClaimShape ==
    \A r \in Runners :
        /\ runner[r].phase \in {"claimed", "executing", "raised", "failing"} => runner[r].claimed
        /\ runner[r].phase \in {"free", "claiming"} => ~runner[r].claimed

\* Runners read the clock in the past.
PastNow == \A r \in Runners : runner[r].now <= clock

\* The row of a task executed inside a lease carries that lease, or is finished.
LeaseRecorded ==
    \A t \in Tasks : \A r \in Runners : Holds(r, t) /\ InLease(r) =>
        \/ row[t].status \in Terminal
        \/ row[t].status = "RUNNING" /\ row[t].lease = ExpiryOf(r)

\* Runners, requests and events are about rows that exist.
RowsExist ==
    /\ \A r \in Runners : Live(r) => row[runner[r].task].status # "ABSENT"
    /\ \A k \in Commands : \A t \in Tasks : stream[k][t] > 0 => row[t].status # "ABSENT"
    /\ \A c \in Clients : client[c].op # "idle" => row[client[c].task].status # "ABSENT"
    /\ \A t \in Tasks : events[t] # {} => row[t].status # "ABSENT"

\* A runner that loaded a finished row works on a finished row.
SnapFinished ==
    \A r \in Runners :
        runner[r].phase \in {"executing", "failing"} /\ runner[r].snap.status \in Terminal
            => row[runner[r].task].status \in Terminal

\* Cancel requests on their way were asked for, and so were the interruptions of
\* runners whose worker is not being shut down.
CancelAsked ==
    /\ \A t \in Tasks : stream["cancel_requested"][t] > 0 => "cancel_requested" \in events[t]
    /\ \A r \in Runners : runner[r].phase \in {"releasing", "announcing"} =>
            "cancel_requested" \in events[runner[r].task] \/ proc[runner[r].worker] = "stopped"

\* attempts counts the claims of a row: before the first nobody holds the task,
\* after the first one runner at most does, and once that one has settled it, it
\* holds it only on its way from a commit of COMPLETED that raised.
ClaimsCounted ==
    \A t \in Tasks :
        /\ row[t].attempts = 0 => \A r \in Runners : ~Holds(r, t)
        /\ row[t].attempts = 1 => \A r, s \in Runners : Holds(r, t) /\ Holds(s, t) => r = s
        /\ row[t].attempts = 1 /\ row[t].status \in {"COMPLETED", "FAILED"} =>
               \A r \in Runners : Holds(r, t) =>
                   /\ row[t].status = "COMPLETED"
                   /\ \/ runner[r].phase \in {"raised", "releasing", "announcing"}
                      \/ runner[r].phase = "failing" /\ runner[r].snap.status = "COMPLETED"

\* A retry about to commit is of a finished task; a row not inserted has none.
RetryShape ==
    /\ \A c \in Clients : client[c].op = "retrying" =>
            row[client[c].task].status \in Terminal
    /\ \A t \in Tasks : row[t].status = "ABSENT" => retryOf[t] = NoTask

\* A row not inserted has no lease: what a new task starts from.
AbsentIsEmpty == \A t \in Tasks : row[t].status = "ABSENT" => row[t].lease = NoLease

-----------------------------------------------------------------------------
(* Liveness                                                                *)

\* A queued task that nobody asks to cancel is eventually finished, also when
\* its runner is slower than its lease and others are started beside it.
QueuedFinishes ==
    \A t \in Tasks : row[t].status = "QUEUED" ~>
        row[t].status \in Terminal \/ "cancel_requested" \in events[t]

\* A RUNNING task does not stay so, with or without a worker to run it: it is
\* finished, or recovered once its lease is over. The bounded clock makes the
\* exception: a lease that ends at MaxClock or later is never seen over.
RunningIsLeft ==
    \A t \in Tasks : row[t].status = "RUNNING" ~>
        row[t].status # "RUNNING" \/ row[t].lease >= MaxClock

-----------------------------------------------------------------------------
(* What documents and tests of the repository say, and the code does not   *)

\* test_task_lifecycle.py: cancelling a COMPLETED task is an invalid transition.
CompletedNotCancelled ==
    [][\A t \in Tasks : row[t].status = "COMPLETED" => row'[t].status # "CANCELLED"]_vars

\* IMPLEMENTATION_REPORT.md: "Async cancellation propagates to active tasks".
\* When a live worker consumes a cancel request, no runner of the task that is
\* executing stays executing.
CancelReachesRunner ==
    [][\A t \in Tasks :
         stream'["cancel_requested"][t] < stream["cancel_requested"][t] /\ proc' = proc =>
            \A r \in Runners : runner[r].task = t => runner'[r].phase # "executing"]_vars

\* IMPLEMENTATION_REPORT.md: leases make abandoned work visible after a crash.
QueuedIsLeft ==
    \A t \in Tasks : row[t].status = "QUEUED" ~> row[t].status # "QUEUED"

=============================================================================
