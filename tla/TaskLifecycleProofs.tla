------------------------ MODULE TaskLifecycleProofs ------------------------
(***************************************************************************)
(* Theorems of TaskLifecycle, for all tasks, workers, runners and requests, *)
(* every lease time and every bound on the clock and the crashes.           *)
(***************************************************************************)
EXTENDS TaskLifecycle, TLAPS

-----------------------------------------------------------------------------
(* Facts about the operators the actions are built from                    *)

LEMMA FreeRunnerType == FreeRunner \in Runner
BY DEF FreeRunner, Runner, Phases, NoRow, Row, Statuses, NoLease

LEMMA NewRowType == NoRow \in Row /\ NewRow \in Row
BY DEF NoRow, NewRow, Row, Statuses, NoLease

\* publish keeps the event log and the undelivered events well typed.
LEMMA PublishType ==
    ASSUME NEW ts, NEW types \in SUBSET EventTypes, TypeOK, Publish(ts, types)
    PROVE  /\ events' \in [Tasks -> SUBSET EventTypes]
           /\ stream' \in [Commands -> [Tasks -> Nat]]
BY DEF TypeOK, Publish

\* An ORM write of an outcome leaves a row with that status, or with the
\* status it had when the object was loaded with the outcome already.
LEMMA OrmSettleType ==
    ASSUME NEW cur \in Row, NEW snap \in Row, NEW s \in Terminal
    PROVE  /\ OrmSettle(cur, snap, s) \in Row
           /\ OrmSettle(cur, snap, s).status = IF snap.status = s THEN cur.status ELSE s
           /\ OrmSettle(cur, snap, s).lease \in {cur.lease, NoLease}
           /\ OrmSettle(cur, snap, s).worker \in {cur.worker, NoWorker}
           /\ OrmSettle(cur, snap, s).attempts = cur.attempts
BY DEF OrmSettle, Row, Statuses, Terminal, NoLease

\* The other updates of a row and of a runner that the actions make.
LEMMA RowUpdateType ==
    ASSUME NEW x \in Row
    PROVE  /\ [x EXCEPT !.status = "CANCELLED"] \in Row
           /\ [x EXCEPT !.status = "CANCELLED", !.worker = NoWorker, !.lease = NoLease] \in Row
           /\ [x EXCEPT !.status = "QUEUED", !.worker = NoWorker, !.lease = NoLease] \in Row
BY DEF Row, Statuses, Terminal, NoLease

LEMMA RunnerUpdateType ==
    ASSUME NEW x \in Runner, NEW p \in Phases, NEW s \in Row, NEW b \in BOOLEAN
    PROVE  /\ [x EXCEPT !.phase = p] \in Runner
           /\ [x EXCEPT !.phase = p, !.claimed = b] \in Runner
           /\ [x EXCEPT !.phase = p, !.snap = s] \in Runner
BY DEF Runner

\* What a worker leaves behind in the stream was there, or had been published.
LEMMA LeaveEventsType ==
    ASSUME TypeOK, LeaveEvents
    PROVE  /\ stream' \in [Commands -> [Tasks -> Nat]]
           /\ \A k \in Commands, t \in Tasks :
                stream'[k][t] > 0 => stream[k][t] > 0 \/ k \in events[t]
<1>1. CASE \E lost \in SUBSET {e \in Commands \X Tasks : stream[e[1]][e[2]] > 0} :
             stream' = [k \in Commands |-> [t \in Tasks |->
                  IF <<k, t>> \in lost THEN stream[k][t] - 1 ELSE stream[k][t]]]
    BY <1>1 DEF TypeOK
<1>2. CASE \E again \in SUBSET {e \in Commands \X Tasks : e[1] \in events[e[2]]} :
             stream' = [k \in Commands |-> [t \in Tasks |->
                  IF <<k, t>> \in again THEN stream[k][t] + 1 ELSE stream[k][t]]]
    BY <1>2 DEF TypeOK
<1> QED BY <1>1, <1>2 DEF LeaveEvents

-----------------------------------------------------------------------------
(* The end of a worker                                                     *)

\* A runner of a worker that goes away ends, or is interrupted by the shutdown.
LEMMA EndedRunners ==
    ASSUME TypeOK, NEW w \in Workers, WorkerEnd(w), NEW r \in Runners
    PROVE  \/ runner'[r] = runner[r] /\ runner[r].worker # w
           \/ runner'[r] = FreeRunner
           \/ /\ runner[r].worker = w
              /\ runner[r].phase \in Interruptible
              /\ runner'[r] = [runner[r] EXCEPT !.phase = "releasing"]
              /\ proc'[w] = "stopped"
<1>1. CASE Crash(w) \/ Kill(w)
    BY <1>1 DEF Crash, Kill, OfWorker
<1>2. CASE ShutDown(w)
    <2>1. PICK kept \in SUBSET {q \in OfWorker(w) : runner[q].phase \in Interruptible} :
            runner' = [q \in Runners |->
                         IF q \in OfWorker(w) \ kept THEN FreeRunner
                         ELSE IF q \in kept THEN [runner[q] EXCEPT !.phase = "releasing"]
                         ELSE runner[q]]
        BY <1>2 DEF ShutDown
    <2>2. proc'[w] = "stopped"
        BY <1>2 DEF ShutDown, TypeOK
    <2> QED BY <2>1, <2>2 DEF OfWorker
<1> QED BY <1>1, <1>2 DEF WorkerEnd

LEMMA EndedTypes ==
    ASSUME TypeOK, NEW w \in Workers, WorkerEnd(w)
    PROVE  /\ runner' \in [Runners -> Runner]
           /\ \A r \in Runners : Live(r)' => Live(r) /\ runner'[r].worker = runner[r].worker
                                                   /\ runner'[r].task = runner[r].task
           /\ active' \in [Workers -> [Tasks -> Runners \cup {NoRunner}]]
<1>1. ASSUME NEW r \in Runners
      PROVE  /\ runner'[r] \in Runner
             /\ Live(r)' => Live(r) /\ runner'[r].worker = runner[r].worker
                                    /\ runner'[r].task = runner[r].task
    <2>1. runner[r] \in Runner
        BY DEF TypeOK
    <2>2. CASE runner'[r] = runner[r]
        BY <2>1, <2>2 DEF Live
    <2>3. CASE runner'[r] = FreeRunner
        BY <2>3, FreeRunnerType DEF Live, FreeRunner
    <2>4. CASE runner'[r] = [runner[r] EXCEPT !.phase = "releasing"] /\ runner[r].phase \in Interruptible
        <3>1. "releasing" \in Phases
            BY DEF Phases
        <3>2. runner'[r] \in Runner /\ runner'[r].worker = runner[r].worker /\ runner'[r].task = runner[r].task
            BY <2>1, <2>4, <3>1 DEF Runner
        <3> QED BY <2>4, <3>2 DEF Live, Interruptible
    <2> QED BY <2>2, <2>3, <2>4, EndedRunners
<1>2. DOMAIN runner' = Runners /\ runner' = [r \in Runners |-> runner'[r]]
    <2>1. CASE Crash(w) \/ Kill(w)
        BY <2>1 DEF Crash, Kill
    <2>2. CASE ShutDown(w)
        BY <2>2 DEF ShutDown
    <2> QED BY <2>1, <2>2 DEF WorkerEnd
<1>3. active' \in [Workers -> [Tasks -> Runners \cup {NoRunner}]]
    BY DEF WorkerEnd, Crash, ShutDown, Kill, TypeOK
<1> QED BY <1>1, <1>2, <1>3

\* The dict of a worker that goes away names only runners that are still to end.
LEMMA EndedActive ==
    ASSUME TypeOK, ActiveIsLive, NEW w \in Workers, WorkerEnd(w) PROVE ActiveIsLive'
<1> SUFFICES ASSUME NEW v \in Workers, NEW t \in Tasks, active'[v][t] # NoRunner
             PROVE  LET r == active'[v][t] IN
                    runner'[r].phase # "free" /\ runner'[r].worker = v /\ runner'[r].task = t
    BY DEF ActiveIsLive, Live
<1> DEFINE r == active[v][t]
<1>1. active'[v][t] = r
    BY DEF WorkerEnd, Crash, ShutDown, Kill, TypeOK
<1>2. r \in Runners /\ Live(r) /\ runner[r].worker = v /\ runner[r].task = t /\ runner[r] \in Runner
    BY <1>1 DEF TypeOK, ActiveIsLive
<1>3. runner'[r] # FreeRunner
    <2> HIDE DEF r
    <2>1. CASE v # w
        BY <1>2, <2>1 DEF WorkerEnd, Crash, ShutDown, Kill, OfWorker, Live, FreeRunner
    <2>2. CASE v = w /\ (Crash(w) \/ Kill(w))
        BY <1>1, <2>2 DEF Crash, Kill, TypeOK
    <2>3. CASE v = w /\ ShutDown(w)
        <3>1. PICK kept \in SUBSET {q \in OfWorker(w) : runner[q].phase \in Interruptible} :
                /\ runner' = [q \in Runners |->
                         IF q \in OfWorker(w) \ kept THEN FreeRunner
                         ELSE IF q \in kept THEN [runner[q] EXCEPT !.phase = "releasing"]
                         ELSE runner[q]]
                /\ active' = [active EXCEPT ![w] = [u \in Tasks |->
                         IF \E q \in OfWorker(w) \ kept : runner[q].task = u
                         THEN NoRunner ELSE active[w][u]]]
            BY <2>3 DEF ShutDown
        <3>2. ~\E q \in OfWorker(w) \ kept : runner[q].task = t
            BY <2>3, <3>1 DEF TypeOK
        <3>3. r \in kept
            BY <1>2, <2>3, <3>2 DEF OfWorker
        <3>4. runner'[r] = [runner[r] EXCEPT !.phase = "releasing"]
            BY <1>2, <3>1, <3>3
        <3> QED BY <1>2, <3>4 DEF Runner, FreeRunner
    <2> QED BY <2>1, <2>2, <2>3 DEF WorkerEnd
<1>4. \/ runner'[r] = runner[r]
      \/ runner'[r] = [runner[r] EXCEPT !.phase = "releasing"]
    BY <1>2, <1>3, EndedRunners
<1> HIDE DEF r
<1>5. runner'[r].phase # "free" /\ runner'[r].worker = v /\ runner'[r].task = t
    BY <1>2, <1>4 DEF Live, Runner
<1> QED BY <1>1, <1>5

-----------------------------------------------------------------------------
(* Types                                                                   *)

LEMMA InitType == Init => TypeOK
BY FreeRunnerType, NewRowType
   DEF Init, TypeOK, IdleClient, Client, Statuses, Live, FreeRunner, Commands, EventTypes

\* The type invariant, one step per action.
LEMMA NextType == TypeOK /\ [Next]_vars => TypeOK'
<1> SUFFICES ASSUME TypeOK, [Next]_vars PROVE TypeOK'
    OBVIOUS
<1> USE DEF TypeOK, Live
<1>1. CASE Tick
    BY <1>1 DEF Tick, dbVars
<1>2. ASSUME NEW t \in Tasks, CreateTask(t) PROVE TypeOK'
    <2>1. {"created", "queued"} \in SUBSET EventTypes
        BY DEF EventTypes, Commands
    <2>2. events' \in [Tasks -> SUBSET EventTypes] /\ stream' \in [Commands -> [Tasks -> Nat]]
        BY <1>2, <2>1, PublishType DEF CreateTask
    <2> QED BY <1>2, <2>2, NewRowType DEF CreateTask
<1>3. ASSUME NEW c \in Clients, CancelCommit(c) PROVE TypeOK'
    <2>1. {"cancel_requested"} \in SUBSET EventTypes
        BY DEF EventTypes, Commands
    <2>2. events' \in [Tasks -> SUBSET EventTypes] /\ stream' \in [Commands -> [Tasks -> Nat]]
        BY <1>3, <2>1, PublishType DEF CancelCommit
    <2>3. row' \in [Tasks -> Row]
        BY <1>3, RowUpdateType DEF CancelCommit
    <2> QED BY <1>3, <2>2, <2>3 DEF CancelCommit, Client
<1>4. ASSUME NEW c \in Clients, NEW t \in Tasks, CancelRead(c, t) \/ RetryRead(c, t)
      PROVE  TypeOK'
    <2>1. row[t].status \in Statuses
        BY DEF Row
    <2>2. PICK op \in {"cancelling", "retrying"} :
             client' = [client EXCEPT ![c] = [op |-> op, task |-> t, seen |-> row[t].status]]
        BY <1>4 DEF CancelRead, RetryRead
    <2>3. [op |-> op, task |-> t, seen |-> row[t].status] \in Client
        BY <2>1 DEF Client
    <2>4. client' \in [Clients -> Client]
        BY <2>2, <2>3
    <2> QED BY <1>4, <2>2, <2>4 DEF CancelRead, RetryRead, dbVars
<1>5. ASSUME NEW c \in Clients, NEW t \in Tasks, RetryCommit(c, t) PROVE TypeOK'
    <2>1. {"created", "queued"} \in SUBSET EventTypes
        BY DEF EventTypes, Commands
    <2>2. events' \in [Tasks -> SUBSET EventTypes] /\ stream' \in [Commands -> [Tasks -> Nat]]
        BY <1>5, <2>1, PublishType DEF RetryCommit
    <2> QED BY <1>5, <2>2, NewRowType DEF RetryCommit, Client
<1>6. ASSUME NEW w \in Workers, Start(w) PROVE TypeOK'
    BY <1>6 DEF Start, dbVars
<1>7. ASSUME NEW w \in Workers, WorkerEnd(w) PROVE TypeOK'
    <2>1. /\ runner' \in [Runners -> Runner]
          /\ \A r \in Runners : Live(r)' => Live(r) /\ runner'[r].worker = runner[r].worker
                                                  /\ runner'[r].task = runner[r].task
          /\ active' \in [Workers -> [Tasks -> Runners \cup {NoRunner}]]
        BY <1>7, EndedTypes
    <2>2. stream' \in [Commands -> [Tasks -> Nat]]
        BY <1>7, LeaveEventsType DEF WorkerEnd, Crash, ShutDown, Kill, dbVars
    <2>3. proc' \in [Workers -> {"off", "up", "stopped", "dead"}]
        BY <1>7 DEF WorkerEnd, Crash, ShutDown, Kill
    <2>4. UNCHANGED <<clock, row, retryOf, events, client>>
        BY <1>7 DEF WorkerEnd, Crash, ShutDown, Kill, dbVars
    <2> QED BY <2>1, <2>2, <2>3, <2>4
<1>8. ASSUME NEW w \in Workers, Recover(w) PROVE TypeOK'
    <2>1. {"queued"} \in SUBSET EventTypes
        BY DEF EventTypes, Commands
    <2>2. PICK ts : Publish(ts, {"queued"})
        BY <1>8 DEF Recover
    <2>3. events' \in [Tasks -> SUBSET EventTypes] /\ stream' \in [Commands -> [Tasks -> Nat]]
        BY <2>1, <2>2, PublishType
    <2>4. row' \in [Tasks -> Row]
        <3>1. PICK us : row' = [t \in Tasks |->
                    IF t \in us THEN [row[t] EXCEPT !.status = "QUEUED", !.worker = NoWorker,
                                                   !.lease = NoLease]
                               ELSE row[t]]
            BY <1>8 DEF Recover
        <3>2. \A t \in Tasks : [row[t] EXCEPT !.status = "QUEUED", !.worker = NoWorker,
                                             !.lease = NoLease] \in Row
            BY RowUpdateType
        <3> QED BY <3>1, <3>2
    <2> QED BY <1>8, <2>3, <2>4 DEF Recover
<1>9. ASSUME NEW w \in Workers, NEW t \in Tasks, HandleCancel(w, t) PROVE TypeOK'
    <2>1. stream' \in [Commands -> [Tasks -> Nat]]
        BY <1>9 DEF HandleCancel, Consume, Commands
    <2> DEFINE r == active[w][t]
    <2>2. CASE r = NoRunner /\ UNCHANGED <<runner, active>>
        BY <1>9, <2>1, <2>2 DEF HandleCancel
    <2>3. CASE r # NoRunner /\ runner' = [runner EXCEPT ![r].phase = "releasing"]
                            /\ runner[r].phase \in Interruptible /\ UNCHANGED active
        <3>1. r \in Runners
            BY <2>3
        <3>2. [runner[r] EXCEPT !.phase = "releasing"] \in Runner
            BY <3>1, NewRowType, RunnerUpdateType DEF Phases
        <3>3. runner' \in [Runners -> Runner]
            BY <2>3, <3>1, <3>2
        <3>4. \A q \in Runners : /\ runner'[q].worker = runner[q].worker
                                 /\ runner'[q].task = runner[q].task
                                 /\ runner'[q].phase # "free" => runner[q].phase # "free"
            BY <2>3, <3>1 DEF Interruptible, Runner
        <3> QED BY <1>9, <2>1, <2>3, <3>3, <3>4 DEF HandleCancel
    <2>4. CASE r # NoRunner /\ EndRunner(r)
        BY <1>9, <2>1, <2>4, FreeRunnerType DEF HandleCancel, EndRunner, FreeRunner
    <2> QED BY <1>9, <2>2, <2>3, <2>4 DEF HandleCancel
<1>10. ASSUME NEW w \in Workers, NEW t \in Tasks, NEW r \in Runners, HandleQueued(w, t, r)
       PROVE  TypeOK'
    <2>1. stream' \in [Commands -> [Tasks -> Nat]]
        BY <1>10 DEF HandleQueued, Consume, Commands
    <2>2. runner' \in [Runners -> Runner]
        BY <1>10, FreeRunnerType DEF HandleQueued, Runner, FreeRunner, Phases
    <2> QED BY <1>10, <2>1, <2>2 DEF HandleQueued, FreeRunner
<1>11. ASSUME NEW r \in Runners, RunnerStep(r) \/ RunnerFault(r) PROVE TypeOK'
    <2>1. CASE Claim(r)
        <3>1. row' \in [Tasks -> Row]
            BY <2>1, BoundsAssumption DEF Claim, Row, Runner, Statuses, ExpiryOf
        <3>2. runner' \in [Runners -> Runner]
            BY <2>1, RunnerUpdateType DEF Claim, Phases
        <3> QED BY <2>1, <3>1, <3>2 DEF Claim, Runner
    <2>2. CASE SkipClaim(r)
        BY <2>2, FreeRunnerType DEF SkipClaim, EndRunner, FreeRunner, dbVars
    <2>3. CASE Begin(r)
        <3>1. {"started"} \in SUBSET EventTypes
            BY DEF EventTypes
        <3>2. events' \in [Tasks -> SUBSET EventTypes] /\ stream' \in [Commands -> [Tasks -> Nat]]
            BY <2>3, <3>1, PublishType DEF Begin
        <3>3. row[runner[r].task] \in Row /\ "executing" \in Phases
            BY <2>3 DEF Begin, Phases
        <3>4. runner' \in [Runners -> Runner]
            BY <2>3, <3>3, RunnerUpdateType DEF Begin
        <3> QED BY <2>3, <3>2, <3>4 DEF Begin, Runner
    <2>4. CASE Succeed(r)
        <3>1. {"completed"} \in SUBSET EventTypes
            BY DEF EventTypes
        <3>2. events' \in [Tasks -> SUBSET EventTypes] /\ stream' \in [Commands -> [Tasks -> Nat]]
            BY <2>4, <3>1, PublishType DEF Succeed
        <3>3. row' \in [Tasks -> Row]
            BY <2>4, OrmSettleType DEF Succeed, Runner, Terminal
        <3> QED BY <2>4, <3>2, <3>3, FreeRunnerType DEF Succeed, EndRunner, FreeRunner
    <2>5. CASE Raise(r)
        <3>1. row[runner[r].task] \in Row /\ "failing" \in Phases
            BY <2>5 DEF Raise, Phases
        <3>2. runner' \in [Runners -> Runner]
            BY <2>5, <3>1, RunnerUpdateType DEF Raise
        <3> QED BY <2>5, <3>2 DEF Raise, Runner, dbVars
    <2>6. CASE Fail(r)
        <3>1. {"failed"} \in SUBSET EventTypes
            BY DEF EventTypes
        <3>2. events' \in [Tasks -> SUBSET EventTypes] /\ stream' \in [Commands -> [Tasks -> Nat]]
            BY <2>6, <3>1, PublishType DEF Fail
        <3>3. row' \in [Tasks -> Row]
            BY <2>6, OrmSettleType DEF Fail, Runner, Terminal
        <3> QED BY <2>6, <3>2, <3>3, FreeRunnerType DEF Fail, EndRunner, FreeRunner
    <2>7. CASE Release(r)
        <3>1. row' \in [Tasks -> Row]
            BY <2>7, RowUpdateType DEF Release
        <3> QED BY <2>7, <3>1, SMTT(30) DEF Release, Runner, Phases
    <2>8. CASE Announce(r)
        <3>1. {"cancelled"} \in SUBSET EventTypes
            BY DEF EventTypes
        <3>2. events' \in [Tasks -> SUBSET EventTypes] /\ stream' \in [Commands -> [Tasks -> Nat]]
            BY <2>8, <3>1, PublishType DEF Announce
        <3> QED BY <2>8, <3>2, FreeRunnerType DEF Announce, EndRunner, FreeRunner
    <2>9. CASE DbFault(r)
        BY <2>9, FreeRunnerType DEF DbFault, EndRunner, FreeRunner, dbVars
    <2>10. CASE BeginRaises(r)
        <3>1. {"started"} \in SUBSET EventTypes
            BY DEF EventTypes
        <3>2. events' \in [Tasks -> SUBSET EventTypes] /\ stream' \in [Commands -> [Tasks -> Nat]]
            BY <2>10, <3>1, PublishType DEF BeginRaises
        <3> QED BY <2>10, <3>2, FreeRunnerType DEF BeginRaises, EndRunner, FreeRunner
    <2>11. CASE SucceedRaises(r)
        <3>1. {"completed"} \in SUBSET EventTypes
            BY DEF EventTypes
        <3>2. events' \in [Tasks -> SUBSET EventTypes] /\ stream' \in [Commands -> [Tasks -> Nat]]
            BY <2>11, <3>1, PublishType DEF SucceedRaises
        <3>3. row' \in [Tasks -> Row]
            BY <2>11, OrmSettleType DEF SucceedRaises, Runner, Terminal
        <3>4. runner[r] \in Runner /\ "raised" \in Phases
            BY DEF Phases
        <3>5. [runner[r] EXCEPT !.phase = "raised"] \in Runner
            BY <3>4, NewRowType, RunnerUpdateType
        <3>6. runner' \in [Runners -> Runner]
            BY <2>11, <3>5 DEF SucceedRaises
        <3>7. \A q \in Runners : /\ runner'[q].worker = runner[q].worker
                                 /\ runner'[q].task = runner[q].task
                                 /\ runner'[q].phase # "free" => runner[q].phase # "free"
            BY <2>11, <3>4 DEF SucceedRaises, Runner
        <3> QED BY <2>11, <3>2, <3>3, <3>6, <3>7 DEF SucceedRaises
    <2> QED BY <1>11, <2>1, <2>2, <2>3, <2>4, <2>5, <2>6, <2>7, <2>8, <2>9, <2>10, <2>11
            DEF RunnerStep, RunnerFault
<1>12. ASSUME NEW kind \in Commands, NEW t \in Tasks, LoseEvent(kind, t) PROVE TypeOK'
    <2>1. stream' \in [Commands -> [Tasks -> Nat]]
        BY <1>12 DEF LoseEvent, Consume
    <2> QED BY <1>12, <2>1 DEF LoseEvent
<1>13. CASE UNCHANGED vars
    BY <1>13 DEF vars
<1> QED BY <1>1, <1>2, <1>3, <1>4, <1>5, <1>6, <1>7, <1>8, <1>9, <1>10, <1>11, <1>12, <1>13
        DEF Next

\* The tables, the processes and the coroutines keep their types.
THEOREM TypeCorrect == Spec => []TypeOK
BY InitType, NextType, PTL DEF Spec

-----------------------------------------------------------------------------
(* What a step does to one row and to one runner: every later proof is about *)
(* these two, and not about the actions.                                     *)

RowStep(t) ==
    \/ row'[t] = row[t]
    \/ row[t].status = "ABSENT" /\ row'[t] = NewRow
    \/ /\ row[t].status # "ABSENT"
       /\ row'[t].status \in Terminal
       /\ row'[t].lease \in {row[t].lease, NoLease}
       /\ row'[t].attempts = row[t].attempts
    \/ /\ row[t].status = "RUNNING"
       /\ LeaseOver(t, clock)
       /\ row'[t] = [row[t] EXCEPT !.status = "QUEUED", !.worker = NoWorker, !.lease = NoLease]
    \/ \E r \in Runners : runner[r].task = t /\ Claim(r)

RunnerChange(r) ==
    \/ runner'[r] = runner[r]
    \/ runner'[r] = FreeRunner
    \/ \E w \in Workers, t \in Tasks :
         /\ ~Live(r)
         /\ stream["queued"][t] > 0
         /\ runner'[r] = [FreeRunner EXCEPT !.phase = "claiming", !.worker = w,
                                            !.task = t, !.now = clock]
    \/ Claim(r)
    \/ /\ runner[r].phase = "claimed"
       /\ runner'[r] = [runner[r] EXCEPT !.phase = "executing", !.snap = row[runner[r].task]]
       /\ row' = row
    \/ /\ runner[r].phase = "executing"
       /\ runner'[r] = [runner[r] EXCEPT !.phase = "raised"]
    \/ /\ runner[r].phase \in {"executing", "raised"}
       /\ runner'[r] = [runner[r] EXCEPT !.phase = "failing", !.snap = row[runner[r].task]]
       /\ row' = row
    \/ /\ runner[r].phase \in Interruptible
       /\ \/ stream["cancel_requested"][runner[r].task] > 0
          \/ proc'[runner[r].worker] = "stopped"
       /\ runner'[r] = [runner[r] EXCEPT !.phase = "releasing"]
    \/ /\ runner[r].phase = "releasing"
       /\ runner'[r] = [runner[r] EXCEPT !.phase = "announcing"]

\* A settled row that a runner writes: its outcome, or the one already there.
LEMMA SettleStep ==
    ASSUME TypeOK, SnapFinished, RowsExist, NEW r \in Runners, NEW s \in Terminal,
           runner[r].phase \in {"executing", "failing"},
           row' = [row EXCEPT ![runner[r].task] = OrmSettle(@, runner[r].snap, s)]
    PROVE  \A t \in Tasks : RowStep(t)
<1>1. runner[r].task \in Tasks /\ row[runner[r].task] \in Row /\ runner[r].snap \in Row
    BY DEF TypeOK, Live, Runner
<1>2. row[runner[r].task].status # "ABSENT"
    BY DEF RowsExist, Live
<1>3. runner[r].snap.status = s => row[runner[r].task].status \in Terminal
    BY DEF SnapFinished
<1> DEFINE new == OrmSettle(row[runner[r].task], runner[r].snap, s)
<1>4. /\ new.status \in Terminal /\ new.lease \in {row[runner[r].task].lease, NoLease}
      /\ new.attempts = row[runner[r].task].attempts
    <2>1. /\ new.status = IF runner[r].snap.status = s THEN row[runner[r].task].status ELSE s
          /\ new.lease \in {row[runner[r].task].lease, NoLease}
        BY <1>1, OrmSettleType
    <2>2. new.attempts = row[runner[r].task].attempts
        BY <1>1 DEF OrmSettle, Row
    <2> QED BY <2>1, <2>2, <1>3
<1>5. row'[runner[r].task] = new /\ \A t \in Tasks : t # runner[r].task => row'[t] = row[t]
    BY <1>1 DEF TypeOK
<1> HIDE DEF new
<1> QED BY <1>1, <1>2, <1>4, <1>5 DEF RowStep

LEMMA RowChange ==
    ASSUME TypeOK, SnapFinished, RowsExist, [Next]_vars
    PROVE  \A t \in Tasks : RowStep(t)
<1>1. CASE row' = row
    BY <1>1 DEF RowStep
<1>2. ASSUME NEW u \in Tasks, CreateTask(u) PROVE \A t \in Tasks : RowStep(t)
    BY <1>2 DEF CreateTask, RowStep, TypeOK
<1>3. ASSUME NEW c \in Clients, CancelCommit(c) PROVE \A t \in Tasks : RowStep(t)
    <2> DEFINE u == client[c].task
    <2>1. u \in Tasks /\ row[u].status # "ABSENT" /\ row[u] \in Row
        BY <1>3 DEF CancelCommit, RowsExist, TypeOK
    <2>2. CASE row' = row
        BY <2>2 DEF RowStep
    <2>3. CASE row' = [row EXCEPT ![u].status = "CANCELLED"]
        <3>1. /\ row'[u].status = "CANCELLED" /\ row'[u].lease = row[u].lease
              /\ row'[u].attempts = row[u].attempts
            BY <2>1, <2>3 DEF TypeOK, Row
        <3>2. \A t \in Tasks : t # u => row'[t] = row[t]
            BY <2>1, <2>3 DEF TypeOK
        <3> QED BY <2>1, <3>1, <3>2 DEF RowStep, Terminal
    <2> QED BY <1>3, <2>2, <2>3 DEF CancelCommit
<1>4. ASSUME NEW c \in Clients, NEW u \in Tasks, RetryCommit(c, u)
      PROVE  \A t \in Tasks : RowStep(t)
    BY <1>4 DEF RetryCommit, RowStep, TypeOK
<1>5. ASSUME NEW w \in Workers, Recover(w) PROVE \A t \in Tasks : RowStep(t)
    <2>1. PICK ts \in SUBSET {t \in Tasks : row[t].status = "RUNNING" /\ LeaseOver(t, clock)} :
            row' = [t \in Tasks |->
                      IF t \in ts THEN [row[t] EXCEPT !.status = "QUEUED", !.worker = NoWorker,
                                                     !.lease = NoLease]
                                  ELSE row[t]]
        BY <1>5 DEF Recover
    <2> QED BY <2>1 DEF RowStep
<1>6. ASSUME NEW r \in Runners, Claim(r) PROVE \A t \in Tasks : RowStep(t)
    <2>1. runner[r].task \in Tasks
        BY <1>6 DEF Claim, TypeOK, Live
    <2>2. \A t \in Tasks : t # runner[r].task => row'[t] = row[t]
        BY <1>6, <2>1 DEF Claim, TypeOK
    <2> QED BY <1>6, <2>1, <2>2 DEF RowStep
<1>7. ASSUME NEW r \in Runners, Succeed(r) PROVE \A t \in Tasks : RowStep(t)
    BY <1>7, SettleStep DEF Succeed, Terminal
<1>8. ASSUME NEW r \in Runners, Fail(r) PROVE \A t \in Tasks : RowStep(t)
    BY <1>8, SettleStep DEF Fail, Terminal
<1>9. ASSUME NEW r \in Runners, Release(r) PROVE \A t \in Tasks : RowStep(t)
    <2> DEFINE u == runner[r].task
    <2>1. u \in Tasks /\ row[u].status # "ABSENT" /\ row[u] \in Row
        BY <1>9 DEF Release, RowsExist, TypeOK, Live
    <2>2. /\ row'[u].status = "CANCELLED" /\ row'[u].lease = NoLease
          /\ row'[u].attempts = row[u].attempts
        BY <1>9, <2>1 DEF Release, TypeOK, Row
    <2>3. \A t \in Tasks : t # u => row'[t] = row[t]
        BY <1>9, <2>1 DEF Release, TypeOK
    <2> QED BY <2>1, <2>2, <2>3 DEF RowStep, Terminal
<1>10. ASSUME NEW r \in Runners, SucceedRaises(r) PROVE \A t \in Tasks : RowStep(t)
    BY <1>10, SettleStep DEF SucceedRaises, Terminal
<1>11. ASSUME NEW r \in Runners, RunnerStep(r) \/ RunnerFault(r) PROVE \A t \in Tasks : RowStep(t)
    BY <1>1, <1>6, <1>7, <1>8, <1>9, <1>10, <1>11
       DEF RunnerStep, RunnerFault, dbVars, SkipClaim, Begin, BeginRaises, Raise, Announce, DbFault
<1>12. ASSUME NEW w \in Workers, WorkerEnd(w) PROVE \A t \in Tasks : RowStep(t)
    BY <1>1, <1>12 DEF WorkerEnd, Crash, ShutDown, Kill, dbVars
<1> QED
    BY <1>1, <1>2, <1>3, <1>4, <1>5, <1>11, <1>12
    DEF Next, vars, dbVars, Tick, CancelRead, RetryRead, Start, HandleCancel, HandleQueued, LoseEvent

\* Where EndRunner's pop is enough: an entry names a runner of its own key only.
LEMMA ActiveStep == TypeOK /\ ActiveIsLive /\ [Next]_vars => ActiveIsLive'
<1> SUFFICES ASSUME TypeOK, ActiveIsLive, [Next]_vars PROVE ActiveIsLive'
    OBVIOUS
<1> USE DEF TypeOK, Live, ActiveIsLive
<1>1. CASE UNCHANGED <<runner, active>>
    BY <1>1
<1>2. ASSUME NEW r \in Runners, Live(r), EndRunner(r) PROVE ActiveIsLive'
    BY <1>2 DEF EndRunner
\* A runner that goes on keeps its task and its worker.
<1>3. ASSUME NEW r \in Runners, UNCHANGED active, runner'[r].phase # "free",
             runner'[r].worker = runner[r].worker, runner'[r].task = runner[r].task,
             \A q \in Runners : q # r => runner'[q] = runner[q]
      PROVE  ActiveIsLive'
    BY <1>3
<1>4. ASSUME NEW w \in Workers, NEW t \in Tasks, NEW r \in Runners, HandleQueued(w, t, r)
      PROVE  ActiveIsLive'
    <2>1. runner'[r].phase = "claiming" /\ runner'[r].worker = w /\ runner'[r].task = t
        BY <1>4 DEF HandleQueued, FreeRunner
    <2>2. \A q \in Runners : q # r => runner'[q] = runner[q]
        BY <1>4 DEF HandleQueued
    <2>3. active'[w][t] = r /\ \A v \in Workers, u \in Tasks :
             <<v, u>> # <<w, t>> => active'[v][u] = active[v][u]
        BY <1>4 DEF HandleQueued
    <2>4. \A v \in Workers, u \in Tasks : active[v][u] # r
        BY <1>4, NullAssumption DEF HandleQueued
    <2>5. ASSUME NEW v \in Workers, NEW u \in Tasks, active'[v][u] # NoRunner
          PROVE  LET q == active'[v][u] IN
                 runner'[q].phase # "free" /\ runner'[q].worker = v /\ runner'[q].task = u
        <3>1. CASE v = w /\ u = t
            BY <2>1, <2>3, <3>1
        <3>2. CASE ~(v = w /\ u = t)
            <4>1. active'[v][u] = active[v][u] /\ active[v][u] # r /\ active[v][u] \in Runners
                BY <2>3, <2>4, <2>5, <3>2
            <4> QED BY <2>2, <2>5, <4>1
        <3> QED BY <3>1, <3>2
    <2> QED BY <2>5
<1>5. ASSUME NEW w \in Workers, WorkerEnd(w) PROVE ActiveIsLive'
    BY <1>5, EndedActive
<1>6. ASSUME NEW w \in Workers, NEW t \in Tasks, HandleCancel(w, t) PROVE ActiveIsLive'
    <2> DEFINE r == active[w][t]
    <2>1. CASE r # NoRunner /\ runner[r].phase \in Interruptible
               /\ runner' = [runner EXCEPT ![r].phase = "releasing"] /\ UNCHANGED active
        BY <2>1, <1>3 DEF Interruptible, Runner
    <2>2. CASE r # NoRunner /\ EndRunner(r)
        BY <2>2, <1>2, SMTT(30)
    <2> QED BY <1>6, <1>1, <2>1, <2>2 DEF HandleCancel
<1>7. ASSUME NEW r \in Runners, RunnerStep(r) \/ RunnerFault(r) PROVE ActiveIsLive'
    <2>1. Live(r)
        BY <1>7 DEF RunnerStep, Claim, SkipClaim, Begin, Succeed, Raise, Fail, Release,
                    Announce, RunnerFault, BeginRaises, SucceedRaises, DbFault
    <2>2. CASE EndRunner(r)
        BY <2>1, <2>2, <1>2
    <2>3. CASE Claim(r)
        BY <2>3, <1>3 DEF Claim, Runner
    <2>4. CASE Begin(r)
        BY <2>4, <1>3 DEF Begin, Runner
    <2>5. CASE Raise(r)
        BY <2>5, <1>3 DEF Raise, Runner
    <2>6. CASE Release(r)
        BY <2>6, <1>3 DEF Release, Runner
    <2>7. CASE SucceedRaises(r)
        BY <2>7, <1>3 DEF SucceedRaises, Runner
    <2> QED BY <1>7, <2>2, <2>3, <2>4, <2>5, <2>6, <2>7
            DEF RunnerStep, SkipClaim, Succeed, Fail, Announce, RunnerFault, BeginRaises, DbFault
<1> QED
    BY <1>1, <1>4, <1>5, <1>6, <1>7
    DEF Next, vars, Tick, CreateTask, CancelRead, CancelCommit, RetryRead, RetryCommit,
        Start, Recover, LoseEvent

LEMMA RunnerChanges ==
    ASSUME TypeOK, ActiveIsLive, [Next]_vars
    PROVE  \A r \in Runners : RunnerChange(r)
<1>1. CASE runner' = runner
    BY <1>1 DEF RunnerChange
<1>2. ASSUME NEW r \in Runners, EndRunner(r) PROVE \A q \in Runners : RunnerChange(q)
    BY <1>2 DEF EndRunner, RunnerChange, TypeOK
<1>3. ASSUME NEW w \in Workers, WorkerEnd(w) PROVE \A r \in Runners : RunnerChange(r)
    BY <1>3, EndedRunners DEF RunnerChange
<1>4. ASSUME NEW w \in Workers, NEW t \in Tasks, HandleCancel(w, t)
      PROVE  \A r \in Runners : RunnerChange(r)
    <2> DEFINE q == active[w][t]
    <2>1. CASE q # NoRunner /\ EndRunner(q)
        BY <1>2, <2>1 DEF TypeOK
    <2>2. CASE q # NoRunner /\ runner[q].phase \in Interruptible
               /\ runner' = [runner EXCEPT ![q].phase = "releasing"]
        <3>1. q \in Runners /\ runner[q].task = t
            BY <2>2 DEF TypeOK, ActiveIsLive
        <3>2. stream["cancel_requested"][t] > 0
            BY <1>4 DEF HandleCancel, Consume
        <3>3. runner'[q] = [runner[q] EXCEPT !.phase = "releasing"]
            BY <2>2, <3>1 DEF TypeOK
        <3>4. \A r \in Runners : r # q => runner'[r] = runner[r]
            BY <2>2, <3>1 DEF TypeOK
        <3> HIDE DEF q
        <3> QED BY <2>2, <3>1, <3>2, <3>3, <3>4 DEF RunnerChange
    <2> QED BY <1>4, <1>1, <2>1, <2>2 DEF HandleCancel
<1>5. ASSUME NEW w \in Workers, NEW t \in Tasks, NEW r \in Runners, HandleQueued(w, t, r)
      PROVE  \A q \in Runners : RunnerChange(q)
    <2>1. ~Live(r) /\ stream["queued"][t] > 0
        BY <1>5 DEF HandleQueued, Consume
    <2>2. runner'[r] = [FreeRunner EXCEPT !.phase = "claiming", !.worker = w, !.task = t,
                                          !.now = clock]
        BY <1>5 DEF HandleQueued, TypeOK
    <2>3. \A q \in Runners : q # r => runner'[q] = runner[q]
        BY <1>5 DEF HandleQueued, TypeOK
    <2>4. \E v \in Workers, u \in Tasks :
            /\ ~Live(r)
            /\ stream["queued"][u] > 0
            /\ runner'[r] = [FreeRunner EXCEPT !.phase = "claiming", !.worker = v,
                                               !.task = u, !.now = clock]
        <3> WITNESS w \in Workers, t \in Tasks
        <3> QED BY <2>1, <2>2
    <2>5. RunnerChange(r)
        BY <2>4 DEF RunnerChange
    <2>6. \A q \in Runners : q # r => RunnerChange(q)
        BY <2>3 DEF RunnerChange
    <2> QED BY <2>5, <2>6
<1>6. ASSUME NEW r \in Runners, Claim(r) PROVE \A q \in Runners : RunnerChange(q)
    BY <1>6 DEF Claim, RunnerChange, TypeOK
<1>7. ASSUME NEW r \in Runners, Begin(r) PROVE \A q \in Runners : RunnerChange(q)
    BY <1>7 DEF Begin, RunnerChange, TypeOK
<1>8. ASSUME NEW r \in Runners, Raise(r) PROVE \A q \in Runners : RunnerChange(q)
    BY <1>8 DEF Raise, RunnerChange, TypeOK, dbVars
<1>9. ASSUME NEW r \in Runners, Release(r) PROVE \A q \in Runners : RunnerChange(q)
    BY <1>9 DEF Release, RunnerChange, TypeOK
<1>10. ASSUME NEW r \in Runners, SucceedRaises(r) PROVE \A q \in Runners : RunnerChange(q)
    BY <1>10 DEF SucceedRaises, RunnerChange, TypeOK
<1>11. ASSUME NEW r \in Runners, RunnerStep(r) \/ RunnerFault(r)
       PROVE  \A q \in Runners : RunnerChange(q)
    BY <1>2, <1>6, <1>7, <1>8, <1>9, <1>10, <1>11
       DEF RunnerStep, RunnerFault, SkipClaim, Succeed, Fail, Announce, BeginRaises, DbFault
<1> QED
    BY <1>1, <1>3, <1>4, <1>5, <1>11
    DEF Next, vars, Tick, CreateTask, CancelRead, CancelCommit, RetryRead, RetryCommit,
        Start, Recover, LoseEvent

-----------------------------------------------------------------------------
(* The inductive invariant                                                 *)

LeaseInv == PastNow /\ ClaimShape /\ LeaseRecorded /\ LeaseExclusive

RowInv == SnapFinished /\ RowsExist /\ ActiveIsLive /\ LeaseShape

IInv == TypeOK /\ RowInv /\ LeaseInv

LEMMA InitIInv == Init => IInv
<1> SUFFICES ASSUME Init PROVE IInv
    OBVIOUS
<1>1. TypeOK
    BY InitType
<1>2. \A r \in Runners : ~Live(r) /\ runner[r].now = 0 /\ ~runner[r].claimed
    BY DEF Init, Live, FreeRunner
<1>3. RowInv
    BY <1>2 DEF Init, RowInv, SnapFinished, RowsExist, ActiveIsLive, LeaseShape, Live,
                IdleClient, NoRow
<1>4. LeaseInv
    BY <1>2 DEF Init, LeaseInv, PastNow, ClaimShape, LeaseRecorded, LeaseExclusive, Holds,
                Live, FreeRunner
<1> QED BY <1>1, <1>3, <1>4 DEF IInv

LEMMA ClockStep == TypeOK /\ [Next]_vars => clock' \in Nat /\ clock <= clock'
<1>1. [Next]_vars => Tick \/ clock' = clock
    BY DEF Next, vars, CreateTask, CancelRead, CancelCommit, RetryRead, RetryCommit, Start,
           Recover, WorkerEnd, Crash, ShutDown, Kill, LoseEvent, HandleCancel, HandleQueued, RunnerStep,
           Claim, SkipClaim, Begin, Succeed, Raise, Fail, Release, Announce, RunnerFault, BeginRaises,
           SucceedRaises, DbFault
<1> QED BY <1>1 DEF Tick, TypeOK

\* Only the claim of a row that is not finished takes it to RUNNING.
LEMMA FinishedStays ==
    ASSUME TypeOK, NEW t \in Tasks, RowStep(t), row[t].status \in Terminal
    PROVE  row'[t].status \in Terminal
BY DEF RowStep, Claim, Claimable, Terminal

LEMMA RowExists ==
    ASSUME TypeOK, NEW t \in Tasks, RowStep(t), row[t].status # "ABSENT"
    PROVE  row'[t].status # "ABSENT"
<1>1. \A r \in Runners : runner[r].task = t /\ Claim(r) => row'[t].status = "RUNNING"
    BY DEF Claim, TypeOK
<1>2. [row[t] EXCEPT !.status = "QUEUED", !.worker = NoWorker, !.lease = NoLease].status = "QUEUED"
    BY DEF TypeOK, Row
<1> QED BY <1>1, <1>2 DEF RowStep, Terminal

LEMMA SnapStep ==
    ASSUME TypeOK, SnapFinished, TypeOK', \A t \in Tasks : RowStep(t),
           \A r \in Runners : RunnerChange(r)
    PROVE  SnapFinished'
<1> SUFFICES ASSUME NEW r \in Runners,
                    runner'[r].phase \in {"executing", "failing"},
                    runner'[r].snap.status \in Terminal
             PROVE  row'[runner'[r].task].status \in Terminal
    BY DEF SnapFinished
<1>1. runner'[r].task \in Tasks
    BY DEF TypeOK, Live
<1>2. CASE runner'[r] = runner[r]
    BY <1>1, <1>2, FinishedStays DEF SnapFinished
<1>3. CASE /\ runner[r].phase \in {"claimed", "executing", "raised"}
           /\ \E p \in Phases :
                runner'[r] = [runner[r] EXCEPT !.phase = p, !.snap = row[runner[r].task]]
           /\ row' = row
    BY <1>1, <1>3 DEF TypeOK, Runner
<1>4. \/ runner'[r] = runner[r]
      \/ runner'[r].phase \notin {"executing", "failing"}
      \/ /\ runner[r].phase \in {"claimed", "executing", "raised"}
         /\ \E p \in Phases :
              runner'[r] = [runner[r] EXCEPT !.phase = p, !.snap = row[runner[r].task]]
         /\ row' = row
    <2>1. \A w \in Workers, t \in Tasks :
             runner'[r] = [FreeRunner EXCEPT !.phase = "claiming", !.worker = w,
                                             !.task = t, !.now = clock]
             => runner'[r].phase = "claiming"
        BY DEF FreeRunner
    <2>2. Claim(r) => runner'[r].phase = "claimed"
        BY DEF Claim, TypeOK, Runner
    <2>3. \A p \in {"raised", "releasing", "announcing"} :
             runner'[r] = [runner[r] EXCEPT !.phase = p]
             => runner'[r].phase \in {"free", "claimed", "raised", "releasing", "announcing"}
        BY DEF TypeOK, Runner
    <2>4. FreeRunner.phase = "free" /\ "executing" \in Phases /\ "failing" \in Phases
        BY DEF FreeRunner, Phases
    <2>5. \/ \E w \in Workers, t \in Tasks :
               runner'[r] = [FreeRunner EXCEPT !.phase = "claiming", !.worker = w,
                                               !.task = t, !.now = clock]
          \/ runner'[r].phase \in {"free", "claimed", "raised", "releasing", "announcing"}
          \/ runner'[r] = runner[r]
          \/ /\ runner[r].phase \in {"claimed", "executing", "raised"}
             /\ \E p \in Phases :
                  runner'[r] = [runner[r] EXCEPT !.phase = p, !.snap = row[runner[r].task]]
             /\ row' = row
        BY <2>2, <2>3, <2>4 DEF RunnerChange
    <2> QED BY <2>1, <2>5
<1> QED BY <1>2, <1>3, <1>4

\* How one runner's claim, clock reading and phase may change.
LEMMA ClaimedStep ==
    ASSUME TypeOK, ClaimShape, NEW r \in Runners, RunnerChange(r)
    PROVE  \/ /\ runner'[r].now = runner[r].now
              /\ runner'[r].claimed = runner[r].claimed
              /\ runner'[r].task = runner[r].task
              /\ runner'[r].phase # "free" => runner[r].phase # "free"
              /\ runner'[r].phase \in {"claimed", "executing", "raised", "failing"}
                     => runner[r].phase \in {"claimed", "executing", "raised", "failing"}
              /\ runner'[r].phase \in {"free", "claiming"}
                     => runner[r].phase \in {"free", "claiming"}
           \/ /\ runner'[r].now \in {0, clock}
              /\ ~runner'[r].claimed
              /\ runner'[r].phase \in {"free", "claiming"}
           \/ /\ Claim(r)
              /\ runner'[r].now = runner[r].now
              /\ runner'[r].claimed
              /\ runner'[r].task = runner[r].task
              /\ runner'[r].phase = "claimed"
<1>1. CASE runner'[r] = runner[r]
    BY <1>1
<1>2. CASE runner'[r] = FreeRunner
    BY <1>2 DEF FreeRunner
<1>3. CASE \E w \in Workers, t \in Tasks :
             runner'[r] = [FreeRunner EXCEPT !.phase = "claiming", !.worker = w,
                                             !.task = t, !.now = clock]
    BY <1>3 DEF FreeRunner
<1>4. CASE Claim(r)
    BY <1>4 DEF Claim, TypeOK, Runner
<1>5. CASE \E p \in Phases \ {"free", "claiming"}, x \in Row :
             /\ runner'[r] = [runner[r] EXCEPT !.phase = p, !.snap = x]
             /\ p \in {"claimed", "executing", "raised", "failing"}
             /\ runner[r].phase \in {"claimed", "executing", "raised", "failing"}
    BY <1>5 DEF TypeOK, Runner
<1>6. CASE \E p \in {"releasing", "announcing"} :
             /\ runner'[r] = [runner[r] EXCEPT !.phase = p]
             /\ runner[r].phase # "free"
    BY <1>6 DEF TypeOK, Runner
<1>7. runner[r].phase \in {"claimed", "executing", "raised"} => row[runner[r].task] \in Row
    BY DEF TypeOK, Live
<1>8. CASE runner[r].phase = "executing" /\ runner'[r] = [runner[r] EXCEPT !.phase = "raised"]
    BY <1>8 DEF TypeOK, Runner
<1> QED BY <1>1, <1>2, <1>3, <1>4, <1>5, <1>6, <1>7, <1>8 DEF RunnerChange, Interruptible, Phases

LEMMA LeaseStep ==
    ASSUME TypeOK, LeaseInv, clock' \in Nat, clock <= clock',
           \A t \in Tasks : RowStep(t), \A r \in Runners : RunnerChange(r)
    PROVE  LeaseInv'
<1> USE DEF LeaseInv
<1>1. PastNow'
    BY ClaimedStep, SMTT(30) DEF PastNow, TypeOK, Runner
<1>2. ClaimShape'
    BY ClaimedStep DEF ClaimShape
\* A runner in its lease was in it before the step, or claims in the step.
<1>3. ASSUME NEW t \in Tasks, NEW r \in Runners, Holds(r, t)', InLease(r)', ~Claim(r)
      PROVE  Holds(r, t) /\ InLease(r) /\ ExpiryOf(r)' = ExpiryOf(r)
    BY <1>3, ClaimedStep, BoundsAssumption
       DEF Holds, InLease, ExpiryOf, Live, TypeOK, Runner
\* Nobody claims a task that is executed inside a lease.
<1>4. ASSUME NEW t \in Tasks, NEW r \in Runners, Holds(r, t), InLease(r),
             NEW q \in Runners, Claim(q), runner[q].task = t
      PROVE  FALSE
    <2>1. runner[q].now <= clock /\ runner[q].now \in Nat /\ ExpiryOf(r) \in Nat
        BY BoundsAssumption DEF PastNow, TypeOK, Runner, ExpiryOf
    <2>2. Claimable(t, runner[q].now)
        BY <1>4 DEF Claim
    <2>3. row[t].status = "RUNNING" /\ row[t].lease = ExpiryOf(r)
        BY <1>4, <2>2 DEF LeaseRecorded, Claimable, Terminal
    <2>4. row[t].lease < runner[q].now
        BY <2>2, <2>3 DEF Claimable, LeaseOver
    <2> QED BY <1>4, <2>1, <2>3, <2>4 DEF InLease, TypeOK
<1>5. LeaseRecorded'
    <2> SUFFICES ASSUME NEW t \in Tasks, NEW r \in Runners, Holds(r, t)', InLease(r)'
                 PROVE  \/ row'[t].status \in Terminal
                        \/ row'[t].status = "RUNNING" /\ row'[t].lease = ExpiryOf(r)'
        BY DEF LeaseRecorded
    <2>1. CASE Claim(r)
        <3>1. runner[r].task = t /\ ExpiryOf(r)' = ExpiryOf(r)
            BY <2>1, ClaimedStep DEF Holds, ExpiryOf, Claim, TypeOK, Runner
        <3> QED BY <2>1, <3>1 DEF Claim, TypeOK
    <2>2. CASE ~Claim(r)
        <3>1. Holds(r, t) /\ InLease(r) /\ ExpiryOf(r)' = ExpiryOf(r)
            BY <1>3, <2>2
        <3>2. \/ row[t].status \in Terminal
              \/ row[t].status = "RUNNING" /\ row[t].lease = ExpiryOf(r)
            BY <3>1 DEF LeaseRecorded
        <3>3. ~\E q \in Runners : runner[q].task = t /\ Claim(q)
            BY <1>4, <3>1
        <3>4. row[t].status = "RUNNING" => ~LeaseOver(t, clock)
            BY <3>1, <3>2, BoundsAssumption
               DEF LeaseOver, InLease, ExpiryOf, TypeOK, Runner, Terminal
        <3>5. row'[t] = row[t] \/ row'[t].status \in Terminal
            BY <3>2, <3>3, <3>4 DEF RowStep, Terminal
        <3> QED BY <3>1, <3>2, <3>5
    <2> QED BY <2>1, <2>2
<1>6. LeaseExclusive'
    <2> SUFFICES ASSUME NEW t \in Tasks, NEW r \in Runners, NEW q \in Runners, r # q,
                        Holds(r, t)', Holds(q, t)', InLease(r)', InLease(q)'
                 PROVE  FALSE
        BY DEF LeaseExclusive
    <2>1. CASE ~Claim(r) /\ ~Claim(q)
        BY <1>3, <2>1 DEF LeaseExclusive
    <2>2. ASSUME NEW x \in Runners, NEW y \in Runners, x # y, Claim(x),
                 Holds(x, t)', Holds(y, t)', InLease(y)'
          PROVE  FALSE
        <3>1. runner[x].task = t /\ runner'[y] = runner[y]
            <4>1. runner' = [runner EXCEPT ![x].phase = "claimed", ![x].claimed = TRUE]
                BY <2>2 DEF Claim
            <4>2. runner \in [Runners -> Runner]
                BY DEF TypeOK
            <4> QED BY <2>2, <4>1, <4>2 DEF Holds, Runner
        <3>2. ~Claim(y)
            BY <2>2, <3>1 DEF Claim, TypeOK, Runner
        <3>3. Holds(y, t) /\ InLease(y)
            BY <1>3, <2>2, <3>2
        <3> QED BY <1>4, <2>2, <3>1, <3>3
    <2> QED BY <2>1, <2>2
<1> QED BY <1>1, <1>2, <1>5, <1>6

\* Rows: what exists goes on existing, and RUNNING and QUEUED keep their shape.
LEMMA LeaseShapeStep ==
    ASSUME TypeOK, LeaseShape, \A t \in Tasks : RowStep(t)
    PROVE  LeaseShape'
<1> SUFFICES ASSUME NEW t \in Tasks
             PROVE  /\ row'[t].status = "RUNNING" => row'[t].worker # NoWorker
                                                  /\ row'[t].lease # NoLease
                    /\ row'[t].status = "QUEUED" => row'[t].worker = NoWorker
                                                 /\ row'[t].lease = NoLease
    BY DEF LeaseShape
<1>1. CASE row'[t] = row[t]
    BY <1>1 DEF LeaseShape
<1>2. CASE row'[t] = NewRow
    BY <1>2 DEF NewRow, NoRow
<1>3. CASE row'[t].status \in Terminal
    BY <1>3 DEF Terminal
<1>4. CASE row'[t] = [row[t] EXCEPT !.status = "QUEUED", !.worker = NoWorker, !.lease = NoLease]
    BY <1>4 DEF TypeOK, Row
<1>5. ASSUME NEW r \in Runners, runner[r].task = t, Claim(r)
      PROVE  /\ row'[t].status = "RUNNING"
             /\ row'[t].worker # NoWorker
             /\ row'[t].lease # NoLease
    <2>1. runner[r].worker \in Workers /\ ExpiryOf(r) \in Nat
        BY <1>5, BoundsAssumption DEF Claim, TypeOK, Live, Runner, ExpiryOf
    <2> QED BY <1>5, <2>1, NullAssumption DEF Claim, TypeOK, NoLease
<1> QED BY <1>1, <1>2, <1>3, <1>4, <1>5 DEF RowStep

\* Commands are published for rows that exist.
LEMMA StreamStep ==
    ASSUME TypeOK, RowsExist, [Next]_vars, NEW k \in Commands, NEW t \in Tasks,
           stream'[k][t] > 0
    PROVE  \/ stream[k][t] > 0
           \/ row[t].status # "ABSENT"
           \/ row'[t].status # "ABSENT"
<1> USE DEF RowsExist
<1>1. CASE UNCHANGED stream
    BY <1>1
<1>2. ASSUME NEW u \in Tasks, CreateTask(u) PROVE row'[u].status # "ABSENT"
    BY <1>2 DEF CreateTask, TypeOK, NewRow, NoRow
<1>3. ASSUME NEW c \in Clients, CancelCommit(c)
      PROVE  /\ row[client[c].task].status # "ABSENT"
             /\ Publish({client[c].task}, {"cancel_requested"})
    BY <1>3 DEF CancelCommit
<1>4. ASSUME NEW c \in Clients, NEW u \in Tasks, RetryCommit(c, u)
      PROVE  row'[u].status # "ABSENT" /\ Publish({u}, {"created", "queued"})
    BY <1>4 DEF RetryCommit, TypeOK, NewRow, NoRow
<1>5. ASSUME NEW w \in Workers, Recover(w)
      PROVE  \E ts \in SUBSET {x \in Tasks : row[x].status # "ABSENT"} : Publish(ts, {"queued"})
    <2>1. PICK ts \in SUBSET {x \in Tasks : row[x].status = "RUNNING" /\ LeaseOver(x, clock)} :
             Publish(ts, {"queued"})
        BY <1>5 DEF Recover
    <2> QED BY <2>1
<1>6. ASSUME NEW kind \in Commands, NEW u \in Tasks, Consume(kind, u) PROVE stream[k][t] > 0
    BY <1>6 DEF Consume, TypeOK
<1>7. ASSUME NEW w \in Workers, WorkerEnd(w) PROVE stream[k][t] > 0 \/ k \in events[t]
    BY <1>7, LeaveEventsType DEF WorkerEnd, Crash, ShutDown, Kill, dbVars
<1>8. ASSUME NEW r \in Runners, RunnerStep(r) \/ RunnerFault(r)
      PROVE  \/ UNCHANGED stream
             \/ \E type \in EventTypes \ Commands : Publish({runner[r].task}, {type})
    BY <1>8 DEF RunnerStep, Claim, SkipClaim, Begin, Succeed, Raise, Fail, Release, Announce,
                RunnerFault, BeginRaises, SucceedRaises, DbFault, dbVars, EventTypes, Commands
<1>9. ASSUME NEW c \in Clients, CancelCommit(c) PROVE stream[k][t] > 0 \/ row[t].status # "ABSENT"
    BY <1>3, <1>9 DEF Publish
<1>10. ASSUME NEW u \in Tasks, CreateTask(u) PROVE stream[k][t] > 0 \/ row'[t].status # "ABSENT"
    BY <1>2, <1>10 DEF CreateTask, Publish
<1>11. ASSUME NEW c \in Clients, NEW u \in Tasks, RetryCommit(c, u)
       PROVE  stream[k][t] > 0 \/ row'[t].status # "ABSENT"
    BY <1>4, <1>11 DEF Publish
<1>12. ASSUME NEW w \in Workers, Recover(w) PROVE stream[k][t] > 0 \/ row[t].status # "ABSENT"
    BY <1>5, <1>12 DEF Publish
<1>13. ASSUME NEW r \in Runners, RunnerStep(r) \/ RunnerFault(r) PROVE stream[k][t] > 0
    <2>1. CASE UNCHANGED stream
        BY <2>1
    <2>2. ASSUME NEW type \in EventTypes \ Commands, Publish({runner[r].task}, {type})
          PROVE  stream[k][t] > 0
        BY <2>2 DEF Publish
    <2> QED BY <1>8, <1>13, <2>1, <2>2
<1> QED
    BY <1>1, <1>6, <1>7, <1>9, <1>10, <1>11, <1>12, <1>13
    DEF Next, vars, dbVars, Tick, CancelRead, RetryRead, Start, HandleCancel, HandleQueued,
        LoseEvent, Commands

LEMMA EventsStep ==
    ASSUME TypeOK, RowsExist, [Next]_vars, NEW t \in Tasks, events'[t] # {}
    PROVE  \/ events[t] # {}
           \/ row[t].status # "ABSENT"
           \/ row'[t].status # "ABSENT"
<1> USE DEF RowsExist
<1>1. CASE UNCHANGED events
    BY <1>1
<1>2. ASSUME NEW u \in Tasks, NEW types, Publish({u}, types),
             row[u].status # "ABSENT" \/ row'[u].status # "ABSENT"
      PROVE  events[t] # {} \/ row[t].status # "ABSENT" \/ row'[t].status # "ABSENT"
    BY <1>2 DEF Publish
<1>3. ASSUME NEW u \in Tasks, CreateTask(u) \/ \E c \in Clients : RetryCommit(c, u)
      PROVE  row'[u].status # "ABSENT" /\ Publish({u}, {"created", "queued"})
    <2>1. row' = [row EXCEPT ![u] = NewRow] /\ Publish({u}, {"created", "queued"})
        BY <1>3 DEF CreateTask, RetryCommit
    <2> QED BY <2>1 DEF TypeOK, NewRow, NoRow
<1>4. ASSUME NEW c \in Clients, CancelCommit(c)
      PROVE  /\ client[c].task \in Tasks
             /\ row[client[c].task].status # "ABSENT"
             /\ Publish({client[c].task}, {"cancel_requested"})
    BY <1>4 DEF CancelCommit, TypeOK
<1>5. ASSUME NEW w \in Workers, Recover(w)
      PROVE  events[t] # {} \/ row[t].status # "ABSENT"
    BY <1>5 DEF Recover, Publish
<1>6. ASSUME NEW r \in Runners, RunnerStep(r) \/ RunnerFault(r)
      PROVE  \/ UNCHANGED events
             \/ /\ runner[r].task \in Tasks
                /\ row[runner[r].task].status # "ABSENT"
                /\ \E type \in EventTypes : Publish({runner[r].task}, {type})
    BY <1>6 DEF RunnerStep, Claim, SkipClaim, Begin, Succeed, Raise, Fail, Release, Announce,
                RunnerFault, BeginRaises, SucceedRaises, DbFault, dbVars, EventTypes, Live, TypeOK
<1> QED
    BY <1>1, <1>2, <1>3, <1>4, <1>5, <1>6
    DEF Next, vars, dbVars, Tick, CancelRead, RetryRead, Start, HandleCancel, HandleQueued,
        LoseEvent, WorkerEnd, Crash, ShutDown, Kill

LEMMA RowsExistStep ==
    ASSUME TypeOK, RowsExist, TypeOK', [Next]_vars,
           \A t \in Tasks : RowStep(t), \A r \in Runners : RunnerChange(r)
    PROVE  RowsExist'
<1>1. \A t \in Tasks : row[t].status # "ABSENT" => row'[t].status # "ABSENT"
    BY RowExists
<1>2. ASSUME NEW r \in Runners, Live(r)' PROVE row'[runner'[r].task].status # "ABSENT"
    <2>1. runner'[r].task \in Tasks
        BY <1>2 DEF TypeOK
    <2>2. CASE runner'[r].task = runner[r].task /\ Live(r)
        BY <1>1, <2>1, <2>2 DEF RowsExist
    <2>3. CASE \E w \in Workers, t \in Tasks :
                 /\ stream["queued"][t] > 0
                 /\ runner'[r] = [FreeRunner EXCEPT !.phase = "claiming", !.worker = w,
                                                    !.task = t, !.now = clock]
        <3>1. stream["queued"][runner'[r].task] > 0
            BY <2>3 DEF FreeRunner
        <3> QED BY <1>1, <2>1, <3>1 DEF RowsExist, Commands
    <2>4. CASE Claim(r)
        BY <2>2, <2>4 DEF Claim, TypeOK, Runner, Live
    <2>5. CASE Live(r) /\ \E p \in Phases : runner'[r] = [runner[r] EXCEPT !.phase = p]
        BY <2>2, <2>5 DEF TypeOK, Runner
    <2>6. CASE Live(r) /\ \E p \in Phases, x \in Row :
                 runner'[r] = [runner[r] EXCEPT !.phase = p, !.snap = x]
        BY <2>2, <2>6 DEF TypeOK, Runner
    <2>7. CASE runner'[r] = runner[r]
        BY <1>2, <2>2, <2>7 DEF Live
    <2>8. runner'[r] # FreeRunner
        BY <1>2 DEF Live, FreeRunner
    <2>9. runner[r].phase \in {"claimed", "executing", "raised"} => row[runner[r].task] \in Row
        BY DEF TypeOK, Live
    <2> QED BY <2>3, <2>4, <2>5, <2>6, <2>7, <2>8, <2>9
            DEF RunnerChange, Live, Phases, Interruptible
<1>3. ASSUME NEW k \in Commands, NEW t \in Tasks, stream'[k][t] > 0
      PROVE  row'[t].status # "ABSENT"
    BY <1>1, <1>3, StreamStep DEF RowsExist
<1>4. ASSUME NEW c \in Clients, client'[c].op # "idle"
      PROVE  row'[client'[c].task].status # "ABSENT"
    <2>1. client'[c].task \in Tasks
        BY <1>4 DEF TypeOK
    <2>2. CASE UNCHANGED client
        BY <1>1, <1>4, <2>1, <2>2 DEF RowsExist
    <2>3. ASSUME NEW d \in Clients, client' = [client EXCEPT ![d].op = "done"],
                 client[d].op # "idle"
          PROVE  row'[client'[c].task].status # "ABSENT"
        <3>1. client'[c].task = client[c].task /\ client[c].op # "idle"
            BY <1>4, <2>3 DEF TypeOK, Client
        <3> QED BY <1>1, <2>1, <3>1 DEF RowsExist
    <2>4. ASSUME NEW d \in Clients, NEW t \in Tasks, CancelRead(d, t) \/ RetryRead(d, t)
          PROVE  row'[client'[c].task].status # "ABSENT"
        <3>1. /\ row[t].status # "ABSENT"
              /\ client'[d].task = t
              /\ \A e \in Clients : e # d => client'[e] = client[e]
            BY <2>4 DEF CancelRead, RetryRead, TypeOK, Terminal
        <3> QED BY <1>1, <1>4, <2>1, <3>1 DEF RowsExist
    <2>5. \/ UNCHANGED client
          \/ \E d \in Clients : client' = [client EXCEPT ![d].op = "done"] /\ client[d].op # "idle"
          \/ \E d \in Clients, t \in Tasks : CancelRead(d, t) \/ RetryRead(d, t)
        BY DEF Next, vars, Tick, CreateTask, CancelCommit, RetryCommit, Start, Recover, WorkerEnd,
               Crash, ShutDown, Kill, LoseEvent, HandleCancel, HandleQueued, RunnerStep, Claim, SkipClaim,
               Begin, Succeed, Raise, Fail, Release, Announce, RunnerFault, BeginRaises, SucceedRaises,
               DbFault, dbVars
    <2> QED BY <2>2, <2>3, <2>4, <2>5
<1>5. ASSUME NEW t \in Tasks, events'[t] # {} PROVE row'[t].status # "ABSENT"
    BY <1>1, <1>5, EventsStep DEF RowsExist
<1> QED BY <1>2, <1>3, <1>4, <1>5 DEF RowsExist

LEMMA NextIInv == IInv /\ [Next]_vars => IInv'
<1> SUFFICES ASSUME IInv, [Next]_vars PROVE IInv'
    OBVIOUS
<1> USE DEF IInv, RowInv
<1>1. TypeOK'
    BY NextType
<1>2. ActiveIsLive'
    BY ActiveStep
<1>3. \A t \in Tasks : RowStep(t)
    BY RowChange
<1>4. \A r \in Runners : RunnerChange(r)
    BY RunnerChanges
<1>5. SnapFinished'
    BY <1>1, <1>3, <1>4, SnapStep
<1>6. LeaseShape'
    BY <1>3, LeaseShapeStep
<1>7. RowsExist'
    BY <1>1, <1>3, <1>4, RowsExistStep
<1>8. LeaseInv'
    BY <1>3, <1>4, ClockStep, LeaseStep
<1> QED BY <1>1, <1>2, <1>5, <1>6, <1>7, <1>8

THEOREM IInvariant == Spec => []IInv
BY InitIInv, NextIInv, PTL DEF Spec

-----------------------------------------------------------------------------
(* What follows                                                            *)

\* Never two coroutines inside their leases on one task (runner.py, main.py).
THEOREM LeaseExclusion == Spec => []LeaseExclusive
<1>1. IInv => LeaseExclusive
    BY DEF IInv, LeaseInv
<1> QED BY <1>1, IInvariant, PTL

\* Recovery can find every RUNNING row, and a QUEUED one names no worker.
THEOREM LeaseShapeKept == Spec => []LeaseShape
<1>1. IInv => LeaseShape
    BY DEF IInv, RowInv
<1> QED BY <1>1, IInvariant, PTL

\* active_tasks never names a coroutine that has ended.
THEOREM ActiveEntriesLive == Spec => []ActiveIsLive
<1>1. IInv => ActiveIsLive
    BY DEF IInv, RowInv
<1> QED BY <1>1, IInvariant, PTL

\* Nothing takes a finished task back to QUEUED or RUNNING.
THEOREM FinishedForever == Spec => NoResurrection
<1>1. IInv /\ [Next]_vars =>
        [\A t \in Tasks : row[t].status \in Terminal => row'[t].status \in Terminal]_vars
    BY RowChange, FinishedStays DEF IInv, RowInv
<1> QED BY <1>1, IInvariant, PTL DEF Spec, NoResurrection

-----------------------------------------------------------------------------
(* Outcomes and what was announced of them                                 *)

\* What is published once stays published.
LEMMA EventsGrow ==
    ASSUME TypeOK, [Next]_vars, NEW t \in Tasks PROVE events[t] \subseteq events'[t]
<1>1. ASSUME NEW ts, NEW types, Publish(ts, types) PROVE events[t] \subseteq events'[t]
    BY <1>1 DEF Publish
<1>2. ASSUME NEW r \in Runners, RunnerStep(r) \/ RunnerFault(r)
      PROVE  UNCHANGED events \/ \E ts, types : Publish(ts, types)
    BY <1>2 DEF RunnerStep, Claim, SkipClaim, Begin, Succeed, Raise, Fail, Release, Announce,
                RunnerFault, BeginRaises, SucceedRaises, DbFault, dbVars
<1>3. UNCHANGED events \/ \E ts, types : Publish(ts, types)
    BY <1>2 DEF Next, vars, dbVars, Tick, CreateTask, CancelRead, CancelCommit, RetryRead, RetryCommit,
                Start, Recover, WorkerEnd, Crash, ShutDown, Kill, LoseEvent, HandleCancel, HandleQueued
<1> QED BY <1>1, <1>3

\* A command on its way was published: what the end of a worker sends again is in the log of events.
LEMMA CommandStep ==
    ASSUME TypeOK, [Next]_vars, NEW k \in Commands, NEW t \in Tasks, stream'[k][t] > 0
    PROVE  stream[k][t] > 0 \/ k \in events'[t]
<1>1. ASSUME NEW ts, NEW types, Publish(ts, types) PROVE stream[k][t] > 0 \/ k \in events'[t]
    BY <1>1 DEF Publish
<1>2. ASSUME NEW kind \in Commands, NEW u \in Tasks, Consume(kind, u) PROVE stream[k][t] > 0
    BY <1>2 DEF Consume, TypeOK
<1>3. ASSUME NEW w \in Workers, WorkerEnd(w) PROVE stream[k][t] > 0 \/ k \in events'[t]
    <2>1. events' = events /\ (LeaveEvents \/ stream' = stream)
        BY <1>3 DEF WorkerEnd, Crash, ShutDown, Kill, dbVars
    <2> QED BY <2>1, LeaveEventsType
<1>4. ASSUME NEW r \in Runners, RunnerStep(r) \/ RunnerFault(r)
      PROVE  UNCHANGED stream \/ \E ts, types : Publish(ts, types)
    BY <1>4 DEF RunnerStep, Claim, SkipClaim, Begin, Succeed, Raise, Fail, Release, Announce,
                RunnerFault, BeginRaises, SucceedRaises, DbFault, dbVars
<1>5. \/ UNCHANGED stream
      \/ \E ts, types : Publish(ts, types)
      \/ \E kind \in Commands, u \in Tasks : Consume(kind, u)
      \/ \E w \in Workers : WorkerEnd(w)
    BY <1>4 DEF Next, vars, dbVars, Tick, CreateTask, CancelRead, CancelCommit, RetryRead, RetryCommit,
                Start, Recover, LoseEvent, HandleCancel, HandleQueued, Commands
<1> QED BY <1>1, <1>2, <1>3, <1>5

\* A worker that was shut down stays so.
LEMMA StoppedStep ==
    ASSUME TypeOK, [Next]_vars, NEW w \in Workers, proc[w] = "stopped" PROVE proc'[w] = "stopped"
<1>1. ASSUME NEW v \in Workers, Start(v) \/ WorkerEnd(v) PROVE proc'[w] = "stopped"
    BY <1>1 DEF Start, WorkerEnd, Crash, ShutDown, Kill, MayLeave, TypeOK
<1>2. ASSUME NEW r \in Runners, RunnerStep(r) \/ RunnerFault(r) PROVE proc' = proc
    BY <1>2 DEF RunnerStep, Claim, SkipClaim, Begin, Succeed, Raise, Fail, Release, Announce,
                RunnerFault, BeginRaises, SucceedRaises, DbFault
<1> QED BY <1>1, <1>2 DEF Next, vars, Tick, CreateTask, CancelRead, CancelCommit, RetryRead, RetryCommit,
                          Recover, LoseEvent, HandleCancel, HandleQueued

LEMMA CancelAskedStep ==
    ASSUME TypeOK, TypeOK', CancelAsked, [Next]_vars, \A r \in Runners : RunnerChange(r) PROVE CancelAsked'
<1>1. ASSUME NEW t \in Tasks, stream'["cancel_requested"][t] > 0 PROVE "cancel_requested" \in events'[t]
    BY <1>1, CommandStep, EventsGrow DEF CancelAsked, Commands
<1>2. ASSUME NEW r \in Runners, runner'[r].phase \in {"releasing", "announcing"}
      PROVE  "cancel_requested" \in events'[runner'[r].task] \/ proc'[runner'[r].worker] = "stopped"
    <2>1. runner'[r].task \in Tasks /\ runner'[r].worker \in Workers
        BY <1>2 DEF TypeOK, Live
    <2>2. CASE /\ runner[r].phase \in {"releasing", "announcing"}
               /\ runner'[r].task = runner[r].task /\ runner'[r].worker = runner[r].worker
        BY <2>1, <2>2, EventsGrow, StoppedStep DEF CancelAsked
    <2>3. CASE /\ runner[r].phase \in Interruptible
               /\ \/ stream["cancel_requested"][runner[r].task] > 0
                  \/ proc'[runner[r].worker] = "stopped"
               /\ runner'[r].task = runner[r].task /\ runner'[r].worker = runner[r].worker
        BY <2>1, <2>3, EventsGrow DEF CancelAsked
    <2>4. runner'[r] # FreeRunner
        BY <1>2 DEF FreeRunner
    <2>5. ~Claim(r)
        BY <1>2 DEF Claim, TypeOK, Runner
    <2>6. \A w \in Workers, t \in Tasks :
             runner'[r] # [FreeRunner EXCEPT !.phase = "claiming", !.worker = w, !.task = t, !.now = clock]
        BY <1>2 DEF FreeRunner
    <2>7. runner[r] \in Runner
        BY DEF TypeOK
    <2>8. \A p \in {"executing", "failing"} : \A x : runner'[r] # [runner[r] EXCEPT !.phase = p, !.snap = x]
        BY <1>2, <2>7 DEF Runner
    <2>9. \A p \in Phases : runner'[r] = [runner[r] EXCEPT !.phase = p] =>
             runner'[r].task = runner[r].task /\ runner'[r].worker = runner[r].worker /\ runner'[r].phase = p
        BY <2>7 DEF Runner
    <2>10. "raised" \in Phases /\ "releasing" \in Phases /\ "announcing" \in Phases
        BY DEF Phases
    <2>11. runner'[r] # [runner[r] EXCEPT !.phase = "raised"]
        BY <1>2, <2>9, <2>10
    <2>12. CASE runner'[r] = runner[r]
        BY <1>2, <2>2, <2>12
    <2>13. CASE /\ runner[r].phase \in Interruptible
                /\ \/ stream["cancel_requested"][runner[r].task] > 0
                   \/ proc'[runner[r].worker] = "stopped"
                /\ runner'[r] = [runner[r] EXCEPT !.phase = "releasing"]
        BY <2>3, <2>9, <2>10, <2>13
    <2>14. CASE runner[r].phase = "releasing" /\ runner'[r] = [runner[r] EXCEPT !.phase = "announcing"]
        BY <2>2, <2>9, <2>10, <2>14
    <2> QED BY <2>4, <2>5, <2>6, <2>8, <2>11, <2>12, <2>13, <2>14 DEF RunnerChange
<1> QED BY <1>1, <1>2 DEF CancelAsked

\* How a status becomes final: a runner that holds the task settles it, and ends or goes on to
\* the except block, or it is cancelled after a request or in the shutdown of a worker.
Settles(r, t) ==
    \/ /\ row'[t].status = "COMPLETED" /\ "completed" \in events'[t]
       /\ runner[r].phase = "executing" /\ runner'[r].phase \in {"free", "raised"}
    \/ /\ row'[t].status = "FAILED" /\ "failed" \in events'[t]
       /\ runner[r].phase = "failing" /\ runner'[r].phase = "free"

OutcomeStep(t) ==
    \/ row'[t].status = row[t].status
    \/ row'[t].status \notin Terminal
    \/ row'[t].status = "CANCELLED" /\ ("cancel_requested" \in events'[t] \/ SomeStopped')
    \/ \E r \in Runners : Holds(r, t) /\ Settles(r, t)

LEMMA SettleOutcome ==
    ASSUME TypeOK, ClaimShape, NEW r \in Runners, Succeed(r) \/ SucceedRaises(r) \/ Fail(r)
    PROVE  \A t \in Tasks : OutcomeStep(t)
<1> DEFINE u == runner[r].task
<1>1. u \in Tasks /\ row[u] \in Row /\ runner[r].snap \in Row
    BY DEF TypeOK, Live, Runner, Succeed, SucceedRaises, Fail
<1>2. PICK s \in {"COMPLETED", "FAILED"} :
        /\ row' = [row EXCEPT ![u] = OrmSettle(@, runner[r].snap, s)]
        /\ s = "COMPLETED" => Publish({u}, {"completed"}) /\ (Succeed(r) \/ SucceedRaises(r))
        /\ s = "FAILED" => Publish({u}, {"failed"}) /\ Fail(r)
    BY DEF Succeed, SucceedRaises, Fail
<1>3. row'[u].status \in {row[u].status, s}
    <2>1. s \in Terminal
        BY DEF Terminal
    <2>2. OrmSettle(row[u], runner[r].snap, s).status = IF runner[r].snap.status = s THEN row[u].status ELSE s
        BY <1>1, <2>1, OrmSettleType
    <2> QED BY <1>1, <1>2, <2>2 DEF TypeOK
<1>4. \A t \in Tasks : t # u => row'[t] = row[t]
    BY <1>1, <1>2 DEF TypeOK
<1>5. (s = "COMPLETED" => "completed" \in events'[u]) /\ (s = "FAILED" => "failed" \in events'[u])
    BY <1>1, <1>2 DEF Publish
<1>6. Holds(r, u)
    BY DEF Holds, Live, ClaimShape, Succeed, SucceedRaises, Fail
<1>7. s = "COMPLETED" => runner[r].phase = "executing" /\ runner'[r].phase \in {"free", "raised"}
    BY <1>2 DEF Succeed, SucceedRaises, EndRunner, FreeRunner, TypeOK, Runner
<1>8. s = "FAILED" => runner[r].phase = "failing" /\ runner'[r].phase = "free"
    BY <1>2 DEF Fail, EndRunner, FreeRunner, TypeOK
<1> HIDE DEF u
<1>9. OutcomeStep(u)
    BY <1>3, <1>5, <1>6, <1>7, <1>8 DEF OutcomeStep, Settles
<1> QED BY <1>4, <1>9 DEF OutcomeStep

LEMMA OutcomeSteps ==
    ASSUME IInv, CancelAsked, [Next]_vars PROVE \A t \in Tasks : OutcomeStep(t)
<1>a. TypeOK /\ ClaimShape /\ RowsExist
    BY DEF IInv, LeaseInv, RowInv
<1>1. CASE row' = row
    BY <1>1 DEF OutcomeStep
<1>2. ASSUME NEW u \in Tasks, row' = [row EXCEPT ![u] = NewRow] PROVE \A t \in Tasks : OutcomeStep(t)
    <2>1. \A t \in Tasks : row'[t] = row[t] \/ row'[t].status = "QUEUED"
        BY <1>a, <1>2 DEF TypeOK, NewRow, NoRow
    <2> QED BY <2>1 DEF OutcomeStep, Terminal
<1>3. ASSUME NEW c \in Clients, CancelCommit(c) PROVE \A t \in Tasks : OutcomeStep(t)
    <2> DEFINE u == client[c].task
    <2>1. u \in Tasks /\ row[u] \in Row /\ "cancel_requested" \in events'[u]
        BY <1>a, <1>3 DEF CancelCommit, TypeOK, Publish
    <2>2. \A t \in Tasks : row'[t] = row[t] \/ (t = u /\ row'[t].status = "CANCELLED")
        BY <1>a, <1>3, <2>1 DEF CancelCommit, TypeOK, Row
    <2> QED BY <2>1, <2>2 DEF OutcomeStep
<1>4. ASSUME NEW w \in Workers, Recover(w) PROVE \A t \in Tasks : OutcomeStep(t)
    <2>1. PICK ts : row' = [t \in Tasks |->
                      IF t \in ts THEN [row[t] EXCEPT !.status = "QUEUED", !.worker = NoWorker,
                                                     !.lease = NoLease]
                                  ELSE row[t]]
        BY <1>4 DEF Recover
    <2>2. \A t \in Tasks : row'[t] = row[t] \/ row'[t].status = "QUEUED"
        BY <1>a, <2>1 DEF TypeOK, Row
    <2> QED BY <2>2 DEF OutcomeStep, Terminal
<1>5. ASSUME NEW r \in Runners, Claim(r) PROVE \A t \in Tasks : OutcomeStep(t)
    <2>1. \A t \in Tasks : row'[t] = row[t] \/ row'[t].status = "RUNNING"
        BY <1>a, <1>5 DEF Claim, TypeOK
    <2> QED BY <2>1 DEF OutcomeStep, Terminal
<1>6. ASSUME NEW r \in Runners, Succeed(r) \/ SucceedRaises(r) PROVE \A t \in Tasks : OutcomeStep(t)
    BY <1>a, <1>6, SettleOutcome
<1>7. ASSUME NEW r \in Runners, Fail(r) PROVE \A t \in Tasks : OutcomeStep(t)
    BY <1>a, <1>7, SettleOutcome
<1>8. ASSUME NEW r \in Runners, Release(r) PROVE \A t \in Tasks : OutcomeStep(t)
    <2> DEFINE u == runner[r].task
    <2>1. u \in Tasks /\ row[u] \in Row /\ runner[r].worker \in Workers
        BY <1>a, <1>8 DEF Release, TypeOK, Live
    <2>3. "cancel_requested" \in events'[u] \/ SomeStopped'
        BY <1>8, <2>1 DEF Release, CancelAsked, SomeStopped
    <2>2. \A t \in Tasks : row'[t] = row[t] \/ (t = u /\ row'[t].status = "CANCELLED")
        BY <1>a, <1>8, <2>1 DEF Release, TypeOK, Row
    <2> HIDE DEF u
    <2> QED BY <2>2, <2>3 DEF OutcomeStep
<1>9. ASSUME NEW r \in Runners, RunnerStep(r) \/ RunnerFault(r) PROVE \A t \in Tasks : OutcomeStep(t)
    BY <1>1, <1>5, <1>6, <1>7, <1>8, <1>9
       DEF RunnerStep, RunnerFault, dbVars, SkipClaim, Begin, Raise, Announce, BeginRaises, DbFault
<1>10. ASSUME NEW w \in Workers, WorkerEnd(w) PROVE \A t \in Tasks : OutcomeStep(t)
    BY <1>1, <1>10 DEF WorkerEnd, Crash, ShutDown, Kill, dbVars
<1> QED
    BY <1>1, <1>2, <1>3, <1>4, <1>9, <1>10
    DEF Next, vars, dbVars, Tick, CreateTask, CancelRead, RetryRead, RetryCommit, Start, HandleCancel,
        HandleQueued, LoseEvent

LEMMA AnnouncedStep ==
    ASSUME TypeOK, [Next]_vars, OutcomeAnnounced, \A t \in Tasks : OutcomeStep(t) PROVE OutcomeAnnounced'
<1>1. \A t \in Tasks : events[t] \subseteq events'[t]
    BY EventsGrow
<1>2. SomeStopped => SomeStopped'
    BY StoppedStep DEF SomeStopped
<1> QED BY <1>1, <1>2 DEF OutcomeAnnounced, OutcomeStep, Settles, Terminal

\* Whoever holds a task after a step held it before, or claims it.
LEMMA HoldersStep ==
    ASSUME TypeOK, ClaimShape, NEW t \in Tasks, NEW r \in Runners, RunnerChange(r), Holds(r, t)'
    PROVE  Holds(r, t) \/ (runner[r].task = t /\ Claim(r))
BY ClaimedStep DEF Holds, Live

LEMMA ClaimsOnce ==
    ASSUME TypeOK, NEW r \in Runners, NEW s \in Runners, Claim(r), Claim(s) PROVE r = s
BY DEF Claim, TypeOK, Runner

\* attempts counts claims.
LEMMA AttemptsStep ==
    ASSUME TypeOK, NEW t \in Tasks, RowStep(t)
    PROVE  \/ row'[t].attempts = row[t].attempts /\ \A r \in Runners : runner[r].task = t => ~Claim(r)
           \/ row[t].status = "ABSENT" /\ row'[t] = NewRow
           \/ \E r \in Runners : /\ runner[r].task = t /\ Claim(r)
                                 /\ row'[t].attempts = row[t].attempts + 1 /\ row'[t].status = "RUNNING"
<1>1. ASSUME NEW r \in Runners, runner[r].task = t, Claim(r)
      PROVE  row'[t].attempts = row[t].attempts + 1 /\ row'[t].status = "RUNNING"
    BY <1>1 DEF Claim, TypeOK
<1>2. row[t] \in Row
    BY DEF TypeOK
<1>3. [row[t] EXCEPT !.status = "QUEUED", !.worker = NoWorker, !.lease = NoLease].attempts = row[t].attempts
    BY <1>2 DEF Row
<1> QED BY <1>1, <1>3 DEF RowStep

\* What a runner may still do for a task that its only claim has settled.
Lingers(r) ==
    \/ runner[r].phase \in {"raised", "releasing", "announcing"}
    \/ runner[r].phase = "failing" /\ runner[r].snap.status = "COMPLETED"

LEMMA LingersStep ==
    ASSUME TypeOK, NEW r \in Runners, Live(r), RunnerChange(r), ~Claim(r), Lingers(r), Live(r)',
           row[runner[r].task].status = "COMPLETED"
    PROVE  Lingers(r)'
<1>1. runner[r] \in Runner
    BY DEF TypeOK
<1>2. CASE runner'[r] = runner[r]
    BY <1>2 DEF Lingers
<1>3. CASE \E p \in {"raised", "releasing", "announcing"} : runner'[r] = [runner[r] EXCEPT !.phase = p]
    BY <1>1, <1>3 DEF Lingers, Runner
<1>4. CASE runner'[r] = [runner[r] EXCEPT !.phase = "failing", !.snap = row[runner[r].task]]
    BY <1>1, <1>4 DEF Lingers, Runner
<1>5. runner[r].phase # "claimed" /\ runner'[r] # FreeRunner
    BY DEF Lingers, Live, FreeRunner
<1> QED BY <1>2, <1>3, <1>4, <1>5 DEF RunnerChange

LEMMA CountedStep ==
    ASSUME TypeOK, TypeOK', RowsExist, ClaimShape, ClaimsCounted, NEW t \in Tasks, RowStep(t), OutcomeStep(t),
           \A r \in Runners : RunnerChange(r)
    PROVE  /\ row'[t].attempts = 0 => \A r \in Runners : ~Holds(r, t)'
           /\ row'[t].attempts = 1 => \A r, s \in Runners : Holds(r, t)' /\ Holds(s, t)' => r = s
           /\ row'[t].attempts = 1 /\ row'[t].status \in {"COMPLETED", "FAILED"} =>
                  \A r \in Runners : Holds(r, t)' => row'[t].status = "COMPLETED" /\ Lingers(r)'
<1>1. row[t].attempts \in Nat /\ row[t] \in Row
    BY DEF TypeOK, Row
<1>2. CASE row'[t].attempts = row[t].attempts /\ \A r \in Runners : runner[r].task = t => ~Claim(r)
    <2>1. \A r \in Runners : Holds(r, t)' => Holds(r, t) /\ ~Claim(r)
        BY <1>2, HoldersStep DEF Holds
    <2>2. row'[t].attempts = 0 => \A r \in Runners : ~Holds(r, t)'
        BY <1>2, <2>1 DEF ClaimsCounted
    <2>3. row'[t].attempts = 1 => \A r, s \in Runners : Holds(r, t)' /\ Holds(s, t)' => r = s
        BY <1>2, <2>1 DEF ClaimsCounted
    <2>4. ASSUME row'[t].attempts = 1, row'[t].status \in {"COMPLETED", "FAILED"},
                 NEW r \in Runners, Holds(r, t)'
          PROVE  row'[t].status = "COMPLETED" /\ Lingers(r)'
        <3>1. Holds(r, t) /\ ~Claim(r) /\ Live(r) /\ runner[r].task = t /\ Live(r)'
            BY <2>1, <2>4 DEF Holds
        <3>2. CASE row'[t].status = row[t].status
            <4>1. row[t].status = "COMPLETED" /\ Lingers(r)
                BY <1>2, <2>4, <3>1, <3>2 DEF ClaimsCounted, Lingers
            <4> QED BY <3>1, <3>2, <4>1, LingersStep
        <3>3. CASE \E q \in Runners : Holds(q, t) /\ Settles(q, t)
            <4>1. Settles(r, t)
                BY <1>2, <2>4, <3>1, <3>3 DEF ClaimsCounted
            <4> QED BY <3>1, <4>1 DEF Settles, Lingers, Live
        <3> QED BY <2>4, <3>2, <3>3 DEF OutcomeStep, Terminal
    <2> QED BY <2>2, <2>3, <2>4
<1>3. CASE row[t].status = "ABSENT" /\ row'[t] = NewRow
    <2>1. \A r \in Runners : ~(Live(r) /\ runner[r].task = t)
        BY <1>3 DEF RowsExist
    <2>2. \A r \in Runners : ~Holds(r, t) /\ ~(runner[r].task = t /\ Claim(r))
        BY <2>1 DEF Holds, Claim, Live
    <2>3. \A r \in Runners : ~Holds(r, t)'
        BY <2>2, HoldersStep
    <2> QED BY <2>3
<1>4. ASSUME NEW c \in Runners, runner[c].task = t, Claim(c),
             row'[t].attempts = row[t].attempts + 1, row'[t].status = "RUNNING"
      PROVE  /\ row'[t].attempts # 0 /\ row'[t].status \notin {"COMPLETED", "FAILED"}
             /\ row'[t].attempts = 1 => \A r, s \in Runners : Holds(r, t)' /\ Holds(s, t)' => r = s
    <2>1. row'[t].attempts = 1 => \A r \in Runners : ~Holds(r, t)
        BY <1>1, <1>4 DEF ClaimsCounted
    <2>2. row'[t].attempts = 1 => \A r \in Runners : Holds(r, t)' => r = c
        BY <1>4, <2>1, HoldersStep, ClaimsOnce
    <2> QED BY <1>1, <1>4, <2>2
<1> QED BY <1>2, <1>3, <1>4, AttemptsStep

\* A finished row is as it was, but for another outcome; a row that came about has no lease.
LEMMA AbsentStep ==
    ASSUME TypeOK, AbsentIsEmpty, \A t \in Tasks : RowStep(t) PROVE AbsentIsEmpty'
<1> SUFFICES ASSUME NEW t \in Tasks, row'[t].status = "ABSENT" PROVE row'[t].lease = NoLease
    BY DEF AbsentIsEmpty
<1>1. row[t].status = "ABSENT"
    BY RowExists
<1>2. row'[t] = row[t] \/ row'[t] = NewRow
    BY <1>1 DEF RowStep, Claim, Claimable
<1> QED BY <1>1, <1>2 DEF AbsentIsEmpty, NewRow, NoRow

\* retry_task: what a request read as finished is finished when it commits.
LEMMA RetryStep ==
    ASSUME TypeOK, TypeOK', RetryShape, RetryOfFinished, [Next]_vars, \A t \in Tasks : RowStep(t)
    PROVE  RetryShape' /\ RetryOfFinished'
<1>1. \A t \in Tasks : row[t].status \in Terminal => row'[t].status \in Terminal
    BY FinishedStays
<1>2. \A t \in Tasks : row'[t].status = "ABSENT" => row[t].status = "ABSENT"
    BY RowExists
<1>3. ASSUME NEW c \in Clients, NEW u \in Tasks, RetryCommit(c, u) PROVE RetryShape' /\ RetryOfFinished'
    <2> DEFINE old == client[c].task
    <2>1. old \in Tasks /\ row[old].status \in Terminal /\ old # u /\ old # NoTask
        BY <1>3, NullAssumption DEF RetryCommit, RetryShape, TypeOK, Terminal
    <2>2. row'[u].status = "QUEUED" /\ retryOf'[u] = old
        BY <1>3, <2>1 DEF RetryCommit, TypeOK, NewRow, NoRow
    <2>3. \A t \in Tasks : t # u => retryOf'[t] = retryOf[t]
        BY <1>3 DEF RetryCommit, TypeOK
    <2>4. \A d \in Clients : client'[d].op = "retrying" => client'[d] = client[d]
        BY <1>3 DEF RetryCommit, TypeOK, Client
    <2>5. RetryShape'
        BY <1>1, <1>2, <2>2, <2>3, <2>4 DEF RetryShape, TypeOK
    <2>6. ASSUME NEW t \in Tasks, retryOf'[t] # NoTask
          PROVE  retryOf'[t] # t /\ row'[retryOf'[t]].status \in Terminal
        <3>1. CASE t = u
            BY <1>1, <2>1, <2>2, <3>1
        <3>2. CASE t # u
            BY <1>1, <2>3, <2>6, <3>2 DEF RetryOfFinished, TypeOK
        <3> QED BY <3>1, <3>2
    <2> QED BY <2>5, <2>6 DEF RetryOfFinished
<1>4. CASE UNCHANGED retryOf /\ \A d \in Clients : client'[d].op = "retrying" =>
              client'[d] = client[d] \/ row[client'[d].task].status \in Terminal
    <2>1. RetryShape'
        BY <1>1, <1>2, <1>4 DEF RetryShape, TypeOK
    <2>2. RetryOfFinished'
        BY <1>1, <1>4 DEF RetryOfFinished, TypeOK
    <2> QED BY <2>1, <2>2
<1>5. ASSUME NEW c \in Clients, CancelCommit(c) \/ \E t \in Tasks : CancelRead(c, t) \/ RetryRead(c, t)
      PROVE  UNCHANGED retryOf /\ \A d \in Clients : client'[d].op = "retrying" =>
              client'[d] = client[d] \/ row[client'[d].task].status \in Terminal
    BY <1>5 DEF CancelCommit, CancelRead, RetryRead, dbVars, TypeOK, Client
<1>6. ASSUME NEW r \in Runners, RunnerStep(r) \/ RunnerFault(r) PROVE UNCHANGED <<retryOf, client>>
    BY <1>6 DEF RunnerStep, Claim, SkipClaim, Begin, Succeed, Raise, Fail, Release, Announce,
                RunnerFault, BeginRaises, SucceedRaises, DbFault, dbVars
<1> QED
    BY <1>3, <1>4, <1>5, <1>6
    DEF Next, vars, dbVars, Tick, CreateTask, Start, Recover, WorkerEnd, Crash, ShutDown, Kill, LoseEvent,
        HandleCancel, HandleQueued

-----------------------------------------------------------------------------
(* Queued tasks                                                            *)

Pending(t) ==
    \/ stream["queued"][t] > 0
    \/ \E r \in Runners : runner[r].task = t /\ runner[r].phase = "claiming"

\* A runner puts no row back into the queue.
LEMMA RunnerQueuesNothing ==
    ASSUME TypeOK, NEW r \in Runners, RunnerStep(r), NEW t \in Tasks, row'[t].status = "QUEUED"
    PROVE  row[t].status = "QUEUED"
<1>1. CASE row' = row
    BY <1>1
<1>2. CASE Claim(r)
    BY <1>2 DEF Claim, TypeOK
<1>3. CASE Succeed(r) \/ Fail(r)
    <2> DEFINE u == runner[r].task
    <2>1. u \in Tasks /\ row[u] \in Row /\ runner[r].snap \in Row
        BY <1>3 DEF TypeOK, Live, Runner, Succeed, Fail
    <2>2. PICK s \in Terminal : row' = [row EXCEPT ![u] = OrmSettle(@, runner[r].snap, s)]
        BY <1>3 DEF Succeed, Fail, Terminal
    <2>3. OrmSettle(row[u], runner[r].snap, s).status = IF runner[r].snap.status = s THEN row[u].status ELSE s
        BY <2>1, OrmSettleType
    <2>4. row'[u].status \in {row[u].status, s} /\ \A v \in Tasks : v # u => row'[v] = row[v]
        BY <2>1, <2>2, <2>3 DEF TypeOK
    <2> QED BY <2>4 DEF Terminal
<1>4. CASE Release(r)
    BY <1>4 DEF Release, TypeOK, Live, Row
<1> QED BY <1>1, <1>2, <1>3, <1>4 DEF RunnerStep, SkipClaim, Begin, Raise, Announce, dbVars

LEMMA PendingStep ==
    ASSUME TypeOK, ActiveIsLive, CancelAsked, QueuedIsPending, [Next]_vars PROVE QueuedIsPending'
<1>1. proc' = proc \/ \E w \in Workers : Start(w) \/ WorkerEnd(w)
    <2>1. ASSUME NEW r \in Runners, RunnerStep(r) \/ RunnerFault(r) PROVE proc' = proc
        BY <2>1 DEF RunnerStep, Claim, SkipClaim, Begin, Succeed, Raise, Fail, Release, Announce,
                    RunnerFault, BeginRaises, SucceedRaises, DbFault
    <2> QED BY <2>1 DEF Next, vars, Tick, CreateTask, CancelRead, CancelCommit, RetryRead, RetryCommit,
                        Recover, LoseEvent, HandleCancel, HandleQueued
<1>2. (\A w \in Workers : proc'[w] \in {"off", "up"}) =>
          (\A w \in Workers : proc[w] \in {"off", "up"}) /\ \A w \in Workers : ~WorkerEnd(w)
    <2>1. ASSUME NEW w \in Workers, WorkerEnd(w) PROVE proc'[w] \in {"stopped", "dead"}
        BY <2>1 DEF WorkerEnd, Crash, ShutDown, Kill, TypeOK
    <2>2. ASSUME NEW w \in Workers, Start(w) PROVE proc[w] = "off" /\ \A v \in Workers : v # w => proc'[v] = proc[v]
        BY <2>2 DEF Start, TypeOK
    <2> QED BY <1>1, <2>1, <2>2
<1> SUFFICES ASSUME ~Faults, \A w \in Workers : proc[w] \in {"off", "up"} /\ ~WorkerEnd(w),
                    NEW t \in Tasks, row'[t].status = "QUEUED", "cancel_requested" \notin events'[t]
             PROVE  Pending(t)'
    BY <1>2 DEF QueuedIsPending, Pending
<1>3. "cancel_requested" \notin events[t]
    BY EventsGrow
<1>4. row[t].status = "QUEUED" => Pending(t)
    BY <1>3 DEF QueuedIsPending, Pending
\* What leaves the pending command and the claiming runners of the task.
<1>5. CASE /\ row[t].status = "QUEUED" /\ stream'["queued"][t] >= stream["queued"][t]
           /\ \A r \in Runners : runner[r].task = t /\ runner[r].phase = "claiming" => runner'[r] = runner[r]
    <2>1. stream["queued"][t] \in Nat /\ stream'["queued"][t] \in Nat
        BY NextType DEF TypeOK, Commands
    <2> QED BY <1>4, <1>5, <2>1 DEF Pending
<1>6. ASSUME NEW ts, NEW types, Publish(ts, types) PROVE stream'["queued"][t] >= stream["queued"][t]
    BY <1>6 DEF Publish, TypeOK, Commands
<1>7. ASSUME NEW ts, NEW types, Publish(ts, types), t \in ts, "queued" \in types PROVE Pending(t)'
    BY <1>7 DEF Publish, TypeOK, Commands, Pending
<1>8. CASE UNCHANGED <<row, stream, runner>>
    BY <1>5, <1>8 DEF TypeOK, Commands
<1>9. ASSUME NEW u \in Tasks, CreateTask(u) \/ \E c \in Clients : RetryCommit(c, u) PROVE Pending(t)'
    <2>1. Publish({u}, {"created", "queued"}) /\ row' = [row EXCEPT ![u] = NewRow] /\ runner' = runner
        BY <1>9 DEF CreateTask, RetryCommit
    <2>2. CASE t = u
        BY <1>7, <2>1, <2>2
    <2>3. CASE t # u
        BY <1>5, <1>6, <2>1, <2>3 DEF TypeOK
    <2> QED BY <2>2, <2>3
<1>10. ASSUME NEW c \in Clients, CancelCommit(c) PROVE Pending(t)'
    <2>1. t # client[c].task
        BY <1>10 DEF CancelCommit, Publish
    <2>2. row'[t] = row[t]
        BY <1>10, <2>1 DEF CancelCommit, TypeOK
    <2> QED BY <1>5, <1>6, <1>10, <2>2 DEF CancelCommit
<1>11. ASSUME NEW w \in Workers, Recover(w) PROVE Pending(t)'
    <2>1. PICK ts : /\ row' = [x \in Tasks |->
                          IF x \in ts THEN [row[x] EXCEPT !.status = "QUEUED", !.worker = NoWorker,
                                                         !.lease = NoLease]
                                      ELSE row[x]]
                    /\ Publish(ts, {"queued"})
        BY <1>11 DEF Recover
    <2>2. CASE t \in ts
        BY <1>7, <2>1, <2>2
    <2>3. CASE t \notin ts
        <3>1. row'[t] = row[t] /\ runner' = runner
            BY <1>11, <2>1, <2>3 DEF Recover
        <3> QED BY <1>5, <1>6, <2>1, <3>1
    <2> QED BY <2>2, <2>3
<1>12. ASSUME NEW w \in Workers, NEW u \in Tasks, NEW r \in Runners, HandleQueued(w, u, r) PROVE Pending(t)'
    <2>1. row' = row /\ ~Live(r) /\ \A q \in Runners : q # r => runner'[q] = runner[q]
        BY <1>12 DEF HandleQueued, TypeOK
    <2>2. CASE u = t
        BY <1>12, <2>2 DEF HandleQueued, FreeRunner, Pending, TypeOK
    <2>3. CASE u # t
        <3>1. stream'["queued"][t] = stream["queued"][t]
            BY <1>12, <2>3 DEF HandleQueued, Consume, TypeOK, Commands
        <3>2. stream["queued"][t] \in Nat
            BY DEF TypeOK, Commands
        <3> QED BY <1>5, <2>1, <3>1, <3>2 DEF Live
    <2> QED BY <2>2, <2>3
<1>13. ASSUME NEW w \in Workers, NEW u \in Tasks, HandleCancel(w, u) PROVE Pending(t)'
    <2>1. stream["cancel_requested"][u] > 0 /\ row' = row
        BY <1>13 DEF HandleCancel, Consume
    <2>2. u # t
        BY <1>3, <2>1 DEF CancelAsked
    <2>3. stream'["queued"][t] = stream["queued"][t] /\ stream["queued"][t] \in Nat
        BY <1>13, <2>2 DEF HandleCancel, Consume, TypeOK, Commands
    <2>4. \A r \in Runners : runner[r].task = t => runner'[r] = runner[r]
        <3> DEFINE q == active[w][u]
        <3>1. CASE q = NoRunner
            BY <1>13, <3>1 DEF HandleCancel
        <3>2. CASE q # NoRunner
            <4>1. q \in Runners /\ runner[q].task = u
                BY <3>2 DEF TypeOK, ActiveIsLive
            <4>2. \A r \in Runners : r # q => runner'[r] = runner[r]
                BY <1>13, <3>2, <4>1 DEF HandleCancel, EndRunner, TypeOK
            <4> QED BY <2>2, <4>1, <4>2
        <3> QED BY <3>1, <3>2
    <2> QED BY <1>5, <2>1, <2>3, <2>4
<1>14. ASSUME NEW r \in Runners, RunnerStep(r) PROVE Pending(t)'
    <2>1. row[t].status = "QUEUED"
        BY <1>14, RunnerQueuesNothing
    <2>2. stream["queued"][t] \in Nat /\ runner[r] \in Runner
        BY DEF TypeOK, Commands
    <2>3. stream'["queued"][t] >= stream["queued"][t]
        <3>1. UNCHANGED stream \/ \E ts, types : Publish(ts, types)
            BY <1>14 DEF RunnerStep, Claim, SkipClaim, Begin, Succeed, Raise, Fail, Release, Announce, dbVars
        <3> QED BY <1>6, <2>2, <3>1
    <2>4. \A q \in Runners : q # r => runner'[q] = runner[q]
        BY <1>14 DEF RunnerStep, Claim, SkipClaim, Begin, Succeed, Raise, Fail, Release, Announce, EndRunner,
                     TypeOK
    <2>5. ~(runner[r].task = t /\ runner[r].phase = "claiming")
        <3> SUFFICES ASSUME runner[r].task = t, runner[r].phase = "claiming" PROVE FALSE
            OBVIOUS
        <3>1. CASE Claim(r)
            BY <3>1 DEF Claim, TypeOK
        <3>2. CASE SkipClaim(r)
            BY <2>1, <3>2 DEF SkipClaim, Claimable
        <3> QED BY <1>14, <3>1, <3>2 DEF RunnerStep, Begin, Succeed, Raise, Fail, Release, Announce
    <2> QED BY <1>5, <2>1, <2>3, <2>4, <2>5
<1> QED
    BY <1>8, <1>9, <1>10, <1>11, <1>12, <1>13, <1>14
    DEF Next, vars, dbVars, Tick, CancelRead, RetryRead, Start, LoseEvent, RunnerFault, BeginRaises,
        SucceedRaises, DbFault

-----------------------------------------------------------------------------
(* The invariant of outcomes, retries and queued tasks                     *)

OutcomeInv ==
    OutcomeAnnounced /\ CancelAsked /\ ClaimsCounted /\ RetryShape /\ RetryOfFinished /\ AbsentIsEmpty
    /\ QueuedIsPending

LEMMA InitOutcome == Init => OutcomeInv
<1> SUFFICES ASSUME Init PROVE OutcomeInv
    OBVIOUS
<1>1. \A r \in Runners : runner[r].phase = "free" /\ ~Live(r)
    BY DEF Init, Live, FreeRunner
<1>2. \A t \in Tasks : row[t].status = "ABSENT" /\ row[t].lease = NoLease
    BY DEF Init, NoRow
<1>3. OutcomeAnnounced /\ AbsentIsEmpty /\ QueuedIsPending
    BY <1>2 DEF OutcomeAnnounced, AbsentIsEmpty, QueuedIsPending
<1>4. CancelAsked /\ ClaimsCounted
    BY <1>1 DEF Init, CancelAsked, ClaimsCounted, Holds, Commands
<1>5. RetryShape /\ RetryOfFinished
    BY DEF Init, RetryShape, RetryOfFinished, IdleClient
<1> QED BY <1>3, <1>4, <1>5 DEF OutcomeInv

LEMMA NextOutcome == IInv /\ OutcomeInv /\ [Next]_vars => OutcomeInv'
<1> SUFFICES ASSUME IInv, OutcomeInv, [Next]_vars PROVE OutcomeInv'
    OBVIOUS
<1> USE DEF OutcomeInv
<1>1. TypeOK /\ TypeOK' /\ RowsExist /\ SnapFinished /\ ActiveIsLive /\ ClaimShape
    BY NextType DEF IInv, RowInv, LeaseInv
<1>2. (\A t \in Tasks : RowStep(t)) /\ (\A r \in Runners : RunnerChange(r))
    BY <1>1, RowChange, RunnerChanges
<1>3. \A t \in Tasks : OutcomeStep(t)
    BY OutcomeSteps
<1>4. OutcomeAnnounced' /\ CancelAsked'
    BY <1>1, <1>2, <1>3, AnnouncedStep, CancelAskedStep
<1>5. ClaimsCounted'
    BY <1>1, <1>2, <1>3, CountedStep DEF ClaimsCounted, Lingers
<1>6. RetryShape' /\ RetryOfFinished' /\ AbsentIsEmpty'
    BY <1>1, <1>2, RetryStep, AbsentStep
<1>7. QueuedIsPending'
    BY <1>1, PendingStep
<1> QED BY <1>4, <1>5, <1>6, <1>7

LEMMA OutcomeInvariant == Spec => []OutcomeInv
BY InitOutcome, NextOutcome, IInvariant, PTL DEF Spec

\* No outcome is committed without its event, and no task is cancelled that nobody asked to
\* cancel but by the shutdown of a worker (service.py cancel_task, runner.py, main.py),
\* whatever crashes, races and faults.
THEOREM OutcomesAnnounced == Spec => []OutcomeAnnounced
<1>1. OutcomeInv => OutcomeAnnounced
    BY DEF OutcomeInv
<1> QED BY <1>1, OutcomeInvariant, PTL

\* A retry refers to another task, which is finished and stays so (service.py retry_task).
THEOREM RetriesOfFinished == Spec => []RetryOfFinished
<1>1. OutcomeInv => RetryOfFinished
    BY DEF OutcomeInv
<1> QED BY <1>1, OutcomeInvariant, PTL

\* While no worker dies and nothing raises, an undelivered task.queued or a runner about to
\* claim it stands behind every queued task (main.py process_event, runner.py).
THEOREM QueuedHasRunner == Spec => []QueuedIsPending
<1>1. OutcomeInv => QueuedIsPending
    BY DEF OutcomeInv
<1> QED BY <1>1, OutcomeInvariant, PTL

\* Only a runner that holds a task puts another outcome for its COMPLETED or FAILED, and after
\* one claim only FAILED for the COMPLETED it has committed itself, its commit having raised.
\* The two writers of CANCELLED that do not look at the row are apart.
THEOREM OutcomesFinal == Spec => OutcomeFinal
<1>1. IInv /\ OutcomeInv /\ [Next]_vars =>
        [\A t \in Tasks :
            /\ row[t].status \in {"COMPLETED", "FAILED"}
            /\ row'[t].status \notin {row[t].status, "CANCELLED"}
            => \E r \in Runners :
                 /\ Holds(r, t)
                 /\ runner'[r] # runner[r]
                 /\ row[t].attempts = 1 => /\ row[t].status = "COMPLETED"
                                          /\ runner[r].phase = "failing"
                                          /\ runner[r].snap.status = "COMPLETED"]_vars
    <2> SUFFICES ASSUME IInv, OutcomeInv, [Next]_vars, NEW t \in Tasks,
                        row[t].status \in {"COMPLETED", "FAILED"},
                        row'[t].status \notin {row[t].status, "CANCELLED"}
                 PROVE  \E r \in Runners :
                          /\ Holds(r, t)
                          /\ runner'[r] # runner[r]
                          /\ row[t].attempts = 1 => /\ row[t].status = "COMPLETED"
                                                   /\ runner[r].phase = "failing"
                                                   /\ runner[r].snap.status = "COMPLETED"
        OBVIOUS
    <2>1. row'[t].status \in Terminal
        BY RowChange, FinishedStays DEF IInv, RowInv, Terminal
    <2>2. PICK r \in Runners : Holds(r, t) /\ Settles(r, t)
        BY <2>1, OutcomeSteps DEF OutcomeInv, OutcomeStep
    <2>3. runner'[r] # runner[r]
        BY <2>2 DEF Settles
    <2>4. ASSUME row[t].attempts = 1
          PROVE  /\ row[t].status = "COMPLETED"
                 /\ runner[r].phase = "failing"
                 /\ runner[r].snap.status = "COMPLETED"
        <3>1. /\ row[t].status = "COMPLETED"
              /\ \/ runner[r].phase \in {"raised", "releasing", "announcing"}
                 \/ runner[r].phase = "failing" /\ runner[r].snap.status = "COMPLETED"
            BY <2>2, <2>4 DEF OutcomeInv, ClaimsCounted
        <3> QED BY <2>2, <3>1 DEF Settles
    <2> QED BY <2>2, <2>3, <2>4
<1> QED BY <1>1, IInvariant, OutcomeInvariant, PTL DEF Spec, OutcomeFinal

-----------------------------------------------------------------------------
(* The task table implements its contract                                  *)

\* A step that only takes one existing row to an outcome settles a task of the contract.
LEMMA SettleMaps ==
    ASSUME NEW u \in Tasks, TypeOK, TypeOK', UNCHANGED clock, row[u].status # "ABSENT",
           row'[u].status \in Terminal, row'[u].lease \in {row[u].lease, NoLease},
           \A t \in Tasks : t # u => row'[t] = row[t]
    PROVE  Contract!Settle(u)
<1>1. [t \in Tasks |-> row'[t].status] = [[t \in Tasks |-> row[t].status] EXCEPT ![u] = row'[u].status]
    OBVIOUS
<1>2. [t \in Tasks |-> row'[t].lease] = [[t \in Tasks |-> row[t].lease] EXCEPT ![u] = row'[u].lease]
    OBVIOUS
<1> QED BY <1>1, <1>2 DEF Contract!Settle, Contract!Settled, Contract!NoLease, Terminal, NoLease

\* A step that only inserts one row submits a task of the contract.
LEMMA SubmitMaps ==
    ASSUME NEW u \in Tasks, TypeOK, AbsentIsEmpty, UNCHANGED clock, row[u].status = "ABSENT",
           row'[u] = NewRow, \A t \in Tasks : t # u => row'[t] = row[t]
    PROVE  Contract!Submit(u)
<1>1. row[u].lease = NoLease /\ row'[u].status = "QUEUED" /\ row'[u].lease = NoLease
    BY DEF AbsentIsEmpty, NewRow, NoRow
<1>2. [t \in Tasks |-> row'[t].status] = [[t \in Tasks |-> row[t].status] EXCEPT ![u] = row'[u].status]
    OBVIOUS
<1>3. [t \in Tasks |-> row'[t].lease] = [t \in Tasks |-> row[t].lease]
    BY <1>1
<1> QED BY <1>1, <1>2, <1>3 DEF Contract!Submit

\* A claim hands the task over: its WHERE clause was read with a clock of the past.
LEMMA ClaimMaps ==
    ASSUME TypeOK, PastNow, NEW r \in Runners, Claim(r) PROVE \E t \in Tasks : Contract!HandOver(t)
<1> PICK u \in Tasks : u = runner[r].task
    BY DEF Claim, TypeOK, Live
<1>1. runner[r].now \in Nat /\ runner[r].now <= clock /\ clock \in Nat
    BY DEF Claim, TypeOK, Live, Runner, PastNow
<1>2. ExpiryOf(r) \in 0..(clock + LeaseTime)
    BY <1>1, BoundsAssumption DEF ExpiryOf
<1>3. /\ row'[u].status = "RUNNING" /\ row'[u].lease = ExpiryOf(r)
      /\ \A t \in Tasks : t # u => row'[t] = row[t]
    BY <1>1 DEF Claim, TypeOK
<1>4. row[u].status = "QUEUED" \/ (row[u].status = "RUNNING" /\ row[u].lease < clock)
    <2>1. row[u].status = "QUEUED" \/ (row[u].status = "RUNNING" /\ row[u].lease < runner[r].now)
        <3>1. Claimable(u, runner[r].now)
            BY DEF Claim
        <3> QED BY <3>1 DEF Claimable, LeaseOver
    <2>2. row[u].lease \in Int
        BY <1>1 DEF TypeOK, Row, NoLease
    <2> QED BY <1>1, <2>1, <2>2
<1>5. [t \in Tasks |-> row'[t].status] = [[t \in Tasks |-> row[t].status] EXCEPT ![u] = "RUNNING"]
    BY <1>3
<1>6. [t \in Tasks |-> row'[t].lease] = [[t \in Tasks |-> row[t].lease] EXCEPT ![u] = ExpiryOf(r)]
    BY <1>3
<1>7. UNCHANGED clock
    BY DEF Claim
<1>8. Contract!HandOver(u)
    BY <1>2, <1>4, <1>5, <1>6, <1>7 DEF Contract!HandOver, Contract!Over
<1> QED BY <1>8

\* A recovery requeues what it recovered.
LEMMA RecoverMaps ==
    ASSUME TypeOK, NEW w \in Workers, Recover(w) PROVE \E ts \in SUBSET Tasks : Contract!Requeue(ts)
<1>1. PICK ts \in SUBSET {t \in Tasks : row[t].status = "RUNNING" /\ LeaseOver(t, clock)} :
        row' = [t \in Tasks |->
                  IF t \in ts THEN [row[t] EXCEPT !.status = "QUEUED", !.worker = NoWorker,
                                                 !.lease = NoLease]
                              ELSE row[t]]
    BY DEF Recover
<1>2. \A t \in Tasks : row'[t].status = IF t \in ts THEN "QUEUED" ELSE row[t].status
    BY <1>1 DEF TypeOK, Row
<1>3. \A t \in Tasks : row'[t].lease = IF t \in ts THEN NoLease ELSE row[t].lease
    BY <1>1 DEF TypeOK, Row
<1>4. \A t \in ts : t \in Tasks /\ row[t].status = "RUNNING" /\ row[t].lease < clock
    BY <1>1 DEF LeaseOver
<1>5. UNCHANGED clock
    BY DEF Recover
<1>6. [t \in Tasks |-> row'[t].status] =
        [t \in Tasks |-> IF t \in ts THEN "QUEUED" ELSE [x \in Tasks |-> row[x].status][t]]
    BY <1>2
<1>7. [t \in Tasks |-> row'[t].lease] =
        [t \in Tasks |-> IF t \in ts THEN NoLease ELSE [x \in Tasks |-> row[x].lease][t]]
    BY <1>3
<1>8. Contract!Requeue(ts)
    BY <1>4, <1>5, <1>6, <1>7 DEF Contract!Requeue, Contract!Over, Contract!NoLease, NoLease
<1> QED BY <1>1, <1>8

\* What the writers of an outcome leave in the row.
LEMMA SettledStep ==
    ASSUME TypeOK, RowsExist, SnapFinished, NEW r \in Runners, Succeed(r) \/ SucceedRaises(r) \/ Fail(r) \/ Release(r)
    PROVE  LET u == runner[r].task IN
           row'[u].status \in Terminal /\ row'[u].lease \in {row[u].lease, NoLease}
<1> DEFINE u == runner[r].task
<1>1. u \in Tasks /\ row[u] \in Row /\ runner[r].snap \in Row
    BY DEF Succeed, SucceedRaises, Fail, Release, TypeOK, Live, Runner
<1>2. CASE Release(r)
    BY <1>1, <1>2 DEF Release, TypeOK, Row, Terminal
<1>3. CASE Succeed(r) \/ SucceedRaises(r) \/ Fail(r)
    <2>1. PICK s \in Terminal : row' = [row EXCEPT ![u] = OrmSettle(@, runner[r].snap, s)]
        BY <1>3 DEF Succeed, SucceedRaises, Fail, Terminal
    <2>2. row'[u] = OrmSettle(row[u], runner[r].snap, s)
        BY <1>1, <2>1 DEF TypeOK
    <2>3. runner[r].snap.status = s => row[u].status \in Terminal
        BY <1>3 DEF SnapFinished, Succeed, SucceedRaises, Fail
    <2>4. /\ OrmSettle(row[u], runner[r].snap, s).status =
                IF runner[r].snap.status = s THEN row[u].status ELSE s
          /\ OrmSettle(row[u], runner[r].snap, s).lease \in {row[u].lease, NoLease}
        BY <1>1, OrmSettleType
    <2> QED BY <2>2, <2>3, <2>4
<1> QED BY <1>2, <1>3

\* Every step is one the contract allows, or leaves what the contract is about.
LEMMA ContractStep ==
    ASSUME IInv, OutcomeInv, [Next]_vars PROVE [Contract!Next]_(Contract!vars)
<1>1. /\ TypeOK /\ TypeOK' /\ RowsExist /\ SnapFinished /\ PastNow /\ AbsentIsEmpty
      /\ \A t \in Tasks : RowStep(t)
    BY NextType, RowChange DEF IInv, RowInv, LeaseInv, OutcomeInv
<1> USE DEF Contract!Next
<1>2. CASE UNCHANGED <<clock, row>>
    BY <1>2 DEF Contract!vars
<1>3. CASE Tick
    BY <1>3 DEF Tick, dbVars, Contract!Pass
<1>4. ASSUME NEW u \in Tasks, CreateTask(u) \/ \E c \in Clients : RetryCommit(c, u) PROVE Contract!Next
    <2>1. /\ row[u].status = "ABSENT" /\ UNCHANGED clock
          /\ row'[u] = NewRow /\ \A t \in Tasks : t # u => row'[t] = row[t]
        BY <1>1, <1>4 DEF CreateTask, RetryCommit, TypeOK
    <2>2. Contract!Submit(u)
        BY <1>1, <2>1, SubmitMaps
    <2> QED BY <2>2
\* A step that takes one existing row to an outcome, or leaves it.
<1>5. ASSUME NEW u \in Tasks, UNCHANGED clock, row[u].status # "ABSENT", row'[u].status \in Terminal,
             row'[u].lease \in {row[u].lease, NoLease}, \A t \in Tasks : t # u => row'[t] = row[t]
      PROVE  Contract!Next
    BY <1>1, <1>5, SettleMaps
<1>6. ASSUME NEW c \in Clients, CancelCommit(c) PROVE [Contract!Next]_(Contract!vars)
    <2> DEFINE u == client[c].task
    <2>1. u \in Tasks /\ row[u].status # "ABSENT" /\ row[u] \in Row
        BY <1>1, <1>6 DEF CancelCommit, RowsExist, TypeOK
    <2>2. CASE row' = [row EXCEPT ![u].status = "CANCELLED"]
        <3>1. row'[u].status = "CANCELLED" /\ row'[u].lease = row[u].lease
            BY <1>1, <2>1, <2>2 DEF TypeOK, Row
        <3>2. \A t \in Tasks : t # u => row'[t] = row[t]
            BY <1>1, <2>1, <2>2 DEF TypeOK
        <3> QED BY <1>5, <1>6, <2>1, <3>1, <3>2 DEF CancelCommit, Terminal
    <2> QED BY <1>2, <1>6, <2>2 DEF CancelCommit
<1>7. ASSUME NEW r \in Runners, Succeed(r) \/ SucceedRaises(r) \/ Fail(r) \/ Release(r) PROVE Contract!Next
    <2> DEFINE u == runner[r].task
    <2>1. u \in Tasks /\ row[u].status # "ABSENT"
        BY <1>1, <1>7 DEF Succeed, SucceedRaises, Fail, Release, RowsExist, TypeOK, Live
    <2>2. (\A t \in Tasks : t # u => row'[t] = row[t]) /\ UNCHANGED clock
        BY <1>1, <1>7, <2>1 DEF Succeed, SucceedRaises, Fail, Release, TypeOK
    <2>3. row'[u].status \in Terminal /\ row'[u].lease \in {row[u].lease, NoLease}
        BY <1>1, <1>7, <2>1, SettledStep
    <2> QED BY <1>5, <2>1, <2>2, <2>3
<1>8. ASSUME NEW r \in Runners, Claim(r) PROVE Contract!Next
    BY <1>1, <1>8, ClaimMaps
<1>9. ASSUME NEW w \in Workers, Recover(w) PROVE Contract!Next
    BY <1>1, <1>9, RecoverMaps
<1>10. ASSUME NEW r \in Runners, RunnerStep(r) \/ RunnerFault(r) PROVE [Contract!Next]_(Contract!vars)
    BY <1>2, <1>7, <1>8, <1>10
       DEF RunnerStep, SkipClaim, Begin, Raise, Announce, RunnerFault, BeginRaises, DbFault, dbVars
<1> QED
    BY <1>2, <1>3, <1>4, <1>6, <1>9, <1>10
    DEF Next, vars, dbVars, CancelRead, RetryRead, Start, WorkerEnd, Crash, ShutDown, Kill, HandleCancel,
        HandleQueued, LoseEvent

\* Whatever requests, workers and failures do, the tasks table keeps the contract of
\* TaskContract: who may be handed a task, when it is queued again, that an outcome stays one.
THEOREM ContractImplemented == Spec => ImplementsContract
<1>1. Init => Contract!Init
    BY DEF Init, NoRow, Contract!Init, Contract!NoLease, NoLease
<1>2. IInv /\ OutcomeInv /\ [Next]_vars => [Contract!Next]_(Contract!vars)
    BY ContractStep
<1> QED BY <1>1, <1>2, IInvariant, OutcomeInvariant, PTL DEF Spec, ImplementsContract, Contract!Spec

=============================================================================
