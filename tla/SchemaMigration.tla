-------------------------- MODULE SchemaMigration --------------------------
(***************************************************************************)
(* The Alembic chain under backend/alembic/versions and the tables that the *)
(* SQLAlchemy models expect at its end.  A column is TRUE when an insert    *)
(* has to give it a value: NOT NULL without a server default.  Types,       *)
(* indexes and the actions of foreign keys are left out, except for the     *)
(* cast of agent_runs.tier_used, which may fail on the rows there are.      *)
(* One alembic call is one transaction (env.py): all of it or nothing.      *)
(***************************************************************************)
EXTENDS Naturals, Sequences, TLC

CONSTANT Filled   \* bound of the model: the tables that rows are put into

VARIABLES
    revision,   \* how many migrations of the chain are applied
    schema,     \* table -> column -> required
    rows,       \* the tables that hold rows
    call        \* how the last alembic call ended

vars == <<revision, schema, rows, call>>

Columns(required, optional) == [c \in required \cup optional |-> c \in required]
None == [t \in {} |-> {}]
NoChange == [creates |-> None, drops |-> {}, adds |-> None, removes |-> None, relaxes |-> None, unnamed |-> FALSE]

-----------------------------------------------------------------------------
\* The tables of the models, as the code fills them today.
TaskTables ==
    "projects" :> Columns({"id", "name"}, {"created_at", "updated_at"}) @@
    "tasks" :> Columns({"id", "project_id", "task_type", "status", "input_payload", "attempt_count"},
        {"result_payload", "retry_of_task_id", "worker_id", "started_at", "heartbeat", "lease_expiry", "created_at", "updated_at"})

AgentTables ==
    "agent_runs" :> Columns({"id", "task_id", "status"}, {"tier_used", "created_at", "completed_at", "failure_reason"}) @@
    "plan_steps" :> Columns({"id", "agent_run_id", "step_number", "tool_name", "tool_args", "status"}, {"retryable", "created_at"}) @@
    "execution_trace_records" :> Columns(
        {"id", "task_id", "execution_id", "step_id", "step_type", "component", "start_time", "status", "retry_number", "artifact_refs"},
        {"end_time", "duration_ms", "parent_step_id", "error_category", "safe_summary"}) @@
    "approval_requests" :> Columns({"id", "task_id", "execution_id", "operation", "risk_level", "status"},
        {"decision_reason", "created_at", "decided_at"})

ToolTables == "tool_executions" :> Columns({"id", "plan_step_id", "status"}, {"result", "executed_at"})

EventRecords == Columns({"id", "event_type", "source", "correlation_id", "payload", "schema_version"},
    {"occurred_at", "task_id", "agent_run_id", "causation_id"})

EventTables ==
    "event_records" :> EventRecords @@
    "outbox_events" :> Columns({"id", "stream_name", "event_payload", "idempotency_key", "processed"}, {"created_at"})

WorkspaceTables ==
    "files" :> Columns({"id", "project_id", "filename", "content_type", "file_path"}, {"created_at"}) @@
    "document_chunks" :> Columns({"id", "file_id", "chunk_index", "text"}, {"embedding", "created_at"})

MetricTables == "resource_metrics" :>
    Columns({"id", "cpu_percent", "memory_percent", "active_tasks"}, {"gpu_percent", "recorded_at"})

AuditTables == "audit_logs" :> Columns({"id", "actor", "action", "target_type", "target_id"}, {"occurred_at", "details"})

RegistryTables == "model_registry" :> Columns(
    {"id", "model_id", "display_name", "provider_type", "runtime_type", "location", "capabilities", "modalities", "cpu_fallback",
     "gpu_required", "supported_devices", "configuration", "availability", "load_state", "health"},
    {"context_limit", "estimated_vram_mb", "measured_vram_mb", "version", "failure_reason", "last_checked_at"})

MemberTables ==
    "users" :> Columns({"id", "username", "hashed_password"}, {}) @@
    "project_members" :> Columns({"id", "project_id", "user_id"}, {"role"})

Migrated == TaskTables @@ AgentTables @@ ToolTables @@ EventTables @@ WorkspaceTables @@ MetricTables @@ AuditTables @@ RegistryTables

-----------------------------------------------------------------------------
InitialSchema ==
    "projects" :> Columns({"id", "name"}, {"created_at", "deleted_at"}) @@
    "audit_logs" :> Columns({"id", "actor", "action", "target_type", "target_id"}, {"occurred_at", "details"}) @@
    "event_records" :> EventRecords @@
    "model_registry" :> Columns({"id", "tier", "model_tag", "status"}, {"last_checked_at"}) @@
    "resource_metrics" :> Columns({"id", "cpu_percent", "ram_percent", "active_task_count"}, {"sampled_at", "gpu_percent", "vram_used_mb"}) @@
    "tasks" :> Columns({"id", "project_id", "task_type", "status", "input_payload"},
        {"result_payload", "retry_of_task_id", "created_at", "updated_at"}) @@
    "files" :> Columns({"id", "project_id", "filename", "content_type", "size_bytes", "storage_path"}, {"uploaded_at", "deleted_at"}) @@
    "agent_runs" :> Columns({"id", "task_id", "tier_used", "status"}, {"iteration_count", "created_at", "completed_at"}) @@
    "document_chunks" :> Columns({"id", "file_id", "chunk_index", "text", "embedding"}, {}) @@
    "artifacts" :> Columns({"id", "task_id", "artifact_type", "content_ref"}, {"agent_run_id", "created_at"}) @@
    "plan_steps" :> Columns({"id", "agent_run_id", "step_index", "tool_name", "args", "status"}, {"result"}) @@
    "tool_executions" :> Columns({"id", "plan_step_id", "tool_name", "status"}, {"started_at", "completed_at", "duration_ms", "error_message"})

Initial == [NoChange EXCEPT !.creates = InitialSchema]
DropInitial == [NoChange EXCEPT !.drops = DOMAIN InitialSchema]

Events == "events" :> Columns({"id", "event_type", "source", "payload"}, {"task_id", "correlation_id", "created_at"})

FilesAndChunks == [NoChange EXCEPT
    !.creates = Events,
    !.drops = {"event_records", "artifacts"},
    !.relaxes = "document_chunks" :> {"embedding"},
    !.adds = "document_chunks" :> Columns({}, {"created_at"}) @@ "files" :> Columns({"file_path"}, {"created_at"}) @@
             "projects" :> Columns({}, {"updated_at"}),
    !.removes = "files" :> {"uploaded_at", "storage_path", "deleted_at", "size_bytes"} @@ "projects" :> {"deleted_at"} @@
                "tasks" :> {"retry_of_task_id"}]

\* Both generated downgrades that drop a foreign key name it None: Alembic
\* cannot emit the statement and raises.
Unnamed == [NoChange EXCEPT !.unnamed = TRUE]

AuditLogsNoOp == NoChange

ResourceMetric == [NoChange EXCEPT
    !.adds = "resource_metrics" :> Columns({"memory_percent", "active_tasks"}, {"recorded_at"}),
    !.removes = "resource_metrics" :> {"active_task_count", "sampled_at", "vram_used_mb", "ram_percent"}]

UndoResourceMetric == [NoChange EXCEPT
    !.adds = "resource_metrics" :> Columns({"ram_percent", "active_task_count"}, {"vram_used_mb", "sampled_at"}),
    !.removes = "resource_metrics" :> {"recorded_at", "active_tasks", "memory_percent"}]

RestoreEventRecords == [NoChange EXCEPT !.creates = "event_records" :> EventRecords, !.drops = {"events"}]
UndoEventRecords == [NoChange EXCEPT !.creates = Events, !.drops = {"event_records"}]

OutboxAdds ==
    "agent_runs" :> Columns({}, {"failure_reason"}) @@
    "plan_steps" :> Columns({"step_number", "tool_args"}, {"retryable", "created_at"}) @@
    "tasks" :> Columns({"attempt_count"}, {"retry_of_task_id", "worker_id", "started_at", "heartbeat", "lease_expiry"}) @@
    "tool_executions" :> Columns({}, {"result", "executed_at"})

OutboxRemoves ==
    "agent_runs" :> {"iteration_count"} @@ "plan_steps" :> {"result", "step_index", "args"} @@
    "tool_executions" :> {"tool_name", "error_message", "completed_at", "duration_ms", "started_at"}

OutboxCreates == "outbox_events" :>
    Columns({"id", "stream_name", "event_payload", "idempotency_key", "processed"}, {"created_at"})

\* Variant: the old columns of plan_steps stay.
OutboxKeepsSteps == [NoChange EXCEPT
    !.creates = OutboxCreates, !.drops = {"model_registry"}, !.relaxes = "agent_runs" :> {"tier_used"}, !.adds = OutboxAdds,
    !.removes = [OutboxRemoves EXCEPT !["plan_steps"] = {"result"}]]

OutboxAndLeases == [NoChange EXCEPT
    !.creates = OutboxCreates, !.drops = {"model_registry"}, !.relaxes = "agent_runs" :> {"tier_used"},
    !.adds = OutboxAdds, !.removes = OutboxRemoves]

ModelCatalog == [NoChange EXCEPT !.creates = "model_registry" :> Columns(
    {"id", "model_id", "display_name", "provider_type", "runtime_type", "location", "capabilities", "modalities", "cpu_fallback",
     "gpu_required", "supported_devices", "configuration", "availability", "load_state", "health"},
    {"context_limit", "estimated_vram_mb", "measured_vram_mb", "version", "failure_reason", "last_checked_at"})]

UndoModelCatalog == [NoChange EXCEPT !.drops = {"model_registry"}]

TracesAndApprovals == [NoChange EXCEPT !.creates =
    "execution_trace_records" :> Columns(
        {"id", "task_id", "execution_id", "step_id", "step_type", "component", "start_time", "status", "retry_number", "artifact_refs"},
        {"end_time", "duration_ms", "parent_step_id", "error_category", "safe_summary"}) @@
    "approval_requests" :> Columns({"id", "task_id", "execution_id", "operation", "risk_level", "status"},
        {"decision_reason", "created_at", "decided_at"})]

UndoTracesAndApprovals == [NoChange EXCEPT !.drops = {"approval_requests", "execution_trace_records"}]

Upgrades == <<Initial, FilesAndChunks, AuditLogsNoOp, ResourceMetric, RestoreEventRecords, OutboxAndLeases, ModelCatalog, TracesAndApprovals>>
Downgrades == <<DropInitial, Unnamed, AuditLogsNoOp, UndoResourceMetric, UndoEventRecords, Unnamed, UndoModelCatalog, UndoTracesAndApprovals>>

-----------------------------------------------------------------------------
At(f, t) == IF t \in DOMAIN f THEN f[t] ELSE {}
Required(columns) == {c \in DOMAIN columns : columns[c]}

\* What PostgreSQL and Alembic refuse, whatever the rows are.
Applicable(m, s) ==
    /\ ~m.unnamed
    /\ DOMAIN m.creates \cap DOMAIN s = {} /\ m.drops \subseteq DOMAIN s
    /\ DOMAIN m.adds \cup DOMAIN m.removes \cup DOMAIN m.relaxes \subseteq DOMAIN s \ m.drops
    /\ \A t \in DOMAIN m.adds : DOMAIN m.adds[t] \cap DOMAIN s[t] = {}
    /\ \A t \in DOMAIN m.removes : m.removes[t] \subseteq DOMAIN s[t]

\* A required column cannot be added to rows that have no value for it.
FitsRows(m, held) == \A t \in held \cap DOMAIN m.adds : Required(m.adds[t]) = {}

Altered(m, t, columns) ==
    LET added == IF t \in DOMAIN m.adds THEN m.adds[t] ELSE None IN
    added @@ [c \in DOMAIN columns \ At(m.removes, t) |-> columns[c] /\ c \notin At(m.relaxes, t)]

Apply(m, s) == m.creates @@ [t \in DOMAIN s \ m.drops |-> Altered(m, t, s[t])]

\* A path of migrations, applied one after the other until one of them raises.
Run(path, s, held) ==
    LET state[i \in 0..Len(path)] ==
          IF i = 0 THEN [ok |-> TRUE, schema |-> s, rows |-> held]
          ELSE LET before == state[i - 1]
                   after == Apply(path[i], before.schema) IN
               IF before.ok /\ Applicable(path[i], before.schema) /\ FitsRows(path[i], before.rows)
               THEN [ok |-> TRUE, schema |-> after, rows |-> (before.rows \ path[i].drops) \cap DOMAIN after]
               ELSE [before EXCEPT !.ok = FALSE]
    IN state[Len(path)]

UpPath(n) == SubSeq(Upgrades, revision + 1, n)
DownPath(n) == [i \in 1..(revision - n) |-> Downgrades[revision + 1 - i]]

Succeeds(path, n, name) ==
    LET end == Run(path, schema, rows) IN
    /\ end.ok
    /\ revision' = n /\ schema' = end.schema /\ rows' = end.rows /\ call' = name

\* Tiers that are no integers cannot be cast.
CastFails(path) == "agent_runs" \in rows /\ \E i \in DOMAIN path : "agent_runs" \in DOMAIN path[i].relaxes

Upgrade(n) == n > revision /\ Succeeds(UpPath(n), n, "upgraded")

UpgradeRaises(n) ==
    /\ n > revision
    /\ ~Run(UpPath(n), schema, rows).ok \/ CastFails(UpPath(n))
    /\ call' = "upgrade raised"
    /\ UNCHANGED <<revision, schema, rows>>

Downgrade(n) == n < revision /\ Succeeds(DownPath(n), n, "downgraded")

DowngradeRaises(n) ==
    /\ n < revision /\ ~Run(DownPath(n), schema, rows).ok
    /\ call' = "downgrade raised"
    /\ UNCHANGED <<revision, schema, rows>>

Parent == [t \in {"tasks", "files"} |-> "projects"] @@ "agent_runs" :> "tasks" @@ "plan_steps" :> "agent_runs" @@
          "tool_executions" :> "plan_steps" @@ "document_chunks" :> "files"

\* The release that goes with the revision writes, and rows are deleted leaves first.
Insert(t) ==
    /\ t \in DOMAIN schema \ rows
    /\ t \in DOMAIN Parent => Parent[t] \in rows
    /\ rows' = rows \cup {t} /\ call' = "none"
    /\ UNCHANGED <<revision, schema>>

Clear(t) ==
    /\ t \in rows /\ \A u \in rows \cap DOMAIN Parent : Parent[u] # t
    /\ rows' = rows \ {t} /\ call' = "none"
    /\ UNCHANGED <<revision, schema>>

Init == revision = 0 /\ schema = None /\ rows = {} /\ call = "none"

Next ==
    \/ \E n \in 0..Len(Upgrades) : Upgrade(n) \/ UpgradeRaises(n) \/ Downgrade(n) \/ DowngradeRaises(n)
    \/ \E t \in Filled : Insert(t) \/ Clear(t)

Spec == Init /\ [][Next]_vars

-----------------------------------------------------------------------------
TypeOK ==
    /\ revision \in 0..Len(Upgrades) /\ rows \subseteq Filled \cap DOMAIN schema
    /\ call \in {"none", "upgraded", "upgrade raised", "downgraded", "downgrade raised"}

\* The tables of a schema take the inserts of the models: every column the models
\* write is there, and none that they leave empty is required.
FitsModels(s) ==
    \A t \in DOMAIN Migrated :
        /\ t \in DOMAIN s /\ DOMAIN Migrated[t] \subseteq DOMAIN s[t]
        /\ Required(s[t]) \subseteq Required(Migrated[t])

(* Whatever was upgraded, filled, emptied and downgraded before, an upgrade is *)
(* refused on account of rows only, so that an empty database can always be    *)
(* brought to the head, and at the head the tables take the inserts of the     *)
(* models: the migrations add up to the models, and the downgrades that go     *)
(* through undo exactly what their upgrades did.                               *)
UpgradesFit ==
    [][/\ call' = "upgrade raised" => rows # {}
       /\ call' = "upgraded" /\ revision' = Len(Upgrades) => FitsModels(schema')]_vars

(* What the code does not do: at the head every table of the models exists.    *)
HeadHasMembers == revision = Len(Upgrades) => DOMAIN MemberTables \subseteq DOMAIN schema
=============================================================================
