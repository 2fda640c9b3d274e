----------------------------- MODULE MCServices -----------------------------
(* TLC instance of the services round the task queue.  They share no state    *)
(* with each other: a behaviour is one of a single component, chosen at the   *)
(* start, and the variables of the others are Absent.                         *)
EXTENDS Naturals, FiniteSets

CONSTANTS
    Absent,                                                                      \* model value
    Clients, ReadCount, MaxEntries,                                              \* Realtime
    MaxCancels,                                                                  \* Sandbox
    Uploads, Extractions, MaxChunks,                                             \* Ingestion
    Providers, Models, Streams, HistoryLimit, SubscriberQueueSize, MaxEvents,    \* AuditedCalls
    Filled                                                                       \* SchemaMigration

\* The bounds are numbers, what is counted is finite, and a queue of an asyncio
\* subscriber has a limit (a maximum of zero would be none).
ASSUME ServicesAssumption ==
    /\ ReadCount \in Nat \ {0} /\ MaxEntries \in Nat /\ MaxCancels \in Nat /\ MaxChunks \in Nat /\ MaxEvents \in Nat
    /\ HistoryLimit \in Nat /\ SubscriberQueueSize \in Nat \ {0}
    /\ IsFiniteSet(Clients) /\ IsFiniteSet(Providers)

VARIABLES
    component,
    stream, pointer, tail, since, batch, target, cursor, attached, dead, room, socket, delivered, departed,
    program, pc, create, start, container, removals, outcome, cancels, cut,
    disk, upload, files, ocr, stage, file_id, mime, length, added, chunks,
    default, host, enabled, log, history, counts, last_external, last_cloud_ai, queue, subscribers, reader, received,
    posting, model, _legacy_models, active, posted,
    revision, schema, rows, call

realtime == <<stream, pointer, tail, since, batch, target, cursor, attached, dead, room, socket, delivered, departed>>
sandbox == <<program, pc, create, start, container, removals, outcome, cancels, cut>>
ingestion == <<disk, upload, files, ocr, stage, file_id, mime, length, added, chunks>>
auditor == <<default, host, enabled, log, history, counts, last_external, last_cloud_ai, queue, subscribers, reader,
             received, posting, model, _legacy_models, active, posted>>
migration == <<revision, schema, rows, call>>
vars == <<component, realtime, sandbox, ingestion, auditor, migration>>

RT == INSTANCE Realtime
SB == INSTANCE Sandbox
ING == INSTANCE Ingestion
AC == INSTANCE AuditedCalls WITH call <- posting
SM == INSTANCE SchemaMigration

NoRealtime ==
    /\ stream = Absent /\ pointer = Absent /\ tail = Absent /\ since = Absent /\ batch = Absent
    /\ target = Absent /\ cursor = Absent /\ attached = Absent /\ dead = Absent
    /\ room = Absent /\ socket = Absent /\ delivered = Absent /\ departed = Absent
NoSandbox ==
    /\ program = Absent /\ pc = Absent /\ outcome = Absent /\ cancels = Absent /\ cut = Absent
    /\ create = Absent /\ start = Absent /\ container = Absent /\ removals = Absent
NoIngestion ==
    /\ disk = Absent /\ upload = Absent /\ files = Absent /\ ocr = Absent /\ stage = Absent
    /\ file_id = Absent /\ mime = Absent /\ length = Absent /\ added = Absent /\ chunks = Absent
NoAuditedCalls ==
    /\ default = Absent /\ host = Absent /\ enabled = Absent /\ log = Absent /\ history = Absent /\ counts = Absent
    /\ last_external = Absent /\ last_cloud_ai = Absent /\ queue = Absent /\ subscribers = Absent /\ reader = Absent
    /\ received = Absent /\ posting = Absent /\ model = Absent /\ _legacy_models = Absent /\ active = Absent /\ posted = Absent
NoMigration == revision = Absent /\ schema = Absent /\ rows = Absent /\ call = Absent

Init ==
    \/ component = "realtime" /\ RT!Init /\ NoSandbox /\ NoIngestion /\ NoAuditedCalls /\ NoMigration
    \/ component = "sandbox" /\ SB!Init /\ NoRealtime /\ NoIngestion /\ NoAuditedCalls /\ NoMigration
    \/ component = "ingestion" /\ ING!Init /\ NoRealtime /\ NoSandbox /\ NoAuditedCalls /\ NoMigration
    \/ component = "auditor" /\ AC!Init /\ NoRealtime /\ NoSandbox /\ NoIngestion /\ NoMigration
    \/ component = "schema" /\ SM!Init /\ NoRealtime /\ NoSandbox /\ NoIngestion /\ NoAuditedCalls

Next ==
    \/ component = "realtime" /\ RT!Next /\ UNCHANGED <<component, sandbox, ingestion, auditor, migration>>
    \/ component = "sandbox" /\ SB!Next /\ UNCHANGED <<component, realtime, ingestion, auditor, migration>>
    \/ component = "ingestion" /\ ING!Next /\ UNCHANGED <<component, realtime, sandbox, auditor, migration>>
    \/ component = "auditor" /\ AC!Next /\ UNCHANGED <<component, realtime, sandbox, ingestion, migration>>
    \/ component = "schema" /\ SM!Next /\ UNCHANGED <<component, realtime, sandbox, ingestion, auditor>>

(* The fairness of Sandbox; the other services promise nothing of the kind.   *)
Sandboxed(A) == component = "sandbox" /\ A

Spec ==
    /\ Init /\ [][Next]_vars
    /\ WF_sandbox(Sandboxed(SB!Call)) /\ WF_sandbox(Sandboxed(SB!DaemonRemoves))
    /\ WF_sandbox(Sandboxed(SB!DaemonCreates)) /\ WF_sandbox(Sandboxed(SB!DaemonStarts))

-----------------------------------------------------------------------------
(* The types of the chosen component.                                         *)
TypeOK ==
    /\ component = "realtime" => RT!TypeOK
    /\ component = "sandbox" => SB!TypeOK
    /\ component = "ingestion" => ING!TypeOK
    /\ component = "auditor" => AC!TypeOK
    /\ component = "schema" => SM!TypeOK

(* The properties of the components, as they are stated and explained there.  *)
ReachesAll == RT!ReachesAll
TailHasNoGap == RT!TailHasNoGap
RemovalFollows == component = "sandbox" => SB!RemovalFollows
CleanedUp == component = "sandbox" => SB!CleanedUp
WholeExtractions == component = "ingestion" => ING!WholeExtractions
CallsAccounted == component = "auditor" => AC!CallsAccounted
ReportTrue == component = "auditor" => AC!ReportTrue
StreamsKeepNewest == component = "auditor" => AC!StreamsKeepNewest
UpgradesFit == SM!UpgradesFit
=============================================================================
