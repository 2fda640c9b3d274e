---------------------------- MODULE AuditedCalls ----------------------------
(***************************************************************************)
(* The calls of OllamaProvider to the model server, with the bookkeeping of *)
(* the admission facade, and the ApplicationTelemetryAuditor that every     *)
(* call reports to before it is sent, with the event streams that are read  *)
(* from it.  The auditor never awaits inside its lock, and the lock is      *)
(* never contended in one event loop: each of its operations is one step.   *)
(* Every provider is used by one caller at a time (a graph, a chat stream,  *)
(* an embedding service).  bytes_transferred is never given by the callers. *)
(***************************************************************************)
EXTENDS Naturals, Sequences, FiniteSets

CONSTANTS
    Providers, Models,
    Streams,        \* requests to /sovereignty/events
    HistoryLimit, SubscriberQueueSize,
    MaxEvents       \* bound of the model: calls that are recorded

Categories == {"local_ai_inference", "external_api", "external_cloud_ai", "blocked_external", "unknown_external"}
External == Categories \ {"local_ai_inference"}
NoEvent == [sequence |-> 0]

VARIABLES
    default,        \* default_external_decision of the policy
    host,           \* where a provider's base_url is listed in the policy
    enabled,        \* _enabled
    log,            \* every event recorded so far, for the properties
    history, counts, last_external, last_cloud_ai,
    queue,          \* of each stream
    subscribers,    \* _subscribers
    reader,         \* "new", "subscribed" before the generator runs, "streaming", or "closed"
    received,       \* the sequence number of the last envelope a stream was sent
    call, model,      \* of each provider: its call and the model it is for
    _legacy_models, active,   \* of each provider's facade
    posted          \* requests that were sent

auditor == <<log, history, counts, last_external, last_cloud_ai, queue>>
settings == <<default, host, enabled>>
streamVars == <<subscribers, reader, received>>
facade == <<_legacy_models, active>>
vars == <<settings, auditor, streamVars, call, model, facade, posted>>

Last(s) == s[Len(s)]
Newest(s, n) == IF Len(s) > n THEN SubSeq(s, Len(s) - n + 1, Len(s)) ELSE s

Init ==
    /\ default \in {"blocked", "allowed", "unknown"}
    /\ host \in [Providers -> {"local_ai_services", "external_api_hosts", "cloud_ai_services", "unlisted"}]
    /\ enabled = TRUE
    /\ log = <<>> /\ history = <<>> /\ counts = [c \in Categories |-> 0]
    /\ last_external = NoEvent /\ last_cloud_ai = NoEvent
    /\ queue = [s \in Streams |-> <<>>] /\ subscribers = {}
    /\ reader = [s \in Streams |-> "new"] /\ received = [s \in Streams |-> 0]
    /\ call = [p \in Providers |-> "idle"] /\ model \in [Providers -> Models]
    /\ _legacy_models = [p \in Providers |-> <<>>] /\ active = [p \in Providers |-> [m \in Models |-> 0]]
    /\ posted = 0

-----------------------------------------------------------------------------
classify(place) ==
    CASE place = "local_ai_services" -> "local_ai_inference"
      [] place = "cloud_ai_services" -> "external_cloud_ai"
      [] place = "external_api_hosts" -> "external_api"
      [] OTHER -> IF default = "blocked" THEN "blocked_external" ELSE "unknown_external"

_decision(category) ==
    CASE category = "local_ai_inference" -> "allowed"
      [] category \in {"external_api", "external_cloud_ai"} -> default
      [] OTHER -> IF default = "blocked" THEN "blocked" ELSE "unknown"

\* Variant: a queue without a bound.
PutUnbounded(q, n) == Append(q, n)

\* Variant: an envelope that finds the queue full is dropped.
PutDropsNewest(q, n) == IF Len(q) = SubscriberQueueSize THEN q ELSE Append(q, n)

\* put_nowait, after the oldest envelope was taken out of a full queue.
Put(q, n) == Append(IF Len(q) = SubscriberQueueSize THEN Tail(q) ELSE q, n)

\* Variant: a blocked attempt is no connection.
NotesExternalAllowed(event) ==
    /\ last_external' = IF event.category \in External /\ event.decision # "blocked" THEN event ELSE last_external
    /\ last_cloud_ai' = IF event.category = "external_cloud_ai" THEN event ELSE last_cloud_ai

NotesExternal(event) ==
    /\ last_external' = IF event.category \in External THEN event ELSE last_external
    /\ last_cloud_ai' = IF event.category = "external_cloud_ai" THEN event ELSE last_cloud_ai

record_request(place) ==
    LET category == classify(place)
        event == [sequence |-> Len(log) + 1, category |-> category, decision |-> _decision(category)] IN
    /\ enabled
    /\ log' = Append(log, event)
    /\ history' = Newest(Append(history, event), HistoryLimit)
    /\ counts' = [c \in Categories |->
         counts[c] + (IF c = category THEN 1 ELSE 0)
                   + (IF c = "blocked_external" /\ c # category /\ event.decision = "blocked" THEN 1 ELSE 0)]
    /\ NotesExternal(event)
    /\ queue' = [s \in Streams |-> IF s \in subscribers THEN Put(queue[s], event.sequence) ELSE queue[s]]

set_enabled ==
    /\ enabled' = ~enabled
    /\ UNCHANGED <<default, host, auditor, streamVars, call, model, facade, posted>>

-----------------------------------------------------------------------------
\* The facade is granted by the provider's own manager, on the GPU or the CPU.
Admit(p, m) ==
    /\ call[p] = "idle" /\ Len(log) < MaxEvents
    /\ call' = [call EXCEPT ![p] = "admitted"] /\ model' = [model EXCEPT ![p] = m]
    /\ _legacy_models' = [_legacy_models EXCEPT ![p] = Append(@, m)]
    /\ active' = [active EXCEPT ![p][m] = @ + 1]
    /\ UNCHANGED <<settings, auditor, streamVars, posted>>

Record(p) ==
    /\ call[p] = "admitted" /\ Len(log) < MaxEvents
    /\ record_request(host[p])
    /\ call' = [call EXCEPT ![p] = "recorded"]
    /\ UNCHANGED <<settings, streamVars, model, facade, posted>>

\* Variant: the request is sent without being recorded.
PostEarly(p) ==
    /\ call[p] = "admitted" /\ Len(log) < MaxEvents
    /\ call' = [call EXCEPT ![p] = "posted"] /\ posted' = posted + 1
    /\ UNCHANGED <<settings, auditor, streamVars, model, facade>>

Post(p) ==
    /\ call[p] = "recorded"
    /\ call' = [call EXCEPT ![p] = "posted"] /\ posted' = posted + 1
    /\ UNCHANGED <<settings, auditor, streamVars, model, facade>>

\* An answer, an error, a timeout, a cancellation, or an auditor that refuses
\* to record: the finally clause releases what was admitted last.
End(p) ==
    /\ call[p] # "idle"
    /\ call' = [call EXCEPT ![p] = "idle"]
    /\ IF _legacy_models[p] = <<>> THEN UNCHANGED facade
       ELSE /\ active' = [active EXCEPT ![p][Last(_legacy_models[p])] = @ - 1]
            /\ _legacy_models' = [_legacy_models EXCEPT ![p] = SubSeq(@, 1, Len(@) - 1)]
    /\ UNCHANGED <<settings, auditor, streamVars, model, posted>>

-----------------------------------------------------------------------------
Subscribe(s) ==
    /\ reader[s] = "new"
    /\ reader' = [reader EXCEPT ![s] = "subscribed"]
    /\ subscribers' = subscribers \cup {s}
    /\ UNCHANGED <<settings, auditor, received, call, model, facade, posted>>

StartStream(s) ==
    /\ reader[s] = "subscribed"
    /\ reader' = [reader EXCEPT ![s] = "streaming"]
    /\ UNCHANGED <<settings, auditor, subscribers, received, call, model, facade, posted>>

Yield(s) ==
    /\ reader[s] = "streaming" /\ queue[s] # <<>>
    /\ received' = [received EXCEPT ![s] = Head(queue[s])]
    /\ queue' = [queue EXCEPT ![s] = Tail(@)]
    /\ UNCHANGED <<settings, log, history, counts, last_external, last_cloud_ai, subscribers, reader, call, model, facade, posted>>

\* The client goes.  A generator that runs unsubscribes in its finally clause;
\* one that was never started has none to run, and its queue stays subscribed.
Disconnect(s) ==
    /\ reader[s] \in {"subscribed", "streaming"}
    /\ reader' = [reader EXCEPT ![s] = "closed"]
    /\ subscribers' = IF reader[s] = "streaming" THEN subscribers \ {s} ELSE subscribers
    /\ UNCHANGED <<settings, auditor, received, call, model, facade, posted>>

Next ==
    \/ set_enabled
    \/ \E p \in Providers : (\E m \in Models : Admit(p, m)) \/ Record(p) \/ Post(p) \/ End(p)
    \/ \E s \in Streams : Subscribe(s) \/ StartStream(s) \/ Yield(s) \/ Disconnect(s)

Spec == Init /\ [][Next]_vars

-----------------------------------------------------------------------------
TypeOK ==
    /\ default \in {"blocked", "allowed", "unknown"} /\ enabled \in BOOLEAN
    /\ host \in [Providers -> {"local_ai_services", "external_api_hosts", "cloud_ai_services", "unlisted"}]
    /\ Len(log) <= MaxEvents /\ counts \in [Categories -> Nat] /\ posted \in Nat
    /\ \A s \in Streams : queue[s] \in Seq(1..MaxEvents) /\ Len(queue[s]) <= SubscriberQueueSize
    /\ subscribers \subseteq Streams /\ reader \in [Streams -> {"new", "subscribed", "streaming", "closed"}]
    /\ received \in [Streams -> 0..MaxEvents]
    /\ call \in [Providers -> {"idle", "admitted", "recorded", "posted"}] /\ model \in [Providers -> Models]
    /\ \A p \in Providers : _legacy_models[p] \in Seq(Models)
    /\ active \in [Providers -> [Models -> Nat]]

(* No request is sent unrecorded, also when the auditor is switched off        *)
(* between two calls, and what a call holds of its facade is given back on     *)
(* every way out of it.                                                        *)
CallsAccounted ==
    /\ posted + Cardinality({p \in Providers : call[p] = "recorded"}) <= Len(log)
    /\ \A p \in Providers, m \in Models :
         active[p][m] = IF call[p] # "idle" /\ model[p] = m THEN 1 ELSE 0

\* The positions of the log's events of some categories, and the newest of them.
Where(cs) == {i \in 1..Len(log) : log[i].category \in cs}
NewestIs(event, cs) ==
    IF Where(cs) = {} THEN event = NoEvent
    ELSE \E i \in Where(cs) : event = log[i] /\ \A j \in Where(cs) : j <= i

(* The report of metrics() is true to everything that was ever recorded, also  *)
(* where the bounded history has forgotten it: the counters count each         *)
(* category, blocked attempts once more as blocked, and the last external      *)
(* connection is the newest of the external events, blocked ones included.     *)
ReportTrue ==
    /\ history = Newest(log, HistoryLimit)
    /\ NewestIs(last_external, External) /\ NewestIs(last_cloud_ai, {"external_cloud_ai"})
    /\ \A c \in Categories \ {"blocked_external"} : counts[c] = Cardinality(Where({c}))
    /\ counts["blocked_external"] = Cardinality({i \in 1..Len(log) : log[i].decision = "blocked"})

(* A slow stream loses the oldest envelopes and never the newest: what waits   *)
(* for it is a gapless run that ends at the last event, newer than anything it *)
(* was sent.                                                                   *)
StreamsKeepNewest ==
    \A s \in subscribers : queue[s] # <<>> =>
        /\ Last(queue[s]) = Len(log) /\ received[s] < Head(queue[s])
        /\ \A i \in 1..Len(queue[s]) : queue[s][i] = Len(log) - Len(queue[s]) + i
=============================================================================
