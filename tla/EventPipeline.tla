--------------------------- MODULE EventPipeline ---------------------------
(***************************************************************************)
(* How an event gets from the transaction that publishes it to a handler:   *)
(* the outbox table (app/events/publisher.py), the dispatcher that copies   *)
(* it to a Redis stream (app/events/dispatcher.py), and the consumer group  *)
(* reading the stream, with its idempotency keys, its reaper of stale       *)
(* entries and its dead letter stream (app/events/consumer.py).  Each       *)
(* worker process runs one of each loop.  Every step is one transaction or  *)
(* one call to Redis; between two the process may die or another may act.   *)
(*                                                                         *)
(* Left out: time (an entry that is pending may have been so for long       *)
(* enough to be reaped), the expiry of an idempotency key after a day, and  *)
(* envelopes that do not parse, which the publisher never writes.           *)
(***************************************************************************)
EXTENDS Naturals, FiniteSets, Sequences

CONSTANTS
    Events,       \* the events that transactions publish
    Workers,      \* the worker processes
    FetchLimit,   \* LIMIT of the dispatcher's SELECT
    ReadCount,    \* count of XREADGROUP
    MaxAttempts,  \* max_attempts of the consumer
    MaxCrashes,   \* bound on the processes that die
    MaxFaults     \* bound on the calls to Redis or PostgreSQL that raise

ASSUME LimitsAssumption ==
    /\ IsFiniteSet(Events)
    /\ FetchLimit \in Nat \ {0}
    /\ ReadCount \in Nat \ {0}
    /\ MaxAttempts \in Nat \ {0}
    /\ MaxCrashes \in Nat
    /\ MaxFaults \in Nat

VARIABLES
    outbox,     \* of each event: absent, pending or processed
    log,        \* the stream: a sequence of events, an entry is a position in it
    lastRead,   \* the group's last-delivered-id
    pending,    \* the group's pending entries list, of all its consumers
    keys,       \* the events that have their processed:<key> set
    attempts,   \* the hashes attempts:<id>, of each entry
    deadLetter, \* the entries copied to the dead letter stream
    handled,    \* how often an entry was given to the handler
    dispatcher, \* each worker's batch: the rows it locked, has to send, has sent
    consumer,   \* each worker's batch of entries, and what it does to the first
    reaper,     \* each worker's reaper: the entry it is at, and what it does to it
    dead,       \* the worker processes that died
    faults      \* how many calls raised

redisVars == <<log, lastRead, pending, keys, attempts, deadLetter>>
vars == <<outbox, log, lastRead, pending, keys, attempts, deadLetter, handled,
          dispatcher, consumer, reaper, dead, faults>>

-----------------------------------------------------------------------------

\* An event is added again by a dispatcher that died, or got an error, between
\* XADD and commit: at most so many entries there can ever be.
MaxEntries == Cardinality(Events) * (1 + MaxCrashes + MaxFaults) + MaxFaults
Entries == 1..MaxEntries

IdleDispatcher == [locked |-> {}, todo |-> {}, sent |-> {}]
IdleConsumer == [pc |-> "idle", batch |-> <<>>]
IdleReaper == [pc |-> "idle", entry |-> 0]

Alive(w) == w \notin dead

\* Variant: the SELECT locks nothing.
FetchableUnlocked == {e \in Events : outbox[e] = "pending"}

\* SKIP LOCKED passes over the rows another dispatcher's transaction holds.
Locked == UNION {dispatcher[w].locked : w \in Workers}
Fetchable == {e \in Events : outbox[e] = "pending"} \ Locked

CanFail == faults < MaxFaults

At(w, pc) == Alive(w) /\ consumer[w].pc = pc
Entry(w) == Head(consumer[w].batch)
EventOf(w) == log[Entry(w)]

\* Variant: a handled message ends the loop over the messages.
NextEntryBreaks(w) == consumer' = [consumer EXCEPT ![w] = IdleConsumer]

\* The loop over the messages goes on to the next one, or reads again.
NextEntry(w) ==
    consumer' = [consumer EXCEPT ![w] =
        IF Len(@.batch) = 1 THEN IdleConsumer
                            ELSE [pc |-> "key", batch |-> Tail(@.batch)]]

Goto(w, pc) == consumer' = [consumer EXCEPT ![w].pc = pc]

\* An exception that reaches the outer except: the rest of the batch is dropped.
\* Its entries are pending, and `>' never returns them again.
Abandon(w) == consumer' = [consumer EXCEPT ![w] = IdleConsumer]

Fault ==
    /\ CanFail
    /\ faults' = faults + 1

-----------------------------------------------------------------------------

Init ==
    /\ outbox = [e \in Events |-> "absent"]
    /\ log = <<>>
    /\ lastRead = 0
    /\ pending = {}
    /\ keys = {}
    /\ attempts = [m \in Entries |-> 0]
    /\ deadLetter = {}
    /\ handled = [m \in Entries |-> 0]
    /\ dispatcher = [w \in Workers |-> IdleDispatcher]
    /\ consumer = [w \in Workers |-> IdleConsumer]
    /\ reaper = [w \in Workers |-> IdleReaper]
    /\ dead = {}
    /\ faults = 0

\* The caller of publish commits.
Publish(e) ==
    /\ outbox[e] = "absent"
    /\ outbox' = [outbox EXCEPT ![e] = "pending"]
    /\ UNCHANGED <<redisVars, handled, dispatcher, consumer, reaper, dead, faults>>

-----------------------------------------------------------------------------
(* The dispatcher                                                          *)

\* SELECT ... LIMIT ... FOR UPDATE SKIP LOCKED. Which rows come first is left
\* open: created_at is the time at which a transaction began, not committed.
Fetch(w) ==
    /\ Alive(w)
    /\ dispatcher[w].locked = {}
    /\ \E batch \in SUBSET Fetchable :
         /\ batch # {}
         /\ \/ Cardinality(batch) = FetchLimit
            \/ batch = Fetchable /\ Cardinality(batch) < FetchLimit
         /\ dispatcher' = [dispatcher EXCEPT ![w] =
                             [locked |-> batch, todo |-> batch, sent |-> {}]]
    /\ UNCHANGED <<outbox, redisVars, handled, consumer, reaper, dead, faults>>

\* Variant: the row is marked before the XADD that may raise.
XaddMarkedFirst(w, e) ==
    /\ Alive(w)
    /\ e \in dispatcher[w].todo
    /\ \/ log' = Append(log, e) /\ UNCHANGED faults
       \/ Fault /\ UNCHANGED log
    /\ dispatcher' = [dispatcher EXCEPT ![w].todo = @ \ {e}, ![w].sent = @ \cup {e}]
    /\ UNCHANGED <<outbox, lastRead, pending, keys, attempts, deadLetter, handled,
                   consumer, reaper, dead>>

\* XADD, and processed = True on the object. It may raise before or after Redis
\* has added the entry; the row is then left for a later batch.
Xadd(w, e) ==
    /\ Alive(w)
    /\ e \in dispatcher[w].todo
    /\ \/ /\ log' = Append(log, e)
          /\ dispatcher' = [dispatcher EXCEPT ![w].todo = @ \ {e}, ![w].sent = @ \cup {e}]
          /\ UNCHANGED faults
       \/ /\ Fault
          /\ log' \in {log, Append(log, e)}
          /\ dispatcher' = [dispatcher EXCEPT ![w].todo = @ \ {e}]
    /\ UNCHANGED <<outbox, lastRead, pending, keys, attempts, deadLetter, handled,
                   consumer, reaper, dead>>

\* Variant: every row of the batch is marked, those whose XADD raised as well.
CommitWholeBatch(w) ==
    /\ Alive(w)
    /\ dispatcher[w].locked # {}
    /\ dispatcher[w].todo = {}
    /\ outbox' = [e \in Events |-> IF e \in dispatcher[w].locked THEN "processed"
                                                                ELSE outbox[e]]
    /\ dispatcher' = [dispatcher EXCEPT ![w] = IdleDispatcher]
    /\ UNCHANGED <<redisVars, handled, consumer, reaper, dead, faults>>

\* One commit for the batch; when it raises, nothing is marked.
CommitBatch(w) ==
    /\ Alive(w)
    /\ dispatcher[w].locked # {}
    /\ dispatcher[w].todo = {}
    /\ \/ /\ outbox' = [e \in Events |-> IF e \in dispatcher[w].sent THEN "processed"
                                                                    ELSE outbox[e]]
          /\ UNCHANGED faults
       \/ Fault /\ UNCHANGED outbox
    /\ dispatcher' = [dispatcher EXCEPT ![w] = IdleDispatcher]
    /\ UNCHANGED <<redisVars, handled, consumer, reaper, dead>>

-----------------------------------------------------------------------------
(* The consumer                                                            *)

\* Variant: one entry more is taken for read than there is.
ReadOneMore(w) ==
    LET last == IF lastRead + ReadCount < Len(log) THEN lastRead + ReadCount ELSE Len(log) IN
    /\ At(w, "idle")
    /\ lastRead < Len(log)
    /\ lastRead' = last + 1
    /\ pending' = pending \cup (lastRead + 1)..last
    /\ consumer' = [consumer EXCEPT ![w] =
           [pc |-> "key", batch |-> [i \in 1..(last - lastRead) |-> lastRead + i]]]
    /\ UNCHANGED <<outbox, log, keys, attempts, deadLetter, handled, dispatcher, reaper, dead,
                   faults>>

\* Variant: entries the group has not acknowledged are read again.
ReadPendingAgain(w) ==
    /\ At(w, "idle")
    /\ lastRead < Len(log)
    /\ lastRead' = lastRead + 1
    /\ pending' = pending \cup {lastRead + 1}
    /\ \E m \in pending' : consumer' = [consumer EXCEPT ![w] = [pc |-> "key", batch |-> <<m>>]]
    /\ UNCHANGED <<outbox, log, keys, attempts, deadLetter, handled, dispatcher, reaper, dead,
                   faults>>

\* XREADGROUP with `>': the next entries become pending. When it raises after
\* Redis has done so, this consumer never sees them.
Read(w) ==
    LET last == IF lastRead + ReadCount < Len(log) THEN lastRead + ReadCount ELSE Len(log) IN
    /\ At(w, "idle")
    /\ lastRead < Len(log)
    /\ lastRead' = last
    /\ pending' = pending \cup (lastRead + 1)..last
    /\ \/ /\ consumer' = [consumer EXCEPT ![w] =
                 [pc |-> "key", batch |-> [i \in 1..(last - lastRead) |-> lastRead + i]]]
          /\ UNCHANGED faults
       \/ Fault /\ UNCHANGED consumer
    /\ UNCHANGED <<outbox, log, keys, attempts, deadLetter, handled, dispatcher, reaper, dead>>

\* Variant: the key is looked up and not written.
CheckKeyUnset(w) ==
    /\ At(w, "key")
    /\ IF EventOf(w) \in keys THEN Goto(w, "skip") ELSE Goto(w, "handle")
    /\ UNCHANGED <<outbox, redisVars, handled, dispatcher, reaper, dead, faults>>

\* _check_idempotency: SETNX, and EXPIRE when it was new. Neither call is in a
\* try block of its own.
CheckKey(w) ==
    LET e == EventOf(w) IN
    /\ At(w, "key")
    /\ \/ /\ e \notin keys
          /\ keys' = keys \cup {e}
          /\ Goto(w, "handle")
          /\ UNCHANGED faults
       \/ /\ e \in keys
          /\ Goto(w, "skip")
          /\ UNCHANGED <<keys, faults>>
       \/ /\ Fault
          /\ keys' \in {keys, keys \cup {e}}
          /\ Abandon(w)
    /\ UNCHANGED <<outbox, log, lastRead, pending, attempts, deadLetter, handled,
                   dispatcher, reaper, dead>>

\* await handler(envelope): process_event only starts or cancels a coroutine.
Handle(w) ==
    /\ At(w, "handle")
    /\ handled' = [handled EXCEPT ![Entry(w)] = @ + 1]
    /\ Goto(w, "ack")
    /\ UNCHANGED <<outbox, redisVars, dispatcher, reaper, dead, faults>>

\* XACK, and the attempts are forgotten. When one of the two raises the key is
\* deleted, whether Redis had removed the entry or not; when that raises as well,
\* the rest of the batch is dropped.
Ack(w) ==
    LET m == Entry(w) IN
    /\ At(w, "ack")
    /\ \/ /\ pending' = pending \ {m}
          /\ attempts' = [attempts EXCEPT ![m] = 0]
          /\ NextEntry(w)
          /\ UNCHANGED <<keys, faults>>
       \/ /\ Fault
          /\ pending' \in {pending, pending \ {m}}
          /\ keys' = keys \ {EventOf(w)}
          /\ NextEntry(w)
          /\ UNCHANGED attempts
       \/ /\ faults + 2 <= MaxFaults
          /\ faults' = faults + 2
          /\ pending' \in {pending, pending \ {m}}
          /\ keys' \in {keys, keys \ {EventOf(w)}}
          /\ Abandon(w)
          /\ UNCHANGED attempts
    /\ UNCHANGED <<outbox, log, lastRead, deadLetter, handled, dispatcher, reaper, dead>>

\* The key was set: XACK only.
Skip(w) ==
    LET m == Entry(w) IN
    /\ At(w, "skip")
    /\ \/ /\ pending' = pending \ {m}
          /\ NextEntry(w)
          /\ UNCHANGED faults
       \/ /\ Fault
          /\ pending' \in {pending, pending \ {m}}
          /\ Abandon(w)
    /\ UNCHANGED <<outbox, log, lastRead, keys, attempts, deadLetter, handled,
                   dispatcher, reaper, dead>>

-----------------------------------------------------------------------------
(* The reaper                                                              *)

\* XCLAIM of an entry of any consumer of the group, its own among them.
Xclaim(w) ==
    /\ Alive(w)
    /\ reaper[w].pc = "idle"
    /\ \E m \in pending : reaper' = [reaper EXCEPT ![w] = [pc |-> "count", entry |-> m]]
    /\ UNCHANGED <<outbox, redisVars, handled, dispatcher, consumer, dead, faults>>

\* Variant: the count starts over with every claim.
CountAttemptAfresh(w) ==
    LET m == reaper[w].entry IN
    /\ Alive(w)
    /\ reaper[w].pc = "count"
    /\ attempts' = [attempts EXCEPT ![m] = 1]
    /\ reaper' = [reaper EXCEPT ![w] =
                    IF attempts'[m] >= MaxAttempts THEN [@ EXCEPT !.pc = "dead"] ELSE IdleReaper]
    /\ UNCHANGED <<outbox, log, lastRead, pending, keys, deadLetter, handled, dispatcher,
                   consumer, dead, faults>>

\* HINCRBY. Below the limit nothing else is done: no handler gets the entry.
CountAttempt(w) ==
    LET m == reaper[w].entry IN
    /\ Alive(w)
    /\ reaper[w].pc = "count"
    /\ attempts' = [attempts EXCEPT ![m] = @ + 1]
    /\ reaper' = [reaper EXCEPT ![w] =
                    IF attempts'[m] >= MaxAttempts THEN [@ EXCEPT !.pc = "dead"] ELSE IdleReaper]
    /\ UNCHANGED <<outbox, log, lastRead, pending, keys, deadLetter, handled, dispatcher,
                   consumer, dead, faults>>

\* _handle_dlq, its XADD.
DeadLetter(w) ==
    /\ Alive(w)
    /\ reaper[w].pc = "dead"
    /\ deadLetter' = deadLetter \cup {reaper[w].entry}
    /\ reaper' = [reaper EXCEPT ![w].pc = "ack"]
    /\ UNCHANGED <<outbox, log, lastRead, pending, keys, attempts, handled, dispatcher,
                   consumer, dead, faults>>

\* _handle_dlq, its XACK, and the attempts are forgotten.
AckDead(w) ==
    LET m == reaper[w].entry IN
    /\ Alive(w)
    /\ reaper[w].pc = "ack"
    /\ pending' = pending \ {m}
    /\ attempts' = [attempts EXCEPT ![m] = 0]
    /\ reaper' = [reaper EXCEPT ![w] = IdleReaper]
    /\ UNCHANGED <<outbox, log, lastRead, keys, deadLetter, handled, dispatcher, consumer,
                   dead, faults>>

\* A call of the reaper raises: it sleeps, and starts over.
ReapFault(w) ==
    /\ Alive(w)
    /\ reaper[w].pc # "idle"
    /\ Fault
    /\ reaper' = [reaper EXCEPT ![w] = IdleReaper]
    /\ UNCHANGED <<outbox, redisVars, handled, dispatcher, consumer, dead>>

-----------------------------------------------------------------------------

\* The process dies: PostgreSQL rolls its transaction back, which unlocks the
\* rows; what it had read and not acknowledged stays pending.
Crash(w) ==
    /\ Alive(w)
    /\ Cardinality(dead) < MaxCrashes
    /\ dead' = dead \cup {w}
    /\ dispatcher' = [dispatcher EXCEPT ![w] = IdleDispatcher]
    /\ consumer' = [consumer EXCEPT ![w] = IdleConsumer]
    /\ reaper' = [reaper EXCEPT ![w] = IdleReaper]
    /\ UNCHANGED <<outbox, redisVars, handled, faults>>

DispatcherStep(w) == Fetch(w) \/ CommitBatch(w) \/ \E e \in Events : Xadd(w, e)
ConsumerStep(w) == Read(w) \/ CheckKey(w) \/ Handle(w) \/ Ack(w) \/ Skip(w)
ReaperStep(w) == Xclaim(w) \/ CountAttempt(w) \/ DeadLetter(w) \/ AckDead(w)

Next ==
    \/ \E e \in Events : Publish(e)
    \/ \E w \in Workers :
         \/ DispatcherStep(w) \/ ConsumerStep(w) \/ ReaperStep(w)
         \/ ReapFault(w) \/ Crash(w)

Spec == Init /\ [][Next]_vars

\* The three loops of a process that lives go on.
Fairness ==
    \A w \in Workers :
        WF_vars(DispatcherStep(w)) /\ WF_vars(ConsumerStep(w)) /\ WF_vars(ReaperStep(w))

FairSpec == Spec /\ Fairness

-----------------------------------------------------------------------------

Copies(e) == {m \in 1..Len(log) : log[m] = e}
HandledCopies(e) == {m \in Copies(e) : handled[m] > 0}

\* What is in each variable (models.py OutboxEvent, consumer.py).
TypeOK ==
    /\ outbox \in [Events -> {"absent", "pending", "processed"}]
    /\ log \in Seq(Events) /\ Len(log) <= MaxEntries
    /\ lastRead \in 0..Len(log)
    /\ pending \subseteq 1..lastRead
    /\ keys \subseteq Events
    /\ attempts \in [Entries -> Nat]
    /\ deadLetter \subseteq 1..lastRead
    /\ handled \in [Entries -> Nat]
    /\ dispatcher \in [Workers -> [locked : SUBSET Events, todo : SUBSET Events,
                                   sent : SUBSET Events]]
    /\ consumer \in [Workers -> [pc : {"idle", "key", "handle", "ack", "skip"},
                                 batch : Seq(1..lastRead)]]
    /\ reaper \in [Workers -> [pc : {"idle", "count", "dead", "ack"}, entry : 0..lastRead]]
    /\ dead \subseteq Workers
    /\ faults \in 0..MaxFaults

\* No event is dropped in silence: whatever crashes and whatever raises between
\* its commit and now, it waits in the outbox, in the stream or in the pending
\* list, or it was handled, or it is in the dead letter stream.
NothingDropped ==
    \A e \in Events : outbox[e] = "processed" =>
        \/ \E m \in Copies(e) : m > lastRead \/ m \in pending \/ m \in deadLetter
        \/ HandledCopies(e) # {}

\* A handler gets each event once, however often crashes and races of the
\* dispatchers put it in the stream; every call that raises can cost one more.
HandledOnce ==
    \A e \in Events : Cardinality(HandledCopies(e)) <= 1 + faults

\* `>' gives each entry to one consumer: no entry is handled twice, not even
\* one that a reaper claimed while its reader was still at it.
EntryHandledOnce == \A m \in Entries : handled[m] <= 1

\* FOR UPDATE SKIP LOCKED: while nothing fails no event is in the stream twice,
\* however many dispatchers run.
SentOnce == faults = 0 /\ dead = {} => \A e \in Events : Cardinality(Copies(e)) <= 1

\* Every event that is published is handled or dead-lettered in the end, as
\* long as one process lives: also those in the batches of dead processes.
EventSettles ==
    \A e \in Events : outbox[e] = "pending" ~>
        HandledCopies(e) # {} \/ Copies(e) \cap deadLetter # {}

-----------------------------------------------------------------------------
(* The pipeline implements EventDelivery                                   *)

\* A handler will still get the event, unless something goes wrong.
Deliverable(e) ==
    \/ \E w \in Workers : consumer[w].pc = "handle" /\ EventOf(w) = e
    \/ /\ e \notin keys
       /\ \/ outbox[e] = "pending" /\ \A w \in Workers : e \notin dispatcher[w].sent
          \/ \E m \in Copies(e) : m > lastRead
          \/ \E w \in Workers : consumer[w].pc # "idle" /\
               \E i \in 1..Len(consumer[w].batch) : log[consumer[w].batch[i]] = e

\* Where an event is between its commit and a handler.
Fate(e) ==
    IF outbox[e] = "absent" THEN "none"
    ELSE IF HandledCopies(e) # {} THEN "delivered"
    ELSE IF Deliverable(e) THEN "waiting"
    ELSE "lost"

Delivery == INSTANCE EventDelivery WITH
    fate <- [e \in Events |-> Fate(e)],
    trouble <- faults + Cardinality(dead)

\* The pipeline keeps that promise: in particular no event is lost in a step in
\* which nothing crashed and nothing raised.
ImplementsDelivery == Delivery!Spec

-----------------------------------------------------------------------------
(* What a docstring says, and the code does not                            *)

\* consumer.py, _handle_dlq: "Moves a message to the DLQ after max attempts".
\* A handler was given what is in the dead letter stream at least once.
DeadLetterWasTried == \A m \in deadLetter : handled[m] > 0 \/ HandledCopies(log[m]) # {}

=============================================================================
