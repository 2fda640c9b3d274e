------------------------- MODULE EventPipelineProofs -------------------------
(***************************************************************************)
(* Theorems about EventPipeline, for every finite set of events, all        *)
(* workers, batch sizes, crashes and errors.                                *)
(*                                                                         *)
(* There are two halves.  What the dispatchers do to outbox and stream      *)
(* (DispatchInv) does not depend on who reads the stream; what consumers    *)
(* and reapers do to its entries (ConsumeInv) only needs that the stream    *)
(* grows and is never longer than MaxEntries.                               *)
(***************************************************************************)
EXTENDS EventPipeline, FiniteSetTheorems, SequenceTheorems, TLAPS

DispatchTypes ==
    /\ outbox \in [Events -> {"absent", "pending", "processed"}]
    /\ log \in Seq(Events)
    /\ dispatcher \in [Workers -> [locked : SUBSET Events, todo : SUBSET Events, sent : SUBSET Events]]
    /\ dead \subseteq Workers /\ IsFiniteSet(dead) /\ Cardinality(dead) <= MaxCrashes
    /\ faults \in 0..MaxFaults

\* What a dispatcher has to send and has sent is locked; a locked row is pending,
\* and locked by no other dispatcher.
Locks ==
    \A w \in Workers :
        /\ dispatcher[w].todo \subseteq dispatcher[w].locked
        /\ dispatcher[w].sent \subseteq dispatcher[w].locked
        /\ dispatcher[w].todo \cap dispatcher[w].sent = {}
        /\ \A e \in dispatcher[w].locked : outbox[e] = "pending"
        /\ \A v \in Workers \ {w} : dispatcher[w].locked \cap dispatcher[v].locked = {}

\* The events whose entry some transaction knows of.
Claimed == {e \in Events : outbox[e] = "processed" \/ \E w \in Workers : e \in dispatcher[w].sent}

\* Every entry is a claimed event's first, or one that a crash or an error has cost.
LogPaid == Len(log) <= Cardinality(Claimed) + Cardinality(Events) * (Cardinality(dead) + faults) + faults

\* What is claimed is in the stream.
Written == \A e \in Claimed : \E m \in 1..Len(log) : log[m] = e

\* While nothing fails every entry is claimed, and no event is in the stream twice.
Sound ==
    faults = 0 /\ dead = {} =>
        /\ \A m \in 1..Len(log) : log[m] \in Claimed
        /\ \A m, n \in 1..Len(log) : log[m] = log[n] => m = n

DispatchInv == DispatchTypes /\ Locks /\ LogPaid /\ Written /\ Sound

\* What the steps of consumers and reapers do to the dispatchers' half.
Aside == UNCHANGED <<outbox, log, dispatcher, dead>> /\ faults' \in faults..MaxFaults

-----------------------------------------------------------------------------

LEMMA ClaimedFinite ==
    /\ IsFiniteSet(Claimed) /\ Cardinality(Claimed) \in Nat /\ Cardinality(Claimed) <= Cardinality(Events)
    /\ Cardinality(Events) \in Nat
BY FS_Subset, FS_CardinalityType, LimitsAssumption DEF Claimed

LEMMA ClaimedFiniteNext ==
    IsFiniteSet(Claimed') /\ Cardinality(Claimed') \in Nat /\ Cardinality(Claimed') <= Cardinality(Events)
BY FS_Subset, FS_CardinalityType, LimitsAssumption DEF Claimed

LEMMA TimesOneMore == ASSUME NEW n \in Nat, NEW k \in Nat PROVE n * (k + 1) = n * k + n /\ n * k \in Nat
OBVIOUS

LEMMA TimesMonotone == ASSUME NEW n \in Nat, NEW j \in Nat, NEW k \in Nat, j <= k PROVE n * j <= n * k
<1>1. PICK d \in Nat : k = j + d
  <2>1. k - j \in Nat /\ k = j + (k - j)
    OBVIOUS
  <2> QED
    BY <2>1
<1>2. n * k = n * j + n * d /\ n * d \in Nat /\ n * j \in Nat
  BY <1>1
<1> QED
  BY <1>2

\* The stream is never longer than the domain of attempts and handled.
LEMMA LogBounded == DispatchInv => Len(log) <= MaxEntries /\ MaxEntries \in Nat
<1> SUFFICES ASSUME DispatchInv PROVE Len(log) <= MaxEntries /\ MaxEntries \in Nat
  OBVIOUS
<1> DEFINE n == Cardinality(Events)
           d == Cardinality(dead) + faults
           c == MaxCrashes + MaxFaults
<1>1. n \in Nat /\ d \in Nat /\ c \in Nat /\ d <= c /\ Len(log) \in Nat /\ faults \in Nat /\ faults <= MaxFaults
  BY ClaimedFinite, FS_CardinalityType, LimitsAssumption DEF DispatchInv, DispatchTypes
<1>2. Len(log) <= Cardinality(Claimed) + n * d + faults
  BY DEF DispatchInv, LogPaid
<1>3. n * d <= n * c /\ n * d \in Nat /\ n * c \in Nat
  BY <1>1, TimesMonotone
<1>4. n * (1 + MaxCrashes + MaxFaults) = n * c + n
  <2>1. 1 + MaxCrashes + MaxFaults = c + 1
    BY LimitsAssumption
  <2> QED
    BY <1>1, <2>1, TimesOneMore
<1>5. MaxEntries = n * c + n + MaxFaults
  BY <1>4 DEF MaxEntries
<1> HIDE DEF n, d, c
<1> QED
  BY <1>1, <1>2, <1>3, <1>5, ClaimedFinite, LimitsAssumption, SMTT(30) DEF n

-----------------------------------------------------------------------------
(* The dispatchers                                                         *)

LEMMA InitDispatch == Init => DispatchInv
<1> SUFFICES ASSUME Init PROVE DispatchInv
  OBVIOUS
<1>1. DispatchTypes
  <2>1. log \in Seq(Events) /\ Len(log) = 0
    BY DEF Init
  <2>2. dead \subseteq Workers /\ IsFiniteSet(dead) /\ Cardinality(dead) <= MaxCrashes
    BY FS_EmptySet, LimitsAssumption DEF Init
  <2>3. dispatcher \in [Workers -> [locked : SUBSET Events, todo : SUBSET Events, sent : SUBSET Events]]
    BY DEF Init, IdleDispatcher
  <2> QED
    BY <2>1, <2>2, <2>3, LimitsAssumption DEF Init, DispatchTypes
<1>2. Locks
  BY DEF Init, Locks, IdleDispatcher
<1>3. Claimed = {}
  BY DEF Init, Claimed, IdleDispatcher
<1>4. LogPaid
  <2>1. Cardinality(dead) = 0 /\ Cardinality(Claimed) = 0 /\ Len(log) = 0 /\ faults = 0
    BY <1>3, FS_EmptySet DEF Init
  <2> QED
    BY <2>1, ClaimedFinite DEF LogPaid
<1>5. Written /\ Sound
  BY <1>3 DEF Init, Written, Sound
<1> QED
  BY <1>1, <1>2, <1>4, <1>5 DEF DispatchInv

\* Nothing of the dispatchers' half changes, but that something may have raised.
LEMMA AsideKeepsDispatch == ASSUME DispatchInv, Aside PROVE DispatchInv'
<1>1. Claimed' = Claimed
  BY DEF Aside, Claimed
<1>2. DispatchTypes' /\ Locks'
  BY LimitsAssumption DEF Aside, DispatchInv, DispatchTypes, Locks
<1>3. Written' /\ Sound'
  BY <1>1, LimitsAssumption DEF Aside, DispatchInv, DispatchTypes, Written, Sound
<1>4. LogPaid'
  <2> DEFINE n == Cardinality(Events)
             d == Cardinality(dead)
             p == n * (d + faults)
             q == n * (d + faults')
  <2>1. n \in Nat /\ d \in Nat /\ faults \in Nat /\ faults' \in Nat /\ faults <= faults'
    BY ClaimedFinite, FS_CardinalityType, LimitsAssumption DEF DispatchInv, DispatchTypes, Aside
  <2>2. Len(log) <= Cardinality(Claimed) + p + faults
    BY DEF DispatchInv, LogPaid
  <2>3. p <= q /\ p \in Nat /\ q \in Nat
    BY <2>1, TimesMonotone
  <2>4. Len(log) \in Nat /\ Cardinality(Claimed) \in Nat
    BY ClaimedFinite DEF DispatchInv, DispatchTypes
  <2>5. Len(log)' = Len(log) /\ Cardinality(Claimed)' = Cardinality(Claimed) /\ Cardinality(dead)' = d
    BY <1>1 DEF Aside
  <2>6. Len(log) <= Cardinality(Claimed) + q + faults'
    <3> HIDE DEF p, q
    <3> QED
      BY <2>1, <2>2, <2>3, <2>4
  <2> QED
    BY <2>5, <2>6 DEF LogPaid
<1> QED
  BY <1>2, <1>3, <1>4 DEF DispatchInv

LEMMA PublishKeepsDispatch == ASSUME DispatchInv, NEW e \in Events, Publish(e) PROVE DispatchInv'
<1>1. Claimed' = Claimed
  BY DEF Publish, Claimed, DispatchInv, DispatchTypes
<1>2. DispatchTypes' /\ Locks'
  BY DEF Publish, redisVars, DispatchInv, DispatchTypes, Locks
<1>3. Written' /\ Sound' /\ LogPaid'
  BY <1>1 DEF Publish, redisVars, DispatchInv, Written, Sound, LogPaid
<1> QED
  BY <1>2, <1>3 DEF DispatchInv

LEMMA FetchKeepsDispatch == ASSUME DispatchInv, NEW w \in Workers, Fetch(w) PROVE DispatchInv'
<1>1. PICK batch \in SUBSET Fetchable :
        dispatcher' = [dispatcher EXCEPT ![w] = [locked |-> batch, todo |-> batch, sent |-> {}]]
  BY DEF Fetch
<1>2. dispatcher[w].locked = {} /\ UNCHANGED <<outbox, log, dead, faults>>
  BY DEF Fetch, redisVars
<1>3. \A e \in batch : e \in Events /\ outbox[e] = "pending" /\ \A v \in Workers : e \notin dispatcher[v].locked
  BY DEF Fetchable, Locked
<1>4. DispatchTypes'
  BY <1>1, <1>2, <1>3 DEF DispatchInv, DispatchTypes
<1>5. Locks'
  BY <1>1, <1>2, <1>3 DEF DispatchInv, DispatchTypes, Locks
<1>6. Claimed' = Claimed
  BY <1>1, <1>2 DEF Claimed, DispatchInv, DispatchTypes, Locks
<1>7. Written' /\ Sound' /\ LogPaid'
  BY <1>2, <1>6 DEF DispatchInv, Written, Sound, LogPaid
<1> QED
  BY <1>4, <1>5, <1>7 DEF DispatchInv

\* What one more fault, or one more crash, pays for: one entry and all that was claimed.
LEMMA OneMorePays ==
    ASSUME DispatchInv, Cardinality(dead') + faults' = Cardinality(dead) + faults + 1, faults' \in Nat,
           faults' >= faults, Len(log)' \in Nat,
           Len(log)' <= Len(log) + (faults' - faults), Cardinality(Claimed') \in Nat
    PROVE  LogPaid'
<1> DEFINE n == Cardinality(Events)
           d == Cardinality(dead) + faults
           p == n * d
           q == n * (Cardinality(dead') + faults')
<1>1. n \in Nat /\ d \in Nat /\ faults \in Nat /\ Len(log) \in Nat /\ Cardinality(Claimed) \in Nat
      /\ Cardinality(Claimed) <= n
  BY ClaimedFinite, FS_CardinalityType, LimitsAssumption DEF DispatchInv, DispatchTypes
<1>2. Len(log) <= Cardinality(Claimed) + p + faults
  BY DEF DispatchInv, LogPaid
<1>3. q = p + n /\ p \in Nat /\ q \in Nat
  <2>1. q = n * (d + 1)
    OBVIOUS
  <2>2. n * (d + 1) = n * d + n /\ n * d \in Nat
    <3> HIDE DEF n, d
    <3> QED
      BY <1>1, TimesOneMore
  <2>3. q = n * d + n
    BY <2>1, <2>2
  <2> QED
    BY <1>1, <2>2, <2>3
<1>4. Len(log)' <= Cardinality(Claimed') + q + faults'
  <2> HIDE DEF p, q, n, d
  <2> QED
    BY <1>1, <1>2, <1>3, SMTT(30)
<1> QED
  BY <1>4 DEF LogPaid

LEMMA XaddKeepsDispatch ==
    ASSUME DispatchInv, NEW w \in Workers, NEW e \in Events, Xadd(w, e) PROVE DispatchInv'
<1> DEFINE Added == log' = Append(log, e)
<1>1. e \in dispatcher[w].todo /\ UNCHANGED <<outbox, dead>>
  BY DEF Xadd
<1>2. Added => /\ log' \in Seq(Events) /\ Len(log') = Len(log) + 1
               /\ \A m \in 1..Len(log) : log'[m] = log[m]
               /\ log'[Len(log) + 1] = e
  BY AppendProperties DEF DispatchInv, DispatchTypes
<1>3. Len(log) \in Nat
  BY DEF DispatchInv, DispatchTypes
<1>4. e \notin Claimed
  BY <1>1 DEF Claimed, DispatchInv, DispatchTypes, Locks
<1>5. CASE Added /\ faults' = faults
           /\ dispatcher' = [dispatcher EXCEPT ![w].todo = @ \ {e}, ![w].sent = @ \cup {e}]
  <2>1. DispatchTypes'
    <3>1. dispatcher' \in [Workers -> [locked : SUBSET Events, todo : SUBSET Events, sent : SUBSET Events]]
      BY <1>5 DEF DispatchInv, DispatchTypes
    <3> QED
      BY <1>1, <1>2, <1>5, <3>1 DEF DispatchInv, DispatchTypes
  <2>2. Locks'
    BY <1>1, <1>5 DEF DispatchInv, DispatchTypes, Locks
  <2>3. Claimed' = Claimed \cup {e}
    BY <1>1, <1>5 DEF Claimed, DispatchInv, DispatchTypes
  <2>4. Written'
    <3> SUFFICES ASSUME NEW f \in Claimed' PROVE \E m \in 1..Len(log') : log'[m] = f
      BY DEF Written
    <3>1. CASE f = e
      BY <1>2, <1>3, <1>5, <3>1
    <3>2. CASE f \in Claimed
      <4>1. PICK m \in 1..Len(log) : log[m] = f
        BY <3>2 DEF DispatchInv, Written
      <4> QED
        BY <1>2, <1>3, <1>5, <4>1
    <3> QED
      BY <2>3, <3>1, <3>2
  <2>5. Sound'
    <3> SUFFICES ASSUME faults = 0, dead = {} PROVE
            /\ \A m \in 1..Len(log') : log'[m] \in Claimed'
            /\ \A m, n \in 1..Len(log') : log'[m] = log'[n] => m = n
      BY <1>1, <1>5 DEF Sound
    <3>1. \A m \in 1..Len(log) : log'[m] \in Claimed /\ log'[m] = log[m]
      BY <1>2, <1>5 DEF DispatchInv, Sound
    <3>2. \A m \in 1..Len(log') : m \in 1..Len(log) \/ m = Len(log) + 1
      BY <1>2, <1>3, <1>5
    <3>3. log'[Len(log) + 1] = e
      BY <1>2, <1>5
    <3>4. \A m \in 1..Len(log') : log'[m] \in Claimed'
      BY <2>3, <3>1, <3>2, <3>3
    <3>5. \A m, n \in 1..Len(log) : log[m] = log[n] => m = n
      BY DEF DispatchInv, Sound
    <3> QED
      BY <1>4, <3>1, <3>2, <3>3, <3>4, <3>5
  <2>6. LogPaid'
    <3> DEFINE p == Cardinality(Events) * (Cardinality(dead) + faults)
    <3>1. Cardinality(Claimed') = Cardinality(Claimed) + 1
      BY <1>4, <2>3, ClaimedFinite, FS_AddElement
    <3>2. Len(log) <= Cardinality(Claimed) + p + faults
      BY DEF DispatchInv, LogPaid
    <3>3. p \in Nat /\ Cardinality(Claimed) \in Nat /\ faults \in Nat
      BY ClaimedFinite, FS_CardinalityType, TimesOneMore, LimitsAssumption DEF DispatchInv, DispatchTypes
    <3>4. Len(log') <= Cardinality(Claimed') + p + faults
      <4> HIDE DEF p
      <4> QED
        BY <1>2, <1>3, <1>5, <3>1, <3>2, <3>3
    <3> QED
      BY <1>1, <1>5, <3>4 DEF LogPaid
  <2> QED
    BY <2>1, <2>2, <2>4, <2>5, <2>6 DEF DispatchInv
<1>6. CASE Fault /\ log' \in {log, Append(log, e)}
           /\ dispatcher' = [dispatcher EXCEPT ![w].todo = @ \ {e}]
  <2>1. Claimed' = Claimed
    BY <1>1, <1>6 DEF Claimed, DispatchInv, DispatchTypes
  <2>2. log' \in Seq(Events) /\ Len(log') \in Nat /\ Len(log') >= Len(log) /\ Len(log') <= Len(log) + 1
        /\ \A m \in 1..Len(log) : log'[m] = log[m]
    <3>1. CASE Added
      BY <1>2, <1>3, <3>1
    <3>2. CASE log' = log
      BY <1>3, <3>2 DEF DispatchInv, DispatchTypes
    <3> QED
      BY <1>6, <3>1, <3>2
  <2>3. faults' = faults + 1 /\ faults \in Nat /\ faults' \in 0..MaxFaults
    BY <1>6, LimitsAssumption DEF Fault, CanFail, DispatchInv, DispatchTypes
  <2>4. DispatchTypes'
    BY <1>1, <1>6, <2>2, <2>3 DEF DispatchInv, DispatchTypes
  <2>5. Locks'
    BY <1>1, <1>6 DEF DispatchInv, DispatchTypes, Locks
  <2>6. Written' /\ Sound'
    <3>1. Written'
      BY <1>3, <2>1, <2>2 DEF DispatchInv, Written
    <3>2. Sound'
      BY <2>3 DEF Sound
    <3> QED
      BY <3>1, <3>2
  <2>7. LogPaid'
    <3>1. Cardinality(dead') = Cardinality(dead) /\ Cardinality(dead) \in Nat
      BY <1>1, FS_CardinalityType DEF DispatchInv, DispatchTypes
    <3>2. Cardinality(dead') + faults' = Cardinality(dead) + faults + 1 /\ faults' \in Nat /\ faults' >= faults
      BY <2>3, <3>1
    <3>3. Len(log)' \in Nat /\ Len(log)' <= Len(log) + (faults' - faults)
      BY <1>3, <2>2, <2>3
    <3> QED
      BY <3>2, <3>3, ClaimedFiniteNext, OneMorePays
  <2> QED
    BY <2>4, <2>5, <2>6, <2>7 DEF DispatchInv
<1> QED
  BY <1>5, <1>6 DEF Xadd

LEMMA CommitKeepsDispatch == ASSUME DispatchInv, NEW w \in Workers, CommitBatch(w) PROVE DispatchInv'
<1>1. UNCHANGED <<log, dead>> /\ dispatcher' = [dispatcher EXCEPT ![w] = IdleDispatcher]
  BY DEF CommitBatch, redisVars
<1>2. CASE /\ outbox' = [e \in Events |-> IF e \in dispatcher[w].sent THEN "processed" ELSE outbox[e]]
           /\ faults' = faults
  <2>1. DispatchTypes'
    BY <1>1, <1>2 DEF DispatchInv, DispatchTypes, IdleDispatcher
  <2>2. Locks'
    BY <1>1, <1>2 DEF DispatchInv, DispatchTypes, Locks, IdleDispatcher
  <2>3. Claimed' = Claimed
    BY <1>1, <1>2 DEF Claimed, DispatchInv, DispatchTypes, IdleDispatcher
  <2>4. Written' /\ Sound' /\ LogPaid'
    BY <1>1, <1>2, <2>3 DEF DispatchInv, Written, Sound, LogPaid
  <2> QED
    BY <2>1, <2>2, <2>4 DEF DispatchInv
<1>3. CASE Fault /\ outbox' = outbox
  <2>1. Claimed' \subseteq Claimed
    BY <1>1, <1>3 DEF Claimed, DispatchInv, DispatchTypes, IdleDispatcher
  <2>2. faults' = faults + 1 /\ faults \in Nat /\ faults' \in 0..MaxFaults
    BY <1>3, LimitsAssumption DEF Fault, CanFail, DispatchInv, DispatchTypes
  <2>3. DispatchTypes'
    BY <1>1, <1>3, <2>2 DEF DispatchInv, DispatchTypes, IdleDispatcher
  <2>4. Locks'
    BY <1>1, <1>3 DEF DispatchInv, DispatchTypes, Locks, IdleDispatcher
  <2>5. Written' /\ Sound'
    BY <1>1, <2>1, <2>2 DEF DispatchInv, Written, Sound
  <2>6. LogPaid'
    <3>1. Cardinality(dead') = Cardinality(dead) /\ Cardinality(dead) \in Nat /\ Len(log) \in Nat
      BY <1>1, FS_CardinalityType DEF DispatchInv, DispatchTypes
    <3>2. Cardinality(dead') + faults' = Cardinality(dead) + faults + 1 /\ faults' \in Nat /\ faults' >= faults
      BY <2>2, <3>1
    <3>3. Len(log)' \in Nat /\ Len(log)' <= Len(log) + (faults' - faults)
      BY <1>1, <2>2, <3>1
    <3> QED
      BY <3>2, <3>3, ClaimedFiniteNext, OneMorePays
  <2> QED
    BY <2>3, <2>4, <2>5, <2>6 DEF DispatchInv
<1> QED
  BY <1>2, <1>3 DEF CommitBatch

LEMMA CrashKeepsDispatch == ASSUME DispatchInv, NEW w \in Workers, Crash(w) PROVE DispatchInv'
<1>1. /\ UNCHANGED <<outbox, log, faults>> /\ dispatcher' = [dispatcher EXCEPT ![w] = IdleDispatcher]
      /\ dead' = dead \cup {w} /\ w \notin dead /\ Cardinality(dead) < MaxCrashes
  BY DEF Crash, redisVars, Alive
<1>2. IsFiniteSet(dead') /\ Cardinality(dead') = Cardinality(dead) + 1 /\ Cardinality(dead) \in Nat
  BY <1>1, FS_AddElement, FS_CardinalityType DEF DispatchInv, DispatchTypes
<1>3. Claimed' \subseteq Claimed
  BY <1>1 DEF Claimed, DispatchInv, DispatchTypes, IdleDispatcher
<1>4. DispatchTypes'
  BY <1>1, <1>2, LimitsAssumption DEF DispatchInv, DispatchTypes, IdleDispatcher
<1>5. Locks'
  BY <1>1 DEF DispatchInv, DispatchTypes, Locks, IdleDispatcher
<1>6. Written' /\ Sound'
  BY <1>1, <1>3 DEF DispatchInv, Written, Sound
<1>7. LogPaid'
  <2>1. faults \in Nat /\ Len(log) \in Nat
    BY LimitsAssumption DEF DispatchInv, DispatchTypes
  <2>2. Cardinality(dead') + faults' = Cardinality(dead) + faults + 1 /\ faults' \in Nat /\ faults' >= faults
    BY <1>1, <1>2, <2>1
  <2>3. Len(log)' \in Nat /\ Len(log)' <= Len(log) + (faults' - faults)
    BY <1>1, <2>1
  <2> QED
    BY <2>2, <2>3, ClaimedFiniteNext, OneMorePays
<1> QED
  BY <1>4, <1>5, <1>6, <1>7 DEF DispatchInv

-----------------------------------------------------------------------------
(* Consumers and reapers                                                   *)

ConsumerRecords(last) == [pc : {"idle", "key", "handle", "ack", "skip"}, batch : Seq(1..last)]
ReaperRecords(last) == [pc : {"idle", "count", "dead", "ack"}, entry : 0..last]

ConsumeTypes ==
    /\ lastRead \in 0..Len(log) /\ pending \subseteq 1..lastRead /\ deadLetter \subseteq 1..lastRead
    /\ keys \subseteq Events
    /\ attempts \in [Entries -> Nat] /\ handled \in [Entries -> Nat]
    /\ consumer \in [Workers -> ConsumerRecords(lastRead)]
    /\ reaper \in [Workers -> ReaperRecords(lastRead)]

\* An entry that is not lost; one that no consumer will skip any more.
Rescued(m) == m \in pending \/ m \in deadLetter \/ handled[m] > 0
Passed(m) ==
    \A w \in Workers : \A i \in 1..Len(consumer[w].batch) :
        consumer[w].batch[i] = m => i = 1 /\ consumer[w].pc \in {"handle", "ack"}

\* An event that has an entry that is rescued and stays so.
Safe(e) == \E m \in 1..lastRead : log[m] = e /\ Rescued(m) /\ Passed(m)

\* A batch holds entries of its own, not lost and not handled, but for the one
\* whose acknowledgement is due.
Batches ==
    \A w \in Workers :
        /\ consumer[w].pc # "idle" => consumer[w].batch # <<>>
        /\ \A i \in 1..Len(consumer[w].batch) :
             /\ Rescued(consumer[w].batch[i])
             /\ handled[consumer[w].batch[i]] = IF i = 1 /\ consumer[w].pc = "ack" THEN 1 ELSE 0
             /\ \A v \in Workers : \A j \in 1..Len(consumer[v].batch) :
                  consumer[w].batch[i] = consumer[v].batch[j] => w = v /\ i = j

Reaped ==
    \A w \in Workers :
        /\ reaper[w].pc # "idle" => reaper[w].entry \in 1..lastRead
        /\ reaper[w].pc = "ack" => reaper[w].entry \in deadLetter

Counted == \A m \in Entries : handled[m] <= 1 /\ (m > lastRead => handled[m] = 0)

\* Whoever is told to skip an event may rely on another entry of it.
SkipSafe ==
    /\ \A e \in keys : Safe(e)
    /\ \A w \in Workers : consumer[w].pc = "skip" => Safe(EventOf(w))
    /\ \A m \in 1..lastRead : Rescued(m) \/ Safe(log[m])

ConsumeInv == ConsumeTypes /\ Batches /\ Reaped /\ Counted /\ SkipSafe

\* What consumers and reapers need of the stream.
Bounded == log \in Seq(Events) /\ Len(log) <= MaxEntries /\ MaxEntries \in Nat
Extends == log' \in Seq(Events) /\ Len(log') >= Len(log) /\ \A m \in 1..Len(log) : log'[m] = log[m]

\* No entry is in two batches, or twice in one.
LEMMA BatchesDisjoint ==
    ASSUME ConsumeInv
    PROVE  \A x \in Workers : \A a \in 1..Len(consumer[x].batch) :
           \A y \in Workers : \A b \in 1..Len(consumer[y].batch) :
               consumer[x].batch[a] = consumer[y].batch[b] => x = y /\ a = b
<1>1. Batches
  BY DEF ConsumeInv
<1> QED
  BY <1>1 DEF Batches

\* Where the entries of batches, and the entries read, are.
LEMMA BatchEntries ==
    ASSUME Bounded, ConsumeTypes
    PROVE  /\ lastRead \in Nat /\ lastRead <= Len(log) /\ Len(log) \in Nat
           /\ 1..lastRead \subseteq Entries /\ 1..lastRead \subseteq 1..Len(log) /\ 1..Len(log) \subseteq Entries
           /\ \A w \in Workers : \A i \in 1..Len(consumer[w].batch) : consumer[w].batch[i] \in 1..lastRead
           /\ \A w \in Workers : consumer[w].batch \in Seq(1..lastRead) /\ Len(consumer[w].batch) \in Nat
           /\ \A m \in 1..lastRead : log[m] \in Events
<1>1. lastRead \in Nat /\ lastRead <= Len(log) /\ Len(log) \in Nat
  BY DEF Bounded, ConsumeTypes
<1>2. 1..lastRead \subseteq Entries /\ 1..lastRead \subseteq 1..Len(log) /\ 1..Len(log) \subseteq Entries
  BY <1>1 DEF Bounded, Entries
<1>3. \A w \in Workers : consumer[w].batch \in Seq(1..lastRead)
  BY DEF ConsumeTypes, ConsumerRecords
<1>4. \A w \in Workers : Len(consumer[w].batch) \in Nat
  BY <1>3
<1>5. \A w \in Workers : \A i \in 1..Len(consumer[w].batch) : consumer[w].batch[i] \in 1..lastRead
  BY <1>3, ElementOfSeq
<1>6. \A m \in 1..lastRead : log[m] \in Events
  BY <1>2, ElementOfSeq DEF Bounded
<1> QED
  BY <1>1, <1>2, <1>3, <1>4, <1>5, <1>6

LEMMA InitConsume == ASSUME Init, Bounded PROVE ConsumeInv
<1>1. <<>> \in Seq(1..0) /\ Len(<<>>) = 0
  BY EmptySeq
<1>2. lastRead = 0 /\ Len(log) = 0 /\ 1..lastRead = {}
  BY DEF Init
<1>3. IdleConsumer \in ConsumerRecords(lastRead)
  BY <1>1, <1>2 DEF IdleConsumer, ConsumerRecords
<1>4. IdleReaper \in ReaperRecords(lastRead)
  BY <1>2 DEF IdleReaper, ReaperRecords
<1>5. ConsumeTypes
  BY <1>2, <1>3, <1>4 DEF Init, ConsumeTypes
<1>6. Batches
  BY <1>1 DEF Init, Batches, IdleConsumer
<1>7. Reaped /\ Counted
  BY DEF Init, Reaped, Counted, IdleReaper
<1>8. SkipSafe
  BY <1>2 DEF Init, SkipSafe, IdleConsumer
<1> QED
  BY <1>5, <1>6, <1>7, <1>8 DEF ConsumeInv

\* The stream grows, or only dispatchers move.
LEMMA ExtendKeepsConsume ==
    ASSUME Bounded, ConsumeInv, Extends,
           UNCHANGED <<lastRead, pending, keys, attempts, deadLetter, handled, consumer, reaper>>
    PROVE  ConsumeInv'
<1>1. \A m \in 1..lastRead : log'[m] = log[m]
  BY BatchEntries DEF Extends, ConsumeInv
<1>2. ConsumeTypes'
  <2>1. lastRead' \in 0..Len(log')
    BY DEF Extends, ConsumeInv, ConsumeTypes, Bounded
  <2> QED
    BY <2>1 DEF ConsumeInv, ConsumeTypes
<1>3. Batches' /\ Reaped' /\ Counted'
  BY DEF ConsumeInv, Batches, Reaped, Counted, Rescued
<1>4. \A m : (Rescued(m) <=> Rescued(m)') /\ (Passed(m) <=> Passed(m)')
  BY DEF Rescued, Passed
<1>5. \A e : Safe(e) => Safe(e)'
  BY <1>1, <1>4 DEF Safe
<1>6. \A w \in Workers : consumer[w].pc = "skip" => EventOf(w)' = EventOf(w)
  <2>1. SUFFICES ASSUME NEW w \in Workers, consumer[w].pc = "skip" PROVE log'[Head(consumer[w].batch)] = log[Head(consumer[w].batch)]
    BY DEF EventOf, Entry
  <2>2. Head(consumer[w].batch) \in 1..lastRead
    BY <2>1, BatchEntries, HeadTailProperties DEF ConsumeInv, Batches
  <2> QED
    BY <1>1, <2>2
<1>7. SkipSafe'
  BY <1>1, <1>4, <1>5, <1>6 DEF ConsumeInv, SkipSafe
<1> QED
  BY <1>2, <1>3, <1>7 DEF ConsumeInv

\* The first entry of a batch.
LEMMA FirstEntry ==
    ASSUME Bounded, ConsumeInv, NEW w \in Workers, consumer[w].pc # "idle"
    PROVE  /\ 1 \in 1..Len(consumer[w].batch) /\ Entry(w) = consumer[w].batch[1]
           /\ Entry(w) \in 1..lastRead /\ EventOf(w) \in Events /\ Rescued(Entry(w))
<1>1. consumer[w].batch \in Seq(1..lastRead) /\ consumer[w].batch # <<>>
  BY BatchEntries DEF ConsumeInv, Batches
<1>2. 1 \in 1..Len(consumer[w].batch) /\ Entry(w) = consumer[w].batch[1]
  BY <1>1 DEF Entry
<1> QED
  BY <1>2, BatchEntries DEF ConsumeInv, Batches, EventOf

\* A batch without its first entries: what NextEntry and Abandon leave.
Drops(w) ==
    /\ consumer' \in [Workers -> ConsumerRecords(lastRead)]
    /\ \A v \in Workers \ {w} : consumer'[v] = consumer[v]
    /\ consumer'[w].pc \in {"idle", "key"}
    /\ consumer'[w].pc # "idle" => consumer'[w].batch # <<>>
    /\ \A i \in 1..Len(consumer'[w].batch) :
          i + 1 \in 1..Len(consumer[w].batch) /\ consumer'[w].batch[i] = consumer[w].batch[i + 1]

LEMMA AbandonDrops == ASSUME Bounded, ConsumeInv, NEW w \in Workers, Abandon(w) PROVE Drops(w)
<1>1. IdleConsumer \in ConsumerRecords(lastRead)
  BY EmptySeq DEF IdleConsumer, ConsumerRecords
<1>2. consumer' = [consumer EXCEPT ![w] = IdleConsumer]
  BY DEF Abandon
<1>3. consumer'[w] = IdleConsumer /\ \A v \in Workers \ {w} : consumer'[v] = consumer[v]
  BY <1>2 DEF ConsumeInv, ConsumeTypes
<1>4. consumer' \in [Workers -> ConsumerRecords(lastRead)]
  BY <1>1, <1>2 DEF ConsumeInv, ConsumeTypes
<1>5. consumer'[w].pc = "idle" /\ Len(consumer'[w].batch) = 0
  BY <1>3, EmptySeq DEF IdleConsumer
<1> QED
  BY <1>3, <1>4, <1>5 DEF Drops

LEMMA NextEntryDrops ==
    ASSUME Bounded, ConsumeInv, NEW w \in Workers, consumer[w].pc # "idle", NextEntry(w) PROVE Drops(w)
<1> DEFINE b == consumer[w].batch
           next == IF Len(b) = 1 THEN IdleConsumer ELSE [pc |-> "key", batch |-> Tail(b)]
<1>1. b \in Seq(1..lastRead) /\ b # <<>> /\ Len(b) \in Nat
  BY BatchEntries DEF ConsumeInv, Batches
<1>2. Tail(b) \in Seq(1..lastRead) /\ Len(Tail(b)) = Len(b) - 1 /\ \A i \in 1..Len(Tail(b)) : Tail(b)[i] = b[i + 1]
  BY <1>1, HeadTailProperties
<1>3. consumer' = [consumer EXCEPT ![w] = next]
  BY DEF NextEntry
<1>4. next \in ConsumerRecords(lastRead)
  BY <1>2, EmptySeq DEF IdleConsumer, ConsumerRecords
<1>5. consumer' \in [Workers -> ConsumerRecords(lastRead)] /\ consumer'[w] = next
      /\ \A v \in Workers \ {w} : consumer'[v] = consumer[v]
  BY <1>3, <1>4 DEF ConsumeInv, ConsumeTypes
<1>6. CASE Len(b) = 1
  <2>1. consumer'[w].pc = "idle" /\ Len(consumer'[w].batch) = 0
    BY <1>5, <1>6, EmptySeq DEF IdleConsumer
  <2> QED
    BY <1>5, <2>1 DEF Drops
<1>7. CASE Len(b) # 1
  <2>1. consumer'[w].pc = "key" /\ consumer'[w].batch = Tail(b)
    BY <1>5, <1>7
  <2>2. Tail(b) # <<>>
    <3>1. Len(b) # 0
      BY <1>1
    <3>2. Len(Tail(b)) # 0
      BY <1>1, <1>2, <1>7, <3>1
    <3> QED
      BY <3>2, EmptySeq
  <2>3. \A i \in 1..Len(Tail(b)) : i + 1 \in 1..Len(b)
    BY <1>1, <1>2
  <2> QED
    BY <1>2, <1>5, <2>1, <2>2, <2>3 DEF Drops
<1> QED
  BY <1>6, <1>7

\* Dropping the first entry, acknowledged, skipped or left pending: whatever is
\* taken off the pending list was handled or is the event's second copy.
LEMMA DropKeepsConsume ==
    ASSUME Bounded, ConsumeInv, NEW w \in Workers, consumer[w].pc # "idle", Drops(w),
           UNCHANGED <<log, lastRead, deadLetter, handled, reaper>>,
           attempts' \in [Entries -> Nat],
           pending' \subseteq pending, pending \ pending' \subseteq {Entry(w)},
           consumer[w].pc \in {"ack", "skip"} \/ pending' = pending,
           keys' \subseteq keys \cup {EventOf(w)}, consumer[w].pc = "key" \/ keys' \subseteq keys
    PROVE  ConsumeInv'
<1>1. /\ 1 \in 1..Len(consumer[w].batch) /\ Entry(w) = consumer[w].batch[1]
      /\ Entry(w) \in 1..lastRead /\ EventOf(w) \in Events /\ Rescued(Entry(w))
  BY FirstEntry
<1>0. PICK h \in 1..lastRead : h = Entry(w) /\ log[h] = EventOf(w) /\ Rescued(h)
  BY <1>1 DEF EventOf
<1>2. ConsumeTypes'
  BY <1>1 DEF ConsumeInv, ConsumeTypes, Drops
<1>3. \A m \in 1..lastRead : Rescued(m) => Rescued(m)' \/ (consumer[w].pc = "skip" /\ m = Entry(w))
  <2>1. consumer[w].pc = "ack" => handled[Entry(w)] > 0
    BY <1>1 DEF ConsumeInv, Batches
  <2> QED
    BY <2>1 DEF Rescued
<1>4. \A v \in Workers : \A i \in 1..Len(consumer'[v].batch) :
         \E j \in 1..Len(consumer[v].batch) :
             /\ consumer'[v].batch[i] = consumer[v].batch[j]
             /\ v = w => j = i + 1
             /\ v # w => j = i /\ consumer'[v] = consumer[v]
  BY DEF Drops
<1>5. \A v \in Workers : \A i \in 1..Len(consumer'[v].batch) : consumer'[v].batch[i] # Entry(w)
  <2> SUFFICES ASSUME NEW v \in Workers, NEW i \in 1..Len(consumer'[v].batch), consumer'[v].batch[i] = Entry(w)
               PROVE  FALSE
    OBVIOUS
  <2>1. PICK j \in 1..Len(consumer[v].batch) :
          consumer'[v].batch[i] = consumer[v].batch[j] /\ (v = w => j = i + 1)
    BY <1>4
  <2>2. v = w /\ j = 1
    BY <1>1, <2>1 DEF ConsumeInv, Batches
  <2> QED
    BY <2>1, <2>2
<1>6. Batches'
  <2>1. ASSUME NEW v \in Workers PROVE consumer'[v].pc # "idle" => consumer'[v].batch # <<>>
    BY DEF Drops, ConsumeInv, Batches
  <2>2. ASSUME NEW v \in Workers, NEW i \in 1..Len(consumer'[v].batch)
        PROVE  /\ Rescued(consumer[v].batch[i])'
               /\ handled[consumer'[v].batch[i]] = IF i = 1 /\ consumer'[v].pc = "ack" THEN 1 ELSE 0
    <3>1. PICK j \in 1..Len(consumer[v].batch) :
             /\ consumer'[v].batch[i] = consumer[v].batch[j]
             /\ v = w => j = i + 1
             /\ v # w => j = i /\ consumer'[v] = consumer[v]
      BY <1>4
    <3>2. consumer[v].batch[j] \in 1..lastRead /\ Rescued(consumer[v].batch[j])
      BY BatchEntries DEF ConsumeInv, Batches
    <3>3. Rescued(consumer[v].batch[i])'
      <4>1. \A m \in 1..lastRead : Rescued(m) /\ m # Entry(w) => Rescued(m)'
        BY <1>3
      <4> DEFINE m == consumer[v].batch[j]
      <4>2. m # Entry(w)
        BY <1>5, <3>1
      <4>3. m \in pending' \/ m \in deadLetter' \/ handled'[m] > 0
        BY <3>2, <4>1, <4>2 DEF Rescued
      <4> QED
        BY <3>1, <4>3 DEF Rescued
    <3>4. handled[consumer[v].batch[j]] = IF j = 1 /\ consumer[v].pc = "ack" THEN 1 ELSE 0
      BY DEF ConsumeInv, Batches
    <3>5. v = w => consumer'[v].pc # "ack"
      BY DEF Drops
    <3> QED
      BY <3>1, <3>3, <3>4, <3>5
  <2>3. ASSUME NEW v \in Workers, NEW i \in 1..Len(consumer'[v].batch),
               NEW u \in Workers, NEW j \in 1..Len(consumer'[u].batch),
               consumer'[v].batch[i] = consumer'[u].batch[j]
        PROVE  v = u /\ i = j
    <3>1. PICK k \in 1..Len(consumer[v].batch) :
             consumer'[v].batch[i] = consumer[v].batch[k] /\ (v = w => k = i + 1) /\ (v # w => k = i)
      BY <1>4
    <3>2. PICK l \in 1..Len(consumer[u].batch) :
             consumer'[u].batch[j] = consumer[u].batch[l] /\ (u = w => l = j + 1) /\ (u # w => l = j)
      BY <1>4
    <3>3. consumer[v].batch[k] = consumer[u].batch[l]
      BY <2>3, <3>1, <3>2
    <3>4. v = u /\ k = l
      <4>1. \A x \in Workers : \A a \in 1..Len(consumer[x].batch) :
            \A y \in Workers : \A b \in 1..Len(consumer[y].batch) :
                consumer[x].batch[a] = consumer[y].batch[b] => x = y /\ a = b
        BY BatchesDisjoint
      <4> QED
        BY <3>3, <4>1
    <3>5. \A n \in 1..Len(consumer'[v].batch) : n \in Int
      OBVIOUS
    <3> QED
      BY <3>1, <3>2, <3>4, <3>5
  <2> QED
    BY <2>1, <2>2, <2>3 DEF Batches
<1>7. Reaped' /\ Counted'
  BY DEF ConsumeInv, Reaped, Counted
<1>8. SkipSafe'
  <2>1. \A m \in 1..lastRead : Passed(m) => Passed(m)'
    <3> SUFFICES ASSUME NEW m \in 1..lastRead, Passed(m), NEW v \in Workers, NEW i \in 1..Len(consumer'[v].batch),
                        consumer'[v].batch[i] = m
                 PROVE  i = 1 /\ consumer'[v].pc \in {"handle", "ack"}
      BY DEF Passed
    <3>1. PICK j \in 1..Len(consumer[v].batch) :
             /\ consumer'[v].batch[i] = consumer[v].batch[j]
             /\ v = w => j = i + 1
             /\ v # w => j = i /\ consumer'[v] = consumer[v]
      BY <1>4
    <3>2. j = 1 /\ consumer[v].pc \in {"handle", "ack"}
      BY <3>1 DEF Passed
    <3> QED
      BY <3>1, <3>2
  <2>2. \A m \in 1..lastRead : Rescued(m) /\ Passed(m) => Rescued(m)'
    <3>1. consumer[w].pc = "skip" => ~Passed(Entry(w))
      BY <1>1 DEF Passed
    <3> QED
      BY <1>3, <3>1
  <2>3. \A e : Safe(e) => Safe(e)'
    BY <2>1, <2>2 DEF Safe
  <2>4. Passed(h)'
    BY <1>5, <1>0 DEF Passed
  <2>5. consumer[w].pc = "key" => \A e : e = log[h] => Safe(e)'
    <3>1. consumer[w].pc = "key" => Rescued(h)'
      BY <1>3, <1>0
    <3> QED
      BY <2>4, <3>1 DEF Safe
  <2>6. ASSUME NEW e \in keys' PROVE Safe(e)'
    <3>1. e \in keys \/ (consumer[w].pc = "key" /\ e = log[h])
      BY <1>0
    <3> QED
      BY <2>3, <2>5, <3>1 DEF ConsumeInv, SkipSafe
  <2>7. ASSUME NEW v \in Workers, consumer'[v].pc = "skip" PROVE Safe(EventOf(v))'
    <3>1. consumer'[v] = consumer[v] /\ v # w
      BY <2>7 DEF Drops
    <3>2. EventOf(v)' = EventOf(v) /\ Safe(EventOf(v))
      BY <2>7, <3>1 DEF EventOf, Entry, ConsumeInv, SkipSafe
    <3>3. \E m \in 1..lastRead' : log'[m] = EventOf(v) /\ Rescued(m)' /\ Passed(m)'
      BY <2>3, <3>2 DEF Safe
    <3> QED
      BY <3>2, <3>3 DEF Safe
  <2>8. ASSUME NEW m \in 1..lastRead PROVE Rescued(m)' \/ Safe(log[m])'
    <3>1. CASE Safe(log[m])
      BY <2>3, <3>1
    <3>2. CASE consumer[w].pc = "skip" /\ m = Entry(w)
      BY <2>3, <3>2 DEF ConsumeInv, SkipSafe, EventOf
    <3> QED
      BY <1>3, <3>1, <3>2 DEF ConsumeInv, SkipSafe
  <2> QED
    BY <2>6, <2>7, <2>8 DEF SkipSafe
<1> QED
  BY <1>2, <1>6, <1>7, <1>8 DEF ConsumeInv

\* Where a consumer goes without leaving its entry: to the handler with the key
\* set, to the skip with the key there, and from the handler to the XACK.
LEMMA GotoKeepsConsume ==
    ASSUME Bounded, ConsumeInv, NEW w \in Workers, NEW place \in {"handle", "skip", "ack"}, Goto(w, place),
           UNCHANGED <<log, lastRead, pending, deadLetter, reaper, attempts>>,
           \/ /\ place = "handle" /\ consumer[w].pc = "key"
              /\ keys' = keys \cup {EventOf(w)} /\ UNCHANGED handled
           \/ place = "skip" /\ consumer[w].pc = "key" /\ EventOf(w) \in keys /\ UNCHANGED <<keys, handled>>
           \/ /\ place = "ack" /\ consumer[w].pc = "handle"
              /\ handled' = [handled EXCEPT ![Entry(w)] = @ + 1] /\ UNCHANGED keys
    PROVE  ConsumeInv'
<1>1. /\ 1 \in 1..Len(consumer[w].batch) /\ Entry(w) = consumer[w].batch[1]
      /\ Entry(w) \in 1..lastRead /\ EventOf(w) \in Events /\ Rescued(Entry(w))
  BY FirstEntry
<1>2. PICK h \in 1..lastRead : h = Entry(w) /\ log[h] = EventOf(w) /\ Rescued(h) /\ h \in Entries
  BY <1>1, BatchEntries DEF EventOf, ConsumeInv
<1>3. /\ \A v \in Workers : consumer'[v].batch = consumer[v].batch
      /\ \A v \in Workers \ {w} : consumer'[v] = consumer[v]
      /\ consumer'[w].pc = place
  BY DEF Goto, ConsumeInv, ConsumeTypes, ConsumerRecords
<1>4. \A v \in Workers : \A i \in 1..Len(consumer[v].batch) : consumer[v].batch[i] = h => v = w /\ i = 1
  BY <1>1, <1>2 DEF ConsumeInv, Batches
<1>5. \A m \in Entries : handled[m] \in Nat /\ handled'[m] \in Nat
  BY <1>2 DEF ConsumeInv, ConsumeTypes
<1>6. \A m \in Entries : m # h => handled'[m] = handled[m]
  BY <1>2 DEF ConsumeInv, ConsumeTypes
<1>7. handled[h] = 0 /\ handled'[h] = IF place = "ack" THEN 1 ELSE 0
  BY <1>1, <1>2 DEF ConsumeInv, ConsumeTypes, Batches
<1>8. \A m \in 1..lastRead : Rescued(m) => Rescued(m)'
  BY <1>6, <1>7, BatchEntries, SMTT(30) DEF Rescued, ConsumeInv
<1>9. ConsumeTypes'
  <2>1. consumer' \in [Workers -> ConsumerRecords(lastRead)]
    BY DEF Goto, ConsumeInv, ConsumeTypes, ConsumerRecords
  <2>2. handled' \in [Entries -> Nat]
    BY <1>2 DEF ConsumeInv, ConsumeTypes
  <2> QED
    BY <1>1, <2>1, <2>2 DEF ConsumeInv, ConsumeTypes
<1>10. Batches'
  <2>1. ASSUME NEW v \in Workers, NEW i \in 1..Len(consumer[v].batch)
        PROVE  /\ Rescued(consumer[v].batch[i])'
               /\ handled'[consumer[v].batch[i]] = IF i = 1 /\ consumer'[v].pc = "ack" THEN 1 ELSE 0
    <3> DEFINE m == consumer[v].batch[i]
    <3>1. m \in 1..lastRead /\ m \in Entries
      BY BatchEntries DEF ConsumeInv
    <3>2. m \in pending' \/ m \in deadLetter' \/ handled'[m] > 0
      <4>1. Rescued(m)
        BY DEF ConsumeInv, Batches
      <4> QED
        BY <1>6, <1>7, <3>1, <4>1 DEF Rescued
    <3>3. ASSUME m = h PROVE handled'[m] = IF i = 1 /\ consumer'[v].pc = "ack" THEN 1 ELSE 0
      BY <1>3, <1>4, <1>7, <3>3
    <3>4. ASSUME m # h PROVE handled'[m] = IF i = 1 /\ consumer'[v].pc = "ack" THEN 1 ELSE 0
      <4>1. handled'[m] = IF i = 1 /\ consumer[v].pc = "ack" THEN 1 ELSE 0
        BY <1>6, <3>1, <3>4 DEF ConsumeInv, Batches
      <4>2. i = 1 => v # w
        BY <1>1, <1>2, <3>4
      <4> QED
        BY <1>3, <4>1, <4>2
    <3>5. handled'[m] = IF i = 1 /\ consumer'[v].pc = "ack" THEN 1 ELSE 0
      BY <3>3, <3>4
    <3>6. consumer'[v].batch[i] = consumer[v].batch[i]
      BY <1>3
    <3> QED
      BY <3>2, <3>5, <3>6 DEF Rescued
  <2>2. \A x \in Workers : \A a \in 1..Len(consumer[x].batch) :
        \A y \in Workers : \A b \in 1..Len(consumer[y].batch) :
            consumer[x].batch[a] = consumer[y].batch[b] => x = y /\ a = b
    BY DEF ConsumeInv, Batches
  <2>3. \A v \in Workers : consumer'[v].pc # "idle" => consumer'[v].batch # <<>>
    BY <1>3 DEF ConsumeInv, Batches
  <2> QED
    BY <1>3, <2>1, <2>2, <2>3 DEF Batches
<1>11. Reaped' /\ Counted'
  BY <1>2, <1>5, <1>6, <1>7 DEF ConsumeInv, ConsumeTypes, Reaped, Counted
<1>12. SkipSafe'
  <2>1. \A m \in 1..lastRead : Passed(m) => Passed(m)'
    BY <1>3 DEF Passed
  <2>2. \A e : Safe(e) => Safe(e)'
    BY <1>8, <2>1 DEF Safe
  <2>3. place = "handle" => \A e : e = log[h] => Safe(e)'
    <3>1. place = "handle" => Passed(h)'
      BY <1>3, <1>4 DEF Passed
    <3> QED
      BY <1>2, <1>8, <3>1 DEF Safe
  <2>4. ASSUME NEW e \in keys' PROVE Safe(e)'
    <3>1. e \in keys \/ (place = "handle" /\ e = log[h])
      BY <1>2
    <3> QED
      BY <2>2, <2>3, <3>1 DEF ConsumeInv, SkipSafe
  <2>5. ASSUME NEW v \in Workers, consumer'[v].pc = "skip" PROVE Safe(EventOf(v))'
    <3>1. EventOf(v)' = EventOf(v)
      BY <1>3 DEF EventOf, Entry
    <3>2. Safe(EventOf(v))
      BY <1>3, <2>5 DEF ConsumeInv, SkipSafe
    <3>3. \E m \in 1..lastRead' : log'[m] = EventOf(v) /\ Rescued(m)' /\ Passed(m)'
      BY <2>2, <3>2 DEF Safe
    <3> QED
      BY <3>1, <3>3 DEF Safe
  <2>6. ASSUME NEW m \in 1..lastRead PROVE Rescued(m)' \/ Safe(log[m])'
    BY <1>8, <2>2 DEF ConsumeInv, SkipSafe
  <2> QED
    BY <2>4, <2>5, <2>6 DEF SkipSafe
<1> QED
  BY <1>9, <1>10, <1>11, <1>12 DEF ConsumeInv

LEMMA CheckKeyKeepsConsume == ASSUME Bounded, ConsumeInv, NEW w \in Workers, CheckKey(w) PROVE ConsumeInv'
<1>1. /\ consumer[w].pc = "key"
      /\ UNCHANGED <<log, lastRead, pending, attempts, deadLetter, handled, reaper>>
  BY DEF CheckKey, At
<1>2. CASE keys' = keys \cup {EventOf(w)} /\ Goto(w, "handle")
  BY <1>1, <1>2, GotoKeepsConsume
<1>3. CASE EventOf(w) \in keys /\ Goto(w, "skip") /\ UNCHANGED keys
  BY <1>1, <1>3, GotoKeepsConsume
<1>4. CASE keys' \in {keys, keys \cup {EventOf(w)}} /\ Abandon(w)
  <2>1. Drops(w) /\ attempts' \in [Entries -> Nat] /\ pending' = pending
    BY <1>1, <1>4, AbandonDrops DEF ConsumeInv, ConsumeTypes
  <2> QED
    BY <1>1, <1>4, <2>1, DropKeepsConsume
<1> QED
  BY <1>2, <1>3, <1>4 DEF CheckKey

LEMMA HandleKeepsConsume == ASSUME Bounded, ConsumeInv, NEW w \in Workers, Handle(w) PROVE ConsumeInv'
BY GotoKeepsConsume DEF Handle, At, redisVars

LEMMA AckKeepsConsume == ASSUME Bounded, ConsumeInv, NEW w \in Workers, Ack(w) PROVE ConsumeInv'
<1>1. consumer[w].pc = "ack" /\ UNCHANGED <<log, lastRead, deadLetter, handled, reaper>>
  BY DEF Ack, At
<1>2. Entry(w) \in Entries
  BY <1>1, FirstEntry, BatchEntries DEF ConsumeInv
<1>3. attempts' \in [Entries -> Nat]
  <2>1. attempts' = attempts \/ attempts' = [attempts EXCEPT ![Entry(w)] = 0]
    BY DEF Ack
  <2> QED
    BY <1>2, <2>1 DEF ConsumeInv, ConsumeTypes
<1>5. pending' \subseteq pending /\ pending \ pending' \subseteq {Entry(w)} /\ keys' \subseteq keys
  BY DEF Ack
<1>4. Drops(w)
  <2>1. NextEntry(w) \/ Abandon(w)
    BY DEF Ack
  <2> QED
    BY <1>1, <2>1, NextEntryDrops, AbandonDrops
<1> QED
  BY <1>1, <1>3, <1>4, <1>5, DropKeepsConsume

LEMMA SkipKeepsConsume == ASSUME Bounded, ConsumeInv, NEW w \in Workers, Skip(w) PROVE ConsumeInv'
<1>1. consumer[w].pc = "skip" /\ UNCHANGED <<log, lastRead, deadLetter, handled, reaper, keys, attempts>>
  BY DEF Skip, At
<1>2. attempts' \in [Entries -> Nat] /\ pending' \subseteq pending /\ pending \ pending' \subseteq {Entry(w)}
  BY <1>1 DEF Skip, ConsumeInv, ConsumeTypes
<1>3. Drops(w)
  <2>1. NextEntry(w) \/ Abandon(w)
    BY DEF Skip
  <2> QED
    BY <1>1, <2>1, NextEntryDrops, AbandonDrops
<1> QED
  BY <1>1, <1>2, <1>3, DropKeepsConsume

LEMMA ReadKeepsConsume == ASSUME Bounded, ConsumeInv, NEW w \in Workers, Read(w) PROVE ConsumeInv'
<1> DEFINE last == IF lastRead + ReadCount < Len(log) THEN lastRead + ReadCount ELSE Len(log)
           batch == [i \in 1..(last - lastRead) |-> lastRead + i]
<1>1. /\ lastRead < Len(log) /\ lastRead' = last /\ pending' = pending \cup (lastRead + 1)..last
      /\ consumer' \in {consumer, [consumer EXCEPT ![w] = [pc |-> "key", batch |-> batch]]}
      /\ UNCHANGED <<log, keys, attempts, deadLetter, handled, reaper>>
  BY DEF Read
<1>2. /\ lastRead \in Nat /\ Len(log) \in Nat /\ last \in Nat /\ lastRead < last /\ last <= Len(log)
      /\ last - lastRead \in Nat /\ 1..lastRead \subseteq 1..last /\ 1..last \subseteq Entries
  <2>1. lastRead \in Nat /\ Len(log) \in Nat /\ lastRead < Len(log) /\ ReadCount \in Nat \ {0}
    BY <1>1, BatchEntries, LimitsAssumption DEF ConsumeInv
  <2>2. last \in Nat /\ lastRead < last /\ last <= Len(log)
    BY <2>1
  <2> HIDE DEF last
  <2>3. last - lastRead \in Nat /\ 1..lastRead \subseteq 1..last /\ 1..last \subseteq 1..Len(log)
    BY <2>1, <2>2
  <2>4. 1..Len(log) \subseteq Entries
    BY BatchEntries DEF ConsumeInv
  <2> QED
    BY <2>1, <2>2, <2>3, <2>4
<1>3. /\ batch \in Seq(1..last) /\ Len(batch) = last - lastRead /\ batch # <<>>
      /\ \A i \in 1..Len(batch) : batch[i] = lastRead + i /\ batch[i] \in (lastRead + 1)..last
  <2>1. \A i \in 1..(last - lastRead) : lastRead + i \in 1..last /\ lastRead + i \in (lastRead + 1)..last
    BY <1>2
  <2>2. batch \in Seq(1..last) /\ Len(batch) = last - lastRead
    <3> HIDE DEF last
    <3> QED
      BY <1>2, <2>1
  <2>3. batch # <<>>
    BY <1>2, <2>2, EmptySeq, SMTT(30)
  <2> QED
    BY <2>1, <2>2, <2>3
<1> HIDE DEF last, batch
<1>4. \A v \in Workers : \A i \in 1..Len(consumer'[v].batch) :
        \/ consumer'[v] = consumer[v] /\ consumer'[v].batch[i] \in 1..lastRead
        \/ /\ v = w /\ consumer'[v].pc = "key" /\ consumer'[v].batch = batch
           /\ consumer'[v].batch[i] \in (lastRead + 1)..last
  <2> SUFFICES ASSUME NEW v \in Workers, NEW i \in 1..Len(consumer'[v].batch)
               PROVE \/ consumer'[v] = consumer[v] /\ consumer'[v].batch[i] \in 1..lastRead
                     \/ /\ v = w /\ consumer'[v].pc = "key" /\ consumer'[v].batch = batch
                        /\ consumer'[v].batch[i] \in (lastRead + 1)..last
    OBVIOUS
  <2>1. CASE consumer'[v] = consumer[v]
    BY <2>1, BatchEntries DEF ConsumeInv
  <2>2. CASE consumer'[v] # consumer[v]
    <3>1. v = w /\ consumer'[v] = [pc |-> "key", batch |-> batch]
      BY <1>1, <2>2 DEF ConsumeInv, ConsumeTypes
    <3> QED
      BY <1>3, <3>1
  <2> QED
    BY <2>1, <2>2
<1>5. ConsumeTypes'
  <2>1. ConsumerRecords(lastRead) \subseteq ConsumerRecords(last)
    <3>1. Seq(1..lastRead) \subseteq Seq(1..last)
      BY <1>2, SeqMonotonic
    <3> QED
      BY <3>1 DEF ConsumerRecords
  <2>2. [pc |-> "key", batch |-> batch] \in ConsumerRecords(last)
    BY <1>3 DEF ConsumerRecords
  <2>3. consumer' \in [Workers -> ConsumerRecords(last)]
    BY <1>1, <2>1, <2>2 DEF ConsumeInv, ConsumeTypes
  <2>4. reaper' \in [Workers -> ReaperRecords(last)]
    <3>1. 0..lastRead \subseteq 0..last
      BY <1>2
    <3>2. ReaperRecords(lastRead) \subseteq ReaperRecords(last)
      BY <3>1 DEF ReaperRecords
    <3> QED
      BY <1>1, <3>2 DEF ConsumeInv, ConsumeTypes
  <2>5. pending' \subseteq 1..last /\ deadLetter' \subseteq 1..last /\ last \in 0..Len(log)
    BY <1>1, <1>2 DEF ConsumeInv, ConsumeTypes
  <2> QED
    BY <1>1, <2>3, <2>4, <2>5 DEF ConsumeInv, ConsumeTypes
<1>6. Batches'
  <2>1. \A v \in Workers : consumer'[v].pc # "idle" => consumer'[v].batch # <<>>
    <3> SUFFICES ASSUME NEW v \in Workers, consumer'[v].pc # "idle" PROVE consumer'[v].batch # <<>>
      OBVIOUS
    <3>1. consumer'[v] = consumer[v] \/ consumer'[v] = [pc |-> "key", batch |-> batch]
      BY <1>1 DEF ConsumeInv, ConsumeTypes
    <3> QED
      BY <1>3, <3>1 DEF ConsumeInv, Batches
  <2>2. ASSUME NEW v \in Workers, NEW i \in 1..Len(consumer'[v].batch)
        PROVE  /\ consumer'[v].batch[i] \in pending' \cup deadLetter' \/ handled'[consumer'[v].batch[i]] > 0
               /\ handled'[consumer'[v].batch[i]] = IF i = 1 /\ consumer'[v].pc = "ack" THEN 1 ELSE 0
    <3>1. CASE consumer'[v] = consumer[v]
      BY <1>1, <3>1 DEF ConsumeInv, Batches, Rescued
    <3>2. CASE consumer'[v].pc = "key" /\ consumer'[v].batch[i] \in (lastRead + 1)..last
      <4> DEFINE m == consumer'[v].batch[i]
      <4>1. m \in pending' /\ m \in Entries /\ m > lastRead
        BY <1>1, <1>2, <3>2
      <4>2. handled'[m] = 0
        BY <1>1, <4>1 DEF ConsumeInv, Counted
      <4> QED
        BY <3>2, <4>1, <4>2
    <3> QED
      BY <1>4, <3>1, <3>2
  <2>3. ASSUME NEW x \in Workers, NEW a \in 1..Len(consumer'[x].batch),
               NEW y \in Workers, NEW b \in 1..Len(consumer'[y].batch),
               consumer'[x].batch[a] = consumer'[y].batch[b]
        PROVE  x = y /\ a = b
    <3>1. ~(consumer'[x].batch[a] \in 1..lastRead /\ consumer'[y].batch[b] \in (lastRead + 1)..last)
          /\ ~(consumer'[y].batch[b] \in 1..lastRead /\ consumer'[x].batch[a] \in (lastRead + 1)..last)
      BY <1>2, <2>3
    <3>2. CASE consumer'[x] = consumer[x] /\ consumer'[y] = consumer[y]
      <4>1. \A u \in Workers : \A c \in 1..Len(consumer[u].batch) :
            \A v \in Workers : \A d \in 1..Len(consumer[v].batch) :
                consumer[u].batch[c] = consumer[v].batch[d] => u = v /\ c = d
        BY BatchesDisjoint
      <4> QED
        BY <2>3, <3>2, <4>1
    <3>3. CASE x = w /\ y = w /\ consumer'[x].batch = batch
      <4>1. a \in 1..Len(batch) /\ b \in 1..Len(batch) /\ batch[a] = batch[b]
        BY <2>3, <3>3
      <4>2. lastRead + a = lastRead + b
        BY <1>3, <4>1
      <4>3. lastRead \in Nat /\ Len(batch) \in Nat
        BY <1>2, <1>3
      <4>4. a = b
        <5> HIDE DEF last, batch
        <5> QED BY <4>1, <4>2, <4>3
      <4> QED
        BY <3>3, <4>4
    <3> QED
      BY <1>4, <3>1, <3>2, <3>3
  <2> QED
    BY <2>1, <2>2, <2>3 DEF Batches, Rescued
<1>7. Reaped' /\ Counted'
  <2>1. \A m \in 1..lastRead : m \in 1..last
    BY <1>2
  <2>2. Reaped'
    BY <1>1, <2>1 DEF ConsumeInv, Reaped
  <2>3. \A m \in Entries : m > last => m > lastRead
    BY <1>2 DEF Bounded, Entries
  <2> QED
    BY <1>1, <2>2, <2>3 DEF ConsumeInv, Counted
<1>8. SkipSafe'
  <2>1. \A m \in 1..lastRead : (Rescued(m) => Rescued(m)') /\ (Passed(m) => Passed(m)')
    <3> SUFFICES ASSUME NEW m \in 1..lastRead PROVE (Rescued(m) => Rescued(m)') /\ (Passed(m) => Passed(m)')
      OBVIOUS
    <3>1. Rescued(m) => Rescued(m)'
      BY <1>1 DEF Rescued
    <3>2. m \notin (lastRead + 1)..last
      BY <1>2
    <3>3. Passed(m) => Passed(m)'
      BY <1>4, <3>2 DEF Passed
    <3> QED
      BY <3>1, <3>3
  <2>2. \A e : Safe(e) => Safe(e)'
    BY <1>1, <1>2, <2>1 DEF Safe
  <2>3. ASSUME NEW v \in Workers, consumer'[v].pc = "skip" PROVE Safe(EventOf(v))'
    <3>1. consumer'[v] = consumer[v]
      BY <1>1, <2>3 DEF ConsumeInv, ConsumeTypes
    <3>2. EventOf(v)' = EventOf(v) /\ Safe(EventOf(v))
      BY <1>1, <2>3, <3>1 DEF EventOf, Entry, ConsumeInv, SkipSafe
    <3>3. \E m \in 1..lastRead' : log'[m] = EventOf(v) /\ Rescued(m)' /\ Passed(m)'
      BY <2>2, <3>2 DEF Safe
    <3> QED
      BY <3>2, <3>3 DEF Safe
  <2>4. ASSUME NEW m \in 1..lastRead' PROVE Rescued(m)' \/ (\A e : e = log[m] => Safe(e)')
    <3>1. CASE m \in 1..lastRead
      BY <2>1, <2>2, <3>1 DEF ConsumeInv, SkipSafe
    <3>2. CASE m \in (lastRead + 1)..last
      BY <1>1, <3>2 DEF Rescued
    <3> QED
      BY <1>1, <1>2, <3>1, <3>2
  <2>5. \A e \in keys' : Safe(e)'
    BY <1>1, <2>2 DEF ConsumeInv, SkipSafe
  <2>6. log' = log
    BY <1>1
  <2> QED
    BY <2>3, <2>4, <2>5, <2>6 DEF SkipSafe
<1> QED
  BY <1>5, <1>6, <1>7, <1>8 DEF ConsumeInv

\* What reapers do: an entry leaves the pending list when it is in the dead letter stream.
LEMMA ReapKeepsConsume ==
    ASSUME Bounded, ConsumeInv, UNCHANGED <<log, lastRead, keys, handled, consumer>>,
           attempts' \in [Entries -> Nat], reaper' \in [Workers -> ReaperRecords(lastRead)], Reaped',
           deadLetter \subseteq deadLetter', deadLetter' \subseteq 1..lastRead,
           pending' \subseteq pending, pending \ pending' \subseteq deadLetter'
    PROVE  ConsumeInv'
<1>1. ConsumeTypes'
  BY DEF ConsumeInv, ConsumeTypes
<1>2. \A m : Rescued(m) => Rescued(m)'
  BY DEF Rescued
<1>3. Batches'
  <2>1. ASSUME NEW w \in Workers, NEW i \in 1..Len(consumer[w].batch)
        PROVE  consumer'[w].batch[i] \in pending' \cup deadLetter' \/ handled'[consumer'[w].batch[i]] > 0
    BY DEF ConsumeInv, Batches, Rescued
  <2>2. \A w \in Workers : consumer'[w] = consumer[w]
    OBVIOUS
  <2> QED
    BY <2>1, <2>2 DEF ConsumeInv, Batches, Rescued
<1>4. Counted'
  BY DEF ConsumeInv, Counted
<1>5. \A m : Passed(m) => Passed(m)'
  BY DEF Passed
<1>6. \A e : Safe(e) => Safe(e)'
  BY <1>2, <1>5 DEF Safe
<1>7. SkipSafe'
  <2>1. ASSUME NEW v \in Workers, consumer'[v].pc = "skip" PROVE Safe(EventOf(v))'
    <3>1. EventOf(v)' = EventOf(v) /\ Safe(EventOf(v))
      BY <2>1 DEF EventOf, Entry, ConsumeInv, SkipSafe
    <3>2. \E m \in 1..lastRead' : log'[m] = EventOf(v) /\ Rescued(m)' /\ Passed(m)'
      BY <1>6, <3>1 DEF Safe
    <3> QED
      BY <3>1, <3>2 DEF Safe
  <2>2. ASSUME NEW m \in 1..lastRead PROVE Rescued(m)' \/ Safe(log[m])'
    BY <1>2, <1>6 DEF ConsumeInv, SkipSafe
  <2>3. \A e \in keys' : Safe(e)'
    BY <1>6 DEF ConsumeInv, SkipSafe
  <2> QED
    BY <2>1, <2>2, <2>3 DEF SkipSafe
<1> QED
  BY <1>1, <1>3, <1>4, <1>7 DEF ConsumeInv

LEMMA ReaperStepKeepsConsume ==
    ASSUME Bounded, ConsumeInv, NEW w \in Workers, ReaperStep(w) \/ ReapFault(w) PROVE ConsumeInv'
<1> USE DEF ConsumeInv, ConsumeTypes, ReaperRecords, Reaped
<1>1. CASE Xclaim(w)
  <2>1. PICK m \in pending : reaper' = [reaper EXCEPT ![w] = [pc |-> "count", entry |-> m]]
    BY <1>1 DEF Xclaim
  <2>2. m \in 1..lastRead /\ m \in 0..lastRead /\ UNCHANGED <<log, lastRead, pending, keys, attempts, deadLetter, handled, consumer>>
    BY <1>1 DEF Xclaim, redisVars
  <2>3. reaper' \in [Workers -> ReaperRecords(lastRead)] /\ Reaped'
    BY <2>1, <2>2
  <2> QED
    BY <2>2, <2>3, ReapKeepsConsume
<1>2. CASE CountAttempt(w)
  <2> DEFINE m == reaper[w].entry
  <2>1. m \in 1..lastRead /\ m \in Entries
    BY <1>2, BatchEntries DEF CountAttempt
  <2>2. UNCHANGED <<log, lastRead, pending, keys, deadLetter, handled, consumer>>
    BY <1>2 DEF CountAttempt
  <2>3. attempts' \in [Entries -> Nat]
    BY <1>2, <2>1 DEF CountAttempt
  <2>4. \/ reaper' = [reaper EXCEPT ![w].pc = "dead"]
        \/ reaper' = [reaper EXCEPT ![w] = IdleReaper]
    BY <1>2 DEF CountAttempt
  <2>5. reaper' \in [Workers -> ReaperRecords(lastRead)] /\ Reaped'
    <3>1. CASE reaper' = [reaper EXCEPT ![w].pc = "dead"]
      BY <2>1, <2>2, <3>1
    <3>2. CASE reaper' = [reaper EXCEPT ![w] = IdleReaper]
      BY <2>2, <3>2, BatchEntries DEF IdleReaper
    <3> QED
      BY <2>4, <3>1, <3>2
  <2> QED
    BY <2>2, <2>3, <2>5, ReapKeepsConsume
<1>3. CASE DeadLetter(w)
  <2>1. /\ UNCHANGED <<log, lastRead, pending, keys, attempts, handled, consumer>>
        /\ deadLetter' = deadLetter \cup {reaper[w].entry} /\ reaper' = [reaper EXCEPT ![w].pc = "ack"]
        /\ reaper[w].entry \in 1..lastRead
    BY <1>3 DEF DeadLetter
  <2>2. reaper' \in [Workers -> ReaperRecords(lastRead)] /\ Reaped'
    BY <2>1
  <2> QED
    BY <2>1, <2>2, ReapKeepsConsume
<1>4. CASE AckDead(w)
  <2>1. /\ UNCHANGED <<log, lastRead, keys, deadLetter, handled, consumer>>
        /\ pending' = pending \ {reaper[w].entry} /\ reaper' = [reaper EXCEPT ![w] = IdleReaper]
        /\ reaper[w].entry \in deadLetter /\ reaper[w].entry \in Entries
        /\ attempts' = [attempts EXCEPT ![reaper[w].entry] = 0]
    BY <1>4, BatchEntries DEF AckDead
  <2>2. reaper' \in [Workers -> ReaperRecords(lastRead)] /\ Reaped'
    BY <2>1, BatchEntries DEF IdleReaper
  <2>3. attempts' \in [Entries -> Nat]
    BY <2>1
  <2> QED
    BY <2>1, <2>2, <2>3, ReapKeepsConsume
<1>5. CASE ReapFault(w)
  <2>1. UNCHANGED <<log, lastRead, pending, keys, attempts, deadLetter, handled, consumer>>
        /\ reaper' = [reaper EXCEPT ![w] = IdleReaper]
    BY <1>5 DEF ReapFault, redisVars
  <2>2. reaper' \in [Workers -> ReaperRecords(lastRead)] /\ Reaped'
    BY <2>1, BatchEntries DEF IdleReaper
  <2> QED
    BY <2>1, <2>2, ReapKeepsConsume
<1> QED
  BY <1>1, <1>2, <1>3, <1>4, <1>5 DEF ReaperStep

\* A crash: the batch is gone, its entries are pending still.
LEMMA CrashKeepsConsume == ASSUME Bounded, ConsumeInv, NEW w \in Workers, Crash(w) PROVE ConsumeInv'
<1>1. /\ UNCHANGED <<log, lastRead, pending, keys, attempts, deadLetter, handled>>
      /\ consumer' = [consumer EXCEPT ![w] = IdleConsumer] /\ reaper' = [reaper EXCEPT ![w] = IdleReaper]
  BY DEF Crash, redisVars
<1>2. IdleConsumer \in ConsumerRecords(lastRead) /\ IdleReaper \in ReaperRecords(lastRead)
  BY EmptySeq, BatchEntries DEF IdleConsumer, IdleReaper, ConsumerRecords, ReaperRecords, ConsumeInv
<1>3. ConsumeTypes'
  BY <1>1, <1>2 DEF ConsumeInv, ConsumeTypes
<1>4. /\ consumer'[w].pc = "idle" /\ Len(consumer'[w].batch) = 0
      /\ \A v \in Workers \ {w} : consumer'[v] = consumer[v]
  BY <1>1, EmptySeq DEF ConsumeInv, ConsumeTypes, IdleConsumer
<1>5. \A v \in Workers : \A i \in 1..Len(consumer'[v].batch) : v # w /\ consumer'[v] = consumer[v]
  BY <1>4
<1>6. Batches'
  <2>1. \A v \in Workers : consumer'[v].pc # "idle" => consumer'[v].batch # <<>>
    BY <1>4 DEF ConsumeInv, Batches
  <2>2. ASSUME NEW v \in Workers, NEW i \in 1..Len(consumer'[v].batch)
        PROVE  /\ consumer'[v].batch[i] \in pending' \cup deadLetter' \/ handled'[consumer'[v].batch[i]] > 0
               /\ handled'[consumer'[v].batch[i]] = IF i = 1 /\ consumer'[v].pc = "ack" THEN 1 ELSE 0
    BY <1>1, <1>5 DEF ConsumeInv, Batches, Rescued
  <2>3. \A x \in Workers : \A a \in 1..Len(consumer[x].batch) :
        \A y \in Workers : \A b \in 1..Len(consumer[y].batch) :
            consumer[x].batch[a] = consumer[y].batch[b] => x = y /\ a = b
    BY DEF ConsumeInv, Batches
  <2>4. \A x \in Workers : \A a \in 1..Len(consumer'[x].batch) :
        \A y \in Workers : \A b \in 1..Len(consumer'[y].batch) :
            consumer'[x].batch[a] = consumer'[y].batch[b] => x = y /\ a = b
    BY <1>5, <2>3
  <2> QED
    BY <2>1, <2>2, <2>4 DEF Batches, Rescued
<1>7. Reaped' /\ Counted'
  BY <1>1 DEF ConsumeInv, ConsumeTypes, Reaped, Counted, IdleReaper
<1>8. SkipSafe'
  <2>1. \A m : (Rescued(m) => Rescued(m)') /\ (Passed(m) => Passed(m)')
    <3>1. \A m : Rescued(m) => Rescued(m)'
      BY <1>1 DEF Rescued
    <3>2. \A m : Passed(m) => Passed(m)'
      BY <1>5 DEF Passed
    <3> QED
      BY <3>1, <3>2
  <2>2. \A e : Safe(e) => Safe(e)'
    BY <1>1, <2>1 DEF Safe
  <2>3. ASSUME NEW v \in Workers, consumer'[v].pc = "skip" PROVE Safe(EventOf(v))'
    <3>1. consumer'[v] = consumer[v]
      BY <1>4, <2>3
    <3>2. EventOf(v)' = EventOf(v) /\ Safe(EventOf(v))
      BY <1>1, <2>3, <3>1 DEF EventOf, Entry, ConsumeInv, SkipSafe
    <3>3. \E m \in 1..lastRead' : log'[m] = EventOf(v) /\ Rescued(m)' /\ Passed(m)'
      BY <2>2, <3>2 DEF Safe
    <3> QED
      BY <3>2, <3>3 DEF Safe
  <2>4. ASSUME NEW m \in 1..lastRead PROVE Rescued(m)' \/ Safe(log[m])'
    <3>1. Rescued(m) \/ Safe(log[m])
      BY DEF ConsumeInv, SkipSafe
    <3>2. \A e : e = log[m] /\ Safe(e) => Safe(e)'
      BY <2>2
    <3> QED
      BY <1>1, <2>1, <3>1, <3>2
  <2>5. \A e \in keys' : Safe(e)'
    BY <1>1, <2>2 DEF ConsumeInv, SkipSafe
  <2> QED
    BY <1>1, <2>3, <2>4, <2>5 DEF SkipSafe
<1> QED
  BY <1>3, <1>6, <1>7, <1>8 DEF ConsumeInv

-----------------------------------------------------------------------------
(* The pipeline                                                            *)

IInv == DispatchInv /\ ConsumeInv

LEMMA InvBounded == DispatchInv => Bounded
BY LogBounded DEF DispatchInv, DispatchTypes, Bounded

LEMMA InitInv == Init => IInv
BY InitDispatch, InvBounded, InitConsume DEF IInv

\* A dispatcher only ever appends to the stream.
LEMMA AppendExtends ==
    ASSUME log \in Seq(Events), NEW e \in Events, log' \in {log, Append(log, e)} PROVE Extends
<1>1. CASE log' = log
  BY <1>1 DEF Extends
<1>2. CASE log' = Append(log, e)
  BY <1>2, AppendProperties DEF Extends
<1> QED
  BY <1>1, <1>2

LEMMA DispatcherKeepsInv == ASSUME IInv, NEW w \in Workers, DispatcherStep(w) PROVE IInv'
<1>1. Bounded /\ log \in Seq(Events)
  BY InvBounded DEF IInv, Bounded
<1>2. UNCHANGED <<lastRead, pending, keys, attempts, deadLetter, handled, consumer, reaper>>
  BY DEF DispatcherStep, Fetch, CommitBatch, Xadd, redisVars
<1>3. CASE Fetch(w)
  <2>1. Extends
    BY <1>1, <1>3 DEF Fetch, redisVars, Extends
  <2> QED
    BY <1>1, <1>2, <1>3, <2>1, FetchKeepsDispatch, ExtendKeepsConsume DEF IInv
<1>4. CASE CommitBatch(w)
  <2>1. Extends
    BY <1>1, <1>4 DEF CommitBatch, redisVars, Extends
  <2> QED
    BY <1>1, <1>2, <1>4, <2>1, CommitKeepsDispatch, ExtendKeepsConsume DEF IInv
<1>5. ASSUME NEW e \in Events, Xadd(w, e) PROVE IInv'
  <2>1. log' \in {log, Append(log, e)}
    BY <1>5 DEF Xadd
  <2>2. Extends
    BY <1>1, <2>1, AppendExtends
  <2> QED
    BY <1>1, <1>2, <1>5, <2>2, XaddKeepsDispatch, ExtendKeepsConsume DEF IInv
<1> QED
  BY <1>3, <1>4, <1>5 DEF DispatcherStep

\* Consumers and reapers leave the dispatchers' half alone.
LEMMA OthersStayAside ==
    ASSUME DispatchInv, NEW w \in Workers, ConsumerStep(w) \/ ReaperStep(w) \/ ReapFault(w) PROVE Aside
<1>1. UNCHANGED <<outbox, log, dispatcher, dead>>
  BY DEF ConsumerStep, Read, CheckKey, Handle, Ack, Skip, ReaperStep, Xclaim, CountAttempt, DeadLetter,
         AckDead, ReapFault, redisVars
<1>2. faults' = faults \/ (faults < MaxFaults /\ faults' = faults + 1)
      \/ (faults + 2 <= MaxFaults /\ faults' = faults + 2)
  <2>1. CASE ConsumerStep(w)
    BY <2>1 DEF ConsumerStep, Read, CheckKey, Handle, Ack, Skip, Fault, CanFail
  <2>2. CASE ReaperStep(w) \/ ReapFault(w)
    BY <2>2 DEF ReaperStep, Xclaim, CountAttempt, DeadLetter, AckDead, ReapFault, Fault, CanFail
  <2> QED
    BY <2>1, <2>2
<1>3. faults \in 0..MaxFaults /\ MaxFaults \in Nat
  BY LimitsAssumption DEF DispatchInv, DispatchTypes
<1>4. faults' \in faults..MaxFaults
  BY <1>2, <1>3
<1> QED
  BY <1>1, <1>4 DEF Aside

LEMMA OthersKeepInv ==
    ASSUME IInv, NEW w \in Workers, ConsumerStep(w) \/ ReaperStep(w) \/ ReapFault(w) PROVE IInv'
<1>1. DispatchInv' /\ Bounded
  BY OthersStayAside, AsideKeepsDispatch, InvBounded DEF IInv
<1>2. CASE ConsumerStep(w)
  BY <1>1, <1>2, ReadKeepsConsume, CheckKeyKeepsConsume, HandleKeepsConsume, AckKeepsConsume,
     SkipKeepsConsume DEF ConsumerStep, IInv
<1>3. CASE ReaperStep(w) \/ ReapFault(w)
  BY <1>1, <1>3, ReaperStepKeepsConsume DEF IInv
<1> QED
  BY <1>2, <1>3

LEMMA PublishKeepsInv == ASSUME IInv, NEW e \in Events, Publish(e) PROVE IInv'
<1>1. UNCHANGED <<log, lastRead, pending, keys, attempts, deadLetter, handled, consumer, reaper>>
  BY DEF Publish, redisVars
<1>2. Bounded /\ Extends
  BY <1>1, InvBounded DEF IInv, Bounded, Extends
<1> QED
  BY <1>1, <1>2, PublishKeepsDispatch, ExtendKeepsConsume DEF IInv

LEMMA StutterKeepsInv == ASSUME IInv, UNCHANGED vars PROVE IInv'
<1>1. Bounded /\ Extends /\ Aside
  <2>1. Bounded /\ Extends
    BY InvBounded DEF IInv, Bounded, Extends, vars
  <2>2. faults \in faults..MaxFaults
    BY LimitsAssumption DEF IInv, DispatchInv, DispatchTypes
  <2> QED
    BY <2>1, <2>2 DEF Aside, vars
<1>2. UNCHANGED <<lastRead, pending, keys, attempts, deadLetter, handled, consumer, reaper>>
  BY DEF vars
<1> QED
  BY <1>1, <1>2, AsideKeepsDispatch, ExtendKeepsConsume DEF IInv

LEMMA NextKeepsInv == IInv /\ [Next]_vars => IInv'
<1> SUFFICES ASSUME IInv, [Next]_vars PROVE IInv'
  OBVIOUS
<1>1. ASSUME NEW e \in Events, Publish(e) PROVE IInv'
  BY <1>1, PublishKeepsInv
<1>2. ASSUME NEW w \in Workers, DispatcherStep(w) PROVE IInv'
  BY <1>2, DispatcherKeepsInv
<1>3. ASSUME NEW w \in Workers, ConsumerStep(w) \/ ReaperStep(w) \/ ReapFault(w) PROVE IInv'
  BY <1>3, OthersKeepInv
<1>4. ASSUME NEW w \in Workers, Crash(w) PROVE IInv'
  BY <1>4, InvBounded, CrashKeepsDispatch, CrashKeepsConsume DEF IInv
<1>5. CASE UNCHANGED vars
  BY <1>5, StutterKeepsInv
<1> QED
  BY <1>1, <1>2, <1>3, <1>4, <1>5 DEF Next

LEMMA SpecInv == Spec => []IInv
<1>1. Init => IInv
  BY InitInv
<1>2. IInv /\ [Next]_vars => IInv'
  BY NextKeepsInv
<1> QED
  BY <1>1, <1>2, PTL DEF Spec

-----------------------------------------------------------------------------
(* What follows                                                            *)

\* Every variable keeps its type; in particular the stream is never longer than one
\* entry for each event, one more of each for every crash and error, and the entry
\* of each call that raised: the domain on which attempts and handled count.
THEOREM PipelineTyped == Spec => []TypeOK
<1>1. IInv => TypeOK
  <2> SUFFICES ASSUME IInv PROVE TypeOK
    OBVIOUS
  <2>1. Len(log) <= MaxEntries
    BY LogBounded DEF IInv
  <2> QED
    BY <2>1 DEF IInv, DispatchInv, DispatchTypes, ConsumeInv, ConsumeTypes, ConsumerRecords,
                ReaperRecords, TypeOK
<1> QED
  BY <1>1, SpecInv, PTL

\* `>' gives every entry to one consumer: whatever crashes, raises or is claimed by
\* a reaper meanwhile, no entry is given to a handler twice.
THEOREM EntriesHandledOnce == Spec => []EntryHandledOnce
<1>1. IInv => EntryHandledOnce
  BY DEF IInv, ConsumeInv, Counted, EntryHandledOnce
<1> QED
  BY <1>1, SpecInv, PTL

\* FOR UPDATE SKIP LOCKED: with any number of dispatchers, an event is in the stream
\* twice only after a crash or an error.
THEOREM EventsSentOnce == Spec => []SentOnce
<1>1. IInv => SentOnce
  <2> SUFFICES ASSUME IInv, faults = 0, dead = {}, NEW e \in Events PROVE Cardinality(Copies(e)) <= 1
    BY DEF SentOnce
  <2>1. \A m, n \in Copies(e) : m = n
    BY DEF IInv, DispatchInv, Sound, Copies
  <2>2. CASE Copies(e) = {}
    BY <2>2, FS_EmptySet
  <2>3. ASSUME NEW m \in Copies(e) PROVE Cardinality(Copies(e)) <= 1
    <3>1. Copies(e) = {m}
      BY <2>1
    <3> QED
      BY <3>1, FS_Singleton
  <2> QED
    BY <2>2, <2>3
<1> QED
  BY <1>1, SpecInv, PTL

\* No event whose outbox row was marked is dropped in silence: with any number of
\* processes, crashes and errors an entry of it is unread, pending or dead-lettered,
\* or it was handled.
THEOREM NothingLost == Spec => []NothingDropped
<1>1. IInv => NothingDropped
  <2> SUFFICES ASSUME IInv, NEW e \in Events, outbox[e] = "processed"
               PROVE  \/ \E m \in Copies(e) : m > lastRead \/ m \in pending \/ m \in deadLetter
                      \/ HandledCopies(e) # {}
    BY DEF NothingDropped
  <2>1. PICK m \in 1..Len(log) : log[m] = e
    BY DEF IInv, DispatchInv, Written, Claimed
  <2>2. lastRead \in Nat /\ m \in Copies(e) /\ 1..lastRead \subseteq 1..Len(log)
    BY <2>1, InvBounded, BatchEntries DEF Copies, IInv, ConsumeInv
  <2>3. CASE m > lastRead
    BY <2>2, <2>3
  <2>4. CASE ~(m > lastRead)
    <3>1. m \in 1..lastRead
      BY <2>2, <2>4 DEF Copies
    <3>2. Rescued(m) \/ Safe(e)
      BY <2>1, <3>1 DEF IInv, ConsumeInv, SkipSafe
    <3>3. PICK n \in 1..lastRead : log[n] = e /\ Rescued(n)
      BY <2>1, <3>1, <3>2 DEF Safe
    <3>4. n \in Copies(e)
      BY <2>2, <3>3 DEF Copies
    <3> QED
      BY <3>3, <3>4 DEF Rescued, HandledCopies
  <2> QED
    BY <2>3, <2>4
<1> QED
  BY <1>1, SpecInv, PTL

-----------------------------------------------------------------------------
(* How often an event is handled                                           *)

\* The entries of an event that a handler has got or is about to get.
Given(e) ==
    {m \in Copies(e) : handled[m] > 0 \/ \E w \in Workers : consumer[w].pc = "handle" /\ Entry(w) = m}

\* The key allows one of them; only an error removes the key, to allow one more.
GivenPaid == \A e \in Events : Cardinality(Given(e)) <= faults + (IF e \in keys THEN 1 ELSE 0)

LEMMA GivenFinite ==
    ASSUME Bounded, NEW e
    PROVE  IsFiniteSet(Given(e)) /\ Cardinality(Given(e)) \in Nat
<1>1. IsFiniteSet(1..Len(log))
  BY FS_Interval DEF Bounded
<1>2. Given(e) \subseteq 1..Len(log)
  BY DEF Given, Copies
<1> QED
  BY <1>1, <1>2, FS_Subset, FS_CardinalityType

\* What no entry beyond the group's last one can be.
LEMMA HandledEntries ==
    ASSUME Bounded, ConsumeInv
    PROVE  /\ \A m \in Entries : handled[m] > 0 => m <= lastRead
           /\ \A w \in Workers : consumer[w].pc = "handle" => Entry(w) \in 1..lastRead
<1>1. \A m \in Entries : handled[m] > 0 => m <= lastRead
  <2>1. \A m \in Entries : m \in Nat /\ handled[m] \in Nat
    BY DEF Bounded, Entries, ConsumeInv, ConsumeTypes
  <2> QED
    BY <2>1, BatchEntries DEF ConsumeInv, Counted
<1> QED
  BY <1>1, FirstEntry

\* No step gives an entry to a handler but the one that has just written the event's key.
LEMMA GivenShrinks ==
    ASSUME Bounded, Bounded', ConsumeInv, Extends, handled' = handled,
           \A w \in Workers : consumer'[w].pc = "handle" => consumer'[w] = consumer[w], NEW e
    PROVE  Given(e)' \subseteq Given(e)
<1> SUFFICES ASSUME NEW m \in Given(e)' PROVE m \in Given(e)
  OBVIOUS
<1>1. m \in 1..Len(log') /\ log'[m] = e
  BY DEF Given, Copies
<1>2. handled[m] > 0 \/ \E w \in Workers : consumer[w].pc = "handle" /\ Entry(w) = m
  BY DEF Given, Entry
<1>3. m \in Entries
  BY <1>1 DEF Entries, Bounded
<1>4. m \in 1..lastRead
  BY <1>1, <1>2, <1>3, HandledEntries, BatchEntries DEF ConsumeInv
<1>5. m \in 1..Len(log) /\ log'[m] = log[m]
  BY <1>4, BatchEntries DEF ConsumeInv, Extends
<1> QED
  BY <1>1, <1>2, <1>5 DEF Given, Copies

LEMMA PaidStep ==
    ASSUME Bounded, GivenPaid, NEW e \in Events, Given(e)' \subseteq Given(e), faults \in Nat, faults' \in Nat,
           faults' >= faults, e \in keys => e \in keys' \/ faults' >= faults + 1
    PROVE  Cardinality(Given(e)') <= faults' + (IF e \in keys' THEN 1 ELSE 0)
<1>1. Cardinality(Given(e)') <= Cardinality(Given(e)) /\ Cardinality(Given(e)') \in Nat
  BY GivenFinite, FS_Subset, FS_CardinalityType
<1>2. Cardinality(Given(e)) \in Nat
  BY GivenFinite
<1>3. Cardinality(Given(e)) <= faults + (IF e \in keys THEN 1 ELSE 0)
  BY DEF GivenPaid
<1> QED
  BY <1>1, <1>2, <1>3

\* A key written for the first time: one more entry is given.
LEMMA NewKeyStep ==
    ASSUME Bounded, Bounded', ConsumeInv, GivenPaid, faults \in Nat, NEW w \in Workers, CheckKey(w),
           EventOf(w) \notin keys, keys' = keys \cup {EventOf(w)}, Goto(w, "handle"), UNCHANGED faults
    PROVE  GivenPaid'
<1>1. UNCHANGED <<log, handled>> /\ At(w, "key")
  BY DEF CheckKey
<1>2. /\ consumer'[w].pc = "handle" /\ consumer'[w].batch = consumer[w].batch
      /\ \A v \in Workers \ {w} : consumer'[v] = consumer[v]
  BY DEF Goto, ConsumeInv, ConsumeTypes, ConsumerRecords
<1>3. PICK m \in 1..lastRead : m = Entry(w) /\ log[m] = EventOf(w)
  BY <1>1, FirstEntry DEF At, EventOf
<1>4. \A v \in Workers : Entry(v)' = Entry(v)
  BY <1>2 DEF Entry
<1>5. ASSUME NEW e \in Events PROVE Given(e)' \subseteq Given(e) \cup (IF e = EventOf(w) THEN {m} ELSE {})
  <2>1. Copies(e)' = Copies(e)
    BY <1>1 DEF Copies
  <2> SUFFICES ASSUME NEW n \in Copies(e), n # m,
                      handled[n] > 0 \/ \E v \in Workers : consumer'[v].pc = "handle" /\ Entry(v) = n
               PROVE  n \in Given(e)
    <3>1. m \in Copies(e) => e = EventOf(w)
      BY <1>3 DEF Copies
    <3> QED
      BY <1>1, <1>4, <2>1, <3>1 DEF Given
  <2> QED
    BY <1>2, <1>3 DEF Given
<1>6. ASSUME NEW e \in Events PROVE Cardinality(Given(e)') <= faults' + (IF e \in keys' THEN 1 ELSE 0)
  <2>1. CASE e # EventOf(w)
    BY <1>5, <2>1, PaidStep
  <2>2. CASE e = EventOf(w)
    <3>1. Cardinality(Given(e)) <= faults /\ Cardinality(Given(e)) \in Nat /\ IsFiniteSet(Given(e))
      BY <2>2, GivenFinite DEF GivenPaid
    <3>2. IsFiniteSet(Given(e) \cup {m}) /\ Cardinality(Given(e) \cup {m}) <= Cardinality(Given(e)) + 1
          /\ Cardinality(Given(e) \cup {m}) \in Nat
      <4>1. /\ IsFiniteSet(Given(e) \cup {m})
            /\ Cardinality(Given(e) \cup {m}) \in {Cardinality(Given(e)), Cardinality(Given(e)) + 1}
        BY <3>1, FS_AddElement
      <4> QED
        BY <3>1, <4>1
    <3>3. Cardinality(Given(e)') <= Cardinality(Given(e) \cup {m}) /\ Cardinality(Given(e)') \in Nat
      BY <1>5, <2>2, <3>2, FS_Subset, FS_CardinalityType
    <3>4. e \in keys'
      BY <2>2
    <3> QED
      BY <3>1, <3>2, <3>3, <3>4
  <2> QED
    BY <2>1, <2>2
<1> QED
  BY <1>6 DEF GivenPaid

\* What the steps of a worker do to the keys and to those about to call a handler.
KeysOrPays == \A e \in Events : e \in keys => e \in keys' \/ faults' >= faults + 1
NoneStarts == \A v \in Workers : consumer'[v].pc = "handle" => consumer'[v] = consumer[v]

LEMMA ConsumerGives ==
    ASSUME IInv, NEW w \in Workers, ConsumerStep(w), ~Handle(w),
           ~(CheckKey(w) /\ EventOf(w) \notin keys /\ keys' = keys \cup {EventOf(w)} /\ Goto(w, "handle"))
    PROVE  handled' = handled /\ NoneStarts /\ KeysOrPays
<1>1. Bounded /\ ConsumeInv /\ faults \in Nat
  BY InvBounded, LimitsAssumption DEF IInv, DispatchInv, DispatchTypes
<1>2. handled' = handled
  BY DEF ConsumerStep, Read, CheckKey, Ack, Skip
<1>3. ASSUME NextEntry(w) \/ Abandon(w), consumer[w].pc # "idle" PROVE NoneStarts
  <2>1. Drops(w)
    BY <1>1, <1>3, NextEntryDrops, AbandonDrops
  <2> QED
    BY <2>1 DEF Drops, NoneStarts
<1>4. CASE Read(w)
  BY <1>1, <1>2, <1>4 DEF Read, NoneStarts, KeysOrPays, ConsumeInv, ConsumeTypes
<1>5. CASE CheckKey(w)
  <2>1. CASE Goto(w, "skip") /\ UNCHANGED keys
    BY <1>1, <1>2, <2>1 DEF Goto, NoneStarts, KeysOrPays, ConsumeInv, ConsumeTypes, ConsumerRecords
  <2>2. CASE Abandon(w) /\ keys' \in {keys, keys \cup {EventOf(w)}}
    BY <1>2, <1>3, <1>5, <2>2 DEF CheckKey, At, KeysOrPays
  <2> QED
    BY <1>5, <2>1, <2>2 DEF CheckKey
<1>6. CASE Ack(w)
  <2>1. NoneStarts
    BY <1>3, <1>6 DEF Ack, At
  <2>2. KeysOrPays
    BY <1>1, <1>6 DEF Ack, Fault, KeysOrPays
  <2> QED
    BY <1>2, <2>1, <2>2
<1>7. CASE Skip(w)
  BY <1>2, <1>3, <1>7 DEF Skip, At, KeysOrPays
<1> QED
  BY <1>4, <1>5, <1>6, <1>7 DEF ConsumerStep

LEMMA HandleGives == ASSUME Bounded, ConsumeInv, NEW w \in Workers, Handle(w), NEW e PROVE Given(e)' \subseteq Given(e)
<1>1. At(w, "handle") /\ handled' = [handled EXCEPT ![Entry(w)] = @ + 1] /\ Goto(w, "ack") /\ log' = log
  BY DEF Handle, redisVars
<1>2. \A v \in Workers : consumer'[v].pc = "handle" => consumer'[v] = consumer[v]
  BY <1>1 DEF Goto, ConsumeInv, ConsumeTypes, ConsumerRecords
<1>3. \A m \in Entries : m # Entry(w) => handled'[m] = handled[m]
  BY <1>1 DEF ConsumeInv, ConsumeTypes
<1>4. Copies(e)' = Copies(e) /\ Copies(e) \subseteq Entries
  BY <1>1, BatchEntries DEF Copies, ConsumeInv
<1> QED
  BY <1>1, <1>2, <1>3, <1>4 DEF Given, Entry, At

LEMMA GivenStep == IInv /\ GivenPaid /\ [Next]_vars => GivenPaid'
<1> SUFFICES ASSUME IInv, GivenPaid, [Next]_vars PROVE GivenPaid'
  OBVIOUS
<1>1. Bounded /\ Bounded' /\ ConsumeInv /\ faults \in Nat
  <2>1. (DispatchInv => Bounded)'
    BY InvBounded, PTL
  <2> QED
    BY <2>1, NextKeepsInv, InvBounded, LimitsAssumption DEF IInv, DispatchInv, DispatchTypes
<1>2. faults' \in Nat
  BY NextKeepsInv, LimitsAssumption DEF IInv, DispatchInv, DispatchTypes
<1>3. ASSUME \A e \in Events : Given(e)' \subseteq Given(e), KeysOrPays, faults' >= faults PROVE GivenPaid'
  BY <1>1, <1>2, <1>3, PaidStep DEF GivenPaid, KeysOrPays
<1>4. ASSUME handled' = handled, NoneStarts, KeysOrPays, Extends, faults' >= faults PROVE GivenPaid'
  BY <1>1, <1>3, <1>4, GivenShrinks DEF NoneStarts
\* Neither the entries given nor the keys are the business of dispatchers and reapers.
<1>5. ASSUME UNCHANGED <<handled, consumer, keys>>, Extends, faults' >= faults PROVE GivenPaid'
  BY <1>4, <1>5 DEF NoneStarts, KeysOrPays
<1>6. log' = log => Extends
  BY <1>1 DEF Extends, Bounded
<1>7. CASE UNCHANGED vars \/ \E e \in Events : Publish(e)
  BY <1>1, <1>5, <1>6, <1>7 DEF vars, Publish, redisVars
<1>8. ASSUME NEW w \in Workers, DispatcherStep(w) PROVE GivenPaid'
  <2>1. UNCHANGED <<handled, consumer, keys>>
    BY <1>8 DEF DispatcherStep, Fetch, CommitBatch, Xadd, redisVars
  <2>2. faults' = faults \/ faults' = faults + 1
    BY <1>8 DEF DispatcherStep, Fetch, CommitBatch, Xadd, Fault
  <2>3. Extends
    <3>1. log' = log \/ \E e \in Events : log' = Append(log, e)
      BY <1>8 DEF DispatcherStep, Fetch, CommitBatch, Xadd, redisVars
    <3> QED
      BY <1>1, <1>6, <3>1, AppendExtends DEF Bounded
  <2> QED
    BY <1>1, <1>5, <2>1, <2>2, <2>3
<1>9. ASSUME NEW w \in Workers, ReaperStep(w) \/ ReapFault(w) \/ Crash(w) PROVE GivenPaid'
  <2>1. UNCHANGED <<handled, keys, log>>
    BY <1>9 DEF ReaperStep, Xclaim, CountAttempt, DeadLetter, AckDead, ReapFault, Crash, redisVars
  <2>2. faults' = faults \/ faults' = faults + 1
    BY <1>9 DEF ReaperStep, Xclaim, CountAttempt, DeadLetter, AckDead, ReapFault, Crash, Fault
  <2>3. NoneStarts
    BY <1>1, <1>9 DEF ReaperStep, Xclaim, CountAttempt, DeadLetter, AckDead, ReapFault, Crash, NoneStarts,
                      IdleConsumer, ConsumeInv, ConsumeTypes
  <2> QED
    BY <1>1, <1>4, <1>6, <2>1, <2>2, <2>3 DEF KeysOrPays
<1>10. ASSUME NEW w \in Workers, ConsumerStep(w) PROVE GivenPaid'
  <2>1. Aside
    BY <1>10, OthersStayAside DEF IInv
  <2>2. Extends /\ faults' >= faults
    BY <1>1, <1>2, <1>6, <2>1 DEF Aside
  <2>3. CASE Handle(w)
    BY <1>1, <1>3, <2>2, <2>3, HandleGives DEF Handle, redisVars, KeysOrPays
  <2>4. CASE CheckKey(w) /\ EventOf(w) \notin keys /\ keys' = keys \cup {EventOf(w)} /\ Goto(w, "handle")
    <3>1. CASE UNCHANGED faults
      BY <1>1, <2>4, <3>1, NewKeyStep
    <3>2. CASE Abandon(w)
      <4>1. consumer'[w].pc = "idle" /\ consumer'[w].pc = "handle"
        BY <1>1, <2>4, <3>2 DEF Goto, Abandon, IdleConsumer, ConsumeInv, ConsumeTypes, ConsumerRecords
      <4> QED
        BY <4>1
    <3> QED
      BY <2>4, <3>1, <3>2 DEF CheckKey
  <2>5. CASE /\ ~Handle(w)
             /\ ~(CheckKey(w) /\ EventOf(w) \notin keys /\ keys' = keys \cup {EventOf(w)} /\ Goto(w, "handle"))
    BY <1>4, <1>10, <2>2, <2>5, ConsumerGives
  <2> QED
    BY <2>3, <2>4, <2>5
<1> QED
  BY <1>7, <1>8, <1>9, <1>10 DEF Next

LEMMA GivenInvariant == Spec => []GivenPaid
<1>1. Init => GivenPaid
  <2> SUFFICES ASSUME Init PROVE GivenPaid
    OBVIOUS
  <2>1. \A e \in Events : Given(e) = {}
    BY EmptySeq DEF Init, Given, Copies
  <2>2. Cardinality({}) = 0 /\ faults = 0
    BY FS_EmptySet DEF Init
  <2> QED
    BY <2>1, <2>2 DEF GivenPaid
<1>2. IInv /\ GivenPaid /\ [Next]_vars => GivenPaid'
  BY GivenStep
<1> QED
  BY <1>1, <1>2, SpecInv, PTL DEF Spec

\* A handler gets each event once, and once more at most for each call that raised: the
\* idempotency keys hold against any number of copies that crashes and dispatchers make.
THEOREM EventsHandledOnce == Spec => []HandledOnce
<1>1. IInv /\ GivenPaid => HandledOnce
  <2> SUFFICES ASSUME IInv, GivenPaid, NEW e \in Events PROVE Cardinality(HandledCopies(e)) <= 1 + faults
    BY DEF HandledOnce
  <2>1. Bounded /\ faults \in Nat
    BY InvBounded, LimitsAssumption DEF IInv, DispatchInv, DispatchTypes
  <2>2. HandledCopies(e) \subseteq Given(e)
    BY DEF HandledCopies, Given
  <2>3. Cardinality(HandledCopies(e)) <= Cardinality(Given(e)) /\ Cardinality(HandledCopies(e)) \in Nat
        /\ Cardinality(Given(e)) \in Nat
    BY <2>1, <2>2, GivenFinite, FS_Subset, FS_CardinalityType
  <2>4. Cardinality(Given(e)) <= faults + (IF e \in keys THEN 1 ELSE 0)
    BY DEF GivenPaid
  <2> QED
    BY <2>1, <2>3, <2>4
<1> QED
  BY <1>1, SpecInv, GivenInvariant, PTL

-----------------------------------------------------------------------------
(* The pipeline implements EventDelivery                                   *)

\* Where an event waits, part by part.
InHand(e) == \E w \in Workers : consumer[w].pc = "handle" /\ EventOf(w) = e
ToSend(e) == outbox[e] = "pending" /\ \A w \in Workers : e \notin dispatcher[w].sent
Unread(e) == \E m \in Copies(e) : m > lastRead
InBatch(e) ==
    \E w \in Workers : consumer[w].pc # "idle" /\
        \E i \in 1..Len(consumer[w].batch) : log[consumer[w].batch[i]] = e

\* Only committed events are in the stream; an event is skipped while its key is
\* set, or after a handler has got it.
LogCommitted == \A m \in 1..Len(log) : outbox[log[m]] # "absent"
SkipJustified ==
    \A w \in Workers : consumer[w].pc = "skip" =>
        EventOf(w) \in keys \/ HandledCopies(EventOf(w)) # {}

DeliveryInv == LogCommitted /\ SkipJustified

LEMMA DeliverableParts ==
    ASSUME NEW e
    PROVE  /\ Deliverable(e) <=> (InHand(e) \/ (e \notin keys /\ (ToSend(e) \/ Unread(e) \/ InBatch(e))))
           /\ Deliverable(e)' <=>
                (InHand(e)' \/ (e \notin keys' /\ (ToSend(e)' \/ Unread(e)' \/ InBatch(e)')))
<1>1. Deliverable(e) <=> (InHand(e) \/ (e \notin keys /\ (ToSend(e) \/ Unread(e) \/ InBatch(e))))
  BY DEF Deliverable, InHand, ToSend, Unread, InBatch
<1>2. (Deliverable(e) <=> (InHand(e) \/ (e \notin keys /\ (ToSend(e) \/ Unread(e) \/ InBatch(e)))))'
  BY DEF Deliverable, InHand, ToSend, Unread, InBatch
<1> QED
  BY <1>1, <1>2

LEMMA SettledFate ==
    ASSUME NEW e, outbox'[e] = "absent" <=> outbox[e] = "absent",
           HandledCopies(e)' = {} <=> HandledCopies(e) = {},
           HandledCopies(e) = {} => (Deliverable(e)' <=> Deliverable(e))
    PROVE  Fate(e)' = Fate(e)
BY DEF Fate

\* What no step that gives nothing to a handler changes.
LEMMA HandledStays ==
    ASSUME Bounded, Bounded', ConsumeInv, Extends, handled' = handled, NEW e
    PROVE  HandledCopies(e)' = HandledCopies(e)
<1>1. ASSUME NEW m \in 1..Len(log'), handled[m] > 0 PROVE m \in 1..Len(log)
  <2>1. m \in Entries
    BY DEF Entries, Bounded
  <2> QED
    BY <1>1, <2>1, HandledEntries, BatchEntries DEF ConsumeInv
<1>2. \A m \in 1..Len(log) : m \in 1..Len(log') /\ log'[m] = log[m]
  BY DEF Extends, Bounded
<1> QED
  BY <1>1, <1>2 DEF HandledCopies, Copies

LEMMA ReadingStays ==
    ASSUME Bounded, ConsumeInv, Extends, consumer' = consumer, NEW e
    PROVE  (InHand(e)' <=> InHand(e)) /\ (InBatch(e)' <=> InBatch(e))
<1>1. \A m \in 1..lastRead : log'[m] = log[m]
  BY BatchEntries DEF Extends, ConsumeInv
<1>2. \A w \in Workers : consumer[w].pc = "handle" => EventOf(w)' = EventOf(w)
  <2> SUFFICES ASSUME NEW w \in Workers, consumer[w].pc = "handle" PROVE EventOf(w)' = EventOf(w)
    OBVIOUS
  <2>1. PICK m \in 1..lastRead : m = Entry(w)
    BY FirstEntry
  <2>2. EventOf(w)' = log'[m] /\ EventOf(w) = log[m]
    BY <2>1 DEF EventOf, Entry
  <2> QED
    BY <1>1, <2>2
<1>3. \A w \in Workers : \A i \in 1..Len(consumer[w].batch) :
        log'[consumer[w].batch[i]] = log[consumer[w].batch[i]]
  BY <1>1, BatchEntries DEF ConsumeInv
<1> QED
  BY <1>2, <1>3 DEF InHand, InBatch

\* An event that was not committed is nowhere.
LEMMA AbsentNowhere ==
    ASSUME IInv, DeliveryInv, NEW e \in Events, outbox[e] = "absent"
    PROVE  e \notin keys /\ Copies(e) = {} /\ \A w \in Workers : e \notin dispatcher[w].sent
<1>1. Copies(e) = {}
  BY DEF DeliveryInv, LogCommitted, Copies
<1>2. e \notin keys
  <2>1. \A m \in 1..lastRead : m \in 1..Len(log)
    BY InvBounded, BatchEntries DEF IInv, ConsumeInv
  <2> QED
    BY <1>1, <2>1 DEF IInv, ConsumeInv, SkipSafe, Safe, Copies
<1>3. \A w \in Workers : e \notin dispatcher[w].sent
  BY DEF IInv, DispatchInv, Locks
<1> QED
  BY <1>1, <1>2, <1>3

\* How the steps map: a step that changes no fate is a stuttering step.
LEMMA SameMaps ==
    ASSUME \A e \in Events : Fate(e)' = Fate(e), UNCHANGED <<faults, dead>> PROVE UNCHANGED Delivery!vars
BY DEF Delivery!vars

LEMMA CommitMaps ==
    ASSUME IInv, DeliveryInv, NEW e \in Events, Publish(e) PROVE Delivery!Commit(e)
<1>1. /\ outbox[e] = "absent" /\ outbox'[e] = "pending" /\ \A d \in Events \ {e} : outbox'[d] = outbox[d]
      /\ UNCHANGED <<log, lastRead, keys, handled, dispatcher, consumer, faults, dead>>
  BY DEF Publish, redisVars, IInv, DispatchInv, DispatchTypes
<1>2. Fate(e) = "none"
  BY <1>1 DEF Fate
<1>3. Fate(e)' = "waiting"
  <2>1. e \notin keys' /\ ToSend(e)'
    BY <1>1, AbsentNowhere DEF ToSend
  <2>2. HandledCopies(e)' = {}
    BY <1>1, AbsentNowhere DEF HandledCopies, Copies
  <2> QED
    BY <1>1, <2>1, <2>2, DeliverableParts DEF Fate
<1>4. ASSUME NEW d \in Events \ {e} PROVE Fate(d)' = Fate(d)
  <2>1. HandledCopies(d)' = HandledCopies(d) /\ (Deliverable(d)' <=> Deliverable(d))
    BY <1>1, <1>4 DEF HandledCopies, Copies, Deliverable, EventOf, Entry
  <2> QED
    BY <1>1, <2>1, SettledFate
<1>5. [d \in Events |-> Fate(d)'] = [[d \in Events |-> Fate(d)] EXCEPT ![e] = "waiting"]
  BY <1>3, <1>4
<1>6. UNCHANGED (faults + Cardinality(dead))
  BY <1>1
<1> QED
  BY <1>2, <1>5, <1>6 DEF Delivery!Commit

LEMMA GoWrongMaps ==
    ASSUME Bounded, Bounded', ConsumeInv, Extends, UNCHANGED <<handled, outbox>>,
           (faults + Cardinality(dead))' \in {faults + Cardinality(dead) + 1, faults + Cardinality(dead) + 2}
    PROVE  Delivery!GoWrong
<1> DEFINE lost == {e \in Events : Fate(e)' = "lost"}
<1>1. ASSUME NEW e \in Events
      PROVE  /\ Fate(e) \in {"none", "delivered"} => Fate(e)' = Fate(e)
             /\ Fate(e) \in {"waiting", "lost"} => Fate(e)' \in {"waiting", "lost"}
             /\ Fate(e) \in {"none", "delivered", "waiting", "lost"}
  <2>1. HandledCopies(e)' = HandledCopies(e)
    BY HandledStays
  <2> QED
    BY <2>1 DEF Fate
<1>2. lost \in SUBSET {e \in Events : [d \in Events |-> Fate(d)][e] \in {"waiting", "lost"}}
  BY <1>1
<1>3. [e \in Events |-> Fate(e)'] =
        [e \in Events |-> IF e \in lost THEN "lost"
                          ELSE IF [d \in Events |-> Fate(d)][e] = "lost" THEN "waiting"
                          ELSE [d \in Events |-> Fate(d)][e]]
  BY <1>1
<1> QED
  BY <1>2, <1>3 DEF Delivery!GoWrong

-----------------------------------------------------------------------------
(* The steps in which nothing goes wrong                                   *)

\* Dispatchers and reapers: consumers and what was handled stay as they are, and what
\* is no longer to be sent, or not yet read, is the other.
LEMMA ElsewhereFate ==
    ASSUME Bounded, Bounded', ConsumeInv, Extends, UNCHANGED <<handled, keys, consumer>>, NEW e \in Events,
           outbox'[e] = "absent" <=> outbox[e] = "absent",
           (ToSend(e) \/ Unread(e))' <=> (ToSend(e) \/ Unread(e))
    PROVE  Fate(e)' = Fate(e)
BY HandledStays, ReadingStays, DeliverableParts, SettledFate

LEMMA FetchFate ==
    ASSUME IInv, NEW w \in Workers, Fetch(w), NEW e \in Events PROVE Fate(e)' = Fate(e)
<1>1. PICK batch : dispatcher' = [dispatcher EXCEPT ![w] = [locked |-> batch, todo |-> batch, sent |-> {}]]
  BY DEF Fetch
<1>2. /\ dispatcher[w].locked = {}
      /\ UNCHANGED <<outbox, log, lastRead, keys, handled, consumer>>
  BY DEF Fetch, redisVars
<1>3. \A v \in Workers : dispatcher'[v].sent = dispatcher[v].sent
  <2>1. dispatcher[w].sent = {}
    BY <1>2 DEF IInv, DispatchInv, Locks
  <2>2. DOMAIN dispatcher = Workers
    BY DEF IInv, DispatchInv, DispatchTypes
  <2> QED
    BY <1>1, <2>1, <2>2
<1>4. (ToSend(e)' <=> ToSend(e)) /\ (Unread(e)' <=> Unread(e))
  BY <1>2, <1>3 DEF ToSend, Unread, Copies
<1>5. Bounded /\ Bounded' /\ ConsumeInv /\ Extends
  BY <1>2, InvBounded DEF IInv, Bounded, Extends
<1> QED
  BY <1>2, <1>4, <1>5, ElsewhereFate

\* XADD takes an event from the outbox to the unread end of the stream.
LEMMA XaddFate ==
    ASSUME IInv, IInv', NEW w \in Workers, NEW d \in Events, Xadd(w, d), UNCHANGED faults, NEW e \in Events
    PROVE  Fate(e)' = Fate(e)
<1>1. /\ log' = Append(log, d) /\ d \in dispatcher[w].todo
      /\ dispatcher' = [dispatcher EXCEPT ![w].todo = @ \ {d}, ![w].sent = @ \cup {d}]
      /\ UNCHANGED <<outbox, lastRead, keys, handled, consumer>>
  <2>1. ~Fault
    BY LimitsAssumption DEF Fault, IInv, DispatchInv, DispatchTypes
  <2> QED
    BY <2>1 DEF Xadd
<1>2. Bounded /\ Bounded' /\ ConsumeInv
  <2>1. (DispatchInv => Bounded)'
    BY InvBounded, PTL
  <2> QED
    BY <2>1, InvBounded DEF IInv
<1>3. Extends
  BY <1>1, <1>2, AppendExtends DEF Bounded
<1>4. /\ Len(log') = Len(log) + 1 /\ log'[Len(log) + 1] = d /\ Len(log) \in Nat /\ lastRead \in Nat
      /\ lastRead <= Len(log) /\ \A m \in 1..Len(log) : log'[m] = log[m]
  BY <1>1, <1>2, AppendProperties, BatchEntries DEF Bounded, ConsumeInv
<1>5. CASE e = d
  <2>1. ToSend(d)
    BY <1>1 DEF ToSend, IInv, DispatchInv, Locks
  <2>2. Len(log) + 1 \in Copies(d)' /\ Len(log) + 1 > lastRead'
    BY <1>1, <1>4 DEF Copies
  <2>3. Unread(d)'
    BY <2>2 DEF Unread
  <2> QED
    BY <1>1, <1>2, <1>3, <1>5, <2>1, <2>3, ElsewhereFate
<1>6. CASE e # d
  <2>1. ToSend(e)' <=> ToSend(e)
    <3>1. \A v \in Workers : e \in dispatcher'[v].sent <=> e \in dispatcher[v].sent
      BY <1>1, <1>6 DEF IInv, DispatchInv, DispatchTypes
    <3> QED
      BY <1>1, <3>1 DEF ToSend
  <2>2. Copies(e)' = Copies(e)
    BY <1>4, <1>6 DEF Copies
  <2>3. Unread(e)' <=> Unread(e)
    BY <1>1, <2>2 DEF Unread
  <2> QED
    BY <1>1, <1>2, <1>3, <2>1, <2>3, ElsewhereFate
<1> QED
  BY <1>5, <1>6

\* What is marked as processed had been sent.
LEMMA CommitFate ==
    ASSUME IInv, NEW w \in Workers, CommitBatch(w), UNCHANGED faults, NEW e \in Events PROVE Fate(e)' = Fate(e)
<1>1. /\ outbox' = [d \in Events |-> IF d \in dispatcher[w].sent THEN "processed" ELSE outbox[d]]
      /\ dispatcher' = [dispatcher EXCEPT ![w] = IdleDispatcher]
      /\ UNCHANGED <<log, lastRead, keys, handled, consumer>>
  <2>1. ~Fault
    BY LimitsAssumption DEF Fault, IInv, DispatchInv, DispatchTypes
  <2> QED
    BY <2>1 DEF CommitBatch, redisVars
<1>2. dispatcher'[w].sent = {} /\ \A v \in Workers \ {w} : dispatcher'[v] = dispatcher[v]
  BY <1>1 DEF IdleDispatcher, IInv, DispatchInv, DispatchTypes
<1>3. e \in dispatcher[w].sent => outbox[e] = "pending" /\ outbox'[e] = "processed"
  BY <1>1 DEF IInv, DispatchInv, Locks
<1>4. e \notin dispatcher[w].sent => outbox'[e] = outbox[e]
  BY <1>1
<1>5. ToSend(e)' <=> ToSend(e)
  BY <1>2, <1>3, <1>4 DEF ToSend
<1>6. Unread(e)' <=> Unread(e)
  BY <1>1 DEF Unread, Copies
<1>7. Bounded /\ Bounded' /\ ConsumeInv /\ Extends
  BY <1>1, InvBounded DEF IInv, Bounded, Extends
<1> QED
  BY <1>1, <1>3, <1>4, <1>5, <1>6, <1>7, ElsewhereFate

LEMMA ReapFate ==
    ASSUME IInv, NEW w \in Workers, ReaperStep(w), NEW e \in Events PROVE Fate(e)' = Fate(e)
<1>1. UNCHANGED <<outbox, log, lastRead, keys, handled, dispatcher, consumer>>
  BY DEF ReaperStep, Xclaim, CountAttempt, DeadLetter, AckDead, redisVars
<1>2. Bounded /\ Bounded' /\ ConsumeInv /\ Extends
  BY <1>1, InvBounded DEF IInv, Bounded, Extends
<1>3. (ToSend(e)' <=> ToSend(e)) /\ (Unread(e)' <=> Unread(e))
  BY <1>1 DEF ToSend, Unread, Copies
<1> QED
  BY <1>1, <1>2, <1>3, ElsewhereFate

\* Consumers: the outbox, the dispatchers and the stream stay as they are.
LEMMA ConsumedFate ==
    ASSUME UNCHANGED <<outbox, log, dispatcher>>, NEW e \in Events, HandledCopies(e)' = HandledCopies(e),
           HandledCopies(e) = {} =>
               /\ InHand(e)' <=> InHand(e)
               /\ e \in keys' <=> e \in keys
               /\ (Unread(e) \/ InBatch(e))' <=> (Unread(e) \/ InBatch(e))
    PROVE  Fate(e)' = Fate(e)
<1>1. ToSend(e)' <=> ToSend(e)
  BY DEF ToSend
<1> QED
  BY <1>1, DeliverableParts, SettledFate

\* Reading takes entries from the unread end of the stream into a batch.
LEMMA ReadFate ==
    ASSUME IInv, NEW w \in Workers, Read(w), UNCHANGED faults, NEW e \in Events PROVE Fate(e)' = Fate(e)
<1> DEFINE last == IF lastRead + ReadCount < Len(log) THEN lastRead + ReadCount ELSE Len(log)
           batch == [i \in 1..(last - lastRead) |-> lastRead + i]
<1>1. /\ lastRead' = last /\ consumer' = [consumer EXCEPT ![w] = [pc |-> "key", batch |-> batch]]
      /\ lastRead < Len(log) /\ consumer[w].pc = "idle"
      /\ UNCHANGED <<outbox, log, dispatcher, keys, handled>>
  <2>1. ~Fault
    BY LimitsAssumption DEF Fault, IInv, DispatchInv, DispatchTypes
  <2> QED
    BY <2>1 DEF Read, At
<1>2. lastRead \in Nat /\ Len(log) \in Nat /\ last \in Nat /\ lastRead < last /\ last <= Len(log)
  <2>1. lastRead \in Nat /\ Len(log) \in Nat /\ ReadCount \in Nat \ {0}
    BY InvBounded, BatchEntries, LimitsAssumption DEF IInv, ConsumeInv
  <2> QED
    BY <1>1, <2>1
<1>3. Len(batch) = last - lastRead
  <2> HIDE DEF last
  <2>1. batch \in Seq(Nat) /\ last - lastRead \in Nat
    BY <1>2
  <2> QED
    BY <2>1
<1> HIDE DEF last
<1>4. /\ consumer'[w].pc = "key" /\ consumer'[w].batch = batch
      /\ \A v \in Workers \ {w} : consumer'[v] = consumer[v]
  BY <1>1 DEF IInv, ConsumeInv, ConsumeTypes
<1>5. (\A i \in 1..Len(batch) : batch[i] \in 1..Len(log) /\ batch[i] > lastRead)
      /\ \A m \in (lastRead + 1)..last : m - lastRead \in 1..Len(batch) /\ batch[m - lastRead] = m
  BY <1>2, <1>3
<1> HIDE DEF batch
<1>6. InHand(e)' <=> InHand(e)
  BY <1>1, <1>4 DEF InHand, EventOf, Entry
<1>7. Unread(e) \/ InBatch(e) => Unread(e)' \/ InBatch(e)'
  <2>1. ASSUME NEW m \in Copies(e), m > lastRead PROVE Unread(e)' \/ InBatch(e)'
    <3>1. CASE m > last
      BY <1>1, <2>1, <3>1 DEF Unread, Copies
    <3>2. CASE ~(m > last)
      <4>1. m \in (lastRead + 1)..last
        BY <1>2, <2>1, <3>2 DEF Copies
      <4>2. m - lastRead \in 1..Len(consumer'[w].batch) /\ log'[consumer'[w].batch[m - lastRead]] = e
        BY <1>1, <1>4, <1>5, <4>1 DEF Copies
      <4> QED
        BY <1>4, <4>2 DEF InBatch
    <3> QED
      BY <3>1, <3>2
  <2>2. InBatch(e) => InBatch(e)'
    BY <1>1, <1>4 DEF InBatch
  <2> QED
    BY <2>1, <2>2 DEF Unread
<1>8. Unread(e)' \/ InBatch(e)' => Unread(e) \/ InBatch(e)
  <2>1. Unread(e)' => Unread(e)
    BY <1>1, <1>2 DEF Unread, Copies
  <2>2. ASSUME NEW v \in Workers, consumer'[v].pc # "idle", NEW i \in 1..Len(consumer'[v].batch),
               log'[consumer'[v].batch[i]] = e
        PROVE  Unread(e) \/ InBatch(e)
    <3>1. CASE v = w
      <4>1. batch[i] \in Copies(e) /\ batch[i] > lastRead
        BY <1>1, <1>4, <1>5, <2>2, <3>1 DEF Copies
      <4> QED
        BY <4>1 DEF Unread
    <3>2. CASE v # w
      BY <1>1, <1>4, <2>2, <3>2 DEF InBatch
    <3> QED
      BY <3>1, <3>2
  <2> QED
    BY <2>1, <2>2 DEF InBatch
<1>9. HandledCopies(e)' = HandledCopies(e)
  BY <1>1 DEF HandledCopies, Copies
<1> QED
  BY <1>1, <1>6, <1>7, <1>8, <1>9, ConsumedFate

\* A consumer goes on with its first entry: only the hand its event is in may change.
LEMMA GotoReads ==
    ASSUME ConsumeTypes, NEW w \in Workers, consumer[w].pc # "idle", NEW place, place # "idle", Goto(w, place),
           UNCHANGED <<log, lastRead>>, NEW e
    PROVE  /\ (Unread(e) \/ InBatch(e))' <=> (Unread(e) \/ InBatch(e))
           /\ e # EventOf(w) \/ (place # "handle" /\ consumer[w].pc # "handle") => (InHand(e)' <=> InHand(e))
           /\ place = "handle" /\ e = EventOf(w) => InHand(e)'
<1>1. /\ consumer'[w].pc = place /\ consumer'[w].batch = consumer[w].batch
      /\ \A v \in Workers \ {w} : consumer'[v] = consumer[v]
  BY DEF Goto, ConsumeTypes, ConsumerRecords
<1>2. \A v \in Workers : EventOf(v)' = EventOf(v) /\ consumer'[v].batch = consumer[v].batch
  BY <1>1 DEF EventOf, Entry
<1>3. InBatch(e)' <=> InBatch(e)
  BY <1>1, <1>2 DEF InBatch
<1>4. Unread(e)' <=> Unread(e)
  BY DEF Unread, Copies
<1>5. e # EventOf(w) \/ (place # "handle" /\ consumer[w].pc # "handle") => (InHand(e)' <=> InHand(e))
  BY <1>1, <1>2 DEF InHand
<1>6. place = "handle" /\ e = EventOf(w) => InHand(e)'
  BY <1>1, <1>2 DEF InHand
<1> QED
  BY <1>3, <1>4, <1>5, <1>6

\* The key takes the event from the batch to the hand, or shows that it is in neither.
LEMMA KeyFate ==
    ASSUME IInv, NEW w \in Workers, CheckKey(w), UNCHANGED faults, NEW e \in Events PROVE Fate(e)' = Fate(e)
<1>1. ConsumeTypes /\ consumer[w].pc = "key" /\ UNCHANGED <<outbox, log, lastRead, dispatcher, handled>>
  BY DEF CheckKey, At, IInv, ConsumeInv
<1>2. ~Fault
  BY LimitsAssumption DEF Fault, IInv, DispatchInv, DispatchTypes
<1>3. HandledCopies(e)' = HandledCopies(e)
  BY <1>1 DEF HandledCopies, Copies
<1>4. CASE EventOf(w) \in keys /\ Goto(w, "skip") /\ UNCHANGED keys
  BY <1>1, <1>3, <1>4, GotoReads, ConsumedFate
<1>5. CASE EventOf(w) \notin keys /\ keys' = keys \cup {EventOf(w)} /\ Goto(w, "handle")
  <2>1. CASE e # EventOf(w)
    BY <1>1, <1>3, <1>5, <2>1, GotoReads, ConsumedFate
  <2>2. CASE e = EventOf(w)
    <3>1. InBatch(e)
      BY <1>1, <2>2, InvBounded, FirstEntry DEF InBatch, EventOf, IInv
    <3>2. InHand(e)'
      BY <1>1, <1>5, <2>2, GotoReads
    <3> QED
      BY <1>1, <1>3, <1>5, <2>2, <3>1, <3>2, DeliverableParts, SettledFate
  <2> QED
    BY <2>1, <2>2
<1> QED
  BY <1>2, <1>4, <1>5 DEF CheckKey

\* The next entry: the rest of the batch is kept, but for its first entry.
LEMMA NextEntryReads ==
    ASSUME Bounded, ConsumeInv, NEW w \in Workers, consumer[w].pc \in {"ack", "skip"}, NextEntry(w),
           UNCHANGED <<log, lastRead>>, NEW e, e # EventOf(w)
    PROVE  /\ (Unread(e) \/ InBatch(e))' <=> (Unread(e) \/ InBatch(e))
           /\ InHand(e)' <=> InHand(e)
<1> DEFINE b == consumer[w].batch
<1>1. Drops(w)
  BY NextEntryDrops
<1>2. b \in Seq(1..lastRead) /\ b # <<>> /\ Len(b) \in Nat /\ Entry(w) = b[1]
  BY BatchEntries, FirstEntry DEF ConsumeInv, Batches
<1>3. ASSUME NEW i \in 1..Len(b), i # 1
      PROVE  /\ consumer'[w].pc # "idle"
             /\ i - 1 \in 1..Len(consumer'[w].batch) /\ consumer'[w].batch[i - 1] = b[i]
  <2>1. Len(b) # 1
    <3>1. \A n \in Nat : i \in 1..n /\ i # 1 => n # 1
      BY <1>3
    <3> QED
      BY <1>2, <1>3, <3>1
  <2>2. consumer'[w] = [pc |-> "key", batch |-> Tail(b)]
    BY <2>1 DEF NextEntry, ConsumeInv, ConsumeTypes
  <2>3. Len(Tail(b)) = Len(b) - 1 /\ \A j \in 1..Len(Tail(b)) : Tail(b)[j] = b[j + 1]
    BY <1>2, HeadTailProperties
  <2> QED
    BY <1>2, <1>3, <2>2, <2>3
<1>4. InBatch(e) => InBatch(e)'
  <2> SUFFICES ASSUME NEW v \in Workers, consumer[v].pc # "idle", NEW i \in 1..Len(consumer[v].batch),
                      log[consumer[v].batch[i]] = e
               PROVE  InBatch(e)'
    BY DEF InBatch
  <2>1. CASE v # w
    BY <1>1, <2>1 DEF Drops, InBatch
  <2>2. CASE v = w
    <3>1. i # 1
      BY <1>2, <2>2 DEF EventOf
    <3> QED
      BY <1>3, <2>2, <3>1 DEF InBatch
  <2> QED
    BY <2>1, <2>2
<1>5. InBatch(e)' => InBatch(e)
  BY <1>1 DEF Drops, InBatch
<1>6. Unread(e)' <=> Unread(e)
  BY DEF Unread, Copies
<1>7. InHand(e)' <=> InHand(e)
  BY <1>1 DEF Drops, InHand, EventOf, Entry
<1> QED
  BY <1>4, <1>5, <1>6, <1>7

\* An acknowledged entry was handled; a skipped one is not needed while its key is set.
LEMMA LeaveFate ==
    ASSUME IInv, DeliveryInv, NEW w \in Workers, Ack(w) \/ Skip(w), UNCHANGED faults, NEW e \in Events
    PROVE  Fate(e)' = Fate(e)
<1>1. ~Fault /\ faults \in Nat
  BY LimitsAssumption DEF Fault, IInv, DispatchInv, DispatchTypes
<1>2. /\ NextEntry(w) /\ consumer[w].pc \in {"ack", "skip"}
      /\ UNCHANGED <<outbox, log, lastRead, keys, handled, dispatcher>>
  BY <1>1 DEF Ack, Skip, At
<1>3. Bounded /\ ConsumeInv
  BY InvBounded DEF IInv
<1>4. HandledCopies(e)' = HandledCopies(e)
  BY <1>2 DEF HandledCopies, Copies
<1>5. CASE e # EventOf(w)
  BY <1>2, <1>3, <1>4, <1>5, NextEntryReads, ConsumedFate
<1>6. CASE e = EventOf(w) /\ HandledCopies(e) # {}
  BY <1>2, <1>4, <1>6, SettledFate
<1>7. CASE e = EventOf(w) /\ HandledCopies(e) = {}
  <2>1. PICK m \in 1..lastRead : m = Entry(w) /\ m = consumer[w].batch[1] /\ m \in Copies(e)
    <3>1. Entry(w) \in 1..lastRead /\ Entry(w) = consumer[w].batch[1]
      BY <1>2, <1>3, FirstEntry
    <3>2. 1..lastRead \subseteq 1..Len(log)
      BY <1>3, BatchEntries DEF ConsumeInv
    <3> QED
      BY <1>7, <3>1, <3>2 DEF Copies, EventOf
  <2>2. consumer[w].pc = "skip"
    <3>1. consumer[w].pc = "ack" => handled[m] = 1
      BY <1>2, <1>3, <2>1, FirstEntry DEF ConsumeInv, Batches
    <3> QED
      BY <1>2, <1>7, <2>1, <3>1 DEF HandledCopies
  <2>3. e \in keys
    BY <1>7, <2>2 DEF DeliveryInv, SkipJustified
  <2>4. InHand(e)' <=> InHand(e)
    <3>1. Drops(w)
      BY <1>2, <1>3, NextEntryDrops
    <3> QED
      BY <1>2, <3>1 DEF Drops, InHand, EventOf, Entry
  <2> QED
    BY <1>2, <1>4, <2>3, <2>4, DeliverableParts, SettledFate
<1> QED
  BY <1>5, <1>6, <1>7

\* The handler gets an event that was waiting, or had got it before.
LEMMA HandleMaps ==
    ASSUME IInv, DeliveryInv, NEW w \in Workers, Handle(w)
    PROVE  UNCHANGED Delivery!vars \/ \E e \in Events : Delivery!Deliver(e)
<1>1. /\ consumer[w].pc = "handle" /\ handled' = [handled EXCEPT ![Entry(w)] = @ + 1] /\ Goto(w, "ack")
      /\ UNCHANGED <<outbox, log, lastRead, keys, dispatcher, faults, dead>>
  BY DEF Handle, At, redisVars
<1>2. Bounded /\ ConsumeInv
  BY InvBounded DEF IInv
<1>3. PICK m \in 1..lastRead, e \in Events : m = Entry(w) /\ e = EventOf(w)
  BY <1>1, <1>2, FirstEntry
<1>4. m \in Copies(e) /\ m \in Entries /\ log[m] = e /\ outbox[e] # "absent"
  <2>1. 1..lastRead \subseteq 1..Len(log) /\ 1..lastRead \subseteq Entries
    BY <1>2, BatchEntries DEF ConsumeInv
  <2> QED
    BY <1>3, <2>1 DEF Copies, EventOf, DeliveryInv, LogCommitted
<1>5. handled'[m] > 0 /\ \A n \in Entries : n # m => handled'[n] = handled[n]
  BY <1>1, <1>2, <1>3, <1>4 DEF ConsumeInv, ConsumeTypes
<1>6. ASSUME NEW d \in Events \ {e} PROVE Fate(d)' = Fate(d)
  <2>1. HandledCopies(d)' = HandledCopies(d)
    <3>1. 1..Len(log) \subseteq Entries /\ log' = log
      BY <1>1, <1>2, BatchEntries DEF ConsumeInv
    <3> QED
      BY <1>4, <1>5, <3>1 DEF HandledCopies, Copies
  <2>2. /\ (Unread(d) \/ InBatch(d))' <=> (Unread(d) \/ InBatch(d))
        /\ InHand(d)' <=> InHand(d)
    BY <1>1, <1>2, <1>3, GotoReads DEF ConsumeInv
  <2> QED
    BY <1>1, <2>1, <2>2, ConsumedFate
<1>7. Fate(e)' = "delivered"
  <2>1. m \in HandledCopies(e)'
    BY <1>1, <1>4, <1>5 DEF HandledCopies, Copies
  <2> QED
    BY <1>1, <1>4, <2>1 DEF Fate
<1>8. Fate(e) \in {"waiting", "delivered"}
  <2>1. InHand(e)
    BY <1>1, <1>3 DEF InHand
  <2> QED
    BY <1>4, <2>1, DeliverableParts DEF Fate
<1>9. CASE Fate(e) = "delivered"
  BY <1>1, <1>6, <1>7, <1>9, SameMaps
<1>10. CASE Fate(e) = "waiting"
  <2>1. [d \in Events |-> Fate(d)'] = [[d \in Events |-> Fate(d)] EXCEPT ![e] = "delivered"]
    BY <1>6, <1>7
  <2>2. UNCHANGED (faults + Cardinality(dead))
    BY <1>1
  <2>3. Delivery!Deliver(e)
    BY <1>10, <2>1, <2>2 DEF Delivery!Deliver
  <2> QED
    BY <2>3
<1> QED
  BY <1>8, <1>9, <1>10

-----------------------------------------------------------------------------
(* The invariant of the refinement                                         *)

\* Rows only ever become processed, and the stream grows by events that are locked.
LEMMA LogStep ==
    ASSUME IInv, LogCommitted, [Next]_vars PROVE LogCommitted'
<1>1. log \in Seq(Events)
  BY DEF IInv, DispatchInv, DispatchTypes
<1>2. ASSUME \A e \in Events : outbox[e] # "absent" => outbox'[e] # "absent",
             log' = log \/ \E e \in Events : outbox[e] # "absent" /\ log' = Append(log, e)
      PROVE  LogCommitted'
  <2>1. \A m \in 1..Len(log) : log[m] \in Events /\ outbox[log[m]] # "absent"
    BY <1>1, ElementOfSeq DEF LogCommitted
  <2>2. CASE log' = log
    BY <1>2, <2>1, <2>2 DEF LogCommitted
  <2>3. ASSUME NEW e \in Events, outbox[e] # "absent", log' = Append(log, e) PROVE LogCommitted'
    <3>1. \A m \in 1..Len(log') : log'[m] = e \/ (m \in 1..Len(log) /\ log'[m] = log[m])
      BY <1>1, <2>3, AppendProperties
    <3> QED
      BY <1>2, <2>1, <2>3, <3>1 DEF LogCommitted
  <2> QED
    BY <1>2, <2>2, <2>3
<1>3. ASSUME NEW e \in Events, Publish(e) PROVE LogCommitted'
  BY <1>2, <1>3 DEF Publish, redisVars, IInv, DispatchInv, DispatchTypes
<1>4. ASSUME NEW w \in Workers, Fetch(w) \/ CommitBatch(w) PROVE LogCommitted'
  <2>1. \A e \in Events : outbox'[e] \in {outbox[e], "processed"}
    BY <1>4 DEF Fetch, CommitBatch
  <2> QED
    BY <1>2, <1>4, <2>1 DEF Fetch, CommitBatch, redisVars
<1>5. ASSUME NEW w \in Workers, NEW e \in Events, Xadd(w, e) PROVE LogCommitted'
  <2>1. outbox[e] = "pending"
    BY <1>5 DEF Xadd, IInv, DispatchInv, Locks
  <2> QED
    BY <1>2, <1>5, <2>1 DEF Xadd
<1>6. ASSUME NEW w \in Workers, ConsumerStep(w) \/ ReaperStep(w) \/ ReapFault(w) PROVE LogCommitted'
  BY <1>2, <1>6, OthersStayAside DEF IInv, Aside
<1>7. ASSUME NEW w \in Workers, Crash(w) PROVE LogCommitted'
  BY <1>2, <1>7 DEF Crash, redisVars
<1>8. CASE UNCHANGED vars
  BY <1>2, <1>8 DEF vars
<1> QED
  BY <1>3, <1>4, <1>5, <1>6, <1>7, <1>8 DEF Next, DispatcherStep

\* Who goes to skip has just seen the key; the key is only removed after a handler.
SkipsKept == \A v \in Workers : consumer'[v].pc = "skip" => consumer'[v] = consumer[v] \/ EventOf(v)' \in keys'
KeysKept == \A e \in keys : e \in keys' \/ HandledCopies(e) # {}

LEMMA SkipStep ==
    ASSUME Bounded, Bounded', ConsumeInv, SkipJustified, Extends, SkipsKept, KeysKept,
           \A m \in Entries : handled[m] > 0 => handled'[m] > 0
    PROVE  SkipJustified'
<1> SUFFICES ASSUME NEW w \in Workers, consumer'[w].pc = "skip", EventOf(w)' \notin keys'
             PROVE  HandledCopies(EventOf(w))' # {}
  BY DEF SkipJustified
<1>1. consumer'[w] = consumer[w]
  BY DEF SkipsKept
<1>2. PICK n \in 1..lastRead : n = Entry(w) /\ n \in 1..Len(log)
  BY <1>1, FirstEntry, BatchEntries DEF ConsumeInv
<1>3. PICK e : e = log[n] /\ e = EventOf(w) /\ EventOf(w)' = e
  BY <1>1, <1>2 DEF EventOf, Entry, Extends
<1>4. HandledCopies(e) # {}
  BY <1>1, <1>3 DEF SkipJustified, KeysKept
<1>5. PICK m \in 1..Len(log) : log[m] = e /\ handled[m] > 0
  BY <1>4 DEF HandledCopies, Copies
<1>6. m \in 1..Len(log') /\ log'[m] = e /\ handled'[m] > 0
  <2>1. m \in Entries
    BY BatchEntries DEF ConsumeInv
  <2> QED
    BY <1>5, <2>1 DEF Extends, Bounded
<1> QED
  BY <1>3, <1>6 DEF HandledCopies, Copies

LEMMA SkipInvStep ==
    ASSUME IInv, DeliveryInv, [Next]_vars PROVE SkipJustified'
<1>1. Bounded /\ Bounded' /\ ConsumeInv /\ SkipJustified
  <2>1. (DispatchInv => Bounded)'
    BY InvBounded, PTL
  <2> QED
    BY <2>1, NextKeepsInv, InvBounded DEF IInv, DeliveryInv
<1>2. log' = log => Extends
  BY <1>1 DEF Extends, Bounded
<1>3. ASSUME Extends, SkipsKept, KeysKept, UNCHANGED handled PROVE SkipJustified'
  BY <1>1, <1>3, SkipStep
<1>4. ASSUME UNCHANGED <<handled, consumer, keys>>, Extends PROVE SkipJustified'
  BY <1>3, <1>4 DEF SkipsKept, KeysKept
<1>5. CASE UNCHANGED vars \/ \E e \in Events : Publish(e)
  BY <1>2, <1>4, <1>5 DEF vars, Publish, redisVars
<1>6. ASSUME NEW w \in Workers, DispatcherStep(w) PROVE SkipJustified'
  <2>1. log' = log \/ \E e \in Events : log' = Append(log, e)
    BY <1>6 DEF DispatcherStep, Fetch, CommitBatch, Xadd, redisVars
  <2>2. Extends
    BY <1>1, <1>2, <2>1, AppendExtends DEF Bounded
  <2> QED
    BY <1>4, <1>6, <2>2 DEF DispatcherStep, Fetch, CommitBatch, Xadd, redisVars
<1>7. ASSUME NEW w \in Workers, ReaperStep(w) \/ ReapFault(w) PROVE SkipJustified'
  BY <1>2, <1>4, <1>7 DEF ReaperStep, Xclaim, CountAttempt, DeadLetter, AckDead, ReapFault, redisVars
<1>8. ASSUME NEW w \in Workers, Crash(w) PROVE SkipJustified'
  <2>1. SkipsKept
    BY <1>1, <1>8 DEF Crash, SkipsKept, IdleConsumer, ConsumeInv, ConsumeTypes
  <2> QED
    BY <1>2, <1>3, <1>8, <2>1 DEF Crash, redisVars, KeysKept
<1>9. ASSUME NEW w \in Workers, Handle(w) PROVE SkipJustified'
  <2>1. SkipsKept /\ KeysKept /\ log' = log
    BY <1>1, <1>9 DEF Handle, Goto, redisVars, SkipsKept, KeysKept, ConsumeInv, ConsumeTypes, ConsumerRecords
  <2>2. \A m \in Entries : handled[m] > 0 => handled'[m] > 0
    <3>1. Entry(w) \in Entries
      BY <1>1, <1>9, FirstEntry, BatchEntries DEF Handle, At, ConsumeInv
    <3> QED
      BY <1>1, <1>9, <3>1 DEF Handle, ConsumeInv, ConsumeTypes
  <2> QED
    BY <1>1, <1>2, <2>1, <2>2, SkipStep
<1>10. ASSUME NEW w \in Workers, NextEntry(w) \/ Abandon(w), consumer[w].pc # "idle" PROVE SkipsKept
  <2>1. Drops(w)
    BY <1>1, <1>10, NextEntryDrops, AbandonDrops
  <2> QED
    BY <2>1 DEF Drops, SkipsKept
<1>11. ASSUME NEW w \in Workers, Read(w) PROVE SkipJustified'
  <2>1. SkipsKept
    BY <1>1, <1>11 DEF Read, SkipsKept, ConsumeInv, ConsumeTypes
  <2> QED
    BY <1>2, <1>3, <1>11, <2>1 DEF Read, KeysKept
<1>12. ASSUME NEW w \in Workers, CheckKey(w) PROVE SkipJustified'
  <2>1. CASE Goto(w, "skip") /\ EventOf(w) \in keys /\ UNCHANGED keys
    <3>1. EventOf(w)' = EventOf(w) /\ \A v \in Workers \ {w} : consumer'[v] = consumer[v]
      BY <1>1, <1>12, <2>1 DEF CheckKey, Goto, EventOf, Entry, ConsumeInv, ConsumeTypes, ConsumerRecords
    <3> QED
      BY <1>2, <1>3, <1>12, <2>1, <3>1 DEF CheckKey, SkipsKept, KeysKept
  <2>2. CASE Goto(w, "handle") /\ keys' = keys \cup {EventOf(w)}
    <3>1. SkipsKept
      BY <1>1, <2>2 DEF Goto, SkipsKept, ConsumeInv, ConsumeTypes, ConsumerRecords
    <3> QED
      BY <1>2, <1>3, <1>12, <2>2, <3>1 DEF CheckKey, KeysKept
  <2>3. CASE Abandon(w) /\ keys' \in {keys, keys \cup {EventOf(w)}}
    BY <1>2, <1>3, <1>10, <1>12, <2>3 DEF CheckKey, At, KeysKept
  <2> QED
    BY <1>12, <2>1, <2>2, <2>3 DEF CheckKey
<1>13. ASSUME NEW w \in Workers, Ack(w) \/ Skip(w) PROVE SkipJustified'
  <2>1. SkipsKept
    BY <1>10, <1>13 DEF Ack, Skip, At
  <2>2. UNCHANGED <<log, handled>> /\ (keys' = keys \/ (consumer[w].pc = "ack" /\ keys \ {EventOf(w)} \subseteq keys'))
    BY <1>13 DEF Ack, Skip, At
  <2>3. consumer[w].pc = "ack" => HandledCopies(EventOf(w)) # {}
    <3> SUFFICES ASSUME consumer[w].pc = "ack" PROVE Entry(w) \in HandledCopies(EventOf(w))
      OBVIOUS
    <3>1. Entry(w) \in 1..Len(log) /\ handled[Entry(w)] = 1
      BY <1>1, FirstEntry, BatchEntries DEF ConsumeInv, Batches
    <3> QED
      BY <3>1 DEF HandledCopies, Copies, EventOf
  <2> QED
    BY <1>2, <1>3, <2>1, <2>2, <2>3 DEF KeysKept
<1> QED
  BY <1>5, <1>6, <1>7, <1>8, <1>9, <1>11, <1>12, <1>13 DEF Next, ConsumerStep

LEMMA DeliveryInvariant == Spec => []DeliveryInv
<1>1. Init => DeliveryInv
  BY EmptySeq DEF Init, DeliveryInv, LogCommitted, SkipJustified, IdleConsumer
<1>2. IInv /\ DeliveryInv /\ [Next]_vars => DeliveryInv'
  BY LogStep, SkipInvStep DEF DeliveryInv
<1> QED
  BY <1>1, <1>2, SpecInv, PTL DEF Spec

-----------------------------------------------------------------------------

\* A call that raises, and two of them in the acknowledgement, or a process that dies.
LEMMA TroubleMaps ==
    ASSUME IInv, IInv', Next, ~UNCHANGED <<faults, dead>> PROVE Delivery!GoWrong
<1>1. Bounded /\ Bounded' /\ ConsumeInv
  <2>1. (DispatchInv => Bounded)'
    BY InvBounded, PTL
  <2> QED
    BY <2>1, InvBounded DEF IInv
<1>2. log' = log => Extends
  BY <1>1 DEF Extends, Bounded
<1>3. faults \in Nat /\ Cardinality(dead) \in Nat /\ IsFiniteSet(dead)
  BY FS_CardinalityType, LimitsAssumption DEF IInv, DispatchInv, DispatchTypes
<1>4. ASSUME Extends, UNCHANGED <<handled, outbox, dead>>, faults' \in {faults + 1, faults + 2}
      PROVE  Delivery!GoWrong
  <2>1. (faults + Cardinality(dead))' \in {faults + Cardinality(dead) + 1, faults + Cardinality(dead) + 2}
    BY <1>3, <1>4
  <2> QED
    BY <1>1, <1>4, <2>1, GoWrongMaps
<1>5. ASSUME NEW w \in Workers, Crash(w) PROVE Delivery!GoWrong
  <2>1. Cardinality(dead') = Cardinality(dead) + 1 /\ UNCHANGED <<log, handled, outbox, faults>>
    BY <1>3, <1>5, FS_AddElement DEF Crash, Alive, redisVars
  <2>2. (faults + Cardinality(dead))' \in {faults + Cardinality(dead) + 1, faults + Cardinality(dead) + 2}
    BY <1>3, <2>1
  <2> QED
    BY <1>1, <1>2, <2>1, <2>2, GoWrongMaps
<1>6. ASSUME NEW w \in Workers, NEW e \in Events, Xadd(w, e) PROVE Delivery!GoWrong
  <2>1. Fault /\ log' \in {log, Append(log, e)}
    BY <1>6 DEF Xadd
  <2>2. Extends
    BY <1>1, <2>1, AppendExtends DEF Bounded
  <2> QED
    BY <1>4, <1>6, <2>1, <2>2 DEF Xadd, Fault
<1>7. ASSUME NEW w \in Workers, CommitBatch(w) PROVE Delivery!GoWrong
  BY <1>2, <1>4, <1>7 DEF CommitBatch, Fault, redisVars
<1>8. ASSUME NEW w \in Workers, ConsumerStep(w) PROVE Delivery!GoWrong
  <2>1. UNCHANGED <<log, outbox, dead>>
    BY <1>8, OthersStayAside DEF IInv, Aside
  <2>2. handled' = handled /\ faults' \in {faults + 1, faults + 2}
    BY <1>8, <2>1 DEF ConsumerStep, Read, CheckKey, Handle, Ack, Skip, Fault
  <2> QED
    BY <1>2, <1>4, <2>1, <2>2
<1>9. ASSUME NEW w \in Workers, ReapFault(w) PROVE Delivery!GoWrong
  BY <1>2, <1>4, <1>9 DEF ReapFault, Fault, redisVars
<1> QED
  BY <1>5, <1>6, <1>7, <1>8, <1>9
  DEF Next, DispatcherStep, Publish, Fetch, ReaperStep, Xclaim, CountAttempt, DeadLetter, AckDead

LEMMA DeliveryStep ==
    ASSUME IInv, DeliveryInv, [Next]_vars PROVE [Delivery!Next]_(Delivery!vars)
<1>1. IInv'
  BY NextKeepsInv
<1>2. CASE Next /\ ~UNCHANGED <<faults, dead>>
  BY <1>1, <1>2, TroubleMaps DEF Delivery!Next
<1>3. CASE UNCHANGED vars
  <2>1. \A e \in Events : Fate(e)' = Fate(e)
    BY <1>3 DEF vars, Fate, HandledCopies, Copies, Deliverable, EventOf, Entry
  <2> QED
    BY <1>3, <2>1, SameMaps DEF vars
<1>4. ASSUME NEW e \in Events, Publish(e) PROVE Delivery!Next
  BY <1>4, CommitMaps DEF Delivery!Next
<1>5. ASSUME NEW w \in Workers, DispatcherStep(w), UNCHANGED <<faults, dead>>
      PROVE  \A e \in Events : Fate(e)' = Fate(e)
  BY <1>1, <1>5, FetchFate, XaddFate, CommitFate DEF DispatcherStep
<1>6. ASSUME NEW w \in Workers, ReaperStep(w) PROVE \A e \in Events : Fate(e)' = Fate(e)
  BY <1>6, ReapFate
<1>7. ASSUME NEW w \in Workers, ConsumerStep(w), ~Handle(w), UNCHANGED <<faults, dead>>
      PROVE  \A e \in Events : Fate(e)' = Fate(e)
  BY <1>7, ReadFate, KeyFate, LeaveFate DEF ConsumerStep
<1>8. ASSUME NEW w \in Workers, Handle(w) PROVE [Delivery!Next]_(Delivery!vars)
  BY <1>8, HandleMaps DEF Delivery!Next
<1>9. ASSUME NEW w \in Workers, ReapFault(w) \/ Crash(w) PROVE ~UNCHANGED <<faults, dead>>
  BY <1>9, LimitsAssumption DEF ReapFault, Crash, Fault, Alive, IInv, DispatchInv, DispatchTypes
<1> QED
  BY <1>2, <1>3, <1>4, <1>5, <1>6, <1>7, <1>8, <1>9, SameMaps DEF Next

\* Whatever crashes and raises, an event is lost, or found again, only in a step in which
\* something went wrong; otherwise it goes from its commit to one handler.
THEOREM DeliveryImplemented == Spec => ImplementsDelivery
<1>1. Init => Delivery!Init
  <2> SUFFICES ASSUME Init PROVE Delivery!Init
    OBVIOUS
  <2>1. \A e \in Events : Fate(e) = "none"
    BY DEF Init, Fate
  <2>2. faults + Cardinality(dead) = 0
    BY FS_EmptySet DEF Init
  <2> QED
    BY <2>1, <2>2 DEF Delivery!Init
<1>2. IInv /\ DeliveryInv /\ [Next]_vars => [Delivery!Next]_(Delivery!vars)
  BY DeliveryStep
<1> QED
  BY <1>1, <1>2, SpecInv, DeliveryInvariant, PTL DEF Spec, ImplementsDelivery, Delivery!Spec

=============================================================================
