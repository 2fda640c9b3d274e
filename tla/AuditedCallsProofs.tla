------------------------ MODULE AuditedCallsProofs ------------------------
(***************************************************************************)
(* Proofs about AuditedCalls, as MCServices instantiates it: what the       *)
(* provider's calls report, hold and give back, what the auditor's report   *)
(* says of them, and what its subscribers are sent.                         *)
(***************************************************************************)
EXTENDS MCServices, Sequences, SequenceTheorems, FiniteSetTheorems, TLAPS

Events == [sequence : Nat, category : AC!Categories, decision : {"allowed", "blocked", "unknown"}]

\* What the types leave open: the log is one of events, and a facade holds what
\* its call was admitted with.
Shape ==
    /\ log \in Seq(Events)
    /\ queue \in [Streams -> Seq(1..MaxEvents)]
    /\ _legacy_models = [p \in Providers |-> IF posting[p] = "idle" THEN <<>> ELSE <<model[p]>>]

\* What waits for a subscriber is a gapless run up to the last event, newer than
\* what it was sent; nobody is sent what was not recorded, or reads unsubscribed.
Gapless(s) ==
    queue[s] # <<>> =>
        /\ received[s] < queue[s][1]
        /\ \A i \in 1..Len(queue[s]) : queue[s][i] = Len(log) - Len(queue[s]) + i

Fed ==
    \A s \in Streams :
        /\ received[s] <= Len(log)
        /\ reader[s] = "new" => queue[s] = <<>> /\ s \notin subscribers
        /\ reader[s] \in {"subscribed", "streaming"} => s \in subscribers
        /\ s \in subscribers => Gapless(s)

AuditorInv == AC!TypeOK /\ Shape /\ AC!CallsAccounted /\ AC!ReportTrue /\ Fed

-----------------------------------------------------------------------------
(* Sequences and sets                                                       *)

\* An instance has a name of its own for what its module extends.
LEMMA CardinalitySame == \A S : AC!Cardinality(S) = Cardinality(S)
BY DEF AC!Cardinality, Cardinality

LEMMA NewestIsSuffix ==
  ASSUME NEW S, NEW s \in Seq(S), NEW n \in Nat, n <= Len(s)
  PROVE  /\ AC!Newest(s, n) \in Seq(S) /\ Len(AC!Newest(s, n)) = n
         /\ \A i \in 1..n : AC!Newest(s, n)[i] = s[Len(s) - n + i]
<1>1. Len(s) \in Nat /\ \A i \in 1..Len(s) : s[i] \in S
  BY ElementOfSeq
<1>2. CASE Len(s) = n
  BY <1>1, <1>2 DEF AC!Newest
<1>3. CASE Len(s) > n
  <2> DEFINE m == Len(s) - n + 1
  <2>1. m \in Int /\ m..Len(s) \subseteq 1..Len(s) /\ m <= Len(s) + 1 /\ Len(s) - m + 1 = n
    BY <1>1, <1>3
  <2>2. AC!Newest(s, n) = SubSeq(s, m, Len(s))
    BY <1>3 DEF AC!Newest
  <2>3. \A i \in 1..n : m + i - 1 = Len(s) - n + i
    BY <1>1
  <2> HIDE DEF m
  <2>4. /\ SubSeq(s, m, Len(s)) \in Seq(S)
        /\ Len(SubSeq(s, m, Len(s))) = IF m <= Len(s) THEN Len(s) - m + 1 ELSE 0
        /\ \A i \in 1..(Len(s) - m + 1) : SubSeq(s, m, Len(s))[i] = s[m + i - 1]
    BY <1>1, <2>1, SubSeqProperties
  <2>5. Len(SubSeq(s, m, Len(s))) = n
    BY <1>1, <2>1, <2>4
  <2> QED BY <2>1, <2>2, <2>3, <2>4, <2>5
<1> QED BY <1>1, <1>2, <1>3

LEMMA NewestOfAppend ==
  ASSUME NEW S, NEW s \in Seq(S), NEW e \in S, NEW n \in Nat
  PROVE  AC!Newest(Append(AC!Newest(s, n), e), n) = AC!Newest(Append(s, e), n)
<1>1. PICK v \in Seq(S) :
        /\ v = Append(s, e) /\ Len(v) = Len(s) + 1 /\ Len(s) \in Nat
        /\ \A i \in 1..Len(s) : v[i] = s[i]
        /\ v[Len(s) + 1] = e
  <2>1. /\ Append(s, e) \in Seq(S) /\ Len(Append(s, e)) = Len(s) + 1 /\ Len(s) \in Nat
        /\ \A i \in 1..Len(s) : Append(s, e)[i] = s[i]
        /\ Append(s, e)[Len(s) + 1] = e
    BY AppendProperties
  <2> QED BY <2>1
<1>2. CASE Len(s) < n
  BY <1>1, <1>2 DEF AC!Newest
<1>3. CASE Len(s) >= n
  <2>1. PICK t \in Seq(S) : /\ t = AC!Newest(s, n) /\ Len(t) = n
                            /\ \A i \in 1..n : t[i] = s[Len(s) - n + i]
    BY <1>1, <1>3, NewestIsSuffix
  <2>2. PICK u \in Seq(S) :
          /\ u = Append(t, e) /\ Len(u) = n + 1
          /\ \A i \in 1..n : u[i] = t[i]
          /\ u[n + 1] = e
    <3>1. /\ Append(t, e) \in Seq(S) /\ Len(Append(t, e)) = Len(t) + 1
          /\ \A i \in 1..Len(t) : Append(t, e)[i] = t[i]
          /\ Append(t, e)[Len(t) + 1] = e
      BY AppendProperties
    <3> QED BY <2>1, <3>1
  <2>3. PICK a \in Seq(S) : /\ a = AC!Newest(u, n) /\ Len(a) = n
                            /\ \A i \in 1..n : a[i] = u[Len(u) - n + i]
    <3>1. n <= Len(u)
      BY <2>2
    <3>2. /\ AC!Newest(u, n) \in Seq(S) /\ Len(AC!Newest(u, n)) = n
          /\ \A i \in 1..n : AC!Newest(u, n)[i] = u[Len(u) - n + i]
      BY <3>1, NewestIsSuffix
    <3> QED BY <2>2, <3>2
  <2>4. PICK b \in Seq(S) : /\ b = AC!Newest(v, n) /\ Len(b) = n
                            /\ \A i \in 1..n : b[i] = v[Len(v) - n + i]
    <3>1. n <= Len(v)
      BY <1>1, <1>3
    <3>2. /\ AC!Newest(v, n) \in Seq(S) /\ Len(AC!Newest(v, n)) = n
          /\ \A i \in 1..n : AC!Newest(v, n)[i] = v[Len(v) - n + i]
      BY <3>1, NewestIsSuffix
    <3> QED BY <1>1, <3>2
  <2>5. ASSUME NEW i \in 1..n PROVE a[i] = b[i]
    <3>1. a[i] = u[i + 1] /\ b[i] = v[Len(s) + 1 - n + i]
      <4>1. Len(u) - n + i = i + 1 /\ Len(v) - n + i = Len(s) + 1 - n + i
        BY <1>1, <2>2
      <4> QED BY <2>3, <2>4, <4>1
    <3>2. CASE i = n
      <4>1. Len(s) + 1 - n + i = Len(s) + 1
        BY <3>2, <1>1
      <4> QED BY <3>1, <3>2, <4>1, <2>2, <1>1
    <3>3. CASE i < n
      <4>1. i + 1 \in 1..n /\ Len(s) + 1 - n + i \in 1..Len(s) /\ Len(s) - n + (i + 1) = Len(s) + 1 - n + i
        BY <3>3, <1>1, <1>3
      <4> QED BY <3>1, <4>1, <2>1, <2>2, <1>1
    <3> QED BY <3>2, <3>3
  <2>6. a = b
    BY <2>3, <2>4, <2>5, SeqEqual
  <2> QED BY <1>1, <2>1, <2>2, <2>3, <2>4, <2>6
<1> QED
  BY <1>1, <1>2, <1>3

-----------------------------------------------------------------------------
(* What is recorded                                                         *)

Hosts == {"local_ai_services", "external_api_hosts", "cloud_ai_services", "unlisted"}

\* A recorded request appends one event, which every part of the report counts.
LEMMA RecordEvent ==
  ASSUME AC!TypeOK, Shape, NEW p \in Providers, AC!Record(p)
  PROVE  \E event \in Events :
           /\ event.sequence = Len(log) + 1 /\ Len(log) < MaxEvents
           /\ event.category = "blocked_external" => event.decision = "blocked"
           /\ log' = Append(log, event)
           /\ history' = AC!Newest(Append(history, event), HistoryLimit)
           /\ counts' = [c \in AC!Categories |->
                counts[c] + (IF c = event.category THEN 1 ELSE 0)
                          + (IF c = "blocked_external" /\ c # event.category /\ event.decision = "blocked" THEN 1 ELSE 0)]
           /\ last_external' = IF event.category \in AC!External THEN event ELSE last_external
           /\ last_cloud_ai' = IF event.category \in {"external_cloud_ai"} THEN event ELSE last_cloud_ai
           /\ queue' = [s \in Streams |-> IF s \in subscribers THEN AC!Put(queue[s], Len(log) + 1) ELSE queue[s]]
<1> DEFINE category == AC!classify(host[p])
           event == [sequence |-> Len(log) + 1, category |-> category, decision |-> AC!_decision(category)]
<1>1. host[p] \in Hosts /\ default \in {"blocked", "allowed", "unknown"}
  BY DEF AC!TypeOK, Hosts
<1>2. /\ category \in AC!Categories /\ AC!_decision(category) \in {"blocked", "allowed", "unknown"}
      /\ category = "blocked_external" => AC!_decision(category) = "blocked"
  BY <1>1 DEF AC!classify, AC!_decision, AC!Categories, Hosts
<1>3. Len(log) \in Nat
  BY DEF Shape
<1>4. event \in Events
  BY <1>2, <1>3 DEF Events
<1>5. AC!record_request(host[p]) /\ Len(log) < MaxEvents
  BY DEF AC!Record
<1> QED
  BY <1>2, <1>4, <1>5 DEF AC!record_request, AC!NotesExternal

\* The events at the positions chosen by a set of categories, when one is added.
LEMMA WhereGrows ==
  ASSUME log \in Seq(Events), NEW event \in Events, log' = Append(log, event), NEW cs
  PROVE  /\ AC!Where(cs)' = AC!Where(cs) \cup (IF event.category \in cs THEN {Len(log) + 1} ELSE {})
         /\ AC!Where(cs) \subseteq 1..Len(log) /\ log'[Len(log) + 1] = event
         /\ \A i \in 1..Len(log) : log'[i] = log[i]
<1>1. /\ Len(log') = Len(log) + 1 /\ Len(log) \in Nat
      /\ \A i \in 1..Len(log) : log'[i] = log[i]
      /\ log'[Len(log) + 1] = event
  BY AppendProperties
<1>2. 1..Len(log') = (1..Len(log)) \cup {Len(log) + 1}
  BY <1>1
<1> QED
  BY <1>1, <1>2 DEF AC!Where

\* One position more in a set of positions of the log is one more to count.
LEMMA CountGrows ==
  ASSUME NEW n \in Nat, NEW A, A \subseteq 1..n
  PROVE  Cardinality(A \cup {n + 1}) = Cardinality(A) + 1 /\ Cardinality(A) \in Nat
<1>1. IsFiniteSet(A) /\ n + 1 \notin A
  <2>1. IsFiniteSet(1..n)
    BY FS_Interval
  <2>2. IsFiniteSet(A)
    BY <2>1, FS_Subset
  <2>3. n + 1 \notin 1..n
    OBVIOUS
  <2> QED BY <2>2, <2>3
<1>2. Cardinality(A) \in Nat
  BY <1>1, FS_CardinalityType
<1>3. Cardinality(A \cup {n + 1}) = Cardinality(A) + 1
  BY <1>1, FS_AddElement
<1> QED
  BY <1>2, <1>3

\* The report stays true: to a log that does not change, and to one more event.
Told == <<log, history, counts, last_external, last_cloud_ai>>

LEMMA ReportStays == ASSUME AC!ReportTrue, UNCHANGED Told PROVE AC!ReportTrue'
BY DEF AC!ReportTrue, AC!NewestIs, AC!Where, AC!Newest, Told

LEMMA ReportKept ==
  ASSUME AC!TypeOK, Shape, AC!ReportTrue, NEW p \in Providers, AC!Record(p)
  PROVE  AC!ReportTrue'
<1> DEFINE Blocked == {i \in 1..Len(log) : log[i].decision = "blocked"}
<1>1. PICK event \in Events :
        /\ event.category = "blocked_external" => event.decision = "blocked"
        /\ log' = Append(log, event)
        /\ history' = AC!Newest(Append(history, event), HistoryLimit)
        /\ counts' = [c \in AC!Categories |->
             counts[c] + (IF c = event.category THEN 1 ELSE 0)
                       + (IF c = "blocked_external" /\ c # event.category /\ event.decision = "blocked" THEN 1 ELSE 0)]
        /\ last_external' = IF event.category \in AC!External THEN event ELSE last_external
        /\ last_cloud_ai' = IF event.category \in {"external_cloud_ai"} THEN event ELSE last_cloud_ai
  BY RecordEvent
<1>2. log \in Seq(Events) /\ Len(log) \in Nat
  BY DEF Shape
<1>3. history' = AC!Newest(log', HistoryLimit)
  BY <1>1, <1>2, NewestOfAppend, ServicesAssumption DEF AC!ReportTrue
<1>4. AC!NewestIs(last_external, AC!External)'
  <2> DEFINE W == AC!Where(AC!External)
  <2>1. /\ W' = W \cup (IF event.category \in AC!External THEN {Len(log) + 1} ELSE {})
        /\ W \subseteq 1..Len(log) /\ log'[Len(log) + 1] = event
        /\ \A i \in 1..Len(log) : log'[i] = log[i]
    BY <1>1, <1>2, WhereGrows
  <2>2. IF W = {} THEN last_external = AC!NoEvent
        ELSE \E i \in W : last_external = log[i] /\ \A j \in W : j <= i
    BY DEF AC!ReportTrue, AC!NewestIs
  <2> HIDE DEF W
  <2>3. CASE event.category \in AC!External
    <3>1. Len(log) + 1 \in W' /\ last_external' = log'[Len(log) + 1] /\ \A j \in W' : j <= Len(log) + 1
      BY <1>1, <1>2, <2>1, <2>3
    <3> QED BY <3>1 DEF AC!NewestIs, W
  <2>4. CASE event.category \notin AC!External
    <3>1. W' = W /\ last_external' = last_external /\ \A i \in W : log'[i] = log[i]
      BY <1>1, <2>1, <2>4
    <3>2. IF W' = {} THEN last_external' = AC!NoEvent
          ELSE \E i \in W' : last_external' = log'[i] /\ \A j \in W' : j <= i
      BY <2>2, <3>1
    <3> QED BY <3>2 DEF AC!NewestIs, W
  <2> QED BY <2>3, <2>4
<1>5. AC!NewestIs(last_cloud_ai, {"external_cloud_ai"})'
  <2> DEFINE W == AC!Where({"external_cloud_ai"})
  <2>1. /\ W' = W \cup (IF event.category \in {"external_cloud_ai"} THEN {Len(log) + 1} ELSE {})
        /\ W \subseteq 1..Len(log) /\ log'[Len(log) + 1] = event
        /\ \A i \in 1..Len(log) : log'[i] = log[i]
    BY <1>1, <1>2, WhereGrows
  <2>2. IF W = {} THEN last_cloud_ai = AC!NoEvent
        ELSE \E i \in W : last_cloud_ai = log[i] /\ \A j \in W : j <= i
    BY DEF AC!ReportTrue, AC!NewestIs
  <2> HIDE DEF W
  <2>3. CASE event.category \in {"external_cloud_ai"}
    <3>1. Len(log) + 1 \in W' /\ last_cloud_ai' = log'[Len(log) + 1] /\ \A j \in W' : j <= Len(log) + 1
      BY <1>1, <1>2, <2>1, <2>3
    <3> QED BY <3>1 DEF AC!NewestIs, W
  <2>4. CASE event.category \notin {"external_cloud_ai"}
    <3>1. W' = W /\ last_cloud_ai' = last_cloud_ai /\ \A i \in W : log'[i] = log[i]
      BY <1>1, <2>1, <2>4
    <3>2. IF W' = {} THEN last_cloud_ai' = AC!NoEvent
          ELSE \E i \in W' : last_cloud_ai' = log'[i] /\ \A j \in W' : j <= i
      BY <2>2, <3>1
    <3> QED BY <3>2 DEF AC!NewestIs, W
  <2> QED BY <2>3, <2>4
<1>6. ASSUME NEW c \in AC!Categories \ {"blocked_external"}
      PROVE  counts'[c] = Cardinality(AC!Where({c})')
  <2>1. counts[c] = Cardinality(AC!Where({c}))
    BY CardinalitySame DEF AC!ReportTrue
  <2>2. counts'[c] = counts[c] + IF event.category \in {c} THEN 1 ELSE 0
    <3>1. counts[c] \in Nat
      BY DEF AC!TypeOK
    <3> QED BY <1>1, <3>1
  <2>3. /\ AC!Where({c})' = AC!Where({c}) \cup (IF event.category \in {c} THEN {Len(log) + 1} ELSE {})
        /\ AC!Where({c}) \subseteq 1..Len(log)
    BY <1>1, <1>2, WhereGrows
  <2>4. /\ Cardinality(AC!Where({c}) \cup {Len(log) + 1}) = Cardinality(AC!Where({c})) + 1
        /\ Cardinality(AC!Where({c})) \in Nat
    BY <1>2, <2>3, CountGrows
  <2>5. CASE event.category = c
    BY <2>1, <2>2, <2>3, <2>4, <2>5
  <2>6. CASE event.category # c
    <3>1. AC!Where({c})' = AC!Where({c})
      BY <2>3, <2>6
    <3> QED BY <2>1, <2>2, <2>4, <2>6, <3>1
  <2> QED BY <2>5, <2>6
<1>7. counts'["blocked_external"] = Cardinality(Blocked')
  <2>1. counts["blocked_external"] = Cardinality(Blocked)
    BY CardinalitySame DEF AC!ReportTrue
  <2>2. counts'["blocked_external"] = counts["blocked_external"] + IF event.decision = "blocked" THEN 1 ELSE 0
    <3>1. counts["blocked_external"] \in Nat /\ "blocked_external" \in AC!Categories
      BY DEF AC!TypeOK, AC!Categories
    <3> QED BY <1>1, <3>1
  <2>3. Blocked' = Blocked \cup (IF event.decision = "blocked" THEN {Len(log) + 1} ELSE {})
    <3>1. /\ Len(log') = Len(log) + 1
          /\ \A i \in 1..Len(log) : log'[i] = log[i]
          /\ log'[Len(log) + 1] = event
      BY <1>1, <1>2, AppendProperties
    <3>2. 1..Len(log') = (1..Len(log)) \cup {Len(log) + 1}
      BY <1>2, <3>1
    <3> QED BY <3>1, <3>2
  <2>4. Blocked \subseteq 1..Len(log)
    OBVIOUS
  <2> HIDE DEF Blocked
  <2>5. Cardinality(Blocked \cup {Len(log) + 1}) = Cardinality(Blocked) + 1 /\ Cardinality(Blocked) \in Nat
    BY <1>2, <2>4, CountGrows
  <2>6. CASE event.decision = "blocked"
    BY <2>1, <2>2, <2>3, <2>5, <2>6
  <2>7. CASE event.decision # "blocked"
    <3>1. Blocked' = Blocked
      BY <2>3, <2>7
    <3> QED BY <2>1, <2>2, <2>5, <2>7, <3>1
  <2> QED BY <2>6, <2>7
<1> QED
  BY <1>3, <1>4, <1>5, <1>6, <1>7, CardinalitySame DEF AC!ReportTrue

-----------------------------------------------------------------------------
(* What the subscribers are sent                                            *)

\* Put keeps a run gapless, within its bound, and starts it no earlier.
LEMMA PutKeepsRun ==
  ASSUME NEW n \in Nat, n < MaxEvents, NEW q \in Seq(1..MaxEvents), Len(q) <= SubscriberQueueSize,
         \A i \in 1..Len(q) : q[i] = n - Len(q) + i
  PROVE  /\ AC!Put(q, n + 1) \in Seq(1..MaxEvents) /\ Len(AC!Put(q, n + 1)) <= SubscriberQueueSize
         /\ Len(AC!Put(q, n + 1)) \in 1..(Len(q) + 1)
         /\ \A i \in 1..Len(AC!Put(q, n + 1)) : AC!Put(q, n + 1)[i] = n + 1 - Len(AC!Put(q, n + 1)) + i
<1>1. Len(q) \in Nat /\ n + 1 \in 1..MaxEvents /\ SubscriberQueueSize \in Nat \ {0}
  BY ServicesAssumption
<1>2. PICK t : t = IF Len(q) = SubscriberQueueSize THEN Tail(q) ELSE q
  OBVIOUS
<1>3. /\ t \in Seq(1..MaxEvents) /\ Len(t) < SubscriberQueueSize /\ Len(t) <= Len(q) /\ Len(t) \in Nat
      /\ \A i \in 1..Len(t) : t[i] = n - Len(t) + i
  <2>1. CASE Len(q) = SubscriberQueueSize
    <3>1. q # <<>> /\ t = Tail(q)
      BY <1>1, <1>2, <2>1
    <3>2. /\ t \in Seq(1..MaxEvents) /\ Len(t) = Len(q) - 1
          /\ \A i \in 1..Len(t) : t[i] = q[i + 1]
      BY <3>1, HeadTailProperties
    <3>3. \A i \in 1..Len(t) : i + 1 \in 1..Len(q) /\ n - Len(q) + (i + 1) = n - Len(t) + i
      BY <1>1, <3>2
    <3> QED BY <1>1, <2>1, <3>2, <3>3
  <2>2. CASE Len(q) # SubscriberQueueSize
    <3>1. t = q
      BY <1>2, <2>2
    <3>2. Len(q) < SubscriberQueueSize
      BY <1>1, <2>2
    <3> QED BY <1>1, <3>1, <3>2
  <2> QED BY <2>1, <2>2
<1>4. PICK p : p = Append(t, n + 1) /\ p = AC!Put(q, n + 1)
  BY <1>2 DEF AC!Put
<1>5. /\ p \in Seq(1..MaxEvents) /\ Len(p) = Len(t) + 1
      /\ \A i \in 1..Len(t) : p[i] = t[i]
      /\ p[Len(t) + 1] = n + 1
  <2>1. /\ Append(t, n + 1) \in Seq(1..MaxEvents) /\ Len(Append(t, n + 1)) = Len(t) + 1
        /\ \A i \in 1..Len(t) : Append(t, n + 1)[i] = t[i]
        /\ Append(t, n + 1)[Len(t) + 1] = n + 1
    BY <1>1, <1>3, AppendProperties
  <2> QED BY <1>4, <2>1
<1>6. ASSUME NEW i \in 1..Len(p) PROVE p[i] = n + 1 - Len(p) + i
  <2>1. CASE i = Len(t) + 1
    BY <1>3, <1>5, <2>1
  <2>2. CASE i # Len(t) + 1
    <3>1. i \in 1..Len(t) /\ n - Len(t) + i = n + 1 - Len(p) + i
      BY <1>3, <1>5, <2>2
    <3> QED BY <1>3, <1>5, <3>1
  <2> QED BY <2>1, <2>2
<1>7. Len(p) <= SubscriberQueueSize /\ Len(p) \in 1..(Len(q) + 1)
  BY <1>1, <1>3, <1>5
<1> QED
  BY <1>4, <1>5, <1>6, <1>7

\* Recording an event feeds every subscriber, also one that nobody reads any more.
LEMMA RecordFeeds ==
  ASSUME AC!TypeOK, Shape, Fed, NEW p \in Providers, AC!Record(p)
  PROVE  /\ queue' \in [Streams -> Seq(1..MaxEvents)]
         /\ \A s \in Streams : Len(queue'[s]) <= SubscriberQueueSize
         /\ Fed'
<1>1. PICK event \in Events :
        /\ Len(log) < MaxEvents /\ log' = Append(log, event)
        /\ queue' = [s \in Streams |-> IF s \in subscribers THEN AC!Put(queue[s], Len(log) + 1) ELSE queue[s]]
  BY RecordEvent
<1>2. Len(log') = Len(log) + 1 /\ Len(log) \in Nat
  BY <1>1 DEF Shape
<1>3. UNCHANGED <<subscribers, reader, received>> /\ subscribers \subseteq Streams
  BY DEF AC!Record, AC!streamVars, AC!TypeOK
<1>4. ASSUME NEW s \in Streams
      PROVE  /\ queue'[s] \in Seq(1..MaxEvents) /\ Len(queue'[s]) <= SubscriberQueueSize
             /\ received[s] <= Len(log')
             /\ s \in subscribers => Gapless(s)'
             /\ s \notin subscribers => queue'[s] = queue[s]
  <2>1. /\ queue[s] \in Seq(1..MaxEvents) /\ Len(queue[s]) <= SubscriberQueueSize /\ Len(queue[s]) \in Nat
        /\ received[s] \in 0..MaxEvents /\ received[s] <= Len(log)
    BY DEF Shape, AC!TypeOK, Fed
  <2>2. CASE s \in subscribers
    <3>1. PICK q : q = queue[s]
      OBVIOUS
    <3>2. q \in Seq(1..MaxEvents) /\ Len(q) <= SubscriberQueueSize /\ Len(q) \in Nat
      BY <2>1, <3>1
    <3>3. /\ \A i \in 1..Len(q) : q[i] = Len(log) - Len(q) + i
          /\ q # <<>> => received[s] < q[1]
      <4>1. Gapless(s)
        BY <2>2 DEF Fed
      <4>2. CASE q = <<>>
        BY <4>2
      <4> QED BY <3>1, <4>1, <4>2 DEF Gapless
    <3>4. PICK w : w = AC!Put(q, Len(log) + 1)
      OBVIOUS
    <3>5. /\ w \in Seq(1..MaxEvents) /\ Len(w) <= SubscriberQueueSize /\ Len(w) \in 1..(Len(q) + 1)
          /\ \A i \in 1..Len(w) : w[i] = Len(log) + 1 - Len(w) + i
      BY <1>1, <1>2, <3>2, <3>3, <3>4, PutKeepsRun
    <3>6. queue'[s] = w
      BY <1>1, <2>2, <3>1, <3>4
    <3>7. received[s] < w[1]
      <4>1. w[1] = Len(log) + 1 - Len(w) + 1
        BY <3>2, <3>5
      <4>2. CASE q = <<>>
        BY <1>2, <2>1, <3>2, <3>5, <4>1, <4>2
      <4>3. CASE q # <<>>
        <5>1. 1 \in 1..Len(q)
          BY <3>2, <4>3, EmptySeq
        <5>2. q[1] = Len(log) - Len(q) + 1 /\ received[s] < q[1]
          BY <3>3, <4>3, <5>1
        <5> QED BY <1>2, <2>1, <3>2, <3>5, <4>1, <5>2
      <4> QED BY <4>2, <4>3
    <3>8. Gapless(s)'
      BY <1>2, <1>3, <3>5, <3>6, <3>7 DEF Gapless
    <3> QED BY <1>2, <2>1, <2>2, <3>5, <3>6, <3>8
  <2>3. CASE s \notin subscribers
    BY <1>1, <1>2, <2>1, <2>3
  <2> QED BY <2>2, <2>3
<1>5. queue' \in [Streams -> Seq(1..MaxEvents)]
  BY <1>1, <1>4
<1>6. Fed'
  <2>1. \A s \in Streams : reader[s] = "new" => s \notin subscribers
    BY DEF Fed
  <2> QED BY <1>3, <1>4, <2>1 DEF Fed
<1> QED
  BY <1>4, <1>5, <1>6

LEMMA FedStays ==
  ASSUME Fed, UNCHANGED <<log, queue, subscribers, reader, received>> PROVE Fed'
BY DEF Fed, Gapless

\* What a reader takes is the oldest of its run, and the rest is a run.
LEMMA YieldKeepsFed ==
  ASSUME AC!TypeOK, Shape, Fed, NEW s \in Streams, AC!Yield(s)
  PROVE  /\ queue' \in [Streams -> Seq(1..MaxEvents)]
         /\ \A x \in Streams : Len(queue'[x]) <= SubscriberQueueSize
         /\ received' \in [Streams -> 0..MaxEvents]
         /\ Fed'
<1>1. /\ reader[s] = "streaming" /\ queue[s] # <<>>
      /\ received' = [received EXCEPT ![s] = Head(queue[s])]
      /\ queue' = [queue EXCEPT ![s] = Tail(queue[s])]
      /\ UNCHANGED <<log, subscribers, reader>>
  BY DEF AC!Yield
<1>2. PICK q \in Seq(1..MaxEvents) : q = queue[s]
  BY DEF Shape
<1>3. PICK t : t = Tail(q)
  OBVIOUS
<1>4. /\ Head(q) \in 1..MaxEvents /\ Head(q) = q[1] /\ t \in Seq(1..MaxEvents) /\ Len(t) = Len(q) - 1
      /\ \A i \in 1..Len(t) : t[i] = q[i + 1]
      /\ Len(q) \in Nat \ {0} /\ Len(q) <= SubscriberQueueSize
  <2>1. q # <<>> /\ Len(q) <= SubscriberQueueSize
    BY <1>1, <1>2 DEF AC!TypeOK
  <2>2. /\ Head(q) \in 1..MaxEvents /\ Tail(q) \in Seq(1..MaxEvents) /\ Len(Tail(q)) = Len(q) - 1
        /\ \A i \in 1..Len(Tail(q)) : Tail(q)[i] = q[i + 1]
    BY <2>1, HeadTailProperties
  <2>3. Len(q) \in Nat \ {0} /\ Head(q) = q[1]
    BY <2>1, EmptySeq
  <2> QED BY <1>3, <2>1, <2>2, <2>3
<1>5. s \in subscribers /\ Gapless(s)
  BY <1>1 DEF Fed
<1>6. \A i \in 1..Len(q) : q[i] = Len(log) - Len(q) + i
  BY <1>1, <1>2, <1>5 DEF Gapless
<1>7. Len(log) \in Nat /\ SubscriberQueueSize \in Nat \ {0}
  BY ServicesAssumption DEF Shape
<1>8. queue' \in [Streams -> Seq(1..MaxEvents)] /\ received' \in [Streams -> 0..MaxEvents]
  <2>1. Head(queue[s]) \in 0..MaxEvents /\ Tail(queue[s]) \in Seq(1..MaxEvents)
    BY <1>2, <1>3, <1>4
  <2> QED BY <1>1, <2>1 DEF Shape, AC!TypeOK
<1>9. \A x \in Streams \ {s} : queue'[x] = queue[x] /\ received'[x] = received[x]
  BY <1>1 DEF Shape, AC!TypeOK
<1>10. queue'[s] = t /\ received'[s] = q[1]
  BY <1>1, <1>2, <1>3, <1>4 DEF Shape, AC!TypeOK
<1>11. \A i \in 1..Len(t) : t[i] = Len(log) - Len(t) + i
  <2>1. \A i \in 1..Len(t) : i + 1 \in 1..Len(q) /\ Len(log) - Len(q) + (i + 1) = Len(log) - Len(t) + i
    BY <1>4, <1>7
  <2> QED BY <1>4, <1>6, <2>1
<1>12. q[1] <= Len(log) /\ (t # <<>> => q[1] < t[1])
  <2>1. q[1] = Len(log) - Len(q) + 1
    BY <1>4, <1>6
  <2>2. CASE t # <<>>
    <3>1. t[1] = Len(log) - Len(t) + 1
      BY <1>4, <1>11, <2>2, EmptySeq
    <3> QED BY <1>4, <1>7, <2>1, <3>1
  <2> QED BY <1>4, <1>7, <2>1, <2>2
<1>13. Gapless(s)'
  BY <1>1, <1>10, <1>11, <1>12 DEF Gapless
<1>14. Fed'
  <2>1. ASSUME NEW x \in Streams \ {s} PROVE x \in subscribers => Gapless(x)'
    BY <1>1, <1>9 DEF Fed, Gapless
  <2> QED BY <1>1, <1>9, <1>10, <1>12, <1>13, <2>1 DEF Fed
<1>15. \A x \in Streams : Len(queue'[x]) <= SubscriberQueueSize
  <2>1. \A x \in Streams : Len(queue[x]) <= SubscriberQueueSize
    BY DEF AC!TypeOK
  <2>2. Len(t) <= SubscriberQueueSize
    BY <1>4, <1>7
  <2> QED BY <1>9, <1>10, <2>1, <2>2
<1> QED
  BY <1>8, <1>14, <1>15

-----------------------------------------------------------------------------
(* What the calls hold                                                      *)

Recorded == {p \in Providers : posting[p] = "recorded"}

LEMMA RecordedFinite == IsFiniteSet(Recorded) /\ Cardinality(Recorded) \in Nat
<1>1. IsFiniteSet(Recorded)
  BY ServicesAssumption, FS_Subset DEF Recorded
<1> QED
  BY <1>1, FS_CardinalityType

\* The places of one call change: it is counted as recorded, and no longer.
LEMMA RecordedChanges ==
  ASSUME AC!TypeOK, NEW p \in Providers, NEW place, posting' = [posting EXCEPT ![p] = place]
  PROVE  Cardinality(Recorded') = Cardinality(Recorded) + (IF place = "recorded" THEN 1 ELSE 0)
                                                        - (IF posting[p] = "recorded" THEN 1 ELSE 0)
<1>1. \A x \in Providers : posting'[x] = IF x = p THEN place ELSE posting[x]
  BY DEF AC!TypeOK
<1>2. CASE posting[p] # "recorded" /\ place = "recorded"
  <2>1. Recorded' = Recorded \cup {p} /\ p \notin Recorded
    BY <1>1, <1>2 DEF Recorded
  <2>2. Cardinality(Recorded') = Cardinality(Recorded) + 1
    BY <2>1, RecordedFinite, FS_AddElement
  <2> QED BY <1>2, <2>2, RecordedFinite
<1>3. CASE posting[p] = "recorded" /\ place # "recorded"
  <2>1. Recorded' = Recorded \ {p} /\ p \in Recorded
    BY <1>1, <1>3 DEF Recorded
  <2>2. Cardinality(Recorded') = Cardinality(Recorded) - 1
    BY <2>1, RecordedFinite, FS_RemoveElement
  <2> QED BY <1>3, <2>2, RecordedFinite
<1>4. CASE posting[p] # "recorded" /\ place # "recorded"
  <2>1. Recorded' = Recorded
    BY <1>1, <1>4 DEF Recorded
  <2> QED BY <1>4, <2>1, RecordedFinite
<1>5. CASE posting[p] = "recorded" /\ place = "recorded"
  <2>1. Recorded' = Recorded
    BY <1>1, <1>5 DEF Recorded
  <2> QED BY <1>5, <2>1, RecordedFinite
<1> QED
  BY <1>2, <1>3, <1>4, <1>5

LEMMA AccountedKept ==
  ASSUME AC!TypeOK, Shape, AC!CallsAccounted,
         \/ AC!set_enabled
         \/ \E p \in Providers : (\E m \in Models : AC!Admit(p, m)) \/ AC!Record(p) \/ AC!Post(p) \/ AC!End(p)
         \/ \E s \in Streams : AC!Subscribe(s) \/ AC!StartStream(s) \/ AC!Yield(s) \/ AC!Disconnect(s)
  PROVE  /\ AC!CallsAccounted' /\ posted' \in Nat
         /\ posting' \in [Providers -> {"idle", "admitted", "recorded", "posted"}]
         /\ model' \in [Providers -> Models] /\ active' \in [Providers -> [Models -> Nat]]
         /\ _legacy_models' = [p \in Providers |-> IF posting'[p] = "idle" THEN <<>> ELSE <<model'[p]>>]
<1> DEFINE Held == \A p \in Providers, m \in Models :
                     active[p][m] = IF posting[p] # "idle" /\ model[p] = m THEN 1 ELSE 0
           Facades == /\ posting' \in [Providers -> {"idle", "admitted", "recorded", "posted"}]
                      /\ model' \in [Providers -> Models] /\ active' \in [Providers -> [Models -> Nat]]
                      /\ _legacy_models' = [p \in Providers |-> IF posting'[p] = "idle" THEN <<>> ELSE <<model'[p]>>]
<1>1. /\ posted + Cardinality(Recorded) <= Len(log) /\ Held
      /\ posted \in Nat /\ Cardinality(Recorded) \in Nat /\ Len(log) \in Nat
  BY CardinalitySame, RecordedFinite DEF AC!CallsAccounted, Recorded, AC!TypeOK, Shape
<1>2. /\ posting \in [Providers -> {"idle", "admitted", "recorded", "posted"}]
      /\ model \in [Providers -> Models] /\ active \in [Providers -> [Models -> Nat]]
      /\ _legacy_models = [p \in Providers |-> IF posting[p] = "idle" THEN <<>> ELSE <<model[p]>>]
  BY DEF AC!TypeOK, Shape
<1>3. SUFFICES posted' \in Nat /\ posted' + Cardinality(Recorded') <= Len(log') /\ Held' /\ Facades
  BY CardinalitySame DEF AC!CallsAccounted, Recorded
<1>4. ASSUME UNCHANGED <<posting, model, _legacy_models, active, posted, log>>
      PROVE  posted' \in Nat /\ posted' + Cardinality(Recorded') <= Len(log') /\ Held' /\ Facades
  BY <1>1, <1>2, <1>4 DEF Recorded
<1>5. ASSUME AC!set_enabled \/ \E s \in Streams : AC!Subscribe(s) \/ AC!StartStream(s) \/ AC!Yield(s) \/ AC!Disconnect(s)
      PROVE  UNCHANGED <<posting, model, _legacy_models, active, posted, log>>
  BY <1>5 DEF AC!set_enabled, AC!Subscribe, AC!StartStream, AC!Yield, AC!Disconnect, AC!auditor, AC!facade
<1>6. ASSUME NEW p \in Providers, NEW m \in Models, AC!Admit(p, m)
      PROVE  posted' \in Nat /\ posted' + Cardinality(Recorded') <= Len(log') /\ Held' /\ Facades
  <2>1. /\ posting[p] = "idle" /\ posting' = [posting EXCEPT ![p] = "admitted"] /\ model' = [model EXCEPT ![p] = m]
        /\ _legacy_models' = [_legacy_models EXCEPT ![p] = Append(@, m)]
        /\ active' = [active EXCEPT ![p][m] = @ + 1] /\ UNCHANGED <<log, posted>>
    BY <1>6 DEF AC!Admit, AC!auditor
  <2>2. Append(_legacy_models[p], m) = <<m>>
    BY <1>2, <2>1
  <2>3. Facades
    <3>1. posting' \in [Providers -> {"idle", "admitted", "recorded", "posted"}] /\ model' \in [Providers -> Models]
      BY <1>2, <2>1
    <3>2. active' \in [Providers -> [Models -> Nat]]
      BY <1>2, <2>1
    <3>3. _legacy_models' = [_legacy_models EXCEPT ![p] = <<m>>]
      BY <2>1, <2>2
    <3> QED BY <1>2, <2>1, <3>1, <3>2, <3>3
  <2>4. Held'
    BY <1>1, <1>2, <2>1
  <2>5. Cardinality(Recorded') = Cardinality(Recorded)
    <3>1. PICK place : place = "admitted" /\ posting' = [posting EXCEPT ![p] = place]
      BY <2>1
    <3>2. Cardinality(Recorded') = Cardinality(Recorded) + (IF place = "recorded" THEN 1 ELSE 0)
                                                        - (IF posting[p] = "recorded" THEN 1 ELSE 0)
      BY <3>1, RecordedChanges
    <3> QED BY <1>1, <2>1, <3>1, <3>2
  <2> QED BY <1>1, <2>1, <2>3, <2>4, <2>5
<1>7. ASSUME NEW p \in Providers, AC!Record(p)
      PROVE  posted' \in Nat /\ posted' + Cardinality(Recorded') <= Len(log') /\ Held' /\ Facades
  <2>1. /\ posting[p] = "admitted" /\ posting' = [posting EXCEPT ![p] = "recorded"]
        /\ UNCHANGED <<model, _legacy_models, active, posted>>
    BY <1>7 DEF AC!Record, AC!facade
  <2>2. Facades /\ Held'
    BY <1>1, <1>2, <2>1
  <2>3. Cardinality(Recorded') = Cardinality(Recorded) + 1
    <3>1. PICK place : place = "recorded" /\ posting' = [posting EXCEPT ![p] = place]
      BY <2>1
    <3>2. Cardinality(Recorded') = Cardinality(Recorded) + (IF place = "recorded" THEN 1 ELSE 0)
                                                        - (IF posting[p] = "recorded" THEN 1 ELSE 0)
      BY <3>1, RecordedChanges
    <3> QED BY <1>1, <2>1, <3>1, <3>2
  <2>4. Len(log') = Len(log) + 1
    <3>1. PICK event \in Events : log' = Append(log, event)
      BY <1>7, RecordEvent
    <3> QED BY <3>1 DEF Shape
  <2> QED BY <1>1, <2>1, <2>2, <2>3, <2>4
<1>8. ASSUME NEW p \in Providers, AC!Post(p)
      PROVE  posted' \in Nat /\ posted' + Cardinality(Recorded') <= Len(log') /\ Held' /\ Facades
  <2>1. /\ posting[p] = "recorded" /\ posting' = [posting EXCEPT ![p] = "posted"] /\ posted' = posted + 1
        /\ UNCHANGED <<model, _legacy_models, active, log>>
    BY <1>8 DEF AC!Post, AC!facade, AC!auditor
  <2>2. Facades /\ Held'
    BY <1>1, <1>2, <2>1
  <2>3. Cardinality(Recorded') = Cardinality(Recorded) - 1
    <3>1. PICK place : place = "posted" /\ posting' = [posting EXCEPT ![p] = place]
      BY <2>1
    <3>2. Cardinality(Recorded') = Cardinality(Recorded) + (IF place = "recorded" THEN 1 ELSE 0)
                                                        - (IF posting[p] = "recorded" THEN 1 ELSE 0)
      BY <3>1, RecordedChanges
    <3> QED BY <1>1, <2>1, <3>1, <3>2
  <2> QED BY <1>1, <2>1, <2>2, <2>3
<1>9. ASSUME NEW p \in Providers, AC!End(p)
      PROVE  posted' \in Nat /\ posted' + Cardinality(Recorded') <= Len(log') /\ Held' /\ Facades
  <2>1. posting[p] # "idle" /\ posting' = [posting EXCEPT ![p] = "idle"] /\ UNCHANGED <<model, posted, log>>
    BY <1>9 DEF AC!End, AC!auditor
  <2>2. _legacy_models[p] = <<model[p]>> /\ model[p] \in Models
    BY <1>2, <2>1
  <2>3. AC!Last(_legacy_models[p]) = model[p] /\ SubSeq(_legacy_models[p], 1, Len(_legacy_models[p]) - 1) = <<>>
    BY <2>2 DEF AC!Last
  <2>4. /\ active' = [active EXCEPT ![p][model[p]] = @ - 1]
        /\ _legacy_models' = [_legacy_models EXCEPT ![p] = <<>>]
    BY <1>9, <2>2, <2>3 DEF AC!End
  <2>5. active[p][model[p]] = 1
    BY <1>1, <2>1, <2>2
  <2>6. Facades
    <3>1. posting' \in [Providers -> {"idle", "admitted", "recorded", "posted"}] /\ model' \in [Providers -> Models]
      BY <1>2, <2>1
    <3>2. active' \in [Providers -> [Models -> Nat]]
      <4>1. [active[p] EXCEPT ![model[p]] = 0] \in [Models -> Nat] /\ active[p][model[p]] - 1 = 0
        BY <1>2, <2>2, <2>5
      <4> QED BY <1>2, <2>4, <4>1
    <3> QED BY <1>2, <2>1, <2>4, <3>1, <3>2
  <2>7. Held'
    <3>1. \A x \in Providers, m \in Models :
            active'[x][m] = IF x = p /\ m = model[p] THEN 0 ELSE active[x][m]
      BY <1>2, <2>2, <2>4, <2>5
    <3>2. \A x \in Providers : posting'[x] = IF x = p THEN "idle" ELSE posting[x]
      BY <1>2, <2>1
    <3> QED BY <1>1, <2>1, <3>1, <3>2
  <2>8. Cardinality(Recorded') = Cardinality(Recorded) - (IF posting[p] = "recorded" THEN 1 ELSE 0)
    <3>1. PICK place : place = "idle" /\ posting' = [posting EXCEPT ![p] = place]
      BY <2>1
    <3>2. Cardinality(Recorded') = Cardinality(Recorded) + (IF place = "recorded" THEN 1 ELSE 0)
                                                        - (IF posting[p] = "recorded" THEN 1 ELSE 0)
      BY <3>1, RecordedChanges
    <3> QED BY <1>1, <2>1, <3>1, <3>2
  <2> QED BY <1>1, <2>1, <2>6, <2>7, <2>8
<1> QED
  BY <1>4, <1>5, <1>6, <1>7, <1>8, <1>9

-----------------------------------------------------------------------------
(* The invariant                                                            *)

LEMMA AuditorStarts ==
  ASSUME AC!Init PROVE AuditorInv
<1>1. log = <<>> /\ Len(log) = 0 /\ Recorded = {} /\ Cardinality(Recorded) = 0
  BY FS_EmptySet DEF AC!Init, Recorded
<1>2. AC!TypeOK
  BY <1>1, ServicesAssumption DEF AC!Init, AC!TypeOK
<1>3. Shape
  BY DEF AC!Init, Shape
<1>4. AC!CallsAccounted
  BY <1>1, CardinalitySame DEF AC!Init, AC!CallsAccounted, Recorded
<1>5. AC!ReportTrue
  <2>1. 1..Len(log) = {}
    BY <1>1
  <2>2. \A cs : AC!Where(cs) = {}
    BY <2>1 DEF AC!Where
  <2>3. {i \in 1..Len(log) : log[i].decision = "blocked"} = {}
    BY <2>1
  <2>4. \A c \in AC!Categories : counts[c] = 0
    BY DEF AC!Init
  <2>5. history = AC!Newest(log, HistoryLimit)
    BY <1>1, ServicesAssumption DEF AC!Init, AC!Newest
  <2>6. AC!NewestIs(last_external, AC!External) /\ AC!NewestIs(last_cloud_ai, {"external_cloud_ai"})
    BY <2>2 DEF AC!Init, AC!NewestIs
  <2>7. "blocked_external" \in AC!Categories
    BY DEF AC!Categories
  <2> QED BY <2>2, <2>3, <2>4, <2>5, <2>6, <2>7, FS_EmptySet, CardinalitySame DEF AC!ReportTrue
<1>6. Fed
  BY <1>1 DEF AC!Init, Fed, Gapless
<1> QED
  BY <1>2, <1>3, <1>4, <1>5, <1>6 DEF AuditorInv

LEMMA AuditorKept ==
  ASSUME AuditorInv, [AC!Next]_auditor PROVE AuditorInv'
<1> USE DEF AuditorInv
<1>1. CASE UNCHANGED auditor
  BY <1>1, ReportStays, FedStays, CardinalitySame
     DEF auditor, AC!TypeOK, Shape, AC!CallsAccounted, Told
<1>2. CASE AC!Next
  <2>1. /\ AC!CallsAccounted' /\ posted' \in Nat
        /\ posting' \in [Providers -> {"idle", "admitted", "recorded", "posted"}]
        /\ model' \in [Providers -> Models] /\ active' \in [Providers -> [Models -> Nat]]
        /\ _legacy_models' = [p \in Providers |-> IF posting'[p] = "idle" THEN <<>> ELSE <<model'[p]>>]
    BY <1>2, AccountedKept DEF AC!Next
  <2>2. \A p \in Providers : _legacy_models'[p] \in Seq(Models)
    <3>1. \A p \in Providers : model'[p] \in Models
      BY <2>1
    <3> QED BY <2>1, <3>1
  <2> DEFINE Calls == /\ posting \in [Providers -> {"idle", "admitted", "recorded", "posted"}]
                      /\ model \in [Providers -> Models] /\ active \in [Providers -> [Models -> Nat]] /\ posted \in Nat
                      /\ _legacy_models = [p \in Providers |-> IF posting[p] = "idle" THEN <<>> ELSE <<model[p]>>]
                      /\ \A p \in Providers : _legacy_models[p] \in Seq(Models)
             Rest == /\ default \in {"blocked", "allowed", "unknown"} /\ enabled \in BOOLEAN /\ host \in [Providers -> Hosts]
                     /\ Len(log) <= MaxEvents /\ log \in Seq(Events) /\ counts \in [AC!Categories -> Nat]
                     /\ queue \in [Streams -> Seq(1..MaxEvents)]
                     /\ \A s \in Streams : Len(queue[s]) <= SubscriberQueueSize
                     /\ subscribers \subseteq Streams
                     /\ reader \in [Streams -> {"new", "subscribed", "streaming", "closed"}]
                     /\ received \in [Streams -> 0..MaxEvents]
  <2>3. Rest
    BY DEF AC!TypeOK, Shape, Hosts
  <2>4. Rest' => AC!TypeOK' /\ Shape'
    <3>1. Calls'
      BY <2>1, <2>2
    <3>2. Rest' /\ Calls' => AC!TypeOK' /\ Shape'
      BY DEF AC!TypeOK, Shape, Hosts
    <3> QED BY <3>1, <3>2
  <2>5. ASSUME UNCHANGED <<default, host>>, enabled' \in BOOLEAN,
               UNCHANGED <<Told, queue, subscribers, reader, received>>
        PROVE  Rest' /\ AC!ReportTrue' /\ Fed'
    BY <2>3, <2>5, ReportStays, FedStays DEF Told
  <2>6. CASE AC!set_enabled
    <3>1. enabled' \in BOOLEAN
      BY <2>3, <2>6 DEF AC!set_enabled
    <3> QED BY <2>1, <2>4, <2>5, <2>6, <3>1 DEF AC!set_enabled, AC!auditor, AC!streamVars, Told
  <2>7. ASSUME NEW p \in Providers, (\E m \in Models : AC!Admit(p, m)) \/ AC!Post(p) \/ AC!End(p)
        PROVE  AuditorInv'
    <3>1. enabled' \in BOOLEAN
      BY <2>3, <2>7 DEF AC!Admit, AC!Post, AC!End, AC!settings
    <3> QED BY <2>1, <2>4, <2>5, <2>7, <3>1
            DEF AC!Admit, AC!Post, AC!End, AC!settings, AC!auditor, AC!streamVars, Told
  <2>8. ASSUME NEW p \in Providers, AC!Record(p)
        PROVE  AuditorInv'
    <3>1. PICK event \in Events :
            /\ Len(log) < MaxEvents /\ log' = Append(log, event)
            /\ counts' = [c \in AC!Categories |->
                 counts[c] + (IF c = event.category THEN 1 ELSE 0)
                           + (IF c = "blocked_external" /\ c # event.category /\ event.decision = "blocked" THEN 1 ELSE 0)]
      BY <2>8, RecordEvent
    <3>2. log' \in Seq(Events) /\ Len(log') <= MaxEvents
      BY <2>3, <3>1, ServicesAssumption
    <3>3. counts' \in [AC!Categories -> Nat]
      BY <2>3, <3>1
    <3>4. Fed' /\ queue' \in [Streams -> Seq(1..MaxEvents)] /\ \A s \in Streams : Len(queue'[s]) <= SubscriberQueueSize
      BY <2>8, RecordFeeds
    <3>5. UNCHANGED <<default, host, enabled, subscribers, reader, received>>
      BY <2>8 DEF AC!Record, AC!settings, AC!streamVars
    <3>6. Rest'
      BY <2>3, <3>2, <3>3, <3>4, <3>5
    <3>7. AC!ReportTrue'
      BY <2>8, ReportKept
    <3> QED BY <2>1, <2>4, <3>4, <3>6, <3>7
  <2>9. ASSUME NEW s \in Streams, AC!Subscribe(s) \/ AC!StartStream(s) \/ AC!Disconnect(s)
        PROVE  AuditorInv'
    <3>1. UNCHANGED <<default, host, enabled, Told, queue, received>>
      BY <2>9 DEF AC!Subscribe, AC!StartStream, AC!Disconnect, AC!settings, AC!auditor, Told
    <3>2. subscribers' \subseteq Streams /\ reader' \in [Streams -> {"new", "subscribed", "streaming", "closed"}]
      BY <2>3, <2>9 DEF AC!Subscribe, AC!StartStream, AC!Disconnect
    <3>3. Rest'
      BY <2>3, <3>1, <3>2 DEF Told
    <3>4. Fed'
      BY <2>3, <2>9, <3>1 DEF Fed, Gapless, Told, AC!Subscribe, AC!StartStream, AC!Disconnect
    <3> QED BY <2>1, <2>4, <3>1, <3>3, <3>4, ReportStays
  <2>10. ASSUME NEW s \in Streams, AC!Yield(s)
         PROVE  AuditorInv'
    <3>1. UNCHANGED <<default, host, enabled, Told, subscribers, reader>>
      BY <2>10 DEF AC!Yield, AC!settings, Told
    <3>2. /\ queue' \in [Streams -> Seq(1..MaxEvents)]
          /\ \A x \in Streams : Len(queue'[x]) <= SubscriberQueueSize
          /\ received' \in [Streams -> 0..MaxEvents] /\ Fed'
      BY <2>10, YieldKeepsFed
    <3>3. Rest'
      BY <2>3, <3>1, <3>2 DEF Told
    <3> QED BY <2>1, <2>4, <3>1, <3>2, <3>3, ReportStays
  <2> QED BY <1>2, <2>6, <2>7, <2>8, <2>9, <2>10 DEF AC!Next
<1> QED
  BY <1>1, <1>2

\* Head and Last of a run are its first and last element.
LEMMA AuditorStreams == AuditorInv => AC!StreamsKeepNewest
<1> SUFFICES ASSUME AuditorInv, NEW s \in subscribers, queue[s] # <<>>
             PROVE  /\ AC!Last(queue[s]) = Len(log) /\ received[s] < Head(queue[s])
                    /\ \A i \in 1..Len(queue[s]) : queue[s][i] = Len(log) - Len(queue[s]) + i
  BY DEF AC!StreamsKeepNewest
<1>1. s \in Streams /\ queue[s] \in Seq(1..MaxEvents) /\ Len(log) \in Nat
  BY DEF AuditorInv, AC!TypeOK, Shape
<1>2. Gapless(s)
  BY <1>1 DEF AuditorInv, Fed
<1>3. Len(queue[s]) \in Nat \ {0} /\ Head(queue[s]) = queue[s][1]
  BY <1>1, EmptySeq
<1>4. /\ received[s] < queue[s][1]
      /\ \A i \in 1..Len(queue[s]) : queue[s][i] = Len(log) - Len(queue[s]) + i
  BY <1>2 DEF Gapless
<1>5. PICK n \in Nat \ {0} : n = Len(queue[s])
  BY <1>3
<1>6. queue[s][n] = Len(log) - n + n
  <2>1. n \in 1..n
    OBVIOUS
  <2> QED BY <1>4, <1>5, <2>1
<1>7. AC!Last(queue[s]) = Len(log)
  BY <1>1, <1>5, <1>6 DEF AC!Last
<1> QED
  BY <1>3, <1>4, <1>7

=============================================================================
