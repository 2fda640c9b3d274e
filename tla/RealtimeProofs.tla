--------------------------- MODULE RealtimeProofs ---------------------------
(***************************************************************************)
(* Proofs about Realtime, as MCServices instantiates it: what the tail of   *)
(* the stream takes, and whom a broadcast over a list that changes under it *)
(* reaches.                                                                 *)
(***************************************************************************)
EXTENDS MCServices, Sequences, SequenceTheorems, FiniteSetTheorems, WellFoundedInduction, TLAPS

-----------------------------------------------------------------------------
(* Induction, on sets of numbers: the least of those left out               *)

LEMMA Least ==
  ASSUME NEW T, T \subseteq Nat, T # {}
  PROVE  \E x \in T : \A y \in T : x <= y
<1> DEFINE R == {ss \in Nat \X Nat : ss[1] < ss[2]}
<1>1. OpToRel(<, Nat) = R
  BY DEF OpToRel
<1>2. IsWellFoundedOn(R, Nat)
  BY <1>1, NatLessThanWellFounded, Zenon
<1>3. \E x \in T : \A y \in T : ~ (<<y, x>> \in R)
  <2> HIDE DEF R
  <2> QED BY <1>2, WFMin
<1>4. PICK x \in T : \A y \in T : ~ (<<y, x>> \in R)
  BY <1>3
<1>5. \A y \in T : x <= y
  <2> SUFFICES ASSUME NEW y \in T PROVE x <= y
    OBVIOUS
  <2>1. x \in Nat /\ y \in Nat /\ (y < x => <<y, x>> \in R)
    OBVIOUS
  <2>2. ~(y < x)
    BY <1>4, <2>1
  <2> QED BY <2>1, <2>2
<1> QED
  BY <1>5

LEMMA Induction ==
  ASSUME NEW P, 0 \in P, \A n \in Nat : n \in P => n + 1 \in P
  PROVE  Nat \subseteq P
<1> SUFFICES ASSUME Nat \ P # {} PROVE FALSE
  OBVIOUS
<1>1. PICK x \in Nat \ P : \A y \in Nat \ P : x <= y
  BY Least
<1>2. x # 0 /\ x \in Nat
  BY <1>1
<1>3. x - 1 \in Nat /\ x - 1 \in P
  BY <1>1, <1>2
<1> QED
  BY <1>1, <1>2, <1>3

-----------------------------------------------------------------------------
(* The room without some of its connections                                 *)

\* What the loop of disconnects has kept of the first n elements.
Keeps(f, list, gone, n) ==
    /\ f[0] = <<>>
    /\ \A m \in 1..n : f[m] = IF list[m] \in gone THEN f[m - 1] ELSE Append(f[m - 1], list[m])

LEMMA KeptExists ==
  ASSUME NEW S, NEW list \in Seq(S), NEW gone, NEW n \in 0..Len(list)
  PROVE  \E f \in [0..n -> Seq(S)] : Keeps(f, list, gone, n)
<1> DEFINE P == {k \in Nat : k <= Len(list) => \E f \in [0..k -> Seq(S)] : Keeps(f, list, gone, k)}
<1>1. 0 \in P
  <2>1. [m \in 0..0 |-> <<>>] \in [0..0 -> Seq(S)] /\ Keeps([m \in 0..0 |-> <<>>], list, gone, 0)
    BY DEF Keeps
  <2> QED BY <2>1
<1>2. ASSUME NEW k \in Nat, k \in P PROVE k + 1 \in P
  <2> SUFFICES ASSUME k + 1 <= Len(list)
               PROVE  \E f \in [0..(k + 1) -> Seq(S)] : Keeps(f, list, gone, k + 1)
    OBVIOUS
  <2>1. k <= Len(list) /\ Len(list) \in Nat
    OBVIOUS
  <2>2. PICK f \in [0..k -> Seq(S)] : Keeps(f, list, gone, k)
    BY <1>2, <2>1
  <2>3. PICK next \in Seq(S) : next = IF list[k + 1] \in gone THEN f[k] ELSE Append(f[k], list[k + 1])
    <3>1. f[k] \in Seq(S) /\ list[k + 1] \in S
      BY <2>1, ElementOfSeq
    <3> QED BY <3>1, AppendProperties
  <2>4. PICK g : g = [m \in 0..(k + 1) |-> IF m = k + 1 THEN next ELSE f[m]]
    OBVIOUS
  <2>5. g \in [0..(k + 1) -> Seq(S)]
    BY <2>4
  <2>6. /\ \A m \in 0..k : g[m] = f[m]
        /\ g[k + 1] = next
    BY <2>4
  <2>7. Keeps(g, list, gone, k + 1)
    <3>1. ASSUME NEW m \in 1..(k + 1)
          PROVE  g[m] = IF list[m] \in gone THEN g[m - 1] ELSE Append(g[m - 1], list[m])
      <4>1. CASE m = k + 1
        BY <2>3, <2>6, <4>1
      <4>2. CASE m # k + 1
        <5>1. m \in 1..k /\ m \in 0..k /\ m - 1 \in 0..k
          BY <4>2
        <5>2. f[m] = IF list[m] \in gone THEN f[m - 1] ELSE Append(f[m - 1], list[m])
          BY <2>2, <5>1 DEF Keeps
        <5>3. g[m] = f[m] /\ g[m - 1] = f[m - 1]
          BY <2>6, <5>1
        <5> QED BY <5>2, <5>3
      <4> QED BY <4>1, <4>2
    <3> QED BY <2>2, <2>6, <3>1 DEF Keeps
  <2> QED BY <2>5, <2>7
<1> HIDE DEF P
<1>3. Nat \subseteq P
  BY <1>1, <1>2, Induction
<1> QED
  BY <1>3 DEF P

\* The function of disconnect's loop, as its definition chooses it.
Kept(list, gone) ==
    CHOOSE kept : kept = [n \in 0..Len(list) |->
        IF n = 0 THEN <<>> ELSE IF list[n] \in gone THEN kept[n - 1] ELSE Append(kept[n - 1], list[n])]

LEMMA WithoutIsKept ==
  ASSUME NEW list, NEW gone
  PROVE  RT!Without(list, gone) = Kept(list, gone)[Len(list)]
BY DEF RT!Without, Kept

LEMMA WithoutKeeps ==
  ASSUME NEW S, NEW list \in Seq(S), NEW gone
  PROVE  /\ RT!Without(list, gone) = Kept(list, gone)[Len(list)]
         /\ Keeps(Kept(list, gone), list, gone, Len(list))
<1> DEFINE Is(g) == g = [n \in 0..Len(list) |->
               IF n = 0 THEN <<>> ELSE IF list[n] \in gone THEN g[n - 1] ELSE Append(g[n - 1], list[n])]
<1>0. Len(list) \in Nat /\ Len(list) \in 0..Len(list)
  OBVIOUS
<1>1. PICK f \in [0..Len(list) -> Seq(S)] : Keeps(f, list, gone, Len(list))
  BY <1>0, KeptExists
<1>2. Is(f)
  <2>1. \A n \in 0..Len(list) :
           f[n] = IF n = 0 THEN <<>> ELSE IF list[n] \in gone THEN f[n - 1] ELSE Append(f[n - 1], list[n])
    <3> SUFFICES ASSUME NEW n \in 0..Len(list)
        PROVE f[n] = IF n = 0 THEN <<>> ELSE IF list[n] \in gone THEN f[n - 1] ELSE Append(f[n - 1], list[n])
      OBVIOUS
    <3>1. CASE n = 0
      BY <1>1, <3>1 DEF Keeps
    <3>2. CASE n # 0
      <4>1. n \in 1..Len(list)
        BY <3>2, <1>0
      <4> QED BY <1>1, <3>2, <4>1 DEF Keeps
    <3> QED BY <3>1, <3>2
  <2> QED BY <2>1
<1>3. Kept(list, gone) = CHOOSE g : Is(g)
  BY DEF Kept
<1> HIDE DEF Is
<1>4. Is(Kept(list, gone))
  BY <1>2, <1>3
<1>5. Keeps(Kept(list, gone), list, gone, Len(list))
  <2>1. PICK k : k = Kept(list, gone)
    OBVIOUS
  <2>2. Is(k)
    BY <1>4, <2>1
  <2>3. \A n \in 0..Len(list) :
           k[n] = IF n = 0 THEN <<>> ELSE IF list[n] \in gone THEN k[n - 1] ELSE Append(k[n - 1], list[n])
    BY <2>2 DEF Is
  <2>4. k[0] = <<>>
    BY <2>3, <1>0
  <2>5. ASSUME NEW m \in 1..Len(list)
        PROVE  k[m] = IF list[m] \in gone THEN k[m - 1] ELSE Append(k[m - 1], list[m])
    <3>1. m \in 0..Len(list) /\ m # 0
      BY <1>0
    <3> QED BY <2>3, <3>1
  <2>6. Keeps(k, list, gone, Len(list))
    BY <2>4, <2>5 DEF Keeps
  <2> QED BY <2>1, <2>6
<1> QED
  BY <1>5, WithoutIsKept

-----------------------------------------------------------------------------
(* The connections in a room                                                *)

In(list) == {list[i] : i \in 1..Len(list)}
Once(list) == \A i, j \in 1..Len(list) : list[i] = list[j] => i = j

LEMMA ToSetIsIn ==
  ASSUME NEW S, NEW list \in Seq(S)
  PROVE  RT!ToSet(list) = In(list)
<1>1. DOMAIN list = 1..Len(list)
  OBVIOUS
<1> QED
  BY <1>1 DEF RT!ToSet, In

LEMMA AppendIn ==
  ASSUME NEW S, NEW list \in Seq(S), NEW x \in S
  PROVE  /\ Append(list, x) \in Seq(S)
         /\ In(Append(list, x)) = In(list) \cup {x}
         /\ Once(list) /\ x \notin In(list) => Once(Append(list, x))
<1>1. PICK longer : longer = Append(list, x)
  OBVIOUS
<1>2. /\ longer \in Seq(S) /\ Len(list) \in Nat
      /\ Len(longer) = Len(list) + 1
      /\ \A i \in 1..Len(list) : longer[i] = list[i]
      /\ longer[Len(list) + 1] = x
  BY <1>1, AppendProperties
<1>3. 1..Len(longer) = (1..Len(list)) \cup {Len(list) + 1}
  BY <1>2
<1>4. In(longer) = In(list) \cup {x}
  BY <1>2, <1>3 DEF In
<1>5. ASSUME Once(list), x \notin In(list) PROVE Once(longer)
  <2> SUFFICES ASSUME NEW i \in 1..Len(longer), NEW j \in 1..Len(longer), longer[i] = longer[j]
               PROVE  i = j
    BY DEF Once
  <2>1. CASE i \in 1..Len(list) /\ j \in 1..Len(list)
    BY <1>2, <1>5, <2>1 DEF Once
  <2>2. CASE i \in 1..Len(list) /\ j = Len(list) + 1
    BY <1>2, <1>5, <2>2 DEF In
  <2>3. CASE i = Len(list) + 1 /\ j \in 1..Len(list)
    BY <1>2, <1>5, <2>3 DEF In
  <2>4. CASE i = Len(list) + 1 /\ j = Len(list) + 1
    BY <2>4
  <2> QED BY <1>3, <2>1, <2>2, <2>3, <2>4
<1> QED
  BY <1>1, <1>2, <1>4, <1>5

\* Those that remain are the ones not removed, as often as before.
LEMMA WithoutIn ==
  ASSUME NEW S, NEW list \in Seq(S), NEW gone, Once(list)
  PROVE  /\ RT!Without(list, gone) \in Seq(S)
         /\ In(RT!Without(list, gone)) = In(list) \ gone
         /\ Once(RT!Without(list, gone))
<1>1. PICK kept : kept = Kept(list, gone)
  OBVIOUS
<1>2. Keeps(kept, list, gone, Len(list)) /\ RT!Without(list, gone) = kept[Len(list)]
  BY <1>1, WithoutKeeps
<1>3. Len(list) \in Nat /\ \A i \in 1..Len(list) : list[i] \in S
  BY ElementOfSeq
<1> DEFINE First(n) == {list[i] : i \in 1..n}
           Good(n) == kept[n] \in Seq(S) /\ In(kept[n]) = First(n) \ gone /\ Once(kept[n])
           P == {n \in Nat : n <= Len(list) => Good(n)}
<1>4. 0 \in P
  <2>1. kept[0] = <<>> /\ First(0) = {} /\ In(<<>>) = {} /\ Once(<<>>) /\ <<>> \in Seq(S)
    BY <1>2 DEF Keeps, In, Once
  <2> QED BY <2>1
<1>5. ASSUME NEW n \in Nat, n \in P PROVE n + 1 \in P
  <2> SUFFICES ASSUME n + 1 <= Len(list) PROVE Good(n + 1)
    OBVIOUS
  <2>1. n <= Len(list) /\ n + 1 \in 1..Len(list) /\ (n + 1) - 1 = n
    BY <1>3
  <2>2. Good(n)
    BY <1>5, <2>1
  <2>3. PICK x \in S : x = list[n + 1]
    BY <1>3, <2>1
  <2>4. kept[n + 1] = IF x \in gone THEN kept[n] ELSE Append(kept[n], x)
    BY <1>2, <2>1, <2>3 DEF Keeps
  <2>5. First(n + 1) = First(n) \cup {x}
    <3>1. 1..(n + 1) = (1..n) \cup {n + 1}
      OBVIOUS
    <3> QED BY <2>3, <3>1
  <2>6. x \notin First(n)
    <3> SUFFICES ASSUME NEW i \in 1..n, list[i] = x PROVE FALSE
      OBVIOUS
    <3>1. i \in 1..Len(list) /\ i # n + 1
      BY <2>1, <1>3
    <3> QED BY <2>1, <2>3, <3>1 DEF Once
  <2> HIDE DEF First
  <2>7. CASE x \in gone
    BY <2>2, <2>4, <2>5, <2>7
  <2>8. CASE x \notin gone
    <3>1. PICK some \in Seq(S) : some = kept[n]
      BY <2>2
    <3>2. x \notin In(some) /\ Once(some) /\ In(some) = First(n) \ gone
      BY <2>2, <2>6, <3>1
    <3>3. PICK more : more = Append(some, x)
      OBVIOUS
    <3>4. more \in Seq(S) /\ In(more) = In(some) \cup {x} /\ Once(more)
      BY <3>2, <3>3, AppendIn
    <3>5. In(more) = First(n + 1) \ gone
      BY <2>5, <2>8, <3>2, <3>4
    <3>6. kept[n + 1] = more
      BY <2>4, <2>8, <3>1, <3>3
    <3> QED BY <3>4, <3>5, <3>6
  <2> QED BY <2>7, <2>8
<1>6. Nat \subseteq P
  <2> HIDE DEF P
  <2> QED BY <1>4, <1>5, Induction
<1>7. First(Len(list)) = In(list)
  BY DEF In
<1>8. Good(Len(list))
  <2>1. Len(list) \in P
    <3> HIDE DEF P
    <3> QED BY <1>3, <1>6
  <2> HIDE DEF Good
  <2> QED BY <1>3, <2>1
<1> QED
  BY <1>2, <1>7, <1>8

\* Without repetitions a list is no longer than the set it is over.
LEMMA OnceFits ==
  ASSUME NEW S, IsFiniteSet(S), NEW list \in Seq(S), Once(list)
  PROVE  Len(list) <= Cardinality(S)
<1>1. Len(list) \in Nat /\ list \in [1..Len(list) -> S]
  OBVIOUS
<1>2. IsFiniteSet(1..Len(list)) /\ Cardinality(1..Len(list)) = Len(list)
  BY <1>1, FS_Interval
<1>3. Cardinality(S) \in Nat
  BY FS_CardinalityType
<1> SUFFICES ASSUME Cardinality(S) < Cardinality(1..Len(list)) PROVE FALSE
  BY <1>1, <1>2, <1>3
<1>4. \E i, j \in 1..Len(list) : i # j /\ list[i] = list[j]
  BY <1>1, <1>2, FS_PigeonHole
<1> QED
  BY <1>4 DEF Once

-----------------------------------------------------------------------------
(* The inductive invariant                                                  *)

Last == IF pointer = 0 THEN since ELSE pointer

\* The tail reads after what it took last, and holds what follows it.
Follows ==
    /\ tail = "reading" /\ pointer # 0 => since = pointer
    /\ tail \in {"working", "sending"} => \A i \in 1..Len(batch) : batch[i] = Last + i

\* The room has every open connection, and each once; the dead are not open.
Members ==
    /\ Once(room)
    /\ \A c \in In(room) \cup dead : socket[c] # "new"
    /\ \A c \in Clients : socket[c] = "open" => c \in In(room)
    /\ \A c \in dead : socket[c] # "open"

\* What was handed out of a room that nobody left is its beginning, and those
\* of it that are open have got the entry, but for the one it is being sent to.
Reached ==
    /\ attached /\ cursor \in 1..Len(room) /\ room[cursor] = target
    /\ \A i \in 1..Len(room) : i < cursor /\ socket[room[i]] = "open" =>
           pointer \in In(delivered[room[i]])

Walk ==
    /\ cursor <= Cardinality(Clients)
    /\ RT!Sending => socket[target] # "new" /\ pointer # 0
    /\ RT!Sending /\ ~departed => Reached

RealtimeInv == RT!TypeOK /\ Follows /\ Members /\ Walk

LEMMA ClientsCounted ==
  ASSUME ServicesAssumption
  PROVE  /\ RT!Cardinality(Clients) = Cardinality(Clients) /\ Cardinality(Clients) \in Nat
         /\ \A list \in Seq(Clients) : Once(list) => Len(list) <= Cardinality(Clients)
<1>1. IsFiniteSet(Clients)
  BY DEF ServicesAssumption
<1>2. RT!Cardinality(Clients) = Cardinality(Clients)
  BY DEF RT!Cardinality, Cardinality
<1> QED
  BY <1>1, <1>2, FS_CardinalityType, OnceFits

LEMMA RealtimeStarts == ServicesAssumption /\ RT!Init => RealtimeInv
<1> SUFFICES ASSUME ServicesAssumption, RT!Init PROVE RealtimeInv
  OBVIOUS
<1> USE DEF RT!Init
<1>1. RT!TypeOK
  <2>1. stream \in Seq({"envelope", "payload"}) /\ batch \in Seq(1..Len(stream)) /\ room \in Seq(Clients)
    OBVIOUS
  <2>2. pointer \in 0..Len(stream) /\ since \in 0..Len(stream)
    OBVIOUS
  <2>3. cursor \in 0..Len(room) + RT!Cardinality(Clients)
    BY ClientsCounted
  <2>4. delivered \in [Clients -> Seq(1..Len(stream))]
    OBVIOUS
  <2> QED BY <2>1, <2>2, <2>3, <2>4 DEF RT!TypeOK
<1>2. Follows /\ Members
  BY DEF Follows, Members, Once, In
<1>3. Walk
  BY ClientsCounted DEF Walk, RT!Sending
<1> QED
  BY <1>1, <1>2, <1>3 DEF RealtimeInv

-----------------------------------------------------------------------------
(* The tail                                                                 *)

LEMMA FollowsKept ==
  ASSUME RealtimeInv, RT!Next
  PROVE  Follows' /\ (pointer' # pointer /\ pointer # 0 => pointer' = pointer + 1)
<1> USE DEF Follows, Last
<1>0. /\ pointer \in Nat /\ since \in Nat /\ Len(stream) \in Nat
      /\ batch \in Seq(1..Len(stream)) /\ Follows
  BY DEF RealtimeInv, RT!TypeOK
<1>1. CASE RT!Read
  BY <1>0, <1>1 DEF RT!Read
<1>2. CASE RT!Receive
  <2>0. PICK n \in 1..ReadCount : batch' = [i \in 1..n |-> since + i]
    BY <1>2 DEF RT!Receive
  <2>1. \A i \in 1..Len(batch') : batch'[i] = since + i
    BY <2>0, ServicesAssumption
  <2>2. tail = "reading" /\ tail' = "working" /\ UNCHANGED <<pointer, since>>
    BY <1>2 DEF RT!Receive
  <2>3. Last' = since
    BY <1>0, <2>2
  <2> QED BY <2>1, <2>2, <2>3
<1>3. CASE RT!ReadEnds \/ RT!BatchDone \/ RT!Stop
  BY <1>0, <1>3 DEF RT!ReadEnds, RT!BatchDone, RT!Stop
<1>4. CASE RT!TakeUnread \/ RT!TakeUnknown \/ RT!TakeAndBroadcast
  <2>0. RT!Take /\ tail' \in {"working", "sending"}
    BY <1>4 DEF RT!TakeUnread, RT!TakeUnknown, RT!TakeAndBroadcast, RT!Take
  <2>1. tail = "working" /\ batch # <<>> /\ pointer' = Head(batch) /\ batch' = Tail(batch)
    BY <2>0 DEF RT!Take
  <2>2. /\ Len(batch) \in Nat \ {0} /\ Head(batch) = batch[1]
        /\ Len(batch') = Len(batch) - 1
        /\ \A i \in 1..Len(batch') : batch'[i] = batch[i + 1]
    BY <1>0, <2>1, HeadTailProperties
  <2>3. pointer' = Last + 1
    <3>1. 1 \in 1..Len(batch)
      BY <2>2
    <3> QED BY <1>0, <2>1, <2>2, <3>1
  <2>4. Last' = pointer' /\ Last \in Nat
    BY <1>0, <2>3
  <2>5. \A i \in 1..Len(batch') : batch'[i] = Last' + i
    <3> SUFFICES ASSUME NEW i \in 1..Len(batch') PROVE batch'[i] = Last' + i
      OBVIOUS
    <3>1. i \in Nat /\ i + 1 \in 1..Len(batch)
      BY <2>2
    <3>2. batch[i + 1] = Last + (i + 1)
      BY <1>0, <2>1, <3>1
    <3> HIDE DEF Last
    <3> QED BY <2>2, <2>3, <2>4, <3>1, <3>2
  <2>6. pointer # 0 => pointer' = pointer + 1
    BY <2>3
  <2> QED BY <2>0, <2>5, <2>6
<1>5. CASE RT!Send \/ RT!SendFails
  BY <1>0, <1>5 DEF RT!Send, RT!SendFails, RT!Onward, RT!Sending
<1>6. ASSUME NEW c \in Clients, RT!Connect(c) \/ RT!Leave(c) \/ RT!Drop(c)
      PROVE  UNCHANGED <<tail, since, batch, pointer>>
  BY <1>6 DEF RT!Connect, RT!Leave, RT!Drop, RT!tailVars
<1>7. CASE RT!Write
  BY <1>0, <1>7 DEF RT!Write, RT!tailVars
<1> QED
  BY <1>0, <1>1, <1>2, <1>3, <1>4, <1>5, <1>6, <1>7 DEF RT!Next

-----------------------------------------------------------------------------
(* The room and the broadcast                                               *)

\* What the walk's next step leaves, wherever in the room it is.
LEMMA OnwardKeeps ==
  ASSUME ServicesAssumption, RealtimeInv, RT!Sending, RT!Onward
  PROVE  /\ room' \in Seq(Clients) /\ Once(room')
         /\ In(room') \subseteq In(room) /\ In(room) \ dead' \subseteq In(room')
         /\ target' \in Clients /\ cursor' \in Nat /\ cursor' <= Cardinality(Clients)
         /\ attached' \in BOOLEAN
         /\ tail' \in {"sending", "working"} /\ (tail' = "sending" => target' \in In(room))
<1>0. /\ room \in Seq(Clients) /\ Once(room) /\ cursor \in Nat /\ cursor <= Cardinality(Clients)
      /\ attached \in BOOLEAN /\ target \in Clients /\ tail = "sending"
      /\ Cardinality(Clients) \in Nat /\ Len(room) \in Nat
  BY ClientsCounted DEF RealtimeInv, RT!TypeOK, Members, Walk, RT!Sending
<1>1. CASE cursor < Len(RT!Walked)
  <2>1. /\ target' = RT!Walked[cursor + 1] /\ cursor' = cursor + 1
        /\ UNCHANGED <<tail, room, attached>>
    BY <1>1 DEF RT!Onward
  <2>2. attached /\ RT!Walked = room
    BY <1>0, <1>1 DEF RT!Walked
  <2>3. cursor + 1 \in 1..Len(room) /\ room[cursor + 1] \in Clients
    BY <1>0, <1>1, <2>2, ElementOfSeq
  <2>4. Len(room) <= Cardinality(Clients)
    BY <1>0, ClientsCounted
  <2>5. target' \in In(room) /\ target' \in Clients
    BY <2>1, <2>2, <2>3 DEF In
  <2>6. cursor' \in Nat /\ cursor' <= Cardinality(Clients)
    BY <1>0, <2>1, <2>3, <2>4
  <2> QED BY <1>0, <2>1, <2>5, <2>6
<1>2. CASE ~(cursor < Len(RT!Walked))
  <2>1. /\ tail' = "working" /\ attached' = FALSE /\ room' = RT!Without(room, dead')
        /\ UNCHANGED <<target, cursor>>
    BY <1>2 DEF RT!Onward
  <2>2. /\ room' \in Seq(Clients) /\ Once(room')
        /\ In(room') = In(room) \ dead'
    BY <1>0, <2>1, WithoutIn
  <2> QED BY <1>0, <2>1, <2>2
<1> QED
  BY <1>1, <1>2

LEMMA LeaveRemoves ==
  ASSUME RealtimeInv, NEW c \in Clients, RT!Leave(c)
  PROVE  /\ room' \in Seq(Clients) /\ Once(room') /\ In(room') = In(room) \ {c}
<1>1. room \in Seq(Clients) /\ Once(room) /\ room' = RT!Without(room, {c})
  BY DEF RealtimeInv, RT!TypeOK, Members, RT!Leave
<1> QED
  BY <1>1, WithoutIn

LEMMA ConnectAdds ==
  ASSUME RealtimeInv, NEW c \in Clients, RT!Connect(c)
  PROVE  /\ room' \in Seq(Clients) /\ Once(room') /\ In(room') = In(room) \cup {c}
         /\ c \notin In(room)
<1>1. room \in Seq(Clients) /\ Once(room) /\ room' = Append(room, c) /\ c \notin In(room)
  BY DEF RealtimeInv, RT!TypeOK, Members, RT!Connect
<1> QED
  BY <1>1, AppendIn

\* No step takes an open connection out of the room.
LEMMA MembersKept ==
  ASSUME ServicesAssumption, RealtimeInv, RT!Next
  PROVE  Members'
<1>0. Members /\ socket \in [Clients -> {"new", "open", "dropped", "closed"}] /\ dead \subseteq Clients
      /\ In(room) \subseteq Clients
  <2>1. room \in Seq(Clients)
    BY DEF RealtimeInv, RT!TypeOK
  <2>2. In(room) \subseteq Clients
    BY <2>1, ElementOfSeq DEF In
  <2> QED BY <2>2 DEF RealtimeInv, RT!TypeOK
<1>1. CASE UNCHANGED <<room, socket>> /\ dead' \in {dead, {}}
  BY <1>0, <1>1 DEF Members, In, Once
<1>2. ASSUME NEW c \in Clients, RT!Connect(c)
      PROVE  Members'
  <2>1. socket' = [socket EXCEPT ![c] = "open"] /\ dead' = dead /\ socket[c] = "new"
    BY <1>2 DEF RT!Connect, RT!loop
  <2>2. Once(room') /\ In(room') = In(room) \cup {c}
    BY <1>2, ConnectAdds
  <2> QED BY <1>0, <2>1, <2>2 DEF Members
<1>3. ASSUME NEW c \in Clients, RT!Leave(c)
      PROVE  Members'
  <2>1. socket' = [socket EXCEPT ![c] = "closed"] /\ dead' = dead
    BY <1>3 DEF RT!Leave
  <2>2. Once(room') /\ In(room') = In(room) \ {c}
    BY <1>3, LeaveRemoves
  <2> QED BY <1>0, <2>1, <2>2 DEF Members
<1>4. ASSUME NEW c \in Clients, RT!Drop(c)
      PROVE  Members'
  <2>1. socket' = [socket EXCEPT ![c] = "dropped"] /\ UNCHANGED <<room, dead>>
    BY <1>4 DEF RT!Drop, RT!loop
  <2>2. Once(room') /\ In(room') = In(room)
    BY <1>0, <2>1 DEF Members
  <2> QED BY <1>0, <2>1, <2>2 DEF Members
<1>5. CASE RT!Send \/ RT!SendFails
  <2>1. RT!Sending /\ RT!Onward /\ socket' = socket
    BY <1>5 DEF RT!Send, RT!SendFails
  <2>2. dead' = dead \/ (dead' = dead \cup {target} /\ socket[target] # "open")
    <3>1. CASE RT!Send
      BY <3>1 DEF RT!Send
    <3>2. CASE RT!SendFails
      BY <3>2 DEF RT!SendFails
    <3> QED BY <1>5, <3>1, <3>2
  <2>3. socket[target] # "new"
    BY <2>1 DEF RealtimeInv, Walk
  <2>4. Once(room') /\ In(room') \subseteq In(room) /\ In(room) \ dead' \subseteq In(room')
    BY <2>1, OnwardKeeps
  <2> QED BY <1>0, <2>1, <2>2, <2>3, <2>4 DEF Members
<1>6. CASE RT!Read \/ RT!Receive \/ RT!ReadEnds \/ RT!BatchDone \/ RT!TakeUnread \/ RT!TakeUnknown \/ RT!Stop \/ RT!Write
  BY <1>1, <1>6 DEF RT!Read, RT!Receive, RT!ReadEnds, RT!BatchDone, RT!TakeUnread, RT!TakeUnknown, RT!Stop, RT!Write, RT!loop
<1>7. CASE RT!TakeAndBroadcast
  BY <1>1, <1>7 DEF RT!TakeAndBroadcast
<1> QED
  BY <1>2, <1>3, <1>4, <1>5, <1>6, <1>7 DEF RT!Next

\* A broadcast goes on from one connection to the next, and the end of the room
\* is the end of the broadcast.
LEMMA StepReaches ==
  ASSUME ServicesAssumption, RealtimeInv, ~departed, RT!Send \/ RT!SendFails
  PROVE  /\ tail' = "sending" => Reached'
         /\ tail' = "working" => \A c \in Clients : socket[c] = "open" => pointer \in In(delivered'[c])
<1>0. /\ room \in Seq(Clients) /\ cursor \in Nat /\ Len(room) \in Nat /\ target \in Clients
      /\ delivered \in [Clients -> Seq(1..Len(stream))]
      /\ pointer \in 0..Len(stream)
      /\ \A i \in 1..Len(room) : room[i] \in Clients
  BY ElementOfSeq DEF RealtimeInv, RT!TypeOK
<1>1. RT!Sending /\ RT!Onward /\ UNCHANGED <<socket, pointer>> /\ tail = "sending"
  BY DEF RT!Send, RT!SendFails, RT!Sending
<1>2. /\ attached /\ cursor \in 1..Len(room) /\ room[cursor] = target
      /\ \A i \in 1..Len(room) : i < cursor /\ socket[room[i]] = "open" => pointer \in In(delivered[room[i]])
  BY <1>1 DEF RealtimeInv, Walk, Reached
<1>3. /\ \A c \in Clients : pointer \in In(delivered[c]) => pointer \in In(delivered'[c])
      /\ socket[target] = "open" => pointer \in In(delivered'[target])
  <2>1. CASE RT!Send
    <3>1. delivered' = [delivered EXCEPT ![target] = Append(delivered[target], pointer)]
      BY <2>1 DEF RT!Send
    <3>2. PICK sent : sent = delivered[target]
      OBVIOUS
    <3>3. sent \in Seq(Nat) /\ pointer \in Nat
      BY <1>0, <3>2
    <3>4. In(Append(sent, pointer)) = In(sent) \cup {pointer}
      BY <3>3, AppendIn
    <3>5. delivered'[target] = Append(sent, pointer) /\ \A c \in Clients \ {target} : delivered'[c] = delivered[c]
      BY <1>0, <3>1, <3>2
    <3> QED BY <3>2, <3>4, <3>5
  <2>2. CASE RT!SendFails
    BY <2>2 DEF RT!SendFails
  <2> QED BY <2>1, <2>2
<1>4. \A i \in 1..Len(room) : i <= cursor /\ socket[room[i]] = "open" => pointer \in In(delivered'[room[i]])
  <2> SUFFICES ASSUME NEW i \in 1..Len(room), i <= cursor, socket[room[i]] = "open"
               PROVE  pointer \in In(delivered'[room[i]])
    OBVIOUS
  <2>1. CASE i = cursor
    BY <1>2, <1>3, <2>1
  <2>2. CASE i < cursor
    BY <1>0, <1>2, <1>3, <2>2
  <2> QED BY <1>0, <2>1, <2>2
<1>5. RT!Walked = room
  BY <1>2 DEF RT!Walked
<1>6. CASE cursor < Len(room)
  <2>0. cursor < Len(RT!Walked)
    BY <1>5, <1>6
  <2>1. target' = room[cursor + 1] /\ cursor' = cursor + 1 /\ UNCHANGED <<tail, room, attached>>
    <3>1. target' = RT!Walked[cursor + 1] /\ cursor' = cursor + 1 /\ UNCHANGED <<tail, room, attached>>
      BY <1>1, <2>0 DEF RT!Onward
    <3> QED BY <1>5, <3>1
  <2>2. \A i \in 1..Len(room) : i < cursor' => i <= cursor
    BY <1>0, <2>1
  <2>3. cursor' \in 1..Len(room) /\ room[cursor'] = target'
    BY <1>0, <1>6, <2>1
  <2>4. Reached'
    BY <1>1, <1>2, <1>4, <2>1, <2>2, <2>3 DEF Reached
  <2> QED BY <1>1, <2>1, <2>4
<1>7. CASE ~(cursor < Len(room))
  <2>0. ~(cursor < Len(RT!Walked))
    BY <1>5, <1>7
  <2>1. tail' = "working"
    BY <1>1, <2>0 DEF RT!Onward
  <2>2. \A i \in 1..Len(room) : i <= cursor
    BY <1>0, <1>7
  <2>3. \A c \in Clients : socket[c] = "open" => \E i \in 1..Len(room) : c = room[i]
    BY DEF RealtimeInv, Members, In
  <2> QED BY <1>4, <2>1, <2>2, <2>3
<1> QED
  BY <1>6, <1>7

LEMMA WalkKept ==
  ASSUME ServicesAssumption, RealtimeInv, RT!Next
  PROVE  Walk'
<1>0. /\ room \in Seq(Clients) /\ Len(room) \in Nat /\ cursor \in Nat /\ Cardinality(Clients) \in Nat
      /\ socket \in [Clients -> {"new", "open", "dropped", "closed"}] /\ target \in Clients
      /\ departed \in BOOLEAN
      /\ Members /\ Walk /\ \A i \in 1..Len(room) : room[i] \in Clients
  BY ElementOfSeq, ClientsCounted DEF RealtimeInv, RT!TypeOK
<1>1. CASE RT!Read \/ RT!Receive \/ RT!ReadEnds \/ RT!BatchDone \/ RT!TakeUnread \/ RT!TakeUnknown \/ RT!Stop
  <2>1. cursor' = cursor /\ tail' # "sending"
    BY <1>1 DEF RT!Read, RT!Receive, RT!ReadEnds, RT!BatchDone, RT!TakeUnread, RT!TakeUnknown, RT!Stop, RT!loop, RT!Take
  <2> QED BY <1>0, <2>1 DEF Walk, RT!Sending
<1>2. CASE RT!Write
  <2>1. UNCHANGED <<pointer, tail, target, cursor, attached, room, socket, delivered, departed>>
    BY <1>2 DEF RT!Write, RT!tailVars, RT!loop
  <2> QED BY <1>0, <2>1 DEF Walk, RT!Sending, Reached, In
<1>3. CASE RT!TakeAndBroadcast
  <2>1. CASE room = <<>>
    BY <1>0, <1>3, <2>1 DEF RT!TakeAndBroadcast, RT!Take, Walk, RT!Sending
  <2>2. CASE room # <<>>
    <3>1. /\ tail' = "sending" /\ target' = Head(room) /\ cursor' = 1 /\ attached' = TRUE
          /\ room' = room /\ socket' = socket
      BY <1>3, <2>2 DEF RT!TakeAndBroadcast
    <3>2. 1 \in 1..Len(room) /\ Head(room) = room[1] /\ room[1] \in In(room)
      BY <1>0, <2>2 DEF In
    <3>3. socket[target'] # "new"
      BY <1>0, <3>1, <3>2 DEF Members
    <3>4. 1 <= Cardinality(Clients)
      <4>1. Len(room) <= Cardinality(Clients)
        BY <1>0, ClientsCounted DEF Members
      <4> QED BY <1>0, <3>2, <4>1
    <3>5. Reached'
      <4>1. \A i \in 1..Len(room) : ~(i < 1)
        BY <1>0
      <4> QED BY <3>1, <3>2, <4>1 DEF Reached
    <3>6. pointer' # 0
      <4>1. batch \in Seq(1..Len(stream)) /\ batch # <<>> /\ pointer' = Head(batch)
        BY <1>3 DEF RT!TakeAndBroadcast, RT!Take, RealtimeInv, RT!TypeOK
      <4>2. Head(batch) \in 1..Len(stream)
        BY <4>1, HeadTailProperties
      <4> QED BY <4>1, <4>2
    <3> QED BY <3>1, <3>3, <3>4, <3>5, <3>6 DEF Walk
  <2> QED BY <2>1, <2>2
<1>4. CASE RT!Send \/ RT!SendFails
  <2>1. RT!Sending /\ RT!Onward /\ UNCHANGED <<pointer, socket, departed>>
    BY <1>4 DEF RT!Send, RT!SendFails
  <2>2. /\ cursor' \in Nat /\ cursor' <= Cardinality(Clients)
        /\ tail' \in {"sending", "working"} /\ (tail' = "sending" => target' \in In(room))
    BY <2>1, OnwardKeeps
  <2>3. ~departed => (tail' = "sending" => Reached')
    BY <1>4, StepReaches
  <2> QED BY <1>0, <2>1, <2>2, <2>3 DEF Walk, RT!Sending, Members
<1>5. ASSUME NEW c \in Clients, RT!Connect(c)
      PROVE  Walk'
  <2>1. /\ UNCHANGED <<tail, pointer, target, cursor, attached, delivered, departed>>
        /\ socket' = [socket EXCEPT ![c] = "open"] /\ room' = Append(room, c)
        /\ socket[c] = "new"
    BY <1>5 DEF RT!Connect, RT!tailVars, RT!loop
  <2>2. /\ Len(room') = Len(room) + 1
        /\ \A i \in 1..Len(room) : room'[i] = room[i]
    BY <1>0, <2>1, AppendProperties
  <2>3. \A d \in In(room) : d # c /\ socket'[d] = socket[d]
    <3>1. \A d \in In(room) : d \in Clients /\ socket[d] # "new"
      BY <1>0 DEF In, Members
    <3> QED BY <1>0, <2>1, <3>1
  <2>4. ASSUME RT!Sending, Reached
        PROVE  Reached'
    <3>1. cursor \in 1..Len(room') /\ cursor <= Len(room)
      BY <1>0, <2>2, <2>4 DEF Reached
    <3>2. \A i \in 1..Len(room') : i < cursor => i \in 1..Len(room)
      BY <1>0, <2>2, <3>1
    <3>3. \A i \in 1..Len(room) : room[i] \in In(room)
      BY DEF In
    <3> QED BY <2>1, <2>2, <2>3, <2>4, <3>1, <3>2, <3>3 DEF Reached, In
  <2> QED BY <1>0, <2>1, <2>4 DEF Walk, RT!Sending
<1>6. ASSUME NEW c \in Clients, RT!Drop(c)
      PROVE  Walk'
  <2>1. /\ UNCHANGED <<tail, pointer, target, cursor, attached, room, delivered, departed>>
        /\ socket' = [socket EXCEPT ![c] = "dropped"]
    BY <1>6 DEF RT!Drop, RT!tailVars, RT!loop
  <2> QED BY <1>0, <2>1 DEF Walk, RT!Sending, Reached, In
<1>7. ASSUME NEW c \in Clients, RT!Leave(c)
      PROVE  Walk'
  <2>1. /\ UNCHANGED <<tail, pointer, target, cursor, delivered>>
        /\ socket' = [socket EXCEPT ![c] = "closed"]
        /\ attached' = (attached /\ room' # <<>>)
        /\ departed' = (departed \/ (RT!Sending /\ room' # room))
    BY <1>7 DEF RT!Leave, RT!tailVars
  <2>2. ASSUME RT!Sending, ~departed'
        PROVE  Reached'
    <3>1. room' = room /\ ~departed
      BY <2>1, <2>2
    <3>2. Reached /\ room # <<>>
      BY <1>0, <2>2, <3>1 DEF Walk, Reached
    <3>3. attached' = attached
      BY <2>1, <3>1, <3>2 DEF Reached
    <3> QED BY <1>0, <2>1, <3>1, <3>2, <3>3 DEF Reached, In
  <2> QED BY <1>0, <2>1, <2>2 DEF Walk, RT!Sending
<1> QED
  BY <1>1, <1>2, <1>3, <1>4, <1>5, <1>6, <1>7 DEF RT!Next

LEMMA FeedTypesKept ==
  ASSUME ServicesAssumption, RealtimeInv, RT!Next
  PROVE  RT!TypeOK'
<1>0. /\ stream \in Seq({"envelope", "payload"}) /\ Len(stream) \in Nat
      /\ pointer \in 0..Len(stream) /\ since \in 0..Len(stream)
      /\ tail \in {"idle", "reading", "working", "sending", "stopped"}
      /\ batch \in Seq(1..Len(stream)) /\ room \in Seq(Clients) /\ dead \subseteq Clients
      /\ target \in Clients /\ cursor \in Nat
      /\ attached \in BOOLEAN /\ departed \in BOOLEAN
      /\ socket \in [Clients -> {"new", "open", "dropped", "closed"}]
      /\ delivered \in [Clients -> Seq(1..Len(stream))]
      /\ Walk
  BY ClientsCounted DEF RealtimeInv, RT!TypeOK
\* The cursor is where Walk says.
<1>1. ASSUME room' \in Seq(Clients), cursor' \in Nat
      PROVE  cursor' \in 0..Len(room') + RT!Cardinality(Clients)
  <2>1. cursor' <= Cardinality(Clients)
    BY WalkKept DEF Walk
  <2>2. Len(room') \in Nat
    BY <1>1
  <2> QED BY <1>1, <2>1, <2>2, ClientsCounted
<1>2. CASE RT!Read \/ RT!ReadEnds \/ RT!BatchDone \/ RT!Stop
  BY <1>0, <1>1, <1>2 DEF RT!Read, RT!ReadEnds, RT!BatchDone, RT!Stop, RT!loop, RT!TypeOK
<1>3. CASE RT!Receive
  <2>1. batch' \in Seq(1..Len(stream))
    <3>1. PICK n \in 1..ReadCount : n <= Len(stream) - since /\ batch' = [i \in 1..n |-> since + i]
      BY <1>3 DEF RT!Receive
    <3>2. n \in Nat /\ \A i \in 1..n : since + i \in 1..Len(stream)
      BY <1>0, <3>1, ServicesAssumption
    <3> QED BY <3>1, <3>2
  <2> QED BY <1>0, <1>1, <1>3, <2>1 DEF RT!Receive, RT!loop, RT!TypeOK
<1>4. CASE RT!TakeUnread \/ RT!TakeUnknown \/ RT!TakeAndBroadcast
  <2>1. RT!Take
    BY <1>4 DEF RT!TakeUnread, RT!TakeUnknown, RT!TakeAndBroadcast
  <2>2. pointer' \in 1..Len(stream) /\ batch' \in Seq(1..Len(stream))
    BY <1>0, <2>1, HeadTailProperties DEF RT!Take
  <2>3. UNCHANGED <<stream, since, room, socket, delivered>>
    BY <1>4 DEF RT!TakeUnread, RT!TakeUnknown, RT!TakeAndBroadcast
  <2>4. /\ tail' \in {"working", "sending"} /\ dead' \subseteq Clients /\ target' \in Clients
        /\ cursor' \in Nat /\ attached' \in BOOLEAN /\ departed' \in BOOLEAN
    <3>1. CASE RT!TakeUnread \/ RT!TakeUnknown
      BY <1>0, <3>1 DEF RT!TakeUnread, RT!TakeUnknown, RT!Take, RT!loop
    <3>2. CASE RT!TakeAndBroadcast /\ room = <<>>
      BY <1>0, <3>2 DEF RT!TakeAndBroadcast, RT!Take
    <3>3. CASE RT!TakeAndBroadcast /\ room # <<>>
      <4>1. Head(room) \in Clients
        BY <1>0, <3>3, HeadTailProperties
      <4>2. /\ tail' = "sending" /\ target' = Head(room) /\ cursor' = 1 /\ attached' = TRUE
            /\ dead' = {} /\ departed' = FALSE
        BY <3>3 DEF RT!TakeAndBroadcast
      <4> QED BY <4>1, <4>2
    <3> QED BY <1>4, <3>1, <3>2, <3>3
  <2> QED BY <1>0, <1>1, <2>2, <2>3, <2>4 DEF RT!TypeOK
<1>5. CASE RT!Send \/ RT!SendFails
  <2>1. RT!Sending /\ RT!Onward /\ UNCHANGED <<stream, since, batch, pointer, socket, departed>>
    BY <1>5 DEF RT!Send, RT!SendFails
  <2>2. dead' \subseteq Clients
    BY <1>0, <1>5 DEF RT!Send, RT!SendFails
  <2>3. delivered' \in [Clients -> Seq(1..Len(stream))]
    <3>1. CASE RT!SendFails
      BY <1>0, <3>1 DEF RT!SendFails
    <3>2. CASE RT!Send
      <4>1. delivered' = [delivered EXCEPT ![target] = Append(delivered[target], pointer)]
        BY <3>2 DEF RT!Send
      <4>2. pointer \in 1..Len(stream)
        BY <1>0, <2>1 DEF Walk
      <4>3. Append(delivered[target], pointer) \in Seq(1..Len(stream))
        BY <1>0, <4>2, AppendProperties
      <4> QED BY <1>0, <4>1, <4>3
    <3> QED BY <1>5, <3>1, <3>2
  <2>4. /\ room' \in Seq(Clients) /\ target' \in Clients /\ cursor' \in Nat
        /\ attached' \in BOOLEAN /\ tail' \in {"sending", "working"}
    BY <2>1, OnwardKeeps
  <2> QED BY <1>0, <1>1, <2>1, <2>2, <2>3, <2>4 DEF RT!TypeOK
<1>6. CASE RT!Write
  <2>1. PICK field \in {"envelope", "payload"} : stream' = Append(stream, field)
    BY <1>6 DEF RT!Write
  <2>2. stream' \in Seq({"envelope", "payload"}) /\ Len(stream') = Len(stream) + 1
    BY <1>0, <2>1, AppendProperties
  <2>3. 0..Len(stream) \subseteq 0..Len(stream') /\ 1..Len(stream) \subseteq 1..Len(stream')
    BY <1>0, <2>2
  <2>4. Seq(1..Len(stream)) \subseteq Seq(1..Len(stream'))
    <3> SUFFICES ASSUME NEW s \in Seq(1..Len(stream)) PROVE s \in Seq(1..Len(stream'))
      OBVIOUS
    <3>1. Len(s) \in Nat /\ s \in [1..Len(s) -> 1..Len(stream)]
      OBVIOUS
    <3>2. s \in [1..Len(s) -> 1..Len(stream')]
      BY <2>3, <3>1
    <3> QED BY <3>1, <3>2
  <2>5. UNCHANGED <<tail, since, batch, pointer, target, cursor, attached, dead, room, socket, delivered, departed>>
    BY <1>6 DEF RT!Write, RT!tailVars, RT!loop
  <2> QED BY <1>0, <1>1, <2>2, <2>3, <2>4, <2>5 DEF RT!TypeOK
<1>7. ASSUME NEW c \in Clients, RT!Connect(c)
      PROVE  RT!TypeOK'
  <2>1. room' \in Seq(Clients)
    BY <1>7, ConnectAdds
  <2> QED BY <1>0, <1>1, <1>7, <2>1 DEF RT!Connect, RT!tailVars, RT!loop, RT!TypeOK
<1>8. ASSUME NEW c \in Clients, RT!Leave(c)
      PROVE  RT!TypeOK'
  <2>1. room' \in Seq(Clients)
    BY <1>8, LeaveRemoves
  <2>2. attached' \in BOOLEAN /\ departed' \in BOOLEAN
    BY <1>0, <1>8 DEF RT!Leave
  <2> QED BY <1>0, <1>1, <1>8, <2>1, <2>2 DEF RT!Leave, RT!tailVars, RT!TypeOK
<1>9. ASSUME NEW c \in Clients, RT!Drop(c)
      PROVE  RT!TypeOK'
  BY <1>0, <1>1, <1>9 DEF RT!Drop, RT!tailVars, RT!loop, RT!TypeOK
<1> QED
  BY <1>2, <1>3, <1>4, <1>5, <1>6, <1>7, <1>8, <1>9 DEF RT!Next

LEMMA RealtimeKept ==
  ASSUME ServicesAssumption, RealtimeInv, [RT!Next]_realtime
  PROVE  RealtimeInv'
<1>1. CASE UNCHANGED realtime
  BY <1>1 DEF RealtimeInv, RT!TypeOK, Follows, Last, Members, Walk, Reached, RT!Sending, In, Once, realtime
<1>2. CASE RT!Next
  BY <1>2, FeedTypesKept, FollowsKept, MembersKept, WalkKept DEF RealtimeInv
<1> QED
  BY <1>1, <1>2

-----------------------------------------------------------------------------
(* The action properties                                                    *)

LEMMA RealtimeTakes ==
  ASSUME RealtimeInv, [RT!Next]_realtime
  PROVE  pointer' # pointer /\ pointer # 0 => pointer' = pointer + 1
BY FollowsKept DEF realtime

\* Only the end of a walk, or a batch, leads from sending to working.
LEMMA RealtimeReaches ==
  ASSUME ServicesAssumption, RealtimeInv, [RT!Next]_realtime,
         RT!Sending, tail' = "working", ~departed
  PROVE  \A c \in Clients : socket[c] = "open" => pointer \in RT!ToSet(delivered'[c])
<1>1. RT!Next /\ tail = "sending"
  BY DEF realtime, RT!Sending
<1>2. RT!Send \/ RT!SendFails
  BY <1>1 DEF RT!Next, RT!Read, RT!Receive, RT!ReadEnds, RT!BatchDone, RT!Take, RT!TakeUnread, RT!TakeUnknown,
              RT!TakeAndBroadcast, RT!Stop, RT!Write, RT!Connect, RT!Leave, RT!Drop, RT!tailVars
<1>3. \A c \in Clients : socket[c] = "open" => pointer \in In(delivered'[c])
  BY <1>2, StepReaches
<1>4. \A c \in Clients : delivered'[c] \in Seq(1..Len(stream'))
  BY <1>1, FeedTypesKept DEF RT!TypeOK
<1>5. \A c \in Clients : RT!ToSet(delivered'[c]) = In(delivered'[c])
  BY <1>4, ToSetIsIn
<1> QED
  BY <1>3, <1>5

=============================================================================
