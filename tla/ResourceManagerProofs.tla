------------------------ MODULE ResourceManagerProofs ------------------------
(***************************************************************************)
(* Theorems about ResourceManager, for every finite set of requests, every  *)
(* set of models, with and without fallback, and every max_pending.         *)
(*                                                                         *)
(* Both counts are cardinalities.  What an action does to them follows from *)
(* what it does to one request's place (PendingCount, LeaseCount): of the   *)
(* others it only wakes some, and those neither join nor leave a set.       *)
(***************************************************************************)
EXTENDS ResourceManager, FiniteSetTheorems, TLAPS

\* The inductive invariant.
IInv == TypeOK /\ LockHeld /\ PendingExact /\ CountsLeases /\ NoMissedWakeup

\* The requests other than r stay where they are, or are woken.
OthersWait(r) ==
    /\ model' = model
    /\ pc' \in [Requests -> Pcs]
    /\ \A q \in Requests \ {r} :
          pc'[q] = pc[q] \/ (pc[q] = "waiting" /\ pc'[q] = "woken")

-----------------------------------------------------------------------------

\* Every step of a request leaves the others where they wait.
LEMMA OneMoves ==
    ASSUME TypeOK, NEW r \in Requests, Proceed(r) \/ Deadline(r) \/ Cancel(r)
    PROVE  OthersWait(r)
<1> USE DEF TypeOK, OthersWait, Goto, Move, Pcs, PendingPcs, LeasePcs
<1>1. CASE EnterLoaded(r) \/ EnterFull(r) \/ EnterPending(r)
  BY <1>1 DEF EnterLoaded, EnterFull, EnterPending
<1>2. CASE SnapshotUnavailable(r) \/ SnapshotEnough(r) \/ SnapshotShortLate(r)
  BY <1>2 DEF SnapshotUnavailable, SnapshotEnough, SnapshotShortLate, FallBack, Grant, Reject, Leave
<1>3. CASE SnapshotShortIdle(r) \/ SnapshotShortWait(r)
  BY <1>3 DEF SnapshotShortIdle, SnapshotShortWait
<1>4. CASE Unloaded(r)
  BY <1>4 DEF Unloaded, Woken
<1>5. CASE UnloadRaises(r) \/ Expire(r) \/ LeaveCancelled(r)
  BY <1>5 DEF UnloadRaises, Expire, LeaveCancelled, FallBack, Grant, Reject, Leave
<1>6. CASE Deadline(r) \/ TimeOut(r) \/ Resume(r) \/ Finish(r)
  BY <1>6 DEF Deadline, TimeOut, Resume, Finish
<1>7. CASE Release(r)
  BY <1>7 DEF Release, Woken
<1>8. CASE Cancel(r)
  BY <1>8 DEF Cancel, CancelEntering, CancelTrying, CancelWaiting, CancelReleasing, Reject, Leave
<1> QED
  BY <1>1, <1>2, <1>3, <1>4, <1>5, <1>6, <1>7, <1>8 DEF Proceed, Attempt

\* How the number of pending requests follows the one that moves.
LEMMA PendingCount ==
    ASSUME TypeOK, NEW r \in Requests, OthersWait(r)
    PROVE  /\ Cardinality(Pending) \in Nat
           /\ Cardinality(Pending') =
                IF pc[r] \in PendingPcs
                THEN IF pc'[r] \in PendingPcs THEN Cardinality(Pending) ELSE Cardinality(Pending) - 1
                ELSE IF pc'[r] \in PendingPcs THEN Cardinality(Pending) + 1 ELSE Cardinality(Pending)
           /\ pc[r] \in PendingPcs => Cardinality(Pending) > 0
<1>1. IsFiniteSet(Pending) /\ Cardinality(Pending) \in Nat
  BY FS_Subset, FS_CardinalityType, ManagerAssumption DEF Pending
<1>2. \A q \in Requests \ {r} : pc'[q] \in PendingPcs <=> pc[q] \in PendingPcs
  BY DEF OthersWait, PendingPcs
<1>3. Pending' = IF pc'[r] \in PendingPcs THEN Pending \cup {r} ELSE Pending \ {r}
  BY <1>2 DEF Pending
<1>4. r \in Pending <=> pc[r] \in PendingPcs
  BY DEF Pending
<1>5. r \in Pending => Cardinality(Pending) > 0
  BY <1>1, FS_EmptySet
<1>6. /\ Cardinality(Pending \cup {r}) =
            IF r \in Pending THEN Cardinality(Pending) ELSE Cardinality(Pending) + 1
      /\ Cardinality(Pending \ {r}) =
            IF r \in Pending THEN Cardinality(Pending) - 1 ELSE Cardinality(Pending)
  BY <1>1, FS_AddElement, FS_RemoveElement
<1> QED
  BY <1>1, <1>3, <1>4, <1>5, <1>6

\* How the number of leases of a model follows the request that moves.
LEMMA LeaseCount ==
    ASSUME TypeOK, NEW r \in Requests, OthersWait(r), NEW m \in Models
    PROVE  /\ Cardinality(Leases(m)) \in Nat
           /\ Leases(m) = {} <=> Cardinality(Leases(m)) = 0
           /\ Leases(m)' = {} <=> Cardinality(Leases(m)') = 0
           /\ Cardinality(Leases(m)') =
                IF m # model[r] THEN Cardinality(Leases(m))
                ELSE IF pc[r] \in LeasePcs
                THEN IF pc'[r] \in LeasePcs THEN Cardinality(Leases(m)) ELSE Cardinality(Leases(m)) - 1
                ELSE IF pc'[r] \in LeasePcs THEN Cardinality(Leases(m)) + 1 ELSE Cardinality(Leases(m))
           /\ m = model[r] /\ pc[r] \in LeasePcs => Cardinality(Leases(m)) > 0
<1>1. IsFiniteSet(Leases(m)) /\ Cardinality(Leases(m)) \in Nat
  BY FS_Subset, FS_CardinalityType, ManagerAssumption DEF Leases
<1>2. \A q \in Requests \ {r} : pc'[q] \in LeasePcs <=> pc[q] \in LeasePcs
  BY DEF OthersWait, LeasePcs
<1>3. Leases(m)' = IF m = model[r] /\ pc'[r] \in LeasePcs THEN Leases(m) \cup {r} ELSE Leases(m) \ {r}
  BY <1>2 DEF Leases, OthersWait
<1>4. r \in Leases(m) <=> m = model[r] /\ pc[r] \in LeasePcs
  BY DEF Leases
<1>5. Leases(m) = {} <=> Cardinality(Leases(m)) = 0
  BY <1>1, FS_EmptySet
<1>6. /\ IsFiniteSet(Leases(m) \cup {r}) /\ IsFiniteSet(Leases(m) \ {r})
      /\ Cardinality(Leases(m) \cup {r}) =
            IF r \in Leases(m) THEN Cardinality(Leases(m)) ELSE Cardinality(Leases(m)) + 1
      /\ Cardinality(Leases(m) \ {r}) =
            IF r \in Leases(m) THEN Cardinality(Leases(m)) - 1 ELSE Cardinality(Leases(m))
  BY <1>1, FS_AddElement, FS_RemoveElement
<1>7. IsFiniteSet(Leases(m)')
  BY <1>3, <1>6
<1>8. Leases(m)' = {} <=> Cardinality(Leases(m)') = 0
  BY <1>7, FS_EmptySet
<1>9. r \in Leases(m) => Cardinality(Leases(m)) > 0
  BY <1>1, <1>5
<1>10. CASE m = model[r] /\ pc'[r] \in LeasePcs
  BY <1>10, <1>1, <1>3, <1>4, <1>5, <1>6, <1>8, <1>9
<1>11. CASE ~(m = model[r] /\ pc'[r] \in LeasePcs)
  BY <1>11, <1>1, <1>3, <1>4, <1>5, <1>6, <1>8, <1>9
<1> QED
  BY <1>10, <1>11

\* All ways out of the try block are a grant or a rejection, with the lock
\* held or free.
LEMMA StepCases ==
    ASSUME TypeOK, LockHeld, NEW r \in Requests, Proceed(r) \/ Deadline(r) \/ Cancel(r)
    PROVE  \/ pc[r] \in PendingPcs /\ (lock = r \/ LockFree) /\ (Grant(r) \/ Reject(r))
           \/ EnterLoaded(r) \/ EnterFull(r) \/ EnterPending(r)
           \/ SnapshotShortIdle(r) \/ SnapshotShortWait(r) \/ Unloaded(r)
           \/ Deadline(r) \/ TimeOut(r) \/ Resume(r) \/ Finish(r) \/ Release(r)
           \/ CancelEntering(r) \/ CancelWaiting(r) \/ CancelReleasing(r)
<1> USE DEF LockHeld, PendingPcs, FallBack
<1>1. CASE Attempt(r)
  BY <1>1 DEF Attempt, SnapshotUnavailable, SnapshotEnough, SnapshotShortLate, UnloadRaises
<1>2. CASE Expire(r) \/ LeaveCancelled(r)
  BY <1>2 DEF Expire, LeaveCancelled
<1>3. CASE Cancel(r)
  BY <1>3 DEF Cancel, CancelTrying
<1> QED
  BY <1>1, <1>2, <1>3 DEF Proceed

\* The variables keep their types: a pending request is counted, so the count
\* it takes down is not 0.
LEMMA TypeStep ==
    ASSUME IInv, Next
    PROVE  TypeOK'
<1> USE DEF IInv, TypeOK, Goto, Move
<1>1. ASSUME NEW r \in Requests, Proceed(r) \/ Deadline(r) \/ Cancel(r)
      PROVE  TypeOK'
  <2>1. pc' \in [Requests -> Pcs]
    BY <1>1, OneMoves DEF OthersWait
  <2>2. CASE pc[r] \in PendingPcs /\ (Grant(r) \/ Reject(r))
    <3>1. waiters - 1 \in Nat
      BY <2>2, <1>1, OneMoves, PendingCount DEF PendingExact
    <3> QED
      BY <2>1, <2>2, <3>1 DEF Grant, Reject, Leave
  <2>3. CASE EnterLoaded(r) \/ EnterFull(r) \/ EnterPending(r)
    BY <2>1, <2>3 DEF EnterLoaded, EnterFull, EnterPending
  <2>4. CASE SnapshotShortIdle(r) \/ SnapshotShortWait(r) \/ Unloaded(r)
    BY <2>1, <2>4 DEF SnapshotShortIdle, SnapshotShortWait, Unloaded
  <2>5. CASE Deadline(r) \/ TimeOut(r) \/ Resume(r) \/ Finish(r)
    BY <2>1, <2>5 DEF Deadline, TimeOut, Resume, Finish
  <2>6. CASE Release(r)
    <3>1. active' \in [Models -> Nat]
      BY <2>6 DEF Release
    <3> QED
      BY <2>1, <2>6, <3>1 DEF Release
  <2>7. CASE CancelEntering(r) \/ CancelWaiting(r) \/ CancelReleasing(r)
    BY <2>1, <2>7 DEF CancelEntering, CancelWaiting, CancelReleasing
  <2> QED
    BY <1>1, StepCases, <2>2, <2>3, <2>4, <2>5, <2>6, <2>7
<1>2. ASSUME NEW m \in Models, Evict(m)
      PROVE  TypeOK'
  BY <1>2 DEF Evict, Woken, Pcs, PendingPcs, LeasePcs
<1> QED
  BY <1>1, <1>2 DEF Next

\* One request holds the lock across an await.
LEMMA LockStep ==
    ASSUME IInv, Next
    PROVE  LockHeld'
<1> USE DEF IInv, TypeOK, LockHeld, LockFree, Goto, Move
<1>1. ASSUME NEW r \in Requests, Proceed(r) \/ Deadline(r) \/ Cancel(r)
      PROVE  LockHeld'
  <2>1. OthersWait(r)
    BY <1>1, OneMoves
  <2> DEFINE InLock == {"trying", "unloading"}
  <2>2. \A q \in Requests \ {r} : pc'[q] \in InLock <=> pc[q] \in InLock
    BY <2>1 DEF OthersWait
  <2>3. CASE pc[r] \in PendingPcs /\ (lock = r \/ LockFree) /\ (Grant(r) \/ Reject(r))
    BY <2>2, <2>3, ManagerAssumption DEF Grant, Reject, Leave
  <2>4. CASE EnterLoaded(r) \/ EnterFull(r) \/ EnterPending(r) \/ Resume(r)
    BY <2>2, <2>4, ManagerAssumption DEF EnterLoaded, EnterFull, EnterPending, Resume
  <2>5. CASE SnapshotShortIdle(r) \/ SnapshotShortWait(r) \/ Unloaded(r)
    BY <2>2, <2>5, ManagerAssumption DEF SnapshotShortIdle, SnapshotShortWait, Unloaded, Woken
  <2>6. CASE Deadline(r) \/ TimeOut(r) \/ Finish(r)
    BY <2>2, <2>6 DEF Deadline, TimeOut, Finish
  <2>7. CASE Release(r)
    BY <2>2, <2>7, ManagerAssumption DEF Release, Woken
  <2>8. CASE CancelEntering(r) \/ CancelWaiting(r) \/ CancelReleasing(r)
    BY <2>2, <2>8 DEF CancelEntering, CancelWaiting, CancelReleasing
  <2> QED
    BY <1>1, StepCases, <2>3, <2>4, <2>5, <2>6, <2>7, <2>8
<1>2. ASSUME NEW m \in Models, Evict(m)
      PROVE  LockHeld'
  BY <1>2 DEF Evict, Woken
<1> QED
  BY <1>1, <1>2 DEF Next

\* The pending requests stay counted.
LEMMA PendingStep ==
    ASSUME IInv, Next
    PROVE  PendingExact'
<1> USE DEF IInv, PendingExact, TypeOK, Goto, Move, PendingPcs, LeasePcs
<1>1. ASSUME NEW r \in Requests, Proceed(r) \/ Deadline(r) \/ Cancel(r)
      PROVE  PendingExact'
  <2>1. TypeOK /\ OthersWait(r)
    BY <1>1, OneMoves
  <2>2. CASE pc[r] \in PendingPcs /\ (Grant(r) \/ Reject(r))
    <3>1. pc'[r] \notin PendingPcs /\ waiters' = waiters - 1
      BY <2>2 DEF Grant, Reject, Leave
    <3> QED
      BY <2>1, <2>2, <3>1, PendingCount, ManagerAssumption
  <2>3. CASE EnterPending(r)
    <3>1. pc[r] \notin PendingPcs /\ pc'[r] \in PendingPcs /\ waiters' = waiters + 1 /\ waiters < MaxPending
      BY <2>3 DEF EnterPending
    <3> QED
      BY <2>1, <3>1, PendingCount, ManagerAssumption
  <2>4. ASSUME waiters' = waiters, pc'[r] \in PendingPcs <=> pc[r] \in PendingPcs
        PROVE  PendingExact'
    BY <2>1, <2>4, PendingCount
  <2>5. CASE EnterLoaded(r) \/ EnterFull(r)
    BY <2>4, <2>5 DEF EnterLoaded, EnterFull
  <2>6. CASE SnapshotShortIdle(r) \/ SnapshotShortWait(r) \/ Unloaded(r)
    BY <2>4, <2>6 DEF SnapshotShortIdle, SnapshotShortWait, Unloaded, Woken
  <2>7. CASE Deadline(r) \/ TimeOut(r) \/ Resume(r) \/ Finish(r)
    BY <2>4, <2>7 DEF Deadline, TimeOut, Resume, Finish
  <2>8. CASE Release(r)
    BY <2>4, <2>8 DEF Release, Woken
  <2>9. CASE CancelEntering(r) \/ CancelWaiting(r) \/ CancelReleasing(r)
    BY <2>4, <2>9 DEF CancelEntering, CancelWaiting, CancelReleasing
  <2> QED
    BY <1>1, StepCases, <2>2, <2>3, <2>5, <2>6, <2>7, <2>8, <2>9
<1>2. ASSUME NEW m \in Models, Evict(m)
      PROVE  PendingExact'
  <2>1. Pending' = Pending
    BY <1>2 DEF Evict, Woken, Pending
  <2> QED
    BY <2>1, <1>2 DEF Evict
<1> QED
  BY <1>1, <1>2 DEF Next

\* The active counts stay exact, or at most too low where an entry was replaced.
LEMMA CountsStep ==
    ASSUME IInv, Next
    PROVE  CountsLeases'
<1> USE DEF IInv, CountsLeases, TypeOK, Goto, Move, PendingPcs, LeasePcs
<1>1. ASSUME NEW r \in Requests, Proceed(r) \/ Deadline(r) \/ Cancel(r)
      PROVE  CountsLeases'
  <2>1. TypeOK /\ OthersWait(r)
    BY <1>1, OneMoves
  <2> DEFINE Same(m) == Cardinality(Leases(m)') = Cardinality(Leases(m))
  <2>2. ASSUME pc'[r] \in LeasePcs <=> pc[r] \in LeasePcs,
               UNCHANGED <<loaded, active, replaced>>
        PROVE  CountsLeases'
    BY <2>1, <2>2, LeaseCount
  <2>3. CASE pc[r] \in PendingPcs /\ Grant(r)
    <3>1. pc[r] \notin LeasePcs /\ pc'[r] \in LeasePcs
      BY <2>3 DEF Grant, Leave
    <3>2. ASSUME NEW m \in Models, m # model[r]
          PROVE  /\ Same(m) /\ active'[m] = active[m]
                 /\ m \in loaded' <=> m \in loaded
                 /\ m \in replaced' <=> m \in replaced
      BY <2>1, <2>3, <3>2, LeaseCount DEF Grant
    <3>3. ASSUME NEW m \in Models, m = model[r]
          PROVE  /\ Cardinality(Leases(m)') = Cardinality(Leases(m)) + 1
                 /\ active'[m] = 1 /\ m \in loaded'
                 /\ m \notin replaced' => m \notin loaded /\ m \notin replaced
      BY <2>1, <2>3, <3>1, <3>3, LeaseCount DEF Grant
    <3> QED
      BY <2>1, <3>2, <3>3, LeaseCount
  <2>4. CASE pc[r] \in PendingPcs /\ Reject(r)
    BY <2>2, <2>4 DEF Reject, Leave
  <2>5. CASE EnterLoaded(r)
    <3>1. pc[r] \notin LeasePcs /\ pc'[r] \in LeasePcs
      BY <2>5 DEF EnterLoaded
    <3>2. ASSUME NEW m \in Models
          PROVE  /\ active'[m] - active[m] = Cardinality(Leases(m)') - Cardinality(Leases(m))
                 /\ Leases(m)' # {} => m \in loaded \/ Leases(m) # {}
      BY <2>1, <2>5, <3>1, LeaseCount DEF EnterLoaded
    <3>3. \A m \in Models : active'[m] # active[m] => m \in loaded
      BY <2>5 DEF EnterLoaded
    <3> QED
      BY <2>1, <2>5, <3>2, <3>3, LeaseCount DEF EnterLoaded
  <2>6. CASE EnterFull(r) \/ EnterPending(r)
    BY <2>2, <2>6 DEF EnterFull, EnterPending
  <2>7. CASE SnapshotShortIdle(r) \/ SnapshotShortWait(r)
    BY <2>2, <2>7 DEF SnapshotShortIdle, SnapshotShortWait
  <2>8. CASE Unloaded(r)
    <3>1. \A m \in Models : Same(m)
      BY <2>1, <2>8, LeaseCount DEF Unloaded, Woken
    <3> QED
      BY <2>1, <2>8, <3>1, LeaseCount DEF Unloaded, Idle
  <2>9. CASE Deadline(r) \/ TimeOut(r) \/ Resume(r) \/ Finish(r)
    BY <2>2, <2>9 DEF Deadline, TimeOut, Resume, Finish
  <2>10. CASE Release(r)
    <3>1. pc[r] \in LeasePcs /\ pc'[r] \notin LeasePcs
      BY <2>10 DEF Release, Woken
    <3>2. ASSUME NEW m \in Models, m # model[r]
          PROVE  Same(m) /\ active'[m] = active[m]
      BY <2>1, <2>10, <3>2, LeaseCount DEF Release
    <3>3. ASSUME NEW m \in Models, m = model[r]
          PROVE  /\ Cardinality(Leases(m)') = Cardinality(Leases(m)) - 1
                 /\ Cardinality(Leases(m)) > 0
                 /\ m \in loaded => active'[m] = IF active[m] = 0 THEN 0 ELSE active[m] - 1
                 /\ m \notin loaded => active'[m] = active[m]
      BY <2>1, <2>10, <3>1, <3>3, LeaseCount DEF Release
    <3>4. UNCHANGED <<loaded, replaced>>
      BY <2>10 DEF Release
    <3> QED
      BY <2>1, <3>2, <3>3, <3>4, LeaseCount
  <2>11. CASE CancelEntering(r) \/ CancelWaiting(r) \/ CancelReleasing(r)
    BY <2>2, <2>11 DEF CancelEntering, CancelWaiting, CancelReleasing
  <2> QED
    BY <1>1, StepCases, <2>3, <2>4, <2>5, <2>6, <2>7, <2>8, <2>9, <2>10, <2>11
<1>2. ASSUME NEW m \in Models, Evict(m)
      PROVE  CountsLeases'
  <2>1. \A n \in Models : Leases(n)' = Leases(n)
    BY <1>2 DEF Evict, Woken, Leases
  <2>2. \A n \in Models : Cardinality(Leases(n)) = 0 => Leases(n) = {}
    <3>1. \A n \in Models : IsFiniteSet(Leases(n))
      BY FS_Subset, ManagerAssumption DEF Leases
    <3> QED
      BY <3>1, FS_EmptySet
  <2> QED
    BY <1>2, <2>1, <2>2 DEF Evict, Idle
<1> QED
  BY <1>1, <1>2 DEF Next

\* Nobody goes to sleep, and no model becomes idle, without a wake-up.
LEMMA WakeupStep ==
    ASSUME IInv, Next
    PROVE  NoMissedWakeup'
<1> USE DEF IInv, NoMissedWakeup, TypeOK, Goto, Move, Idle
<1>1. ASSUME NEW r \in Requests, Proceed(r) \/ Deadline(r) \/ Cancel(r)
      PROVE  NoMissedWakeup'
  <2>1. OthersWait(r)
    BY <1>1, OneMoves
  <2>2. ASSUME Idle' \subseteq Idle, pc'[r] = "waiting" => pc[r] = "waiting"
        PROVE  NoMissedWakeup'
    BY <2>1, <2>2 DEF OthersWait
  <2>3. CASE Grant(r) \/ Reject(r)
    BY <2>2, <2>3 DEF Grant, Reject, Leave
  <2>4. CASE EnterLoaded(r) \/ EnterFull(r) \/ EnterPending(r)
    BY <2>2, <2>4 DEF EnterLoaded, EnterFull, EnterPending
  <2>5. CASE SnapshotShortIdle(r)
    BY <2>2, <2>5 DEF SnapshotShortIdle
  <2>6. CASE SnapshotShortWait(r)
    BY <2>6 DEF SnapshotShortWait
  <2>7. CASE Unloaded(r)
    BY <2>7 DEF Unloaded, Woken
  <2>8. CASE Deadline(r) \/ TimeOut(r) \/ Resume(r) \/ Finish(r)
    BY <2>2, <2>8 DEF Deadline, TimeOut, Resume, Finish
  <2>9. CASE Release(r)
    BY <2>9 DEF Release, Woken
  <2>10. CASE CancelEntering(r) \/ CancelWaiting(r) \/ CancelReleasing(r)
    BY <2>2, <2>10 DEF CancelEntering, CancelWaiting, CancelReleasing
  <2> QED
    BY <1>1, StepCases, <2>3, <2>4, <2>5, <2>6, <2>7, <2>8, <2>9, <2>10
<1>2. ASSUME NEW m \in Models, Evict(m)
      PROVE  NoMissedWakeup'
  BY <1>2 DEF Evict, Woken
<1> QED
  BY <1>1, <1>2 DEF Next

-----------------------------------------------------------------------------

\* The inductive invariant holds in every reachable state.
THEOREM IInvariant == Spec => []IInv
<1>1. Init => IInv
  <2> SUFFICES ASSUME Init PROVE IInv
    OBVIOUS
  <2>1. Pending = {} /\ \A m \in Models : Leases(m) = {}
    BY DEF Init, Pending, Leases, PendingPcs, LeasePcs
  <2>2. Cardinality({}) = 0
    BY FS_EmptySet
  <2>3. TypeOK
    BY ManagerAssumption DEF Init, TypeOK, Pcs
  <2>4. LockHeld /\ NoMissedWakeup
    BY ManagerAssumption DEF Init, LockHeld, NoMissedWakeup, Idle
  <2>5. PendingExact /\ CountsLeases
    BY <2>1, <2>2, ManagerAssumption DEF Init, PendingExact, CountsLeases
  <2> QED
    BY <2>3, <2>4, <2>5 DEF IInv
<1>2. IInv /\ [Next]_vars => IInv'
  <2>1. ASSUME IInv, Next PROVE IInv'
    BY <2>1, TypeStep, LockStep, PendingStep, CountsStep, WakeupStep DEF IInv
  <2>2. ASSUME IInv, UNCHANGED vars PROVE IInv'
    <3>1. Pending' = Pending /\ Idle' = Idle /\ \A m \in Models : Leases(m)' = Leases(m)
      BY <2>2 DEF vars, Pending, Idle, Leases
    <3> QED
      BY <2>2, <3>1 DEF vars, IInv, TypeOK, LockHeld, PendingExact, CountsLeases, NoMissedWakeup
  <2> QED
    BY <2>1, <2>2
<1> QED
  BY <1>1, <1>2, PTL DEF Spec

\* _pending is the number of requests inside the try block, and at most
\* max_pending: nobody leaves without being counted out.
THEOREM PendingCounted == Spec => []PendingExact
BY IInvariant, PTL DEF IInv

\* Every variable has its type: the locks, the sets of models, and the counts.
THEOREM ManagerTyped == Spec => []TypeOK
BY IInvariant, PTL DEF IInv

\* active_requests is the number of leases, unless a grant has overwritten the
\* model's entry, and never more.
THEOREM LeasesCounted == Spec => []CountsLeases
BY IInvariant, PTL DEF IInv

\* No wake-up is missed: whoever waits has no idle model it could unload.
THEOREM WakeupsKept == Spec => []NoMissedWakeup
BY IInvariant, PTL DEF IInv

\* No step unloads a model that has a lease, unless its entry was overwritten.
THEOREM UnloadsIdle == Spec => UnloadSafe
<1> DEFINE Safe == \A m \in (loaded \ loaded') \ replaced : Leases(m) = {}
<1>1. ASSUME IInv, [Next]_vars
      PROVE  [Safe]_vars
  <2>1. ASSUME NEW m \in loaded \ loaded', m \notin replaced
        PROVE  m \in Idle
    <3>1. CASE UNCHANGED vars
      BY <2>1, <3>1 DEF vars
    <3>2. ASSUME NEW n \in Models, Evict(n)
          PROVE  m \in Idle
      BY <2>1, <3>2 DEF Evict
    <3>3. ASSUME NEW r \in Requests, Proceed(r) \/ Deadline(r) \/ Cancel(r)
          PROVE  m \in Idle
      <4>1. CASE Unloaded(r)
        BY <2>1, <4>1 DEF Unloaded
      <4>2. CASE Grant(r) \/ Reject(r)
        BY <2>1, <4>2 DEF Grant, Reject
      <4>3. CASE ~Unloaded(r) /\ ~Grant(r) /\ ~Reject(r)
        <5>1. UNCHANGED loaded
          BY <1>1, <3>3, <4>3, StepCases
             DEF IInv, EnterLoaded, EnterFull, EnterPending, SnapshotShortIdle,
                 SnapshotShortWait, Deadline, TimeOut, Resume, Finish, Release,
                 CancelEntering, CancelWaiting, CancelReleasing, Move
        <5> QED
          BY <2>1, <5>1
      <4> QED
        BY <4>1, <4>2, <4>3
    <3> QED
      BY <1>1, <3>1, <3>2, <3>3 DEF Next
  <2>2. \A m \in Models : IsFiniteSet(Leases(m))
    BY <1>1, FS_Subset, ManagerAssumption DEF Leases
  <2>3. \A m \in Idle \ replaced : Leases(m) = {}
    BY <1>1, <2>2, FS_EmptySet DEF Idle, IInv, TypeOK, CountsLeases
  <2> QED
    BY <2>1, <2>3
<1> QED
  BY <1>1, IInvariant, PTL DEF Spec, UnloadSafe
=============================================================================
