--------------------------- MODULE ResourceManager ---------------------------
(***************************************************************************)
(* Admission of requests to local models                                    *)
(* (app/models_ai/resource_manager.py): acquire and release of a model's    *)
(* lease, eviction of idle models, and waiting for memory, all under the    *)
(* lock of one asyncio.Condition.  A request is one use of a lease, as      *)
(* ModelRouter.run (router_v2.py) makes it: acquire, infer, release.  A     *)
(* step is the code between two awaits that may suspend.                    *)
(*                                                                         *)
(* The free memory is measured anew at every attempt and other programs     *)
(* change it: a snapshot finds the memory unavailable, enough or short,     *)
(* and nothing relates one snapshot to the next.                            *)
(***************************************************************************)
EXTENDS Naturals, FiniteSets

CONSTANTS
    Models,       \* the ids of models
    Requests,     \* the requests, each made once
    CpuFallback,  \* the models acquired with cpu_fallback
    MaxPending,   \* max_pending
    NoRequest     \* the lock is free

ASSUME ManagerAssumption ==
    /\ IsFiniteSet(Requests)
    /\ MaxPending \in Nat
    /\ NoRequest \notin Requests

VARIABLES
    loaded,    \* the keys of _loaded
    active,    \* active_requests of each loaded model
    waiters,   \* _pending
    lock,      \* the request that holds the condition's lock across an await
    model,     \* the model each request is for
    pc,        \* where each request is
    late,      \* the requests whose deadline has passed
    replaced   \* history: the models whose entry a grant has overwritten

vars == <<loaded, active, waiters, lock, model, pc, late, replaced>>

-----------------------------------------------------------------------------

(***************************************************************************)
(* entering  wants the lock to acquire        waiting   in condition.wait() *)
(* trying    awaits a snapshot                woken     notified, wants     *)
(* unloading awaits unload_callback                     the lock again      *)
(* expired   wait_for timed out, wants        leaving   cancelled in wait,  *)
(*           the lock again                             wants the lock      *)
(* holding   runs with its lease              releasing wants the lock to   *)
(* rejected  acquire raised                             release             *)
(* released  done                             leaked    release was         *)
(*                                                      cancelled           *)
(***************************************************************************)
PendingPcs == {"trying", "unloading", "waiting", "woken", "expired", "leaving"}
LeasePcs == {"holding", "releasing", "leaked"}
Pcs == {"entering", "rejected", "released"} \cup PendingPcs \cup LeasePcs

\* The requests that are counted as pending, and those with a lease of m.
Pending == {r \in Requests : pc[r] \in PendingPcs}
Leases(m) == {r \in Requests : model[r] = m /\ pc[r] \in LeasePcs}
Idle == {m \in loaded : active[m] = 0}

LockFree == lock = NoRequest

Goto(r, label) == pc' = [pc EXCEPT ![r] = label]
Move(r, label) ==
    /\ Goto(r, label)
    /\ UNCHANGED <<loaded, active, waiters, lock, model, late, replaced>>

\* notify_all: everyone in condition.wait() goes for the lock.
Woken(labels) == [q \in Requests |-> IF labels[q] = "waiting" THEN "woken" ELSE labels[q]]

Init ==
    /\ loaded = {}
    /\ active = [m \in Models |-> 0]
    /\ waiters = 0
    /\ lock = NoRequest
    /\ model \in [Requests -> Models]
    /\ pc = [r \in Requests |-> "entering"]
    /\ late = {}
    /\ replaced = {}

-----------------------------------------------------------------------------

\* Leave the try block: the finally clause counts the request out, and the
\* async with gives the lock back.
Leave(r, label) ==
    /\ Goto(r, label)
    /\ waiters' = waiters - 1
    /\ lock' = NoRequest
    /\ UNCHANGED <<model, late>>

Reject(r) == Leave(r, "rejected") /\ UNCHANGED <<loaded, active, replaced>>

\* _loaded[model_id] = _LoadedModel(estimate, 1, mode), whatever was there.
Grant(r) ==
    /\ loaded' = loaded \cup {model[r]}
    /\ active' = [active EXCEPT ![model[r]] = 1]
    /\ replaced' = IF model[r] \in loaded THEN replaced \cup {model[r]} ELSE replaced
    /\ Leave(r, "holding")

\* Run on the CPU if the caller allows it, or raise ResourceExhaustedError.
FallBack(r) ==
    \/ model[r] \in CpuFallback /\ Grant(r)
    \/ model[r] \notin CpuFallback /\ Reject(r)

\* The model is loaded: one more active request.
EnterLoaded(r) ==
    /\ pc[r] = "entering" /\ LockFree
    /\ model[r] \in loaded
    /\ active' = [active EXCEPT ![model[r]] = @ + 1]
    /\ Goto(r, "holding")
    /\ UNCHANGED <<loaded, waiters, lock, model, late, replaced>>

\* max_pending requests wait already.
EnterFull(r) ==
    /\ pc[r] = "entering" /\ LockFree
    /\ model[r] \notin loaded
    /\ waiters >= MaxPending
    /\ Move(r, "rejected")

\* Count in, and await the first snapshot with the lock held.
EnterPending(r) ==
    /\ pc[r] = "entering" /\ LockFree
    /\ model[r] \notin loaded
    /\ waiters < MaxPending
    /\ waiters' = waiters + 1
    /\ lock' = r
    /\ Goto(r, "trying")
    /\ UNCHANGED <<loaded, active, model, late, replaced>>

\* The snapshot says that the memory is not known.
SnapshotUnavailable(r) == pc[r] = "trying" /\ FallBack(r)

\* The snapshot has enough free memory.
SnapshotEnough(r) == pc[r] = "trying" /\ Grant(r)

\* Too little, and an idle model: unload it.
SnapshotShortIdle(r) ==
    /\ pc[r] = "trying"
    /\ Idle # {}
    /\ Move(r, "unloading")

\* Too little, no idle model, and the deadline has passed.
SnapshotShortLate(r) ==
    /\ pc[r] = "trying"
    /\ Idle = {}
    /\ r \in late
    /\ FallBack(r)

\* Too little, no idle model, and time is left: condition.wait() gives the
\* lock away.
SnapshotShortWait(r) ==
    /\ pc[r] = "trying"
    /\ Idle = {}
    /\ r \notin late
    /\ Goto(r, "waiting")
    /\ lock' = NoRequest
    /\ UNCHANGED <<loaded, active, waiters, model, late, replaced>>

\* Variant: the first loaded model, idle or not, is unloaded.
UnloadedAny(r) ==
    /\ pc[r] = "unloading"
    /\ \E m \in loaded : loaded' = loaded \ {m}
    /\ pc' = [Woken(pc) EXCEPT ![r] = "trying"]
    /\ UNCHANGED <<active, waiters, lock, model, late, replaced>>

\* The callback has returned (or there is none): forget the model, wake
\* everyone, and measure again.  The code takes the idle model that was loaded
\* first; any one does here.  Nothing of it changes while the lock is held.
Unloaded(r) ==
    /\ pc[r] = "unloading"
    /\ \E m \in Idle : loaded' = loaded \ {m}
    /\ pc' = [Woken(pc) EXCEPT ![r] = "trying"]
    /\ UNCHANGED <<active, waiters, lock, model, late, replaced>>

\* The callback raises, or the request is cancelled in it: the entry stays.
UnloadRaises(r) == pc[r] = "unloading" /\ Reject(r)

\* The deadline computed on entry passes.
Deadline(r) ==
    /\ pc[r] \in PendingPcs \cup {"entering"}
    /\ r \notin late
    /\ late' = late \cup {r}
    /\ UNCHANGED <<loaded, active, waiters, lock, model, pc, replaced>>

\* Variant: condition.wait() without wait_for.
NoTimeOut(r) == FALSE

\* wait_for times out, also while the notified waiter wants its lock back.
TimeOut(r) ==
    /\ pc[r] \in {"waiting", "woken"}
    /\ r \in late
    /\ Move(r, "expired")

\* A notified waiter has the lock: it starts over with a snapshot, and does
\* not look whether its model is loaded by now.
Resume(r) ==
    /\ pc[r] = "woken" /\ LockFree
    /\ lock' = r
    /\ Goto(r, "trying")
    /\ UNCHANGED <<loaded, active, waiters, model, late, replaced>>

\* A waiter that timed out has the lock: no more attempts.
Expire(r) == pc[r] = "expired" /\ LockFree /\ FallBack(r)

\* Variant: only except clauses, no finally, count the request out.
LeaveCancelledCounted(r) == pc[r] = "leaving" /\ LockFree /\ Move(r, "rejected")

\* A cancelled waiter has the lock: CancelledError goes on.
LeaveCancelled(r) == pc[r] = "leaving" /\ LockFree /\ Reject(r)

-----------------------------------------------------------------------------

\* The caller is cancelled before it has the lock, or while it awaits a snapshot.
CancelEntering(r) == pc[r] = "entering" /\ Move(r, "rejected")

CancelTrying(r) == pc[r] = "trying" /\ Reject(r)

\* wait() takes the lock again before it lets the CancelledError through.
CancelWaiting(r) ==
    /\ pc[r] \in {"waiting", "woken", "expired"}
    /\ Move(r, "leaving")

\* The inference returns, raises or is cancelled: __aexit__ sets _released and
\* wants the lock.
Finish(r) == pc[r] = "holding" /\ Move(r, "releasing")

\* Variant: notify() in place of notify_all().
ReleaseNotifiesOne(r) ==
    /\ pc[r] = "releasing" /\ LockFree
    /\ IF model[r] \in loaded
       THEN /\ active' = [active EXCEPT ![model[r]] = IF @ = 0 THEN 0 ELSE @ - 1]
            /\ IF \E q \in Requests : pc[q] = "waiting"
               THEN \E q \in Requests : /\ pc[q] = "waiting"
                                        /\ pc' = [pc EXCEPT ![q] = "woken", ![r] = "released"]
               ELSE Goto(r, "released")
       ELSE Goto(r, "released") /\ UNCHANGED active
    /\ UNCHANGED <<loaded, waiters, lock, model, late, replaced>>

\* Variant: the count is taken down without max(0, ...).
ReleaseBelowZero(r) ==
    /\ pc[r] = "releasing" /\ LockFree
    /\ model[r] \in loaded
    /\ active' = [active EXCEPT ![model[r]] = @ - 1]
    /\ pc' = [Woken(pc) EXCEPT ![r] = "released"]
    /\ UNCHANGED <<loaded, waiters, lock, model, late, replaced>>

\* release(): nothing to do if the model is no longer loaded.
Release(r) ==
    /\ pc[r] = "releasing" /\ LockFree
    /\ IF model[r] \in loaded
       THEN /\ active' = [active EXCEPT ![model[r]] = IF @ = 0 THEN 0 ELSE @ - 1]
            /\ pc' = [Woken(pc) EXCEPT ![r] = "released"]
       ELSE Goto(r, "released") /\ UNCHANGED active
    /\ UNCHANGED <<loaded, waiters, lock, model, late, replaced>>

\* The caller is cancelled while release() queues for a lock someone holds: the
\* lease is marked as released and the count is not taken down.
CancelReleasing(r) ==
    /\ pc[r] = "releasing" /\ ~LockFree
    /\ Move(r, "leaked")

\* Variant: evict() does not look at active_requests.
EvictAny(m) ==
    /\ LockFree
    /\ m \in loaded
    /\ loaded' = loaded \ {m}
    /\ pc' = Woken(pc)
    /\ UNCHANGED <<active, waiters, lock, model, late, replaced>>

\* evict(), called by an administrator: EvictionDeferredError if m is active.
Evict(m) ==
    /\ LockFree
    /\ m \in Idle
    /\ loaded' = loaded \ {m}
    /\ pc' = Woken(pc)
    /\ UNCHANGED <<active, waiters, lock, model, late, replaced>>

Cancel(r) == CancelEntering(r) \/ CancelTrying(r) \/ CancelWaiting(r) \/ CancelReleasing(r)

Attempt(r) ==
    \/ SnapshotUnavailable(r) \/ SnapshotEnough(r)
    \/ SnapshotShortIdle(r) \/ SnapshotShortLate(r) \/ SnapshotShortWait(r)
    \/ Unloaded(r) \/ UnloadRaises(r)

Proceed(r) ==
    \/ EnterLoaded(r) \/ EnterFull(r) \/ EnterPending(r)
    \/ Attempt(r)
    \/ TimeOut(r) \/ Resume(r) \/ Expire(r) \/ LeaveCancelled(r)
    \/ Finish(r) \/ Release(r)

Next ==
    \/ \E r \in Requests : Proceed(r) \/ Deadline(r) \/ Cancel(r)
    \/ \E m \in Models : Evict(m)

Spec == Init /\ [][Next]_vars

\* Awaits return, deadlines pass, and the lock is first come, first served: a
\* request that wants it has it in the end.  Nobody has to cancel or evict.
Fairness == \A r \in Requests : SF_vars(Proceed(r)) /\ WF_vars(Deadline(r))
FairSpec == Spec /\ Fairness

-----------------------------------------------------------------------------

\* What is in each variable (__init__, _LoadedModel, ModelLease).
TypeOK ==
    /\ loaded \subseteq Models
    /\ active \in [Models -> Nat]
    /\ waiters \in Nat
    /\ lock \in Requests \cup {NoRequest}
    /\ model \in [Requests -> Models]
    /\ pc \in [Requests -> Pcs]
    /\ late \subseteq Requests
    /\ replaced \subseteq Models

\* The lock is held across an await exactly by the request that measures or
\* unloads (the async with of acquire, given away by condition.wait()).
LockHeld == \A r \in Requests : lock = r <=> pc[r] \in {"trying", "unloading"}

\* _pending is the number of requests between the count in and the finally
\* clause, whichever way they leave: granted, rejected, timed out, cancelled or
\* with a callback that raised.  So max_pending bounds them, and no slot is lost.
PendingExact == waiters = Cardinality(Pending) /\ waiters <= MaxPending

\* active_requests never exceeds the leases of the model, and is their number
\* as long as no grant has overwritten the entry: overwriting is the one way a
\* lease gets lost from the count that evict relies on.
CountsLeases ==
    \A m \in Models :
        /\ active[m] <= Cardinality(Leases(m))
        /\ m \notin loaded => active[m] = 0
        /\ m \notin replaced =>
              /\ active[m] = Cardinality(Leases(m))
              /\ Leases(m) # {} => m \in loaded

\* Neither evict nor a waiter unloads a model while a request has a lease of it,
\* unless a grant has overwritten the model's entry before.
UnloadSafe == [][\A m \in (loaded \ loaded') \ replaced : Leases(m) = {}]_vars

\* Nobody sleeps in condition.wait() while a loaded model is idle, and could
\* make room: each change of _loaded that leaves one wakes everyone.
NoMissedWakeup == Idle # {} => \A r \in Requests : pc[r] # "waiting"

\* acquire ends: a request that was counted in is granted or rejected.
WaiterLeaves == \A r \in Requests : r \in Pending ~> r \notin Pending

\* A model is not unloaded while a request has a lease of it
\* (PS26117_Phase15_Master_Development_Prompt.md:243, and the docstring of
\* ResourceManager).
NoUnloadInUse == [][\A m \in loaded \ loaded' : Leases(m) = {}]_vars
=============================================================================
