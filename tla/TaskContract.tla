---------------------------- MODULE TaskContract ----------------------------
(***************************************************************************)
(* What the task table promises to whoever reads it, whatever the workers,  *)
(* the requests and the failures behind it: a task is handed to a runner    *)
(* when it is queued, or when the lease of its last runner is over; it goes *)
(* back to the queue only when that lease is over; and it may be settled    *)
(* from any state, more than once, but once settled stays settled.          *)
(***************************************************************************)
EXTENDS Naturals, Integers

CONSTANTS Tasks, LeaseTime

VARIABLES clock, status, lease

vars == <<clock, status, lease>>

Settled == {"COMPLETED", "FAILED", "CANCELLED"}
NoLease == -1

Init ==
    /\ clock = 0
    /\ status = [t \in Tasks |-> "ABSENT"]
    /\ lease = [t \in Tasks |-> NoLease]

Over(t) == status[t] = "RUNNING" /\ lease[t] < clock

Pass ==
    /\ clock' = clock + 1
    /\ UNCHANGED <<status, lease>>

Submit(t) ==
    /\ status[t] = "ABSENT"
    /\ status' = [status EXCEPT ![t] = "QUEUED"]
    /\ UNCHANGED <<clock, lease>>

\* The runner may have computed its expiry some time ago, so it is not exact.
HandOver(t) ==
    /\ status[t] = "QUEUED" \/ Over(t)
    /\ status' = [status EXCEPT ![t] = "RUNNING"]
    /\ \E e \in 0..(clock + LeaseTime) : lease' = [lease EXCEPT ![t] = e]
    /\ UNCHANGED clock

Requeue(ts) ==
    /\ \A t \in ts : Over(t)
    /\ status' = [t \in Tasks |-> IF t \in ts THEN "QUEUED" ELSE status[t]]
    /\ lease' = [t \in Tasks |-> IF t \in ts THEN NoLease ELSE lease[t]]
    /\ UNCHANGED clock

\* A late writer may leave the lease of a runner it knows nothing of.
Settle(t) ==
    /\ status[t] # "ABSENT"
    /\ \E s \in Settled : status' = [status EXCEPT ![t] = s]
    /\ \E e \in {lease[t], NoLease} : lease' = [lease EXCEPT ![t] = e]
    /\ UNCHANGED clock

Next ==
    \/ Pass
    \/ \E t \in Tasks : Submit(t) \/ HandOver(t) \/ Settle(t)
    \/ \E ts \in SUBSET Tasks : Requeue(ts)

Spec == Init /\ [][Next]_vars

=============================================================================
