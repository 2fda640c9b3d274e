---------------------------- MODULE EventDelivery ----------------------------
(***************************************************************************)
(* What the event pipeline promises about each event: once committed, it    *)
(* waits until a handler gets it or until it is lost; it is lost, or found  *)
(* again, only by a step in which something goes wrong.  TaskLifecycle      *)
(* takes its events from this.                                             *)
(***************************************************************************)
EXTENDS Naturals

CONSTANT Events

VARIABLES
    fate,    \* of each event: none (not committed), waiting, delivered or lost
    trouble  \* how many things have gone wrong: crashes and calls that raised

vars == <<fate, trouble>>

Init ==
    /\ fate = [e \in Events |-> "none"]
    /\ trouble = 0

Commit(e) ==
    /\ fate[e] = "none"
    /\ fate' = [fate EXCEPT ![e] = "waiting"]
    /\ UNCHANGED trouble

Deliver(e) ==
    /\ fate[e] = "waiting"
    /\ fate' = [fate EXCEPT ![e] = "delivered"]
    /\ UNCHANGED trouble

\* A crash or a call that raises, perhaps two in one step, may lose any of the
\* waiting events, and send a lost one again.
GoWrong ==
    /\ trouble' \in {trouble + 1, trouble + 2}
    /\ \E lost \in SUBSET {e \in Events : fate[e] \in {"waiting", "lost"}} :
         fate' = [e \in Events |->
                    IF e \in lost THEN "lost"
                    ELSE IF fate[e] = "lost" THEN "waiting" ELSE fate[e]]

Next == GoWrong \/ \E e \in Events : Commit(e) \/ Deliver(e)

Spec == Init /\ [][Next]_vars

=============================================================================
