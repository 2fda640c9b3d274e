------------------------------ MODULE Sandbox ------------------------------
(***************************************************************************)
(* One call of run_in_sandbox (sandbox/runner.py) beside the Docker daemon. *)
(* Every docker command is a process of its own: cancelling the coroutine   *)
(* that awaits it does not take the command back, so what the daemon does   *)
(* and what the call believes may drift apart.  The call may be cancelled   *)
(* at any await, by the executor's own timeout or by the user, and again    *)
(* while it cleans up after the first cancellation.                         *)
(***************************************************************************)
EXTENDS Naturals

CONSTANT MaxCancels   \* bound of the model: cancellations that reach one call

VARIABLES
    program,    \* what the code in the container does
    pc,         \* where the call is
    create,     \* the docker create process: "none", "running", "done", "failed"
    start,      \* the docker start -a -i process
    container,  \* as the daemon sees it
    removals,   \* docker rm -f processes that have not reached the daemon
    outcome,    \* what the call returns or raises
    cancels,
    cut         \* a cancellation hit the final clean-up before its process existed

callVars == <<pc, outcome, cancels, cut>>
daemonVars == <<create, start, container, removals>>
vars == <<program, callVars, daemonVars>>

Init ==
    /\ program \in {"ends", "loops", "floods"}
    /\ pc = "called" /\ outcome = "none" /\ cancels = 0 /\ cut = FALSE
    /\ create = "none" /\ start = "none" /\ container = "absent" /\ removals = 0

Goto(from, to, out) == pc = from /\ pc' = to /\ outcome' = out

-----------------------------------------------------------------------------
\* A file name that leaves the workspace is refused; nothing has been created.
Refuse == Goto("called", "done", "error") /\ UNCHANGED <<program, cancels, cut, daemonVars>>

Create ==
    /\ Goto("called", "creating", "none")
    /\ create' = "running"
    /\ UNCHANGED <<program, cancels, cut, start, container, removals>>

CreateFailed ==
    /\ create = "failed" /\ Goto("creating", "cleaning", "create_failed")
    /\ UNCHANGED <<program, cancels, cut, daemonVars>>

Start ==
    /\ create = "done" /\ Goto("creating", "feeding", "none")
    /\ start' = "running"
    /\ UNCHANGED <<program, cancels, cut, create, container, removals>>

\* The archive is written to the process, or its pipe is broken.
Feed ==
    /\ \/ Goto("feeding", "waiting", "none")
       \/ start = "done" /\ Goto("feeding", "cleaning", "error")
    /\ UNCHANGED <<program, cancels, cut, daemonVars>>

Finished ==
    /\ start = "done" /\ Goto("waiting", "cleaning", "result")
    /\ UNCHANGED <<program, cancels, cut, daemonVars>>

TimeOut == Goto("waiting", "killing", "timeout") /\ UNCHANGED <<program, cancels, cut, daemonVars>>

\* docker rm -f, in the except clauses and then, always, in finally.
Remove(from, to) ==
    /\ Goto(from, to, outcome)
    /\ removals' = removals + 1
    /\ UNCHANGED <<program, cancels, cut, create, start, container>>

\* Variant: the removal is left to the handlers of the wait.
CleanNothing == Goto("cleaning", "done", outcome) /\ UNCHANGED <<program, cancels, cut, daemonVars>>

Kill == Remove("killing", "killed")
Killed == Goto("killed", "cleaning", outcome) /\ UNCHANGED <<program, cancels, cut, daemonVars>>
Clean == Remove("cleaning", "cleaned")
Return == Goto("cleaned", "done", outcome) /\ UNCHANGED <<program, cancels, cut, daemonVars>>

\* CancelledError at the await the call is at.  Only the wait for the process
\* has a handler; finally runs for every await inside the try block; a process
\* that is just being spawned is killed with it.
Cancel ==
    /\ cancels < MaxCancels
    /\ cancels' = cancels + 1
    /\ \/ pc \in {"creating", "feeding", "killing", "killed"} /\ Goto(pc, "cleaning", "cancelled") /\ cut' = cut
       \/ Goto("waiting", "killing", "cancelled") /\ cut' = cut
       \/ Goto("cleaning", "done", "cancelled") /\ cut' = TRUE
       \/ Goto("cleaned", "done", "cancelled") /\ cut' = cut
    /\ UNCHANGED <<program, daemonVars>>

-----------------------------------------------------------------------------
\* The daemon, for whoever still listens.
DaemonCreates ==
    /\ create = "running"
    /\ \/ create' = "done" /\ container' = "created"
       \/ create' = "failed" /\ container' = container
    /\ UNCHANGED <<program, callVars, start, removals>>

DaemonStarts ==
    /\ start = "running"
    /\ \/ container = "created" /\ container' = "running" /\ start' = start
       \/ container # "running" /\ container' = container /\ start' = "done"
    /\ UNCHANGED <<program, callVars, create, removals>>

\* A program that prints more than the readers take and the pipes hold stops
\* in a write: the readers end at MAX_OUTPUT_BYTES.
Exits ==
    /\ container = "running" /\ program = "ends"
    /\ container' = "exited" /\ start' = "done"
    /\ UNCHANGED <<program, callVars, create, removals>>

DaemonRemoves ==
    /\ removals > 0
    /\ removals' = removals - 1
    /\ container' = "absent"
    /\ start' = IF container = "running" THEN "done" ELSE start
    /\ UNCHANGED <<program, callVars, create>>

Call == Refuse \/ Create \/ CreateFailed \/ Start \/ Feed \/ Finished \/ TimeOut \/ Kill \/ Killed \/ Clean \/ Return
Daemon == DaemonCreates \/ DaemonStarts \/ Exits \/ DaemonRemoves
Next == Call \/ Cancel \/ Daemon

Spec == Init /\ [][Next]_vars

\* The call's timeout fires and its commands are answered; no program has to end.
FairSpec ==
    /\ Spec /\ WF_vars(Call) /\ WF_vars(DaemonRemoves)
    /\ WF_vars(DaemonCreates) /\ WF_vars(DaemonStarts)

-----------------------------------------------------------------------------
TypeOK ==
    /\ program \in {"ends", "loops", "floods"} /\ cancels \in 0..MaxCancels /\ cut \in BOOLEAN
    /\ pc \in {"called", "creating", "feeding", "waiting", "killing", "killed", "cleaning", "cleaned", "done"}
    /\ outcome \in {"none", "error", "create_failed", "result", "timeout", "cancelled"}
    /\ create \in {"none", "running", "done", "failed"} /\ start \in {"none", "running", "done"}
    /\ container \in {"absent", "created", "running", "exited"} /\ removals \in 0..2

(* A call leaves nothing to itself that it could have removed: once it has     *)
(* ended, its container is gone or a docker rm -f is on its way to it.  Only a *)
(* cancelled call may leave one that was created too late and is never         *)
(* started, or anything when a second cancellation cut its clean-up short.     *)
RemovalFollows ==
    pc = "done" =>
        \/ removals > 0
        \/ container = "absent" /\ create # "running"
        \/ outcome = "cancelled" /\ (start = "none" \/ cut)

(* The call ends whatever the program does, one that never ends and one that   *)
(* fills its output pipe included, and then the container is gone, after a     *)
(* result, an error and a timeout alike.  A cancelled call may leave one       *)
(* behind that was created after the removal, but none that runs: a start      *)
(* under way when the call is cancelled, and a second cancellation during the  *)
(* clean-up of the first, are followed by a removal, unless it hits the final  *)
(* clean-up before its docker rm exists.                                       *)
CleanedUp ==
    <>[](/\ pc = "done"
         /\ \/ container = "absent"
            \/ outcome = "cancelled" /\ (container # "running" \/ cut))
=============================================================================
