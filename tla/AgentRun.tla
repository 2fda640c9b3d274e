------------------------------ MODULE AgentRun ------------------------------
(***************************************************************************)
(* One agent task from the planner to the row of the task: the LangGraph    *)
(* nodes of agents/graph.py, the tool executor they call, the approval      *)
(* gate, the orchestrator that turns the final state into a result and the  *)
(* runner that stores it.  Trace, event and outcome share one database      *)
(* session: a flush that fails leaves it unusable until it is rolled back.  *)
(*                                                                          *)
(* What the model answers, what a tool returns and whether the database     *)
(* accepts a write are choices of the environment.  The cancellation of the *)
(* coroutine belongs to TaskLifecycle, and so does what becomes of a task   *)
(* that is left RUNNING.                                                    *)
(***************************************************************************)
EXTENDS Naturals, Sequences

CONSTANTS
    Tools,              \* names a plan may hold
    Registered,         \* the tools of TOOL_REGISTRY
    ApprovalRequired,   \* APPROVAL_REQUIRED_TOOLS
    MaxSteps,           \* AGENT_MAX_STEPS
    MaxRetries,         \* AGENT_MAX_RETRIES
    RecursionLimit,     \* LangGraph's bound on supersteps
    PlanLength          \* bound of the model: steps of one plan

ASSUME LimitsAssumption ==
    /\ MaxSteps \in Nat \ {0} /\ MaxRetries \in Nat
    /\ RecursionLimit \in Nat /\ PlanLength \in Nat

VARIABLES
    executor,    \* "default", or "injected" through AgentOrchestrator's parameter
    database,    \* "up", or "down" when the runner's except block needs it
    node,        \* the node to run next, "end" after END
    supersteps,  \* nodes run so far
    plan, current_step_index, step_count, retry_count, status,
    lastResult,  \* success of the last entry of step_results
    approval,    \* the request in the run's gate
    ran,         \* tools whose run() was called
    started,     \* agent.step.started committed and not yet followed by its end
    session,     \* "usable", "broken" after a failed flush, "closed" with the coroutine
    result,      \* status of the dict the orchestrator returns
    task         \* the stored status of the task

planVars == <<plan, current_step_index, step_count>>
judgement == <<retry_count, status, lastResult, approval>>
graphVars == <<node, supersteps, planVars, judgement>>
outside == <<executor, database, ran, started, session, result, task>>
vars == <<graphVars, outside>>

Plans == UNION {[1..n -> Tools] : n \in 0..PlanLength}
Awaiting == approval # "none"

Init ==
    /\ executor \in {"default", "injected"} /\ database \in {"up", "down"}
    /\ node = "plan" /\ supersteps = 0
    /\ plan = <<>> /\ current_step_index = 0 /\ step_count = 0 /\ retry_count = 0
    /\ status = "in_progress" /\ lastResult = "none" /\ approval = "none"
    /\ ran = {} /\ started = FALSE
    /\ session = "usable" /\ result = "none" /\ task = "RUNNING"

\* Variant: supersteps are counted and not limited.
NodeUnlimited(name, next) ==
    /\ node = name /\ result = "none"
    /\ node' = next /\ supersteps' = supersteps + 1

\* A node runs while LangGraph allows another superstep, and names its successor.
Node(name, next) ==
    /\ node = name /\ supersteps < RecursionLimit /\ result = "none"
    /\ node' = next /\ supersteps' = supersteps + 1

-----------------------------------------------------------------------------
PlanAccepted ==
    /\ Node("plan", "execute")
    /\ plan' \in Plans
    /\ current_step_index' = 0
    /\ step_count' = step_count + 1
    /\ UNCHANGED <<outside, judgement>>

\* The model fails or answers something that is no plan: the old plan stays.
PlanRefused ==
    /\ Node("plan", "execute")
    /\ status' = "failed"
    /\ UNCHANGED <<retry_count, lastResult, approval, outside, planVars>>

Steps == status # "failed" /\ ~Awaiting /\ current_step_index < Len(plan)
Tool == plan[current_step_index + 1]

ExecuteNothing ==
    /\ ~Steps
    /\ Node("execute", "observe")
    /\ UNCHANGED <<outside, planVars, judgement>>

AskApproval ==
    /\ Steps /\ Tool \in ApprovalRequired
    /\ Node("execute", "observe")
    /\ approval' = "pending"
    /\ UNCHANGED <<retry_count, status, lastResult, outside, planVars>>

\* An injected executor returns a result, or raises: both are a step result.
ExecuteInjected ==
    /\ executor = "injected" /\ Steps /\ Tool \notin ApprovalRequired
    /\ Node("execute", "observe")
    /\ lastResult' \in {"success", "failure"}
    /\ current_step_index' = current_step_index + 1
    /\ ran' = ran \cup {Tool}
    /\ UNCHANGED <<executor, database, plan, step_count, retry_count, status, approval, started, session, result, task>>

\* execute_step: the started events are committed, a registered tool the policy
\* and the schema accept is run, and whatever came of it is added as a
\* ToolExecution whose plan_step_id is the id execute_node made up: no row of
\* plan_steps has it, the flush inside publish raises, and so does the trace in
\* execute_node's except clause.
ExecuteDefault ==
    /\ executor = "default" /\ Steps /\ Tool \notin ApprovalRequired
    /\ Node("execute", "end")
    /\ \/ ran' = ran
       \/ Tool \in Registered /\ ran' = ran \cup {Tool}
    /\ started' = TRUE
    /\ session' = "broken"
    /\ lastResult' = "failure"
    /\ current_step_index' = current_step_index + 1
    /\ result' = "error"
    /\ UNCHANGED <<executor, database, plan, step_count, retry_count, status, approval, task>>

Observe ==
    /\ Node("observe", "reason")
    /\ UNCHANGED <<outside, planVars, judgement>>

\* Variant: the edge after the reason node does not look at the approval.
ContinueUnasked(nextStatus, nextPlan) ==
    IF nextStatus \in {"failed", "succeeded"} THEN "end"
    ELSE IF current_step_index < Len(nextPlan) THEN "execute" ELSE "plan"

\* should_continue, of the state a node leaves behind.
Continue(nextStatus, nextPlan) ==
    IF Awaiting \/ nextStatus \in {"failed", "succeeded"} THEN "end"
    ELSE IF current_step_index < Len(nextPlan) THEN "execute" ELSE "plan"

ReasonFailed ==
    /\ status = "failed"
    /\ Node("reason", Continue(status, plan))
    /\ UNCHANGED <<outside, planVars, judgement>>

\* Variant: every failed tool is replanned.
ReasonReplans ==
    /\ status # "failed" /\ lastResult = "failure"
    /\ retry_count' = retry_count + 1 /\ plan' = <<>> /\ status' = status
    /\ Node("reason", Continue(status', plan'))
    /\ UNCHANGED <<current_step_index, step_count, lastResult, approval, outside>>

\* A failed tool: replan, until the retries are used up.  A replan without a
\* step finds the same failed result and pays for it again.
ReasonToolFailed ==
    /\ status # "failed" /\ lastResult = "failure"
    /\ retry_count' = retry_count + 1
    /\ \/ retry_count' > MaxRetries /\ status' = "failed" /\ plan' = plan
       \/ retry_count' <= MaxRetries /\ status' = status /\ plan' = <<>>
    /\ Node("reason", Continue(status', plan'))
    /\ UNCHANGED <<current_step_index, step_count, lastResult, approval, outside>>

\* Variant: the model is asked whatever became of the tool.
ReasonAlwaysAsks ==
    /\ status # "failed"
    /\ status' \in IF step_count >= MaxSteps THEN {"failed"} ELSE {"succeeded", status, "failed"}
    /\ Node("reason", Continue(status', plan))
    /\ UNCHANGED <<retry_count, lastResult, approval, outside, planVars>>

\* Otherwise the plans made are compared with the limit, then the model is
\* asked: COMPLETE, CONTINUE, or no answer.
ReasonToolPassed ==
    /\ status # "failed" /\ lastResult # "failure"
    /\ status' \in IF step_count >= MaxSteps THEN {"failed"} ELSE {"succeeded", status, "failed"}
    /\ Node("reason", Continue(status', plan))
    /\ UNCHANGED <<retry_count, lastResult, approval, outside, planVars>>

\* Whoever holds the gate may decide, and decide again; the graph is not resumed.
Decide ==
    /\ Awaiting
    /\ approval' \in {"approved", "rejected"}
    /\ UNCHANGED <<node, supersteps, retry_count, status, lastResult, outside, planVars>>

-----------------------------------------------------------------------------
\* A trace whose flush fails, in the nodes that write one: the exception ends the graph.
TraceRaises ==
    /\ \/ node = "plan"
       \/ node = "execute" /\ Steps
       \/ node = "reason" /\ status # "failed"
    /\ supersteps < RecursionLimit /\ result = "none"
    /\ session' = "broken" /\ result' = "error"
    /\ UNCHANGED <<executor, database, graphVars, ran, started, task>>

OutOfSteps ==
    /\ node # "end" /\ supersteps = RecursionLimit /\ result = "none"
    /\ result' = "error"
    /\ UNCHANGED <<executor, database, graphVars, ran, started, session, task>>

OrchestratorReturns ==
    /\ node = "end" /\ result = "none"
    /\ result' = CASE Awaiting -> "requires_approval"
                   [] ~Awaiting /\ status = "failed" -> "failed"
                   [] OTHER -> "success"
    /\ UNCHANGED <<executor, database, graphVars, ran, started, session, task>>

\* The runner looks for the key "error", which no result has, and stores
\* COMPLETED; the commit may take effect and raise all the same.
StoreCompleted ==
    /\ result # "none" /\ task = "RUNNING" /\ session = "usable"
    /\ task' = "COMPLETED"
    /\ session' \in {"closed", "broken"}
    /\ UNCHANGED <<executor, database, graphVars, ran, started, result>>

\* The commit of the success raised, as it always does on a broken session, or is
\* about to: the runner is in its except block.
Excepted == result # "none" /\ (task = "RUNNING" \/ session = "broken")

\* Variant: the failure is stored without a rollback.
StoreFailedUnrolled ==
    /\ Excepted /\ session = "usable"
    /\ task' = "FAILED" /\ session' = "closed"
    /\ UNCHANGED <<executor, database, graphVars, ran, started, result>>

\* The except block: roll back, read the row again and store FAILED.
StoreFailed ==
    /\ Excepted
    /\ task' = "FAILED" /\ session' = "closed"
    /\ UNCHANGED <<executor, database, graphVars, ran, started, result>>

\* One of the block's own calls raises: the coroutine ends, and a row that is
\* RUNNING stays so with nobody behind it (ABANDONED here).
StoreFails ==
    /\ Excepted /\ database = "down"
    /\ session' = "closed"
    /\ task' = IF task = "RUNNING" THEN "ABANDONED" ELSE task
    /\ UNCHANGED <<executor, database, graphVars, ran, started, result>>

Step ==
    \/ PlanAccepted \/ PlanRefused
    \/ ExecuteNothing \/ AskApproval \/ ExecuteInjected \/ ExecuteDefault
    \/ Observe
    \/ ReasonFailed \/ ReasonToolFailed \/ ReasonToolPassed
    \/ TraceRaises \/ OutOfSteps \/ OrchestratorReturns
    \/ StoreCompleted \/ StoreFailed \/ StoreFails

Next == Step \/ Decide

Spec == Init /\ [][Next]_vars

\* The coroutine goes on.  The calls of the model and of the tools have timeouts;
\* those of the database have none, and are assumed to return or to raise.
\* Nobody has to decide.
FairSpec == Spec /\ WF_vars(Step)

-----------------------------------------------------------------------------
TypeOK ==
    /\ executor \in {"default", "injected"} /\ database \in {"up", "down"}
    /\ session \in {"usable", "broken", "closed"}
    /\ node \in {"plan", "execute", "observe", "reason", "end"} /\ supersteps \in 0..RecursionLimit
    /\ plan \in Seq(Tools) /\ current_step_index \in Nat /\ step_count \in Nat /\ retry_count \in Nat
    /\ status \in {"in_progress", "failed", "succeeded"} /\ lastResult \in {"none", "success", "failure"}
    /\ approval \in {"none", "pending", "approved", "rejected"}
    /\ ran \subseteq Tools /\ started \in BOOLEAN
    /\ result \in {"none", "requires_approval", "failed", "success", "error"}
    /\ task \in {"RUNNING", "COMPLETED", "FAILED", "ABANDONED"}

(* A run that reports success was judged complete by the model after its last  *)
(* tool passed, and no tool step it announced is left without its end event:   *)
(* reason_node looks at the failed result before it asks the model.            *)
SuccessIsEarned ==
    result = "success" => status = "succeeded" /\ lastResult # "failure" /\ ~started

(* No tool that needs an approval is ever run, and a run that waits for one    *)
(* plans and runs nothing more, through whatever nodes the graph still takes:  *)
(* the reason node that follows may clear the plan on account of an earlier    *)
(* failed result, and only the edge after it keeps the graph from planning.    *)
PauseHolds ==
    [][/\ ran' \cap ApprovalRequired = {}
       /\ Awaiting => UNCHANGED <<current_step_index, step_count, ran>>]_vars

(* The plans of one run, and with them the calls of the planning model, are    *)
(* bounded by the step limit and the retries together: the step limit is       *)
(* compared only after a tool passed, the retries only after one failed.       *)
PlansBounded == step_count <= MaxSteps + MaxRetries

(* Every agent run comes to its end with its task stored as COMPLETED or       *)
(* FAILED, whatever the model, the tools and the trace do and whether or not   *)
(* the commit of the success raises: the recursion limit ends the graph, the   *)
(* orchestrator catches what it raises, and the runner rolls a broken session  *)
(* back before it stores the failure.  Not so when the database fails the      *)
(* except block as well: that task is left to the recovery of its lease.       *)
OutcomeStored ==
    database = "up" => <>(session = "closed" /\ task \in {"COMPLETED", "FAILED"})

(* What the code does not do: a run that failed is stored as FAILED.           *)
FailedRunIsFailed == result \in {"failed", "error"} => task # "COMPLETED"

=============================================================================
