--------------------------- MODULE AgentRunProofs ---------------------------
(***************************************************************************)
(* Theorems about AgentRun, for every set of tools, every division of them  *)
(* into registered ones and ones that need an approval, and every limit.    *)
(*                                                                         *)
(* What the properties rest on is where in the graph a run can be: a run    *)
(* that waits is past the execute node, one that was judged is at its end,  *)
(* and one at the plan node has a plan left to pay for.                     *)
(***************************************************************************)
EXTENDS AgentRun, TLAPS

\* Where the graph can be, of a run that waits or was judged complete.
Place ==
    /\ Awaiting => node \in {"observe", "reason", "end"}
    /\ status = "succeeded" => node = "end"

\* A run comes to its end waiting, failed, or judged complete after a tool that passed.
EndJudged ==
    node = "end" /\ result # "error" =>
        Awaiting \/ status = "failed" \/ (status = "succeeded" /\ lastResult # "failure")

\* A step that was announced and never ended ends the run with an error.
StartedIsError == started => result = "error"

\* One plan is left to the plan node, whether a pass or a failure leads to it.
Budget ==
    /\ node # "end" => retry_count <= MaxRetries /\ step_count <= MaxSteps + retry_count
    /\ node = "plan" => step_count < MaxSteps + retry_count

Unapproved == ran \cap ApprovalRequired = {}

\* The inductive invariant.
IInv == TypeOK /\ Place /\ EndJudged /\ StartedIsError /\ Budget /\ PlansBounded /\ Unapproved /\ SuccessIsEarned

-----------------------------------------------------------------------------

\* A plan is a sequence of tools.
LEMMA PlansAreSequences == Plans \subseteq Seq(Tools)
BY LimitsAssumption DEF Plans

\* The initial states satisfy the invariant.
LEMMA InitIInv == Init => IInv
<1> SUFFICES ASSUME Init PROVE IInv
  OBVIOUS
<1>1. TypeOK
  <2>1. <<>> \in Seq(Tools)
    OBVIOUS
  <2>2. supersteps \in 0..RecursionLimit
    BY LimitsAssumption DEF Init
  <2>3. plan \in Seq(Tools)
    BY <2>1 DEF Init
  <2>4. started \in BOOLEAN
    BY DEF Init
  <2> QED
    BY <2>2, <2>3, <2>4 DEF Init, TypeOK
<1>2. Place /\ EndJudged /\ StartedIsError /\ Unapproved /\ SuccessIsEarned
  BY DEF Init, Place, EndJudged, StartedIsError, Unapproved, SuccessIsEarned, Awaiting
<1>3. Budget /\ PlansBounded
  BY LimitsAssumption DEF Init, Budget, PlansBounded
<1> QED
  BY <1>1, <1>2, <1>3 DEF IInv

\* The edge after the reason node ends the graph of a run that waits or was judged, and no other.
LEMMA ContinueCases ==
    ASSUME NEW s, NEW p
    PROVE  /\ Continue(s, p) \in {"end", "execute", "plan"}
           /\ Continue(s, p) = "end" <=> Awaiting \/ s \in {"failed", "succeeded"}
BY DEF Continue, Awaiting

\* The next tool is one of the plan.
LEMMA ToolOfPlan == TypeOK /\ Steps => Tool \in Tools
BY DEF TypeOK, Steps, Tool

\* Planning: the plan that is accepted was paid for.
LEMMA PlanStep == ASSUME IInv, PlanAccepted \/ PlanRefused PROVE IInv'
<1> USE LimitsAssumption DEF IInv, Node, planVars, judgement, outside
<1>1. TypeOK'
  <2>1. CASE PlanAccepted
    BY <2>1, PlansAreSequences DEF PlanAccepted, TypeOK
  <2>2. CASE PlanRefused
    BY <2>2 DEF PlanRefused, TypeOK
  <2> QED
    BY <2>1, <2>2
<1>2. Place' /\ EndJudged'
  BY DEF PlanAccepted, PlanRefused, Place, EndJudged, Awaiting, TypeOK
<1>3. Budget' /\ PlansBounded'
  BY DEF PlanAccepted, PlanRefused, Budget, PlansBounded, TypeOK
<1>4. StartedIsError' /\ Unapproved' /\ SuccessIsEarned'
  BY DEF PlanAccepted, PlanRefused, StartedIsError, Unapproved, SuccessIsEarned
<1> QED
  BY <1>1, <1>2, <1>3, <1>4

\* Executing: a tool that runs needs no approval, and one that needs it makes the run wait.
LEMMA ExecuteStep ==
    ASSUME IInv, ExecuteNothing \/ AskApproval \/ ExecuteInjected \/ ExecuteDefault
    PROVE  IInv'
<1> USE LimitsAssumption DEF IInv, Node, planVars, judgement, outside
<1>1. TypeOK'
  <2>1. CASE ExecuteNothing \/ AskApproval
    BY <2>1 DEF ExecuteNothing, AskApproval, TypeOK
  <2>2. CASE ExecuteInjected
    <3>1. Tool \in Tools
      BY <2>2, ToolOfPlan DEF ExecuteInjected
    <3> QED
      BY <2>2, <3>1 DEF ExecuteInjected, TypeOK
  <2>3. CASE ExecuteDefault
    <3>1. Tool \in Tools
      BY <2>3, ToolOfPlan DEF ExecuteDefault
    <3>2. ran' \subseteq Tools
      BY <2>3, <3>1 DEF ExecuteDefault, TypeOK
    <3> QED
      BY <2>3, <3>2 DEF ExecuteDefault, TypeOK
  <2> QED
    BY <2>1, <2>2, <2>3
<1>2. Place' /\ EndJudged'
  BY DEF ExecuteNothing, AskApproval, ExecuteInjected, ExecuteDefault, Place, EndJudged, Awaiting, Steps, TypeOK
<1>3. Budget' /\ PlansBounded'
  BY DEF ExecuteNothing, AskApproval, ExecuteInjected, ExecuteDefault, Budget, PlansBounded, TypeOK
<1>4. StartedIsError' /\ SuccessIsEarned'
  BY DEF ExecuteNothing, AskApproval, ExecuteInjected, ExecuteDefault, StartedIsError, SuccessIsEarned
<1>5. Unapproved'
  BY DEF ExecuteNothing, AskApproval, ExecuteInjected, ExecuteDefault, Unapproved
<1> QED
  BY <1>1, <1>2, <1>3, <1>4, <1>5

\* Observing and judging: a retry is paid for, and a run is complete only after a tool that passed.
LEMMA ReasonStep ==
    ASSUME IInv, Observe \/ ReasonFailed \/ ReasonToolFailed \/ ReasonToolPassed
    PROVE  IInv'
<1> USE LimitsAssumption DEF IInv, Node, planVars, judgement, outside
<1>1. CASE Observe
  BY <1>1 DEF Observe, TypeOK, Place, EndJudged, Budget, PlansBounded, StartedIsError, Unapproved,
     SuccessIsEarned, Awaiting
<1>2. CASE ReasonFailed
  BY <1>2, ContinueCases DEF ReasonFailed, TypeOK, Place, EndJudged, Budget, PlansBounded, StartedIsError,
     Unapproved, SuccessIsEarned, Awaiting
<1>3. CASE ReasonToolFailed
  <2>1. <<>> \in Seq(Tools)
    OBVIOUS
  <2>2. TypeOK'
    <3>1. plan' = plan \/ plan' = <<>>
      BY <1>3 DEF ReasonToolFailed
    <3>2. plan' \in Seq(Tools)
      BY <2>1, <3>1 DEF TypeOK
    <3>3. retry_count' \in Nat
      BY <1>3 DEF ReasonToolFailed, TypeOK
    <3>4. status' \in {"in_progress", "failed", "succeeded"}
      BY <1>3 DEF ReasonToolFailed, TypeOK
    <3> QED
      BY <1>3, <3>2, <3>3, <3>4, ContinueCases DEF ReasonToolFailed, TypeOK
  <2>3. Place' /\ EndJudged'
    BY <1>3, ContinueCases DEF ReasonToolFailed, Place, EndJudged, Awaiting, TypeOK
  <2>4. Budget' /\ PlansBounded'
    BY <1>3, ContinueCases DEF ReasonToolFailed, Budget, PlansBounded, TypeOK
  <2>5. StartedIsError' /\ Unapproved' /\ SuccessIsEarned'
    BY <1>3 DEF ReasonToolFailed, StartedIsError, Unapproved, SuccessIsEarned
  <2> QED
    BY <2>2, <2>3, <2>4, <2>5
<1>4. CASE ReasonToolPassed
  <2>1. TypeOK'
    BY <1>4, ContinueCases DEF ReasonToolPassed, TypeOK
  <2>2. Place' /\ EndJudged'
    BY <1>4, ContinueCases DEF ReasonToolPassed, Place, EndJudged, Awaiting, TypeOK
  <2>3. Budget' /\ PlansBounded'
    BY <1>4, ContinueCases DEF ReasonToolPassed, Budget, PlansBounded, TypeOK
  <2>4. StartedIsError' /\ Unapproved' /\ SuccessIsEarned'
    BY <1>4 DEF ReasonToolPassed, StartedIsError, Unapproved, SuccessIsEarned
  <2> QED
    BY <2>1, <2>2, <2>3, <2>4
<1> QED
  BY <1>1, <1>2, <1>3, <1>4

\* Decisions, errors and the runner leave plan and judgement alone.
LEMMA OutsideStep ==
    ASSUME IInv,
           Decide \/ TraceRaises \/ OutOfSteps \/ OrchestratorReturns \/ StoreCompleted \/ StoreFailed \/ StoreFails
    PROVE  IInv'
<1> USE DEF IInv, graphVars, planVars, judgement, outside
<1>1. TypeOK'
  BY DEF Decide, TraceRaises, OutOfSteps, OrchestratorReturns, StoreCompleted, StoreFailed, StoreFails, Excepted, TypeOK
<1>2. Place' /\ EndJudged'
  BY DEF Decide, TraceRaises, OutOfSteps, OrchestratorReturns, StoreCompleted, StoreFailed, StoreFails, Excepted,
     Place, EndJudged, Awaiting, TypeOK
<1>3. Budget' /\ PlansBounded' /\ Unapproved'
  BY DEF Decide, TraceRaises, OutOfSteps, OrchestratorReturns, StoreCompleted, StoreFailed, StoreFails, Excepted,
     Budget, PlansBounded, Unapproved
<1>4. StartedIsError'
  BY DEF Decide, TraceRaises, OutOfSteps, OrchestratorReturns, StoreCompleted, StoreFailed, StoreFails, Excepted, StartedIsError
<1>5. SuccessIsEarned'
  BY DEF Decide, TraceRaises, OutOfSteps, OrchestratorReturns, StoreCompleted, StoreFailed, StoreFails, Excepted,
     SuccessIsEarned, EndJudged, StartedIsError, TypeOK
<1> QED
  BY <1>1, <1>2, <1>3, <1>4, <1>5

\* Every step keeps the invariant.
LEMMA NextIInv == IInv /\ [Next]_vars => IInv'
<1> SUFFICES ASSUME IInv, [Next]_vars PROVE IInv'
  OBVIOUS
<1>1. CASE UNCHANGED vars
  BY <1>1 DEF vars, graphVars, planVars, judgement, outside, IInv, TypeOK, Place, EndJudged, StartedIsError,
     Budget, PlansBounded, Unapproved, SuccessIsEarned, Awaiting
<1>2. CASE Next
  BY <1>2, PlanStep, ExecuteStep, ReasonStep, OutsideStep DEF Next, Step
<1> QED
  BY <1>1, <1>2

LEMMA AlwaysIInv == Spec => []IInv
BY InitIInv, NextIInv, PTL DEF Spec

-----------------------------------------------------------------------------

(* Every variable of a run has its type; the supersteps stay within the       *)
(* recursion limit, and every tool that runs is one a plan may hold.          *)
THEOREM RunTyped == Spec => []TypeOK
BY AlwaysIInv, PTL DEF IInv

(* A run that reports success (agents/orchestrator.py) was judged complete    *)
(* after a tool that passed, and left no announced step without its end.      *)
THEOREM SuccessEarned == Spec => []SuccessIsEarned
BY AlwaysIInv, PTL DEF IInv

(* The step limit and the retries together bound the plans of a run           *)
(* (reason_node, should_continue), however often tools fail in between.       *)
THEOREM PlansWithinLimits == Spec => []PlansBounded
BY AlwaysIInv, PTL DEF IInv

(* No tool that needs an approval is run, and a run that waits for one plans  *)
(* and executes nothing more (execute_node, should_continue).                 *)
THEOREM PauseKept == Spec => PauseHolds
<1> DEFINE Held == /\ ran' \cap ApprovalRequired = {}
                   /\ Awaiting => UNCHANGED <<current_step_index, step_count, ran>>
<1>1. IInv /\ IInv' /\ [Next]_vars => [Held]_vars
  <2> SUFFICES ASSUME IInv, IInv', Next PROVE Held
    OBVIOUS
  <2>1. ran' \cap ApprovalRequired = {}
    BY DEF IInv, Unapproved
  <2>2. ASSUME Awaiting PROVE UNCHANGED <<current_step_index, step_count, ran>>
    <3>1. node \in {"observe", "reason", "end"}
      BY <2>2 DEF IInv, Place
    <3>2. ~PlanAccepted /\ ~PlanRefused /\ ~ExecuteNothing /\ ~AskApproval /\ ~ExecuteInjected /\ ~ExecuteDefault
      BY <3>1 DEF PlanAccepted, PlanRefused, ExecuteNothing, AskApproval, ExecuteInjected, ExecuteDefault, Node
    <3> QED
      BY <3>2 DEF Next, Step, Observe, ReasonFailed, ReasonToolFailed, ReasonToolPassed, Decide, TraceRaises,
         OutOfSteps, OrchestratorReturns, StoreCompleted, StoreFailed, StoreFails, Excepted, graphVars, planVars, outside
  <2> QED
    BY <2>1, <2>2
<1> QED
  BY <1>1, AlwaysIInv, PTL DEF Spec, PauseHolds

=============================================================================
