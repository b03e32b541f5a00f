----------------------------- MODULE PlanExecute -----------------------------
(***************************************************************************)
(* One run of executors/plan_execute.py with services/plan_validator.py: a *)
(* planner (one retry on an invalid plan), the stages of the plan in       *)
(* order, the steps of a stage concurrently (asyncio.gather), replans that *)
(* keep what succeeded, and one synthesis call.                            *)
(*                                                                         *)
(* A plan maps step ids to a stage and to the ids they depend on; what a   *)
(* step does, its arguments and its output text are abstracted, and what   *)
(* the models answer is a nondeterministic choice.                         *)
(***************************************************************************)
EXTENDS Naturals, FiniteSets

CONSTANTS
  StepId,       \* step ids, positive integers
  Stage,        \* stage numbers, positive integers
  Plans,        \* the plans the planner may answer, valid or not
  MaxSteps, MaxTokens, MaxReplans, MaxPlannerRetries,
  TurnTokens,   \* bound: tokens the answers of one stage or call report
  Environment   \* which of Hazards may happen

(* disconnect: the client goes.  raise: a call raises something the code   *)
(* does not expect.  commit_fault: the commit that follows finalize_run    *)
(* raises, or the client goes while it is in flight.  cancel: POST :cancel.*)
Hazards == {"disconnect", "raise", "commit_fault", "cancel"}

Plan == [steps : SUBSET StepId, stage : [StepId -> Stage], deps : [StepId -> SUBSET StepId]]

ASSUME PlanAssumption ==
  /\ StepId \subseteq Nat \ {0} /\ Stage \subseteq Nat \ {0} /\ IsFiniteSet(StepId)
  /\ Plans \subseteq Plan /\ Plans # {}
  /\ MaxSteps \in Nat /\ MaxTokens \in Nat \ {0}
  /\ MaxReplans \in Nat /\ MaxPlannerRetries \in Nat /\ TurnTokens \in Nat
  /\ Environment \subseteq Hazards

VARIABLES
  pc,         \* where the generator stands
  plan,       \* the current plan
  attempts,   \* planner answers rejected in this pass
  replans,    \* replan_count
  completed,  \* completed_step_ids, the keys of step_outputs
  step,       \* the steps of the stage that gather runs
  tokens,     \* total_tokens_out
  maxed,      \* max_tokens_reached
  draft,      \* what finalize_run assigned, until its commit
  row,        \* the run's row
  event,      \* the cancellation event
  left,       \* the detached finalize, as in RunContract
  told,       \* the final state the client was sent
  successes   \* history: how often each step id succeeded

planVars == <<plan, attempts, replans, completed>>
rowVars  == <<row, left, told>>
vars     == <<pc, planVars, step, tokens, maxed, draft, event, rowVars, successes>>

Final == {"completed", "failed", "cancelled"}

Stop == {"none", "context_full", "llm_provider_error", "planning_failed", "step_failed",
         "replan_exceeded", "guardrail_exceeded_no_synthesis", "empty_response",
         "max_tokens", "cancelled", "client_disconnected", "internal_error"}

Outcome   == [status : Final \cup {"running"}, stop : Stop]
Undecided == [status |-> "running", stop |-> "none"]

PC == {"start", "planning", "top", "stage", "synthesis", "commit", "cancelling",
       "tell", "done"}

(* "tool": invoking its MCP tool.  "evaluate": asking the model to judge it. *)
StepPC   == {"idle", "tool", "evaluate", "success", "failure", "replan_requested"}
InFlight == {s \in StepId : step[s] \in {"tool", "evaluate"}}
InStage  == {s \in StepId : step[s] # "idle"}
Ended(state) == {s \in StepId : step[s] = state}
Idle     == [s \in StepId |-> "idle"]
NoPlan   == [steps |-> {}, stage |-> [s \in StepId |-> CHOOSE n \in Stage : TRUE],
             deps |-> [s \in StepId |-> {}]]

TypeOK ==
  /\ pc \in PC
  /\ plan \in Plan
  /\ attempts \in 0 .. MaxPlannerRetries
  /\ replans \in 0 .. MaxReplans
  /\ completed \subseteq StepId
  /\ step \in [StepId -> StepPC]
  /\ tokens \in Nat /\ maxed \in BOOLEAN
  /\ draft \in Outcome /\ row \in Outcome
  /\ event \in BOOLEAN
  /\ left \in {"no", "settled"} \cup Final
  /\ told \in {"none"} \cup Final
  /\ successes \in [StepId -> Nat]

Init ==
  /\ pc = "start"
  /\ plan = NoPlan /\ attempts = 0 /\ replans = 0 /\ completed = {}
  /\ step = Idle
  /\ tokens = 0 /\ maxed = FALSE
  /\ draft = Undecided /\ row = Undecided
  /\ event = FALSE /\ left = "no" /\ told = "none"
  /\ successes = [s \in StepId |-> 0]

----------------------------------------------------------------------------
(* finalize_run; finalized = True; the commit is awaited next. *)
Decide(status, stop) ==
  /\ draft' = [status |-> status, stop |-> stop]
  /\ pc' = "commit"

Fail(stop) == Decide("failed", stop)

AppendUserMessage ==
  /\ pc = "start"
  /\ \/ pc' = "planning" /\ UNCHANGED draft
     \/ Fail("context_full")
  /\ UNCHANGED <<planVars, step, tokens, maxed, event, rowVars, successes>>

----------------------------------------------------------------------------
(* The planner *)

(* parse_and_validate_plan *)
Valid(p) ==
  /\ Cardinality(p.steps) \in 1 .. MaxSteps
  /\ \A s \in p.steps : \A d \in p.deps[s] : d \in p.steps /\ p.stage[d] < p.stage[s]

PlannerFails ==
  /\ pc = "planning"
  /\ Fail("llm_provider_error")
  /\ attempts' = 0
  /\ UNCHANGED <<plan, replans, completed, step, tokens, maxed, event, rowVars, successes>>

(* An answer that is no plan at all is rejected like an invalid one. *)
PlanRejected ==
  /\ pc = "planning"
  /\ IF attempts < MaxPlannerRetries
     THEN attempts' = attempts + 1 /\ UNCHANGED <<pc, draft>>
     ELSE attempts' = 0 /\ Fail("planning_failed")
  /\ UNCHANGED <<plan, replans, completed, step, tokens, maxed, event, rowVars, successes>>

PlanAccepted ==
  \E p \in Plans, t \in 0 .. TurnTokens :
    /\ pc = "planning"
    /\ Valid(p)
    /\ plan' = p
    /\ attempts' = 0
    /\ tokens' = tokens + t
    /\ pc' = "top"
    /\ UNCHANGED <<replans, completed, step, maxed, draft, event, rowVars, successes>>

----------------------------------------------------------------------------
(* The stages *)

Remaining == plan.steps \ completed

NextStageAny == Remaining  \* mutant: not grouped by stage
NextStage ==
  {s \in Remaining : \A r \in Remaining : plan.stage[s] <= plan.stage[r]}

SeesCancel ==
  /\ pc = "top" /\ event
  /\ pc' = "cancelling"
  /\ UNCHANGED <<planVars, step, tokens, maxed, draft, event, rowVars, successes>>

NothingRemains ==
  /\ pc = "top" /\ ~event /\ Remaining = {}
  /\ pc' = "synthesis"
  /\ UNCHANGED <<planVars, step, tokens, maxed, draft, event, rowVars, successes>>

(* Every step of the lowest stage starts.                                  *)
StartStage ==
  /\ pc = "top" /\ ~event /\ Remaining # {}
  /\ step' = [s \in StepId |-> IF s \in NextStage THEN "tool" ELSE "idle"]
  /\ pc' = "stage"
  /\ UNCHANGED <<planVars, tokens, maxed, draft, event, rowVars, successes>>

InvokeTool(s) ==
  /\ step[s] = "tool"
  /\ step' = [step EXCEPT ![s] = "evaluate"]
  /\ UNCHANGED <<pc, planVars, tokens, maxed, draft, event, rowVars, successes>>

(* A provider error or an unreadable verdict is a failure.  A step whose   *)
(* tool is the literal "synthesize" has nothing to invoke first; a step    *)
(* whose gather is gone ends unheard.                                      *)
Evaluate(s, verdict) ==
  /\ step[s] \in {"tool", "evaluate"}
  /\ IF pc = "stage"
     THEN /\ step' = [step EXCEPT ![s] = verdict]
          /\ successes' = IF verdict = "success"
                          THEN [successes EXCEPT ![s] = @ + 1] ELSE successes
     ELSE step' = [step EXCEPT ![s] = "idle"] /\ UNCHANGED successes
  /\ UNCHANGED <<pc, planVars, tokens, maxed, draft, event, rowVars>>

(* gather returned: the outcomes are persisted and committed, a failure    *)
(* wins over a replan request, and what succeeded is kept either way.      *)
StageEnds(t) ==
  /\ pc = "stage" /\ InFlight = {}
  /\ step' = Idle
  /\ tokens' = tokens + t
  /\ UNCHANGED <<plan, attempts, event, rowVars, successes>>

StageFails ==
  \E t \in 0 .. TurnTokens :
    /\ StageEnds(t)
    /\ Ended("failure") # {}
    /\ Fail("step_failed")
    /\ UNCHANGED <<replans, completed, maxed>>

KeptNothing == {}         \* mutant: sibling successes are forgotten
Kept == Ended("success")

StageReplans ==
  \E t \in 0 .. TurnTokens :
    /\ StageEnds(t)
    /\ Ended("failure") = {} /\ Ended("replan_requested") # {}
    /\ completed' = completed \cup Kept
    /\ IF replans >= MaxReplans
       THEN Fail("replan_exceeded") /\ UNCHANGED replans
       ELSE replans' = replans + 1 /\ pc' = "planning" /\ UNCHANGED draft
    /\ UNCHANGED maxed

StageSucceedsAnyway ==  \* mutant: only failures are looked for
  \E t \in 0 .. TurnTokens :
    /\ StageEnds(t)
    /\ Ended("failure") = {}
    /\ completed' = completed \cup InStage
    /\ maxed' = (tokens + t >= MaxTokens)
    /\ pc' = IF maxed' \/ plan.steps \subseteq completed' THEN "synthesis" ELSE "top"
    /\ UNCHANGED <<replans, draft>>

StageSucceeds ==
  \E t \in 0 .. TurnTokens :
    /\ StageEnds(t)
    /\ Ended("success") = InStage
    /\ completed' = completed \cup InStage
    /\ maxed' = (tokens + t >= MaxTokens)
    /\ pc' = IF maxed' \/ plan.steps \subseteq completed' THEN "synthesis" ELSE "top"
    /\ UNCHANGED <<replans, draft>>

----------------------------------------------------------------------------
(* Synthesis, skipped when it would overshoot max_tokens by half: the size *)
(* of the outputs is abstracted, so it may be skipped at any count and     *)
(* must be when the tokens alone already exceed the limit.                 *)
SynthesisFails ==
  \E stop \in {"guardrail_exceeded_no_synthesis", "llm_provider_error", "empty_response"} :
    /\ pc = "synthesis"
    /\ 2 * tokens > 3 * MaxTokens => stop = "guardrail_exceeded_no_synthesis"
    /\ Fail(stop)
    /\ UNCHANGED <<planVars, step, tokens, maxed, event, rowVars, successes>>

Synthesis ==
  /\ pc = "synthesis" /\ 2 * tokens <= 3 * MaxTokens
  /\ Decide("completed", IF maxed THEN "max_tokens" ELSE "none")
  /\ UNCHANGED <<planVars, step, tokens, maxed, event, rowVars, successes>>

CommitOutcome ==
  /\ pc = "commit"
  /\ row' = draft
  /\ pc' = "tell"
  /\ UNCHANGED <<planVars, step, tokens, maxed, draft, event, left, told, successes>>

(* The commit raises or is interrupted: finalized is already set, so the   *)
(* outer finally schedules nothing and the row stays as it was.            *)
CommitLost ==
  /\ pc = "commit" /\ "commit_fault" \in Environment
  /\ pc' = "done"
  /\ UNCHANGED <<planVars, step, tokens, maxed, draft, event, rowVars, successes>>

TellOutcome ==
  /\ pc = "tell"
  /\ told' = draft.status
  /\ pc' = "done"
  /\ UNCHANGED <<planVars, step, tokens, maxed, draft, event, row, left, successes>>

Cancelled == [status |-> "cancelled", stop |-> "cancelled"]

(* The inner finally: finalize_run and a commit whose failure is           *)
(* suppressed; either way the client is then told.                         *)
FinalizeCancelled ==
  /\ pc = "cancelling"
  /\ draft' = Cancelled
  /\ \/ row' = Cancelled
     \/ "commit_fault" \in Environment /\ UNCHANGED row
  /\ pc' = "tell"
  /\ UNCHANGED <<planVars, step, tokens, maxed, event, left, told, successes>>

----------------------------------------------------------------------------
(* Cancels, disconnects and exceptions *)

Cancel ==
  /\ "cancel" \in Environment
  /\ row.status = "running" /\ ~event /\ pc # "done"
  /\ event' = TRUE
  /\ UNCHANGED <<pc, planVars, step, tokens, maxed, draft, rowVars, successes>>

UnfinalizedUntilTold == pc # "done"  \* mutant: finalized is set too late
Unfinalized == pc \notin {"commit", "tell", "done"}

(* What a disconnect leaves of a stage.  gather passes the cancellation on *)
(* to every step, again and again, until one of them has ended; a tool     *)
(* call swallows it and retries (base.py, tool_caller.py).  So one step    *)
(* ends, and then nobody cancels the siblings still in a tool call.        *)
StageCancelled ==
  \E stay \in SUBSET Ended("tool") :
    /\ stay # InFlight \/ InFlight = {}
    /\ step' = [s \in StepId |-> IF s \in stay THEN "tool" ELSE "idle"]

DisconnectKeepsSteps ==  \* mutant: the steps are tasks nobody cancels
  /\ "disconnect" \in Environment /\ pc \notin {"commit", "done"}
  /\ pc' = "done"
  /\ UNCHANGED step
  /\ left' = IF Unfinalized THEN "cancelled" ELSE left
  /\ UNCHANGED <<planVars, tokens, maxed, draft, event, row, told, successes>>

DisconnectForgets ==  \* mutant: the outer finally schedules nothing
  /\ "disconnect" \in Environment /\ pc \notin {"commit", "done"}
  /\ pc' = "done"
  /\ IF pc = "stage" THEN StageCancelled ELSE UNCHANGED step
  /\ UNCHANGED <<planVars, tokens, maxed, draft, event, rowVars, successes>>

(* While the last commit is in flight it is CommitLost that happens. *)
Disconnect ==
  /\ "disconnect" \in Environment /\ pc \notin {"commit", "done"}
  /\ pc' = "done"
  /\ IF pc = "stage" THEN StageCancelled ELSE UNCHANGED step
  /\ left' = IF Unfinalized THEN "cancelled" ELSE left
  /\ UNCHANGED <<planVars, tokens, maxed, draft, event, row, told, successes>>

(* An unexpected exception; raised by a step, gather passes it on and the  *)
(* other steps of the stage go on as tasks nobody awaits.                  *)
Raise ==
  /\ "raise" \in Environment /\ Unfinalized
  /\ pc' = "done"
  /\ \/ pc = "stage" /\ \E s \in InFlight : step' = [step EXCEPT ![s] = "idle"]
     \/ pc # "stage" /\ UNCHANGED step
     \/ pc = "stage" /\ InFlight = {} /\ step' = Idle
  /\ left' = IF event THEN "cancelled" ELSE "failed"
  /\ UNCHANGED <<planVars, tokens, maxed, draft, event, row, told, successes>>

RunOrphan ==
  /\ left \in Final
  /\ row' = [status |-> left, stop |-> CASE left = "failed" -> "internal_error"
                                         [] event           -> "cancelled"
                                         [] OTHER           -> "client_disconnected"]
  /\ left' = "settled"
  /\ UNCHANGED <<pc, planVars, step, tokens, maxed, draft, event, told, successes>>

----------------------------------------------------------------------------
RunStep(s) ==
  \/ InvokeTool(s)
  \/ \E verdict \in {"success", "failure", "replan_requested"} : Evaluate(s, verdict)

Advance ==
  \/ AppendUserMessage
  \/ PlannerFails \/ PlanRejected \/ PlanAccepted
  \/ SeesCancel \/ NothingRemains \/ StartStage
  \/ StageFails \/ StageReplans \/ StageSucceeds
  \/ SynthesisFails \/ Synthesis
  \/ CommitOutcome \/ TellOutcome \/ FinalizeCancelled

Next ==
  \/ Advance \/ (\E s \in StepId : RunStep(s)) \/ RunOrphan
  \/ Cancel \/ Disconnect \/ Raise \/ CommitLost

Spec == Init /\ [][Next]_vars

(* Chat and tool calls end by their timeouts, and the event loop runs      *)
(* every ready task; the client and the operator promise nothing.          *)
FairSpec ==
  /\ Spec
  /\ WF_vars(Advance) /\ WF_vars(RunOrphan)
  /\ \A s \in StepId : WF_vars(RunStep(s))

----------------------------------------------------------------------------
(* Properties *)

(* A decided outcome whose commit failed: finalized is already set, so     *)
(* nothing will settle the row any more.                                   *)
Lost == pc \in {"tell", "done"} /\ draft.status \in Final /\ row.status = "running"

(* The executor keeps the promise all executors make about a run, unless   *)
(* the last commit was lost: then the row stays running, and a client that *)
(* cancelled may have been told CANCELED.                                  *)
Contract == INSTANCE RunContract WITH
  status <- row.status, told <- IF Lost THEN "none" ELSE told
KeepsContract == Contract!ContractSpec

(* While a step runs, every step it depends on has succeeded and its       *)
(* output is there to be substituted: across replans, steps the new plan   *)
(* shares with an old one, and siblings in flight.                         *)
DependenciesDone ==
  pc = "stage" => \A s \in InStage : plan.deps[s] \subseteq completed

(* Work that succeeded is not redone: a step id succeeds at most once,     *)
(* even when a sibling of its stage asks for a new plan.                   *)
SucceedsOnce == \A s \in StepId : successes[s] <= 1

(* A run that completed without hitting max_tokens has run every step of   *)
(* its last plan successfully.                                             *)
CompletedPlan ==
  row.status = "completed" /\ row.stop = "none" =>
    \A s \in plan.steps : successes[s] = 1

(* Once the client was told the end of a run no step of it is at work.     *)
(* When the handler is gone otherwise, by a disconnect or an exception in  *)
(* a step, a step is at work only if a sibling of its stage has ended: a   *)
(* lone step stops with its client.  (The siblings do go on.)              *)
ToolsStopWithRun ==
  /\ told # "none" => InFlight = {}
  /\ pc = "done" /\ InFlight # {} => InFlight \subseteq NextStage /\ InFlight # NextStage

(* The run ends, whatever the planner and the steps ask for, and only a    *)
(* lost commit of its outcome leaves it running.                           *)
RunEnds == <>(row.status \in Final \/ Lost)
=============================================================================
