-------------------------- MODULE PlanExecuteProofs --------------------------
(***************************************************************************)
(* Theorems about a Plan-Execute run, for any plans the planner may        *)
(* answer, any limits and any failures.                                    *)
(***************************************************************************)
EXTENDS PlanExecute, FiniteSetTheorems, WellFoundedInduction, TLAPS

USE PlanAssumption

----------------------------------------------------------------------------
(* The inductive invariant. *)

(* What has been decided, committed and told at each label. *)
Decided ==
  /\ pc \notin {"tell", "done"} => row = Undecided
  /\ pc \notin {"commit", "tell", "done"} => draft = Undecided
  /\ pc \in {"commit", "tell"} => draft.status \in Final
  /\ pc = "tell" => row \in {draft, Undecided}
  /\ pc # "done" => left = "no" /\ told = "none"
  /\ told # "none" => draft.status \in Final /\ row \in {draft, Undecided}
  /\ left # "no" => told = "none"
  /\ left \in Final => row.status = "running"
  /\ left # "completed"

(* The plan the stages follow is one the validator let through. *)
Ordered ==
  pc \in {"top", "stage"} =>
    \A s \in plan.steps : \A d \in plan.deps[s] :
      d \in plan.steps /\ plan.stage[d] < plan.stage[s]

(* A stage runs steps that have not succeeded, on outputs that are there,  *)
(* all those of the lowest stage; only a run whose handler is gone has     *)
(* steps outside a stage.                                                  *)
Staged ==
  /\ pc = "stage" => InStage = NextStage
  /\ pc = "stage" => \A s \in InStage : /\ s \in plan.steps \ completed
                                        /\ plan.deps[s] \subseteq completed
  /\ pc \notin {"stage", "done"} => step = Idle

(* The run has kept exactly what succeeded, until it is decided. *)
Counted ==
  /\ pc \in {"start", "planning", "top", "stage", "synthesis"} =>
       \A s \in StepId :
         successes[s] = IF s \in completed \/ step[s] = "success" THEN 1 ELSE 0
  /\ pc = "synthesis" /\ ~maxed => plan.steps \subseteq completed

(* A clean completion, decided or committed, has run every step. *)
Clean(outcome) ==
  outcome.status = "completed" /\ outcome.stop = "none" =>
    /\ pc \in {"commit", "tell", "done"}
    /\ \A s \in plan.steps : successes[s] = 1

(* No step outlives a run whose end was told, and where the handler is     *)
(* gone otherwise one at least of its stage has ended.                     *)
Quiet ==
  /\ told # "none" => pc = "done" /\ step = Idle
  /\ pc = "done" /\ InFlight # {} => InFlight \subseteq NextStage /\ InFlight # NextStage

PlanInv ==
  /\ TypeOK /\ Decided /\ Ordered /\ Staged /\ Counted
  /\ SucceedsOnce /\ Clean(draft) /\ Clean(row) /\ Quiet

----------------------------------------------------------------------------
LEMMA NoPlanType == NoPlan \in Plan
<1>1. PICK p \in Plans : p \in Plan
  OBVIOUS
<1>2. \A s \in StepId : Stage # {}
  BY <1>1 DEF Plan
<1>3. [s \in StepId |-> CHOOSE n \in Stage : TRUE] \in [StepId -> Stage]
  BY <1>2
<1>4. QED
  BY <1>3 DEF NoPlan, Plan

LEMMA IdleFacts ==
  /\ Idle \in [StepId -> StepPC]
  /\ \A s \in StepId : Idle[s] = "idle"
  /\ step = Idle => InStage = {} /\ InFlight = {}
BY DEF Idle, StepPC, InStage, InFlight

LEMMA InitOk == Init => PlanInv
<1> SUFFICES ASSUME Init
             PROVE  PlanInv
  OBVIOUS
<1>1. Undecided \in Outcome /\ Undecided.status = "running" /\ Undecided.stop = "none"
  BY DEF Undecided, Outcome, Stop
<1>2. TypeOK
  <2>1. 0 \in 0 .. MaxPlannerRetries /\ 0 \in 0 .. MaxReplans
    OBVIOUS
  <2>2. [s \in StepId |-> 0] \in [StepId -> Nat]
    OBVIOUS
  <2>3. QED
    BY <1>1, <2>1, <2>2, NoPlanType, IdleFacts DEF Init, TypeOK, PC
<1>3. Decided /\ Ordered /\ Staged
  BY DEF Init, Decided, Ordered, Staged, Final
<1>4. Counted /\ SucceedsOnce
  <2>1. /\ pc = "start" /\ completed = {}
        /\ \A s \in StepId : step[s] = "idle" /\ successes[s] = 0
    BY IdleFacts DEF Init
  <2>2. SucceedsOnce
    BY <2>1 DEF SucceedsOnce
  <2>3. \A s \in StepId : ~(s \in completed \/ step[s] = "success")
    BY <2>1
  <2>4. Counted
    BY <2>1, <2>3 DEF Counted
  <2>5. QED
    BY <2>2, <2>4
<1>5. Clean(draft) /\ Clean(row) /\ Quiet
  BY <1>1 DEF Init, Clean, Quiet
<1>6. QED
  BY <1>2, <1>3, <1>4, <1>5 DEF PlanInv

LEMMA StutterOk == PlanInv /\ UNCHANGED vars => PlanInv'
BY DEF vars, planVars, rowVars, PlanInv, TypeOK, Decided, Ordered, Staged, Counted,
       SucceedsOnce, Clean, Quiet, InStage, InFlight, NextStage, Remaining

----------------------------------------------------------------------------
(* What the actions have in common. *)

LEMMA FailOutcome ==
  ASSUME NEW stop \in Stop, Fail(stop)
  PROVE  /\ pc' = "commit" /\ draft' \in Outcome
         /\ draft'.status = "failed" /\ draft'.stop = stop
BY DEF Fail, Decide, Outcome, Final

Working == {"start", "planning", "top", "stage", "synthesis", "cancelling"}

(* While the run works nothing is decided, committed or told. *)
LEMMA GoesOn ==
  ASSUME PlanInv, pc \in Working, pc' \in Working, UNCHANGED <<draft, event, rowVars>>
  PROVE  Decided' /\ Clean(draft)' /\ Clean(row)' /\ Quiet'
<1>1. row = Undecided /\ draft = Undecided /\ left = "no" /\ told = "none"
  BY DEF PlanInv, Decided, Working
<1>2. UNCHANGED <<row, draft, left, told>>
  BY DEF rowVars
<1>3. Decided'
  BY <1>1, <1>2 DEF Decided, Working, Final
<1>4. Clean(draft)' /\ Clean(row)'
  BY <1>1, <1>2 DEF Clean, Undecided
<1>5. Quiet'
  BY <1>1, <1>2 DEF Quiet, Working
<1>6. QED
  BY <1>3, <1>4, <1>5

(* A run is decided when no step of it is running. *)
LEMMA IsDecided ==
  ASSUME PlanInv, pc \in Working, pc' = "commit", step' = Idle,
         draft' \in Outcome, draft'.status \in Final,
         draft'.status = "completed" /\ draft'.stop = "none" =>
           \A s \in plan.steps : successes[s] = 1,
         attempts' \in 0 .. MaxPlannerRetries, replans' \in 0 .. MaxReplans,
         completed' \subseteq StepId, tokens' \in Nat, maxed' \in BOOLEAN,
         UNCHANGED <<plan, event, rowVars, successes>>
  PROVE  PlanInv'
<1>1. row = Undecided /\ left = "no" /\ told = "none" /\ UNCHANGED <<row, left, told>>
  BY DEF PlanInv, Decided, Working, rowVars
<1>2. TypeOK'
  BY <1>1, IdleFacts DEF PlanInv, TypeOK, PC
<1>3. Decided'
  BY <1>1 DEF Decided, Final
<1>4. Ordered' /\ Staged' /\ Counted'
  BY DEF Ordered, Staged, Counted
<1>5. SucceedsOnce'
  BY DEF PlanInv, SucceedsOnce
<1>6. Clean(draft)' /\ Clean(row)'
  BY <1>1 DEF Clean, Undecided
<1>7. Quiet'
  BY <1>1 DEF Quiet
<1>8. QED
  BY <1>2, <1>3, <1>4, <1>5, <1>6, <1>7 DEF PlanInv

----------------------------------------------------------------------------
(* The planner *)

LEMMA AppendUserMessageOk == PlanInv /\ AppendUserMessage => PlanInv'
<1> SUFFICES ASSUME PlanInv, AppendUserMessage
             PROVE  PlanInv'
  OBVIOUS
<1>1. pc = "start" /\ step = Idle /\ pc \in Working
  BY DEF AppendUserMessage, PlanInv, Staged, Working
<1>2. CASE pc' = "planning" /\ UNCHANGED draft
  <2>1. Decided' /\ Clean(draft)' /\ Clean(row)' /\ Quiet'
    BY <1>1, <1>2, GoesOn DEF AppendUserMessage, Working
  <2>2. TypeOK'
    BY <1>2 DEF AppendUserMessage, PlanInv, TypeOK, PC, planVars, rowVars
  <2>3. Ordered' /\ Staged' /\ Counted' /\ SucceedsOnce'
    BY <1>1, <1>2
      DEF AppendUserMessage, PlanInv, Ordered, Staged, Counted, SucceedsOnce, planVars
  <2>4. QED
    BY <2>1, <2>2, <2>3 DEF PlanInv
<1>3. CASE Fail("context_full")
  <2>1. "context_full" \in Stop
    BY DEF Stop
  <2>2. /\ pc' = "commit" /\ draft' \in Outcome
        /\ draft'.status = "failed" /\ draft'.stop = "context_full"
    BY <1>3, <2>1, FailOutcome
  <2>3. QED
    BY <1>1, <2>2, IsDecided
      DEF AppendUserMessage, PlanInv, TypeOK, Final, planVars
<1>4. QED
  BY <1>2, <1>3 DEF AppendUserMessage

LEMMA PlannerOk == PlanInv /\ (PlannerFails \/ PlanRejected) => PlanInv'
<1> SUFFICES ASSUME PlanInv, PlannerFails \/ PlanRejected
             PROVE  PlanInv'
  OBVIOUS
<1>1. pc = "planning" /\ step = Idle /\ pc \in Working /\ 0 \in 0 .. MaxPlannerRetries
  BY DEF PlannerFails, PlanRejected, PlanInv, Staged, Working
<1>2. ASSUME NEW stop \in {"llm_provider_error", "planning_failed"}, Fail(stop),
             attempts' = 0,
             UNCHANGED <<plan, replans, completed, step, tokens, maxed, event, rowVars, successes>>
      PROVE  PlanInv'
  <2>1. stop \in Stop
    BY DEF Stop
  <2>2. /\ pc' = "commit" /\ draft' \in Outcome
        /\ draft'.status = "failed" /\ draft'.stop = stop
    BY <1>2, <2>1, FailOutcome
  <2>3. QED
    BY <1>1, <1>2, <2>1, <2>2, IsDecided DEF PlanInv, TypeOK, Final
<1>3. ASSUME attempts < MaxPlannerRetries, attempts' = attempts + 1,
             UNCHANGED <<pc, draft, plan, replans, completed, step, tokens, maxed, event, rowVars,
                         successes>>
      PROVE  PlanInv'
  <2>1. Decided' /\ Clean(draft)' /\ Clean(row)' /\ Quiet'
    BY <1>1, <1>3, GoesOn DEF Working
  <2>2. TypeOK'
    BY <1>3 DEF PlanInv, TypeOK, PC, rowVars
  <2>3. Ordered' /\ Staged' /\ Counted' /\ SucceedsOnce'
    BY <1>1, <1>3 DEF PlanInv, Ordered, Staged, Counted, SucceedsOnce
  <2>4. QED
    BY <2>1, <2>2, <2>3 DEF PlanInv
<1>4. QED
  BY <1>2, <1>3 DEF PlannerFails, PlanRejected

LEMMA PlanAcceptedOk == PlanInv /\ PlanAccepted => PlanInv'
<1> SUFFICES ASSUME PlanInv, PlanAccepted
             PROVE  PlanInv'
  OBVIOUS
<1>1. PICK p \in Plans, t \in 0 .. TurnTokens :
        /\ pc = "planning" /\ Valid(p) /\ plan' = p /\ attempts' = 0 /\ tokens' = tokens + t
        /\ pc' = "top"
        /\ UNCHANGED <<replans, completed, step, maxed, draft, event, rowVars, successes>>
  BY DEF PlanAccepted
<1>2. Decided' /\ Clean(draft)' /\ Clean(row)' /\ Quiet'
  BY <1>1, GoesOn DEF Working
<1>3. TypeOK'
  <2>1. p \in Plan /\ tokens + t \in Nat /\ 0 \in 0 .. MaxPlannerRetries
    BY DEF PlanInv, TypeOK
  <2>2. QED
    BY <1>1, <2>1 DEF PlanInv, TypeOK, PC, rowVars
<1>4. Ordered'
  BY <1>1 DEF Ordered, Valid
<1>5. Staged' /\ Counted' /\ SucceedsOnce'
  BY <1>1 DEF PlanInv, Staged, Counted, SucceedsOnce
<1>6. QED
  BY <1>2, <1>3, <1>4, <1>5 DEF PlanInv

----------------------------------------------------------------------------
(* The stages *)

LEMMA TopOk == PlanInv /\ (SeesCancel \/ NothingRemains) => PlanInv'
<1> SUFFICES ASSUME PlanInv, SeesCancel \/ NothingRemains
             PROVE  PlanInv'
  OBVIOUS
<1>1. /\ pc = "top" /\ step = Idle /\ pc' \in {"cancelling", "synthesis"}
      /\ UNCHANGED <<planVars, step, tokens, maxed, draft, event, rowVars, successes>>
  BY DEF SeesCancel, NothingRemains, PlanInv, Staged
<1>2. Decided' /\ Clean(draft)' /\ Clean(row)' /\ Quiet'
  BY <1>1, GoesOn DEF Working
<1>3. TypeOK'
  BY <1>1 DEF PlanInv, TypeOK, PC, planVars, rowVars
<1>4. pc' = "synthesis" => plan.steps \subseteq completed
  BY DEF SeesCancel, NothingRemains, Remaining
<1>5. Ordered' /\ Staged' /\ Counted' /\ SucceedsOnce'
  BY <1>1, <1>4 DEF PlanInv, Ordered, Staged, Counted, SucceedsOnce, planVars
<1>6. QED
  BY <1>2, <1>3, <1>5 DEF PlanInv

(* What the lowest stage depends on does not remain. *)
LEMMA NextStageReady ==
  ASSUME PlanInv, pc = "top", NEW s \in NextStage
  PROVE  s \in plan.steps \ completed /\ s \in StepId /\ plan.deps[s] \subseteq completed
<1>1. s \in Remaining /\ \A r \in Remaining : plan.stage[s] <= plan.stage[r]
  BY DEF NextStage
<1>2. s \in plan.steps /\ s \notin completed
  BY <1>1 DEF Remaining
<1>3. /\ plan.steps \subseteq StepId
      /\ \A r \in StepId : plan.stage[r] \in Nat
  BY DEF PlanInv, TypeOK, Plan
<1>4. ASSUME NEW d \in plan.deps[s], d \notin completed
      PROVE  FALSE
  <2>1. d \in plan.steps /\ plan.stage[d] < plan.stage[s]
    BY <1>2 DEF PlanInv, Ordered
  <2>2. plan.stage[s] <= plan.stage[d]
    BY <1>1, <1>4, <2>1 DEF Remaining
  <2>3. plan.stage[d] \in Nat /\ plan.stage[s] \in Nat
    BY <1>2, <1>3, <2>1
  <2>4. QED
    BY <2>1, <2>2, <2>3
<1>5. QED
  BY <1>2, <1>3, <1>4

LEMMA StartStageOk == PlanInv /\ StartStage => PlanInv'
<1> SUFFICES ASSUME PlanInv, StartStage
             PROVE  PlanInv'
  OBVIOUS
<1>1. /\ pc = "top" /\ pc' = "stage" /\ step = Idle
      /\ step' = [s \in StepId |-> IF s \in NextStage THEN "tool" ELSE "idle"]
      /\ UNCHANGED <<planVars, tokens, maxed, draft, event, rowVars, successes>>
  BY DEF StartStage, PlanInv, Staged
<1>2. Decided' /\ Clean(draft)' /\ Clean(row)' /\ Quiet'
  BY <1>1, GoesOn DEF Working
<1>3. step' \in [StepId -> StepPC]
  BY <1>1 DEF StepPC
<1>4. TypeOK'
  BY <1>1, <1>3 DEF PlanInv, TypeOK, PC, planVars, rowVars
<1>5. Ordered' /\ SucceedsOnce'
  BY <1>1 DEF PlanInv, Ordered, SucceedsOnce, planVars
<1>6. Staged'
  <2>1. \A s \in NextStage : s \in StepId
    BY <1>1, NextStageReady
  <2>2. InStage' = NextStage
    BY <1>1, <2>1 DEF InStage
  <2>3. NextStage' = NextStage
    BY <1>1 DEF NextStage, Remaining, planVars
  <2>4. QED
    BY <1>1, <2>2, <2>3, NextStageReady DEF Staged, planVars
<1>7. Counted'
  BY <1>1, IdleFacts DEF PlanInv, Counted, planVars
<1>8. QED
  BY <1>2, <1>4, <1>5, <1>6, <1>7 DEF PlanInv

LEMMA InvokeToolOk == ASSUME NEW s \in StepId PROVE PlanInv /\ InvokeTool(s) => PlanInv'
<1> SUFFICES ASSUME PlanInv, InvokeTool(s)
             PROVE  PlanInv'
  OBVIOUS
<1>1. /\ step[s] = "tool" /\ step # Idle /\ step \in [StepId -> StepPC]
      /\ step' = [step EXCEPT ![s] = "evaluate"]
      /\ UNCHANGED <<pc, planVars, tokens, maxed, draft, event, rowVars, successes>>
  BY IdleFacts DEF InvokeTool, PlanInv, TypeOK
<1>2. /\ step' \in [StepId -> StepPC] /\ InStage' = InStage /\ InFlight' = InFlight
      /\ NextStage' = NextStage
  <2>1. step' \in [StepId -> StepPC] /\ InStage' = InStage
    BY <1>1 DEF StepPC, InStage
  <2>2. InFlight' = InFlight
    BY <1>1 DEF InFlight
  <2>3. NextStage' = NextStage
    BY <1>1 DEF NextStage, Remaining, planVars
  <2>4. QED
    BY <2>1, <2>2, <2>3
<1>3. \A r \in StepId : step'[r] = "success" <=> step[r] = "success"
  BY <1>1
<1>4. TypeOK'
  BY <1>1, <1>2 DEF PlanInv, TypeOK, planVars, rowVars
<1>5. Decided' /\ Ordered' /\ Clean(draft)' /\ Clean(row)' /\ SucceedsOnce'
  BY <1>1 DEF PlanInv, Decided, Ordered, Clean, SucceedsOnce, planVars, rowVars
<1>6. Staged'
  BY <1>1, <1>2 DEF PlanInv, Staged, planVars
<1>7. Counted'
  BY <1>1, <1>3 DEF PlanInv, Counted, planVars
<1>8. Quiet'
  BY <1>1, <1>2 DEF PlanInv, Quiet, rowVars
<1>9. QED
  BY <1>4, <1>5, <1>6, <1>7, <1>8 DEF PlanInv

LEMMA EvaluateOk ==
  ASSUME NEW s \in StepId, NEW verdict \in {"success", "failure", "replan_requested"}
  PROVE  PlanInv /\ Evaluate(s, verdict) => PlanInv'
<1> SUFFICES ASSUME PlanInv, Evaluate(s, verdict)
             PROVE  PlanInv'
  OBVIOUS
<1>1. /\ step[s] \in {"tool", "evaluate"} /\ step # Idle /\ step \in [StepId -> StepPC]
      /\ successes \in [StepId -> Nat]
      /\ UNCHANGED <<pc, planVars, tokens, maxed, draft, event, rowVars>>
  BY IdleFacts DEF Evaluate, PlanInv, TypeOK
<1>2. pc \in {"stage", "done"}
  BY <1>1 DEF PlanInv, Staged
<1>3. Decided' /\ Ordered'
  BY <1>1 DEF PlanInv, Decided, Ordered, planVars, rowVars
<1>4. Quiet' /\ NextStage' = NextStage
  <2>1. NextStage' = NextStage
    BY <1>1 DEF NextStage, Remaining, planVars
  <2>2. ASSUME pc = "done"
        PROVE  InFlight' \subseteq InFlight
    BY <1>1, <2>2 DEF Evaluate, InFlight
  <2>3. s \in InFlight /\ told = "none"
    BY <1>1 DEF InFlight, PlanInv, Quiet
  <2>4. ASSUME pc = "done"
        PROVE  InFlight' \subseteq NextStage /\ InFlight' # NextStage
    BY <2>2, <2>3, <2>4 DEF PlanInv, Quiet
  <2>5. QED
    BY <1>1, <2>1, <2>3, <2>4 DEF Quiet, rowVars
<1>5. CASE pc = "stage"
  <2>1. /\ step' = [step EXCEPT ![s] = verdict]
        /\ successes' = IF verdict = "success"
                        THEN [successes EXCEPT ![s] = @ + 1] ELSE successes
    BY <1>5 DEF Evaluate
  <2>2. s \notin completed /\ successes[s] = 0
    BY <1>1, <1>5 DEF PlanInv, Staged, InStage, Counted
  <2>3. step' \in [StepId -> StepPC] /\ successes' \in [StepId -> Nat]
    BY <1>1, <2>1 DEF StepPC
  <2>4. InStage' = InStage
    BY <1>1, <2>1 DEF InStage
  <2>5. TypeOK'
    BY <1>1, <2>3 DEF PlanInv, TypeOK, planVars, rowVars
  <2>6. Staged'
    BY <1>1, <1>4, <1>5, <2>4 DEF PlanInv, Staged, planVars
  <2>7. Counted'
    BY <1>1, <1>5, <2>1, <2>2 DEF PlanInv, Counted, planVars
  <2>8. SucceedsOnce'
    BY <1>1, <2>1, <2>2 DEF PlanInv, SucceedsOnce
  <2>9. Clean(draft)' /\ Clean(row)'
    BY <1>1, <1>5 DEF PlanInv, Clean, rowVars
  <2>10. QED
    BY <1>3, <1>4, <2>5, <2>6, <2>7, <2>8, <2>9 DEF PlanInv
<1>6. CASE pc = "done"
  <2>1. step' = [step EXCEPT ![s] = "idle"] /\ UNCHANGED successes
    BY <1>6 DEF Evaluate
  <2>2. step' \in [StepId -> StepPC]
    BY <1>1, <2>1 DEF StepPC
  <2>3. TypeOK'
    BY <1>1, <2>1, <2>2 DEF PlanInv, TypeOK, planVars, rowVars
  <2>4. Staged' /\ Counted' /\ SucceedsOnce' /\ Clean(draft)' /\ Clean(row)'
    BY <1>1, <1>6, <2>1
      DEF PlanInv, Staged, Counted, SucceedsOnce, Clean, planVars, rowVars
  <2>5. QED
    BY <1>3, <1>4, <2>3, <2>4 DEF PlanInv
<1>7. QED
  BY <1>2, <1>5, <1>6

LEMMA StageFailsOk == PlanInv /\ StageFails => PlanInv'
<1> SUFFICES ASSUME PlanInv, StageFails
             PROVE  PlanInv'
  OBVIOUS
<1>1. PICK t \in 0 .. TurnTokens : StageEnds(t) /\ Fail("step_failed")
  BY DEF StageFails
<1>2. /\ pc = "stage" /\ step' = Idle /\ tokens' = tokens + t
      /\ UNCHANGED <<plan, attempts, event, rowVars, successes, replans, completed, maxed>>
  BY <1>1 DEF StageEnds, StageFails
<1>3. "step_failed" \in Stop
  BY DEF Stop
<1>4. /\ pc' = "commit" /\ draft' \in Outcome
      /\ draft'.status = "failed" /\ draft'.stop = "step_failed"
  BY <1>1, <1>3, FailOutcome
<1>5. tokens + t \in Nat
  BY DEF PlanInv, TypeOK
<1>6. QED
  BY <1>2, <1>4, <1>5, IsDecided DEF PlanInv, TypeOK, Final, Working

LEMMA StageReplansOk == PlanInv /\ StageReplans => PlanInv'
<1> SUFFICES ASSUME PlanInv, StageReplans
             PROVE  PlanInv'
  OBVIOUS
<1>1. PICK t \in 0 .. TurnTokens :
        /\ StageEnds(t) /\ completed' = completed \cup Kept /\ UNCHANGED maxed
        /\ IF replans >= MaxReplans
           THEN Fail("replan_exceeded") /\ UNCHANGED replans
           ELSE replans' = replans + 1 /\ pc' = "planning" /\ UNCHANGED draft
  BY DEF StageReplans
<1>2. /\ pc = "stage" /\ pc \in Working /\ step' = Idle /\ tokens' = tokens + t
      /\ UNCHANGED <<plan, attempts, event, rowVars, successes>>
  BY <1>1 DEF StageEnds, Working
<1>3. tokens' \in Nat /\ completed' \subseteq StepId
  <2>1. tokens + t \in Nat /\ Kept \subseteq StepId /\ completed \subseteq StepId
    BY DEF PlanInv, TypeOK, Kept, Ended
  <2>2. QED
    BY <1>1, <1>2, <2>1
<1>4. CASE replans >= MaxReplans
  <2>1. "replan_exceeded" \in Stop
    BY DEF Stop
  <2>2. /\ pc' = "commit" /\ draft' \in Outcome
        /\ draft'.status = "failed" /\ draft'.stop = "replan_exceeded"
    BY <1>1, <1>4, <2>1, FailOutcome
  <2>3. QED
    BY <1>1, <1>2, <1>3, <1>4, <2>2, IsDecided DEF PlanInv, TypeOK, Final
<1>5. CASE ~(replans >= MaxReplans)
  <2>1. replans' \in 0 .. MaxReplans /\ pc' = "planning" /\ UNCHANGED draft
    BY <1>1, <1>5 DEF PlanInv, TypeOK
  <2>2. Decided' /\ Clean(draft)' /\ Clean(row)' /\ Quiet'
    BY <1>2, <2>1, GoesOn DEF Working
  <2>3. TypeOK'
    BY <1>1, <1>2, <1>3, <2>1, IdleFacts DEF PlanInv, TypeOK, PC, rowVars
  <2>4. Ordered' /\ Staged' /\ SucceedsOnce'
    BY <1>2, <2>1 DEF PlanInv, Ordered, Staged, SucceedsOnce
  <2>5. \A s \in StepId : s \in completed' <=> s \in completed \/ step[s] = "success"
    BY <1>1 DEF Kept, Ended
  <2>6. Counted'
    BY <1>2, <2>1, <2>5, IdleFacts DEF PlanInv, Counted
  <2>7. QED
    BY <2>2, <2>3, <2>4, <2>6 DEF PlanInv
<1>6. QED
  BY <1>4, <1>5

LEMMA StageSucceedsOk == PlanInv /\ StageSucceeds => PlanInv'
<1> SUFFICES ASSUME PlanInv, StageSucceeds
             PROVE  PlanInv'
  OBVIOUS
<1>1. PICK t \in 0 .. TurnTokens :
        /\ StageEnds(t) /\ Ended("success") = InStage
        /\ completed' = completed \cup InStage
        /\ maxed' = (tokens + t >= MaxTokens)
        /\ pc' = IF maxed' \/ plan.steps \subseteq completed' THEN "synthesis" ELSE "top"
        /\ UNCHANGED <<replans, draft>>
  BY DEF StageSucceeds
<1>2. /\ pc = "stage" /\ step' = Idle /\ tokens' = tokens + t /\ pc' \in {"synthesis", "top"}
      /\ UNCHANGED <<plan, attempts, event, rowVars, successes>>
  BY <1>1 DEF StageEnds
<1>3. tokens' \in Nat /\ completed' \subseteq StepId /\ maxed' \in BOOLEAN
  <2>1. tokens + t \in Nat /\ InStage \subseteq StepId /\ completed \subseteq StepId
    BY DEF PlanInv, TypeOK, InStage
  <2>2. tokens' \in Nat /\ completed' \subseteq StepId
    BY <1>1, <1>2, <2>1
  <2>3. maxed' \in BOOLEAN
    <3>1. maxed' = (tokens + t >= MaxTokens)
      BY <1>1
    <3>2. QED
      BY <3>1
  <2>4. QED
    BY <2>2, <2>3
<1>4. Decided' /\ Clean(draft)' /\ Clean(row)' /\ Quiet'
  BY <1>1, <1>2, GoesOn DEF Working
<1>5. TypeOK'
  BY <1>1, <1>2, <1>3, IdleFacts DEF PlanInv, TypeOK, PC, rowVars
<1>6. Ordered' /\ Staged' /\ SucceedsOnce'
  BY <1>2 DEF PlanInv, Ordered, Staged, SucceedsOnce
<1>7. \A s \in StepId : s \in completed' <=> s \in completed \/ step[s] = "success"
  BY <1>1 DEF Ended
<1>8. Counted'
  BY <1>1, <1>2, <1>7, IdleFacts DEF PlanInv, Counted
<1>9. QED
  BY <1>4, <1>5, <1>6, <1>8 DEF PlanInv

----------------------------------------------------------------------------
(* The end of a run *)

LEMMA SynthesisFailsOk == PlanInv /\ SynthesisFails => PlanInv'
<1> SUFFICES ASSUME PlanInv, SynthesisFails
             PROVE  PlanInv'
  OBVIOUS
<1>1. PICK stop \in {"guardrail_exceeded_no_synthesis", "llm_provider_error", "empty_response"} :
        /\ pc = "synthesis" /\ Fail(stop)
        /\ UNCHANGED <<planVars, step, tokens, maxed, event, rowVars, successes>>
  BY DEF SynthesisFails
<1>2. stop \in Stop /\ step = Idle /\ pc \in Working
  BY <1>1 DEF Stop, PlanInv, Staged, Working
<1>3. /\ pc' = "commit" /\ draft' \in Outcome
      /\ draft'.status = "failed" /\ draft'.stop = stop
  BY <1>1, <1>2, FailOutcome
<1>4. QED
  BY <1>1, <1>2, <1>3, IsDecided DEF PlanInv, TypeOK, Final, planVars

LEMMA SynthesisOk == PlanInv /\ Synthesis => PlanInv'
<1> SUFFICES ASSUME PlanInv, Synthesis
             PROVE  PlanInv'
  OBVIOUS
<1>1. /\ pc = "synthesis" /\ Decide("completed", IF maxed THEN "max_tokens" ELSE "none")
      /\ UNCHANGED <<planVars, step, tokens, maxed, event, rowVars, successes>>
  BY DEF Synthesis
<1>2. step = Idle /\ pc \in Working
  BY <1>1 DEF PlanInv, Staged, Working
<1>3. /\ pc' = "commit" /\ draft' \in Outcome /\ draft'.status = "completed"
      /\ draft'.stop = (IF maxed THEN "max_tokens" ELSE "none")
  BY <1>1 DEF Decide, Outcome, Stop, Final
<1>4. ~maxed => \A s \in plan.steps : successes[s] = 1
  BY <1>1 DEF PlanInv, Counted, TypeOK, Plan
<1>5. QED
  BY <1>1, <1>2, <1>3, <1>4, IsDecided DEF PlanInv, TypeOK, Final, planVars

LEMMA CommitOutcomeOk == PlanInv /\ CommitOutcome => PlanInv'
<1> SUFFICES ASSUME PlanInv, CommitOutcome
             PROVE  PlanInv'
  OBVIOUS
<1>1. /\ pc = "commit" /\ row' = draft /\ pc' = "tell" /\ draft.status \in Final
      /\ left = "no" /\ told = "none" /\ step = Idle
      /\ UNCHANGED <<planVars, step, tokens, maxed, draft, event, left, told, successes>>
  BY DEF CommitOutcome, PlanInv, Decided, Staged
<1>2. TypeOK'
  BY <1>1 DEF PlanInv, TypeOK, PC, planVars
<1>3. Decided' /\ Ordered' /\ Staged' /\ Counted' /\ SucceedsOnce'
  BY <1>1
    DEF PlanInv, Decided, Final, Ordered, Staged, Counted, SucceedsOnce, planVars
<1>4. Clean(draft)' /\ Clean(row)' /\ Quiet'
  BY <1>1 DEF PlanInv, Clean, Quiet, planVars
<1>5. QED
  BY <1>2, <1>3, <1>4 DEF PlanInv

LEMMA CommitLostOk == PlanInv /\ CommitLost => PlanInv'
<1> SUFFICES ASSUME PlanInv, CommitLost
             PROVE  PlanInv'
  OBVIOUS
<1>1. /\ pc = "commit" /\ pc' = "done" /\ left = "no" /\ told = "none"
      /\ row = Undecided /\ step = Idle
      /\ UNCHANGED <<planVars, step, tokens, maxed, draft, event, row, left, told, successes>>
  BY DEF CommitLost, PlanInv, Decided, Staged, rowVars
<1>2. TypeOK'
  BY <1>1 DEF PlanInv, TypeOK, PC, planVars
<1>3. Decided' /\ Ordered' /\ Staged' /\ Counted' /\ SucceedsOnce'
  BY <1>1
    DEF PlanInv, Decided, Final, Ordered, Staged, Counted, SucceedsOnce, planVars
<1>4. InFlight' = {}
  BY <1>1, IdleFacts DEF InFlight
<1>5. Clean(draft)' /\ Clean(row)' /\ Quiet'
  BY <1>1, <1>4 DEF PlanInv, Clean, Quiet, planVars
<1>6. QED
  BY <1>2, <1>3, <1>5 DEF PlanInv

LEMMA TellOutcomeOk == PlanInv /\ TellOutcome => PlanInv'
<1> SUFFICES ASSUME PlanInv, TellOutcome
             PROVE  PlanInv'
  OBVIOUS
<1>1. /\ pc = "tell" /\ told' = draft.status /\ pc' = "done" /\ draft.status \in Final
      /\ row \in {draft, Undecided} /\ left = "no" /\ step = Idle
      /\ UNCHANGED <<planVars, step, tokens, maxed, draft, event, row, left, successes>>
  BY DEF TellOutcome, PlanInv, Decided, Staged
<1>2. TypeOK'
  BY <1>1 DEF PlanInv, TypeOK, PC, planVars
<1>3. Decided' /\ Ordered' /\ Staged' /\ Counted' /\ SucceedsOnce'
  BY <1>1
    DEF PlanInv, Decided, Final, Ordered, Staged, Counted, SucceedsOnce, planVars
<1>4. InFlight' = {}
  BY <1>1, IdleFacts DEF InFlight
<1>5. Clean(draft)' /\ Clean(row)' /\ Quiet'
  BY <1>1, <1>4 DEF PlanInv, Clean, Quiet, planVars
<1>6. QED
  BY <1>2, <1>3, <1>5 DEF PlanInv

LEMMA FinalizeCancelledOk == PlanInv /\ FinalizeCancelled => PlanInv'
<1> SUFFICES ASSUME PlanInv, FinalizeCancelled
             PROVE  PlanInv'
  OBVIOUS
<1>1. /\ pc = "cancelling" /\ pc' = "tell" /\ row' \in {Cancelled, Undecided}
      /\ draft' = Cancelled
      /\ left = "no" /\ told = "none" /\ step = Idle
      /\ UNCHANGED <<planVars, step, tokens, maxed, event, left, told, successes>>
  BY DEF FinalizeCancelled, PlanInv, Decided, Staged
<1>2. Cancelled \in Outcome /\ Undecided \in Outcome
  BY DEF Outcome, Final, Stop, Cancelled, Undecided
<1>3. TypeOK'
  BY <1>1, <1>2 DEF PlanInv, TypeOK, PC, planVars
<1>4. Decided' /\ Ordered' /\ Staged' /\ Counted' /\ SucceedsOnce'
  <2>1. Cancelled.status = "cancelled" /\ Undecided.status = "running"
    BY DEF Cancelled, Undecided
  <2>2. Decided'
    BY <1>1, <2>1 DEF PlanInv, Decided, Final
  <2>3. QED
    BY <1>1, <2>2 DEF PlanInv, Ordered, Staged, Counted, SucceedsOnce, planVars
<1>5. Clean(draft)' /\ Clean(row)' /\ Quiet'
  BY <1>1 DEF PlanInv, Clean, Quiet, planVars, Cancelled, Undecided
<1>6. QED
  BY <1>3, <1>4, <1>5 DEF PlanInv

----------------------------------------------------------------------------
(* Cancels, disconnects and exceptions *)

LEMMA CancelOk == PlanInv /\ Cancel => PlanInv'
BY DEF Cancel, planVars, rowVars, PlanInv, TypeOK, Decided, Ordered, Staged, Counted,
       SucceedsOnce, Clean, Quiet, InStage, InFlight, NextStage, Remaining

LEMMA DisconnectOk == PlanInv /\ Disconnect => PlanInv'
<1> SUFFICES ASSUME PlanInv, Disconnect
             PROVE  PlanInv'
  OBVIOUS
<1>1. /\ pc \notin {"commit", "done"} /\ pc' = "done"
      /\ IF pc = "stage" THEN StageCancelled ELSE UNCHANGED step
      /\ left' = IF Unfinalized THEN "cancelled" ELSE left
      /\ left = "no" /\ told = "none"
      /\ UNCHANGED <<planVars, tokens, maxed, draft, event, row, told, successes>>
  BY DEF Disconnect, PlanInv, Decided
<1>2. Unfinalized => row = Undecided /\ draft = Undecided
  BY DEF Unfinalized, PlanInv, Decided
<1>3. /\ step' \in [StepId -> StepPC]
      /\ InFlight' # {} => InFlight' \subseteq NextStage' /\ InFlight' # NextStage'
  <2>1. NextStage' = NextStage
    BY <1>1 DEF NextStage, Remaining, planVars
  <2>2. CASE pc # "stage"
    <3>1. step = Idle /\ UNCHANGED step
      BY <1>1, <2>2 DEF PlanInv, Staged
    <3>2. InFlight' = {}
      BY <3>1, IdleFacts DEF InFlight
    <3>3. QED
      BY <3>1, <3>2, IdleFacts
  <2>3. CASE pc = "stage"
    <3>1. PICK stay \in SUBSET Ended("tool") :
            /\ stay # InFlight \/ InFlight = {}
            /\ step' = [s \in StepId |-> IF s \in stay THEN "tool" ELSE "idle"]
      BY <1>1, <2>3 DEF StageCancelled
    <3>2. step' \in [StepId -> StepPC]
      BY <3>1 DEF StepPC
    <3>3. stay \subseteq StepId /\ InFlight' = stay
      BY <3>1 DEF Ended, InFlight
    <3>4. stay \subseteq InFlight /\ InFlight \subseteq InStage /\ InStage = NextStage
      BY <2>3, <3>1 DEF Ended, InFlight, InStage, PlanInv, Staged
    <3>5. QED
      BY <2>1, <3>1, <3>2, <3>3, <3>4
  <2>4. QED
    BY <2>2, <2>3
<1>4. TypeOK'
  BY <1>1, <1>3 DEF PlanInv, TypeOK, PC, Final, planVars
<1>5. Decided'
  BY <1>1, <1>2 DEF PlanInv, Decided, Undecided, Final
<1>6. Ordered' /\ Staged' /\ Counted' /\ SucceedsOnce'
  BY <1>1 DEF PlanInv, Ordered, Staged, Counted, SucceedsOnce, planVars
<1>7. Clean(draft)' /\ Clean(row)'
  BY <1>1 DEF PlanInv, Clean, planVars
<1>8. Quiet'
  BY <1>1, <1>3 DEF Quiet
<1>9. QED
  BY <1>4, <1>5, <1>6, <1>7, <1>8 DEF PlanInv

LEMMA RaiseOk == PlanInv /\ Raise => PlanInv'
<1> SUFFICES ASSUME PlanInv, Raise
             PROVE  PlanInv'
  OBVIOUS
<1>1. /\ pc' = "done" /\ row = Undecided /\ draft = Undecided /\ told = "none"
      /\ left' = IF event THEN "cancelled" ELSE "failed"
      /\ UNCHANGED <<planVars, tokens, maxed, draft, event, row, told, successes>>
  BY DEF Raise, Unfinalized, PlanInv, Decided
<1>2. step' \in [StepId -> StepPC]
  <2>1. step \in [StepId -> StepPC] /\ "idle" \in StepPC
    BY DEF PlanInv, TypeOK, StepPC
  <2>2. QED
    BY <2>1, IdleFacts DEF Raise
<1>3. TypeOK'
  BY <1>1, <1>2 DEF PlanInv, TypeOK, PC, Final, planVars
<1>4. Decided'
  BY <1>1 DEF Decided, Undecided, Final
<1>5. Ordered' /\ Staged' /\ Counted' /\ SucceedsOnce'
  BY <1>1 DEF PlanInv, Ordered, Staged, Counted, SucceedsOnce, planVars
<1>6. Clean(draft)' /\ Clean(row)'
  BY <1>1 DEF Clean, Undecided
<1>7. InFlight' # {} => InFlight' \subseteq NextStage' /\ InFlight' # NextStage'
  <2>1. NextStage' = NextStage
    BY <1>1 DEF NextStage, Remaining, planVars
  <2>2. CASE pc = "stage" /\ \E s \in InFlight : step' = [step EXCEPT ![s] = "idle"]
    <3>1. PICK s \in InFlight : step' = [step EXCEPT ![s] = "idle"]
      BY <2>2
    <3>2. step \in [StepId -> StepPC] /\ s \in StepId
      BY DEF PlanInv, TypeOK, InFlight
    <3>3. InFlight' \subseteq InFlight \ {s}
      BY <3>1, <3>2 DEF InFlight
    <3>4. InFlight \subseteq InStage /\ InStage = NextStage
      BY <2>2 DEF InFlight, InStage, PlanInv, Staged
    <3>5. QED
      BY <2>1, <3>1, <3>3, <3>4
  <2>3. CASE ~(pc = "stage" /\ \E s \in InFlight : step' = [step EXCEPT ![s] = "idle"])
    <3>1. step' = Idle
      BY <2>3 DEF Raise, Unfinalized, PlanInv, Staged
    <3>2. InFlight' = {}
      BY <3>1, IdleFacts DEF InFlight
    <3>3. QED
      BY <3>2
  <2>4. QED
    BY <2>2, <2>3
<1>8. Quiet'
  BY <1>1, <1>7 DEF Quiet
<1>9. QED
  BY <1>3, <1>4, <1>5, <1>6, <1>8 DEF PlanInv

LEMMA RunOrphanOk == PlanInv /\ RunOrphan => PlanInv'
<1> SUFFICES ASSUME PlanInv, RunOrphan
             PROVE  PlanInv'
  OBVIOUS
<1>1. /\ pc = "done" /\ left \in Final \ {"completed"} /\ told = "none" /\ left' = "settled"
      /\ row' = [status |-> left, stop |-> CASE left = "failed" -> "internal_error"
                                             [] event           -> "cancelled"
                                             [] OTHER           -> "client_disconnected"]
      /\ UNCHANGED <<pc, planVars, step, tokens, maxed, draft, event, told, successes>>
  BY DEF RunOrphan, PlanInv, Decided, Final
<1>2. row' \in Outcome /\ row'.status # "completed"
  <2>1. CASE left = "failed"
    BY <1>1, <2>1 DEF Outcome, Stop, Final
  <2>2. CASE left = "cancelled"
    BY <1>1, <2>2 DEF Outcome, Stop, Final, PlanInv, TypeOK
  <2>3. QED
    BY <1>1, <2>1, <2>2 DEF Final
<1>3. TypeOK'
  BY <1>1, <1>2 DEF PlanInv, TypeOK, planVars
<1>4. Decided'
  BY <1>1 DEF PlanInv, Decided, Final
<1>5. Ordered' /\ Staged' /\ Counted' /\ SucceedsOnce'
  BY <1>1 DEF PlanInv, Ordered, Staged, Counted, SucceedsOnce, planVars
<1>6. InFlight' = InFlight /\ NextStage' = NextStage
  BY <1>1 DEF InFlight, NextStage, Remaining, planVars
<1>7. Clean(draft)' /\ Clean(row)' /\ Quiet'
  BY <1>1, <1>2, <1>6 DEF PlanInv, Clean, Quiet, planVars
<1>8. QED
  BY <1>3, <1>4, <1>5, <1>7 DEF PlanInv

LEMMA NextOk == PlanInv /\ [Next]_vars => PlanInv'
<1>1. ASSUME PlanInv, NEW s \in StepId, RunStep(s)
      PROVE  PlanInv'
  BY <1>1, InvokeToolOk, EvaluateOk DEF RunStep
<1>2. ASSUME PlanInv, Advance
      PROVE  PlanInv'
  BY <1>2, AppendUserMessageOk, PlannerOk, PlanAcceptedOk, TopOk, StartStageOk,
     StageFailsOk, StageReplansOk, StageSucceedsOk, SynthesisFailsOk, SynthesisOk,
     CommitOutcomeOk, TellOutcomeOk, FinalizeCancelledOk DEF Advance
<1>3. QED
  BY <1>1, <1>2, RunOrphanOk, CancelOk, DisconnectOk, RaiseOk, CommitLostOk, StutterOk DEF Next

----------------------------------------------------------------------------
(* The theorems *)

LEMMA Invariant == Spec => []PlanInv
<1>1. QED
  BY InitOk, NextOk, PTL DEF Spec

(* executors/plan_execute.py keeps its counters within their limits,       *)
(* replan_count and the planner's retries in particular.                   *)
THEOREM PlanTypeCorrect == Spec => []TypeOK
<1>1. PlanInv => TypeOK
  BY DEF PlanInv
<1>2. QED
  BY <1>1, Invariant, PTL

(* Whatever plans follow each other, a step that runs finds the output of  *)
(* every step it depends on: the validator's order and the grouping by     *)
(* stage suffice.                                                          *)
THEOREM DependenciesComeFirst == Spec => []DependenciesDone
<1>1. PlanInv => DependenciesDone
  BY DEF PlanInv, Staged, DependenciesDone
<1>2. QED
  BY <1>1, Invariant, PTL

(* No step id succeeds twice in a run, whatever a new plan repeats. *)
THEOREM StepsSucceedOnce == Spec => []SucceedsOnce
<1>1. PlanInv => SucceedsOnce
  BY DEF PlanInv
<1>2. QED
  BY <1>1, Invariant, PTL

(* A clean completion has run every step of its plan. *)
THEOREM CompletionRanThePlan == Spec => []CompletedPlan
<1>1. PlanInv => CompletedPlan
  BY DEF PlanInv, Clean, CompletedPlan
<1>2. QED
  BY <1>1, Invariant, PTL

(* No tool call outlives a run whose end was told.  After a disconnect or  *)
(* an exception only siblings of a step that has ended go on.              *)
THEOREM ToolsStop == Spec => []ToolsStopWithRun
<1>1. PlanInv => ToolsStopWithRun
  BY IdleFacts DEF PlanInv, Quiet, ToolsStopWithRun
<1>2. QED
  BY <1>1, Invariant, PTL

(* What the abstract client is told: nothing, when the outcome was lost.   *)
Heard == IF Lost THEN "none" ELSE told

LEMMA StepKeepsContract ==
  ASSUME PlanInv, PlanInv', [Next]_vars
  PROVE  Contract!ContractNext \/ UNCHANGED <<row.status, left, Heard>>
<1>1. CASE CommitOutcome
  <2>1. /\ row = Undecided /\ left = "no" /\ told = "none" /\ draft.status \in Final
        /\ row' = draft /\ UNCHANGED <<left, told>>
    BY <1>1 DEF CommitOutcome, PlanInv, Decided
  <2>2. Heard = "none" /\ Heard' = "none"
    BY <2>1 DEF Heard
  <2>3. Contract!Settle
    BY <2>1, <2>2 DEF Contract!Settle, Contract!Final, Final, Undecided, Heard
  <2>4. QED
    BY <2>3 DEF Contract!ContractNext
<1>2. CASE FinalizeCancelled
  <2>1. /\ row = Undecided /\ left = "no" /\ told = "none"
        /\ row' = Cancelled \/ row' = row
        /\ UNCHANGED <<left, told>>
    BY <1>2 DEF FinalizeCancelled, PlanInv, Decided
  <2>2. Heard = "none" /\ Heard' = "none"
    BY <2>1 DEF Heard
  <2>3. CASE row' = Cancelled
    <3>1. Contract!Settle
      BY <2>1, <2>2, <2>3 DEF Contract!Settle, Contract!Final, Undecided, Cancelled, Heard
    <3>2. QED
      BY <3>1 DEF Contract!ContractNext
  <2>4. CASE row' = row
    BY <2>1, <2>2, <2>4
  <2>5. QED
    BY <2>1, <2>3, <2>4
<1>3. CASE TellOutcome
  <2>1. /\ pc = "tell" /\ pc' = "done" /\ told = "none" /\ left = "no"
        /\ draft.status \in Final /\ row \in {draft, Undecided}
        /\ told' = draft.status /\ UNCHANGED <<draft, row, left>>
    BY <1>3 DEF TellOutcome, PlanInv, Decided
  <2>2. Heard = "none"
    BY <2>1 DEF Heard
  <2>3. CASE row = Undecided
    <3>1. Lost'
      BY <2>1, <2>3 DEF Lost, Undecided
    <3>2. QED
      BY <2>1, <2>2, <3>1 DEF Heard
  <2>4. CASE row = draft
    <3>1. ~Lost'
      BY <2>1, <2>4 DEF Lost, Final
    <3>2. Contract!Tell
      BY <2>1, <2>2, <2>4, <3>1 DEF Contract!Tell, Contract!Final, Final, Heard
    <3>3. QED
      BY <3>2 DEF Contract!ContractNext
  <2>5. QED
    BY <2>1, <2>3, <2>4
<1>4. CASE Disconnect \/ Raise
  <2>1. told = "none" /\ UNCHANGED <<row, told>>
    BY <1>4 DEF Disconnect, Raise, Unfinalized, PlanInv, Decided
  <2>2. Heard = "none" /\ Heard' = "none"
    BY <2>1 DEF Heard
  <2>3. CASE UNCHANGED left
    BY <2>1, <2>2, <2>3
  <2>4. CASE left' # left
    <3>1. row = Undecided /\ left = "no" /\ left' \in {"cancelled", "failed"}
      BY <1>4, <2>4 DEF Disconnect, Raise, Unfinalized, PlanInv, Decided
    <3>2. Contract!Abandon
      BY <2>1, <2>2, <3>1 DEF Contract!Abandon, Contract!Final, Undecided, Heard
    <3>3. QED
      BY <3>2 DEF Contract!ContractNext
  <2>5. QED
    BY <2>3, <2>4
<1>5. CASE RunOrphan
  <2>1. /\ row.status = "running" /\ left \in Final /\ told = "none" /\ told' = told
        /\ row'.status = left /\ left' = "settled"
    BY <1>5 DEF RunOrphan, PlanInv, Decided, Final
  <2>2. Heard = "none" /\ Heard' = "none"
    BY <2>1 DEF Heard
  <2>3. Contract!SettleDetached
    BY <2>1, <2>2 DEF Contract!SettleDetached, Contract!Final, Final, Heard
  <2>4. QED
    BY <2>3 DEF Contract!ContractNext
<1>6. CASE CommitLost \/ Cancel
  <2>1. told = "none" /\ UNCHANGED <<row, left, told>>
    BY <1>6 DEF CommitLost, Cancel, rowVars, PlanInv, Decided
  <2>2. QED
    BY <2>1 DEF Heard
<1>7. CASE \/ AppendUserMessage \/ PlannerFails \/ PlanRejected \/ PlanAccepted
           \/ SeesCancel \/ NothingRemains \/ StartStage
           \/ StageFails \/ StageReplans \/ StageSucceeds
           \/ SynthesisFails \/ Synthesis
  <2>1. UNCHANGED rowVars /\ pc # "done"
    BY <1>7 DEF AppendUserMessage, PlannerFails, PlanRejected, PlanAccepted, SeesCancel,
                NothingRemains, StartStage, StageFails, StageReplans, StageSucceeds, StageEnds,
                SynthesisFails, Synthesis
  <2>2. told = "none" /\ UNCHANGED <<row, left, told>>
    BY <2>1 DEF PlanInv, Decided, rowVars
  <2>3. QED
    BY <2>2 DEF Heard
<1>8. CASE (\E s \in StepId : RunStep(s)) \/ UNCHANGED vars
  <2>1. UNCHANGED <<pc, draft, row, left, told>>
    BY <1>8 DEF RunStep, InvokeTool, Evaluate, vars, rowVars
  <2>2. QED
    BY <2>1 DEF Heard, Lost
<1>9. QED
  BY <1>1, <1>2, <1>3, <1>4, <1>5, <1>6, <1>7, <1>8 DEF Next, Advance

(* A Plan-Execute run keeps the promise all executors make: its row leaves *)
(* running once, and the client is told the state the row holds.  As for   *)
(* ReAct, a lost commit of the outcome is the one exception, told or not.  *)
THEOREM PlanKeepsContract == Spec => KeepsContract
<1>1. Init => Contract!ContractInit
  BY DEF Init, Contract!ContractInit, Undecided, Lost
<1>2. PlanInv /\ PlanInv' /\ [Next]_vars
        => [Contract!ContractNext]_<<row.status, left, IF Lost THEN "none" ELSE told>>
  BY StepKeepsContract DEF Heard
<1>3. QED
  BY <1>1, <1>2, Invariant, PTL
    DEF Spec, KeepsContract, Contract!ContractSpec, Contract!contractVars

----------------------------------------------------------------------------
(* No empty stage, no endless run. *)

LessThan == OpToRel(<, Nat)

LEMMA LessThanFacts ==
  /\ IsWellFoundedOn(LessThan, Nat)
  /\ \A m, n \in Nat : <<m, n>> \in LessThan <=> m < n
BY NatLessThanWellFounded DEF LessThan, OpToRel

LEMMA Minimum ==
  ASSUME NEW T \in SUBSET Nat, T # {}
  PROVE  \E m \in T : \A n \in T : m <= n
<1>1. PICK m \in T : \A n \in T : ~(<<n, m>> \in LessThan)
  <2>1. T \subseteq Nat
    OBVIOUS
  <2>2. IsWellFoundedOn(LessThan, Nat)
    BY LessThanFacts
  <2>3. QED
    BY <2>1, <2>2, WFMin
<1>2. ASSUME NEW n \in T
      PROVE  m <= n
  <2>1. m \in Nat /\ n \in Nat
    OBVIOUS
  <2>2. ~(n < m)
    BY <1>1, <2>1, LessThanFacts
  <2>3. QED
    BY <2>1, <2>2
<1>3. QED
  BY <1>2

(* A non-empty set of step ids has one of the lowest stage. *)
LEMMA LowestStage ==
  ASSUME NEW S \in SUBSET StepId, S # {}, NEW stage \in [StepId -> Stage]
  PROVE  \E s \in S : \A r \in S : stage[s] <= stage[r]
<1> DEFINE T == {stage[s] : s \in S}
<1>1. T \in SUBSET Nat /\ T # {}
  OBVIOUS
<1>2. \A s \in S : stage[s] \in T
  OBVIOUS
<1>3. \A n \in T : \E s \in S : n = stage[s]
  OBVIOUS
<1> HIDE DEF T
<1>4. PICK m \in T : \A n \in T : m <= n
  BY <1>1, Minimum
<1>5. QED
  BY <1>2, <1>3, <1>4

(* services/plan_validator.py asks for dependencies of a lower stage, and  *)
(* looks for no cycle: it need not, the dependencies of a plan it lets     *)
(* through are well-founded.                                               *)
THEOREM ValidPlansAcyclic ==
  ASSUME NEW p \in Plan, Valid(p)
  PROVE  IsWellFoundedOn({e \in p.steps \X p.steps : e[1] \in p.deps[e[2]]}, p.steps)
<1> DEFINE R == {e \in p.steps \X p.steps : e[1] \in p.deps[e[2]]}
<1>1. ASSUME NEW T \in SUBSET p.steps, T # {}
      PROVE  \E s \in T : \A d \in T : ~(<<d, s>> \in R)
  <2>1. p.steps \subseteq StepId /\ p.stage \in [StepId -> Stage]
    BY DEF Plan
  <2>2. PICK s \in T : \A d \in T : p.stage[s] <= p.stage[d]
    BY <1>1, <2>1, LowestStage
  <2>3. ASSUME NEW d \in T, d \in p.deps[s]
        PROVE  FALSE
    <3>1. p.stage[d] < p.stage[s] /\ p.stage[s] <= p.stage[d]
      BY <2>2, <2>3 DEF Valid
    <3>2. p.stage[d] \in Nat /\ p.stage[s] \in Nat
      BY <2>1
    <3>3. QED
      BY <3>1, <3>2
  <2>4. QED
    BY <2>3
<1>2. QED
  BY <1>1, MinWF

(* A stage that runs has steps: the loop never turns on an empty one. *)
Busy == pc = "stage" => InStage # {}

LEMMA NextStageNonempty ==
  ASSUME PlanInv, Remaining # {}
  PROVE  NextStage # {}
<1>1. Remaining \in SUBSET StepId /\ plan.stage \in [StepId -> Stage]
  BY DEF PlanInv, TypeOK, Plan, Remaining
<1>2. QED
  BY <1>1, LowestStage DEF NextStage

LEMMA BusyNext == PlanInv /\ Busy /\ [Next]_vars => Busy'
<1> SUFFICES ASSUME PlanInv, Busy, [Next]_vars, pc' = "stage"
             PROVE  InStage' # {}
  BY DEF Busy
<1>1. CASE StartStage
  <2>1. PICK s : s \in NextStage
    BY <1>1, NextStageNonempty DEF StartStage
  <2>2. s \in StepId
    BY <2>1 DEF PlanInv, TypeOK, Plan, NextStage, Remaining
  <2>3. step'[s] = "tool"
    BY <1>1, <2>1, <2>2 DEF StartStage
  <2>4. QED
    BY <2>2, <2>3 DEF InStage
<1>2. ASSUME NEW s \in StepId, RunStep(s)
      PROVE  InStage' # {}
  <2>1. step \in [StepId -> StepPC] /\ pc = "stage"
    BY <1>2 DEF PlanInv, TypeOK, RunStep, InvokeTool, Evaluate
  <2>2. step'[s] # "idle"
    BY <1>2, <2>1 DEF RunStep, InvokeTool, Evaluate
  <2>3. QED
    BY <2>2 DEF InStage
<1>3. CASE UNCHANGED vars \/ Cancel \/ RunOrphan
  BY <1>3 DEF Busy, InStage, vars, Cancel, RunOrphan
<1>4. CASE (Advance /\ ~StartStage) \/ Disconnect \/ Raise \/ CommitLost
  BY <1>4 DEF CommitLost, Advance, AppendUserMessage, PlannerFails, PlanRejected, PlanAccepted, SeesCancel,
     NothingRemains, StageFails, StageReplans, StageSucceeds, StageEnds, SynthesisFails,
     Synthesis, CommitOutcome, TellOutcome, FinalizeCancelled, Disconnect, Raise, Fail, Decide
<1>5. QED
  BY <1>1, <1>2, <1>3, <1>4 DEF Next

(* Grouping by stage never yields an empty group while steps remain. *)
THEOREM StagesHaveSteps == Spec => []Busy
<1>1. Init => Busy
  BY DEF Init, Busy
<1>2. QED
  BY <1>1, BusyNext, Invariant, PTL DEF Spec
----------------------------------------------------------------------------
(* Every step of a run brings its end nearer. *)

(* The phases of a run, counted down. *)
Phase ==
  CASE pc = "start"                      -> 6
    [] pc = "planning"                   -> 5
    [] pc \in {"top", "stage"}           -> 4
    [] pc \in {"synthesis", "cancelling"} -> 3
    [] pc = "commit"                     -> 2
    [] pc = "tell"                       -> 1
    [] OTHER                             -> 0

(* Within a phase: the planner's retries left, the steps left of the plan. *)
Ahead ==
  CASE pc = "planning" -> MaxPlannerRetries - attempts
    [] pc = "top"      -> 2 * Cardinality(Remaining) + 1
    [] pc = "stage"    -> 2 * Cardinality(Remaining)
    [] OTHER           -> 0

(* What the steps of the stage have still to do. *)
Toil == 2 * Cardinality(Ended("tool")) + Cardinality(Ended("evaluate"))

Rank ==
  <<MaxReplans - replans, Phase, Ahead, Toil,
    IF event THEN 0 ELSE 1, IF left \in Final THEN 1 ELSE 0>>

(* Lexicographically lower. *)
Descending == LexProductOrdering(LessThan, Nat, 6)

LEMMA Lexicographic ==
  ASSUME NEW a1 \in Nat, NEW a2 \in Nat, NEW a3 \in Nat,
         NEW a4 \in Nat, NEW a5 \in Nat, NEW a6 \in Nat,
         NEW b1 \in Nat, NEW b2 \in Nat, NEW b3 \in Nat,
         NEW b4 \in Nat, NEW b5 \in Nat, NEW b6 \in Nat,
         \/ b1 < a1
         \/ b1 = a1 /\ b2 < a2
         \/ b1 = a1 /\ b2 = a2 /\ b3 < a3
         \/ b1 = a1 /\ b2 = a2 /\ b3 = a3 /\ b4 < a4
         \/ b1 = a1 /\ b2 = a2 /\ b3 = a3 /\ b4 = a4 /\ b5 < a5
         \/ b1 = a1 /\ b2 = a2 /\ b3 = a3 /\ b4 = a4 /\ b5 = a5 /\ b6 < a6
  PROVE  << <<b1, b2, b3, b4, b5, b6>>, <<a1, a2, a3, a4, a5, a6>> >> \in Descending
<1> DEFINE a == <<a1, a2, a3, a4, a5, a6>>
           b == <<b1, b2, b3, b4, b5, b6>>
<1>1. a \in [1 .. 6 -> Nat] /\ b \in [1 .. 6 -> Nat]
  OBVIOUS
<1>2. \E j \in 1 .. 6 : (\A i \in 1 .. (j - 1) : b[i] = a[i]) /\ b[j] < a[j]
  OBVIOUS
<1>3. \A j \in 1 .. 6 : b[j] < a[j] => <<b[j], a[j]>> \in LessThan
  BY <1>1, LessThanFacts
<1> HIDE DEF a, b
<1>4. <<b, a>> \in Descending
  BY <1>1, <1>2, <1>3 DEF Descending, LexProductOrdering
<1>5. QED
  BY <1>4 DEF a, b
LEMMA FiniteStepIds ==
  /\ \A S \in SUBSET StepId : IsFiniteSet(S) /\ Cardinality(S) \in Nat
  /\ \A S \in SUBSET StepId : \A T \in SUBSET S : T # S => Cardinality(T) < Cardinality(S)
<1>1. ASSUME NEW S \in SUBSET StepId
      PROVE  IsFiniteSet(S) /\ Cardinality(S) \in Nat
  BY FS_Subset, FS_CardinalityType
<1>2. ASSUME NEW S \in SUBSET StepId, NEW T \in SUBSET S, T # S
      PROVE  Cardinality(T) < Cardinality(S)
  <2>1. T \in SUBSET StepId
    OBVIOUS
  <2>2. /\ Cardinality(T) \in Nat /\ Cardinality(S) \in Nat /\ IsFiniteSet(S)
    BY <1>1, <2>1
  <2>3. Cardinality(T) <= Cardinality(S) /\ Cardinality(T) # Cardinality(S)
    BY <1>2, <2>2, FS_Subset
  <2>4. QED
    BY <2>2, <2>3
<1>3. QED
  BY <1>1, <1>2

LEMMA RemainingFinite == PlanInv => Cardinality(Remaining) \in Nat
BY FiniteStepIds DEF PlanInv, TypeOK, Plan, Remaining

LEMMA RemainingFiniteNext == PlanInv' => (Cardinality(Remaining) \in Nat)'
BY RemainingFinite, PTL

LEMMA RankParts ==
  PlanInv => /\ MaxReplans - replans \in Nat /\ Phase \in Nat
             /\ Ahead \in Nat /\ Toil \in Nat
<1> SUFFICES ASSUME PlanInv
             PROVE  /\ MaxReplans - replans \in Nat /\ Phase \in Nat
                    /\ Ahead \in Nat /\ Toil \in Nat
  OBVIOUS
<1>1. MaxReplans - replans \in Nat /\ MaxPlannerRetries - attempts \in Nat
  BY DEF PlanInv, TypeOK
<1>2. /\ Remaining \in SUBSET StepId
      /\ Ended("tool") \in SUBSET StepId /\ Ended("evaluate") \in SUBSET StepId
  BY DEF PlanInv, TypeOK, Plan, Remaining, Ended
<1>3. Phase \in Nat
  BY DEF Phase
<1>4. Cardinality(Remaining) \in Nat
  BY <1>2, FiniteStepIds
<1>5. Ahead \in Nat
  BY <1>1, <1>4 DEF Ahead
<1>6. Cardinality(Ended("tool")) \in Nat /\ Cardinality(Ended("evaluate")) \in Nat
  BY <1>2, FiniteStepIds
<1>7. Toil \in Nat
  BY <1>6 DEF Toil
<1>8. QED
  BY <1>1, <1>3, <1>5, <1>7

LEMMA RankPartsNext ==
  PlanInv' => (MaxReplans - replans \in Nat /\ Phase \in Nat /\ Ahead \in Nat /\ Toil \in Nat)'
BY RankParts, PTL

(* A step of a stage has less to do after each of its own steps. *)
LEMMA ToilDescends ==
  ASSUME PlanInv, NEW s \in StepId, RunStep(s)
  PROVE  Toil' < Toil
<1> DEFINE T == Ended("tool")
           E == Ended("evaluate")
<1>1. step \in [StepId -> StepPC]
  BY DEF PlanInv, TypeOK
<1>2. T \in SUBSET StepId /\ E \in SUBSET StepId
  BY DEF Ended
<1>3. /\ \A S \in SUBSET StepId : Cardinality(S) \in Nat /\ IsFiniteSet(S)
      /\ \A S \in SUBSET StepId : s \in S => Cardinality(S \ {s}) = Cardinality(S) - 1
      /\ \A S \in SUBSET StepId : s \notin S => Cardinality(S \cup {s}) = Cardinality(S) + 1
  BY FiniteStepIds, FS_RemoveElement, FS_AddElement
<1>4. CASE InvokeTool(s)
  <2>1. s \in T /\ s \notin E /\ T' = T \ {s} /\ E' = E \cup {s}
    BY <1>1, <1>4 DEF InvokeTool, Ended
  <2> HIDE DEF T, E
  <2>2. /\ Cardinality(T') = Cardinality(T) - 1
        /\ Cardinality(E') = Cardinality(E) + 1
        /\ Cardinality(T) \in Nat /\ Cardinality(E) \in Nat
    BY <1>2, <1>3, <2>1
  <2>3. QED
    BY <2>2 DEF T, E, Toil
<1>5. ASSUME NEW verdict \in {"success", "failure", "replan_requested"}, Evaluate(s, verdict)
      PROVE  Toil' < Toil
  <2>1. PICK to \in {"success", "failure", "replan_requested", "idle"} :
          step' = [step EXCEPT ![s] = to]
    BY <1>5 DEF Evaluate
  <2>2. CASE s \in T
    <3>1. s \notin E /\ T' = T \ {s} /\ E' = E
      BY <1>1, <2>1, <2>2 DEF Ended
    <3> HIDE DEF T, E
    <3>2. /\ Cardinality(T') = Cardinality(T) - 1 /\ Cardinality(E') = Cardinality(E)
          /\ Cardinality(T) \in Nat /\ Cardinality(E) \in Nat
      BY <1>2, <1>3, <2>2, <3>1
    <3>3. QED
      BY <3>2 DEF T, E, Toil
  <2>3. CASE s \in E
    <3>1. s \notin T /\ E' = E \ {s} /\ T' = T
      BY <1>1, <2>1, <2>3 DEF Ended
    <3> HIDE DEF T, E
    <3>2. /\ Cardinality(E') = Cardinality(E) - 1 /\ Cardinality(T') = Cardinality(T)
          /\ Cardinality(T) \in Nat /\ Cardinality(E) \in Nat
      BY <1>2, <1>3, <2>3, <3>1
    <3>3. QED
      BY <3>2 DEF T, E, Toil
  <2>4. QED
    BY <1>5, <2>2, <2>3 DEF Evaluate, Ended
<1>6. QED
  BY <1>4, <1>5 DEF RunStep

(* A stage that succeeds leaves fewer steps. *)
LEMMA StageShrinksPlan ==
  ASSUME PlanInv, Busy, StageSucceeds
  PROVE  Cardinality(Remaining)' < Cardinality(Remaining)
<1>1. /\ pc = "stage" /\ completed' = completed \cup InStage /\ UNCHANGED plan
  BY DEF StageSucceeds, StageEnds
<1>2. PICK s : s \in InStage
  BY <1>1 DEF Busy
<1>3. s \in Remaining
  BY <1>1, <1>2 DEF PlanInv, Staged, Remaining
<1>4. Remaining' = Remaining \ InStage
  BY <1>1 DEF Remaining
<1>5. Remaining \in SUBSET StepId /\ Remaining' \in SUBSET Remaining /\ Remaining' # Remaining
  BY <1>2, <1>3, <1>4 DEF PlanInv, TypeOK, Plan, Remaining
<1>6. QED
  BY <1>5, FiniteStepIds

LEMMA StepDescends ==
  ASSUME PlanInv, PlanInv', Busy, Next
  PROVE  <<Rank', Rank>> \in Descending
<1> DEFINE R == MaxReplans - replans
           C == IF event THEN 0 ELSE 1
           O == IF left \in Final THEN 1 ELSE 0
<1>1. R \in Nat /\ Phase \in Nat /\ Ahead \in Nat /\ Toil \in Nat /\ C \in Nat /\ O \in Nat
  BY RankParts
<1>2. R' \in Nat /\ Phase' \in Nat /\ Ahead' \in Nat /\ Toil' \in Nat /\ C' \in Nat /\ O' \in Nat
  <2>1. R' \in Nat /\ Phase' \in Nat /\ Ahead' \in Nat /\ Toil' \in Nat
    BY RankPartsNext
  <2>2. C' \in Nat /\ O' \in Nat
    OBVIOUS
  <2>3. QED
    BY <2>1, <2>2
<1>3. \/ R' < R
      \/ R' = R /\ Phase' < Phase
      \/ R' = R /\ Phase' = Phase /\ Ahead' < Ahead
      \/ R' = R /\ Phase' = Phase /\ Ahead' = Ahead /\ Toil' < Toil
      \/ R' = R /\ Phase' = Phase /\ Ahead' = Ahead /\ Toil' = Toil /\ C' < C
      \/ R' = R /\ Phase' = Phase /\ Ahead' = Ahead /\ Toil' = Toil /\ C' = C /\ O' < O
  <2>1. CASE AppendUserMessage \/ PlannerFails \/ PlanAccepted
    BY <2>1 DEF AppendUserMessage, PlannerFails, PlanAccepted, Fail, Decide, Phase, planVars
  <2>2. CASE PlanRejected
    <3>1. UNCHANGED replans /\ pc = "planning" /\ attempts \in Nat
      BY <2>2 DEF PlanRejected, PlanInv, TypeOK
    <3>2. CASE attempts < MaxPlannerRetries
      BY <2>2, <3>1, <3>2 DEF PlanRejected, Phase, Ahead
    <3>3. CASE ~(attempts < MaxPlannerRetries)
      BY <2>2, <3>1, <3>3 DEF PlanRejected, Fail, Decide, Phase
    <3>4. QED
      BY <3>2, <3>3
  <2>3. CASE SeesCancel \/ NothingRemains
    BY <2>3 DEF SeesCancel, NothingRemains, Phase, planVars
  <2>4. CASE StartStage
    <3>1. /\ pc = "top" /\ pc' = "stage" /\ UNCHANGED <<replans, Remaining>>
      BY <2>4 DEF StartStage, planVars, Remaining
    <3>2. Cardinality(Remaining) \in Nat
      BY FiniteStepIds DEF PlanInv, TypeOK, Plan, Remaining
    <3>3. QED
      BY <3>1, <3>2 DEF Phase, Ahead
  <2>5. CASE StageFails
    BY <2>5 DEF StageFails, StageEnds, Fail, Decide, Phase
  <2>6. CASE StageReplans
    <3>1. CASE replans >= MaxReplans
      BY <2>6, <3>1 DEF StageReplans, StageEnds, Fail, Decide, Phase
    <3>2. CASE ~(replans >= MaxReplans)
      BY <2>6, <3>2 DEF StageReplans, PlanInv, TypeOK
    <3>3. QED
      BY <3>1, <3>2
  <2>7. CASE StageSucceeds
    <3>1. pc = "stage" /\ pc' \in {"synthesis", "top"} /\ UNCHANGED replans
      BY <2>7 DEF StageSucceeds, StageEnds
    <3>2. CASE pc' = "synthesis"
      BY <3>1, <3>2 DEF Phase
    <3>3. CASE pc' = "top"
      <4>1. Cardinality(Remaining)' < Cardinality(Remaining)
        BY <2>7, StageShrinksPlan
      <4>2. Cardinality(Remaining) \in Nat /\ Cardinality(Remaining)' \in Nat
        BY RemainingFinite, RemainingFiniteNext
      <4>3. QED
        BY <3>1, <3>3, <4>1, <4>2 DEF Phase, Ahead
    <3>4. QED
      BY <3>1, <3>2, <3>3
  <2>8. CASE SynthesisFails \/ Synthesis \/ CommitOutcome \/ TellOutcome \/ FinalizeCancelled
    BY <2>8 DEF SynthesisFails, Synthesis, CommitOutcome, TellOutcome, FinalizeCancelled,
                Fail, Decide, Phase, planVars
  <2>9. ASSUME NEW s \in StepId, RunStep(s)
        PROVE  R' = R /\ Phase' = Phase /\ Ahead' = Ahead /\ Toil' < Toil
    <3>1. UNCHANGED <<pc, planVars>>
      BY <2>9 DEF RunStep, InvokeTool, Evaluate
    <3>2. QED
      BY <2>9, <3>1, ToilDescends DEF planVars, Phase, Ahead, Remaining
  <2>10. CASE Cancel
    BY <2>10 DEF Cancel, planVars, Phase, Ahead, Remaining, Toil, Ended
  <2>11. CASE Disconnect \/ Raise \/ CommitLost
    <3>1. pc # "done" /\ pc' = "done" /\ UNCHANGED replans /\ pc \in PC
      BY <2>11 DEF Disconnect, Raise, CommitLost, Unfinalized, planVars, PlanInv, TypeOK
    <3>2. QED
      BY <3>1 DEF Phase, PC
  <2>12. CASE RunOrphan
    BY <2>12 DEF RunOrphan, planVars, Phase, Ahead, Remaining, Toil, Ended, Final
  <2>13. QED
    BY <2>1, <2>2, <2>3, <2>4, <2>5, <2>6, <2>7, <2>8, <2>9, <2>10, <2>11, <2>12
      DEF Next, Advance
<1>4. Rank = <<R, Phase, Ahead, Toil, C, O>>
  BY DEF Rank
<1>5. Rank' = <<R', Phase', Ahead', Toil', C', O'>>
  BY DEF Rank
<1> HIDE DEF R, C, O
<1>6. QED
  BY <1>1, <1>2, <1>3, <1>4, <1>5, Lexicographic

(* "Below" is well-founded, so nothing descends for ever. *)
LEMMA DescentEnds == IsWellFoundedOn(Descending, [1 .. 6 -> Nat])
BY LessThanFacts, WFLexProductOrdering DEF Descending

Ranked   == Rank \in [1 .. 6 -> Nat]
Descends == <<Rank', Rank>> \in Descending

LEMMA RankInOrder == PlanInv => Ranked
<1> SUFFICES ASSUME PlanInv
             PROVE  Rank \in [1 .. 6 -> Nat]
  BY DEF Ranked
<1> DEFINE C == IF event THEN 0 ELSE 1
           O == IF left \in Final THEN 1 ELSE 0
<1>1. /\ MaxReplans - replans \in Nat /\ Phase \in Nat /\ Ahead \in Nat /\ Toil \in Nat
      /\ C \in Nat /\ O \in Nat
  BY RankParts
<1>2. Rank = <<MaxReplans - replans, Phase, Ahead, Toil, C, O>>
  BY DEF Rank
<1> HIDE DEF C, O
<1>3. QED
  BY <1>1, <1>2

(* A Plan-Execute run is finite, whatever the planner answers, the steps   *)
(* ask for and the client does: every step there is, a replan, a cancel or *)
(* a disconnect included, takes its rank strictly down in an order that    *)
(* has no infinite descent.                                                *)
THEOREM RunsDescend ==
  /\ IsWellFoundedOn(Descending, [1 .. 6 -> Nat])
  /\ Spec => []Ranked /\ [][Descends]_vars
<1>1. PlanInv /\ PlanInv' /\ Busy /\ [Next]_vars => [Descends]_vars
  BY StepDescends DEF Descends
<1>2. Spec => []Ranked /\ [][Descends]_vars
  BY <1>1, RankInOrder, Invariant, StagesHaveSteps, PTL DEF Spec
<1>3. QED
  BY <1>2, DescentEnds
----------------------------------------------------------------------------
(* What else can be proved of RunEnds: a run with nothing left to do has   *)
(* ended.                                                                  *)

(* The executor is gone, and no detached finalize is owed. *)
AtRest == pc = "done" /\ left \notin Final

Rest ==
  /\ AtRest => row.status \in Final \/ Lost
  /\ Lost => "commit_fault" \in Environment

(* Until its outcome is decided a run is not over. *)
LEMMA WorkGoesOn ==
  ASSUME Advance, ~CommitOutcome, ~TellOutcome, ~FinalizeCancelled
  PROVE  pc' \notin {"tell", "done"}
<1>1. CASE AppendUserMessage \/ PlannerFails \/ PlanRejected \/ PlanAccepted
  BY <1>1 DEF AppendUserMessage, PlannerFails, PlanRejected, PlanAccepted, Fail,
     Decide
<1>2. CASE SeesCancel \/ NothingRemains \/ StartStage
  BY <1>2 DEF SeesCancel, NothingRemains, StartStage, Fail, Decide
<1>3. CASE StageFails \/ StageReplans \/ StageSucceeds
  BY <1>3 DEF StageFails, StageReplans, StageSucceeds, StageEnds, Fail, Decide
<1>4. CASE SynthesisFails \/ Synthesis
  BY <1>4 DEF SynthesisFails, Synthesis, Fail, Decide
<1>5. QED
  BY <1>1, <1>2, <1>3, <1>4 DEF Advance

LEMMA RestNext == PlanInv /\ Rest /\ [Next]_vars => Rest'
<1> SUFFICES ASSUME PlanInv, Rest, [Next]_vars PROVE Rest'
  OBVIOUS
<1>1. CASE Advance /\ ~CommitOutcome /\ ~TellOutcome /\ ~FinalizeCancelled
  BY <1>1, WorkGoesOn DEF Rest, AtRest, Lost
<1>2. CASE CommitOutcome
  <2>1. pc' = "tell" /\ row' = draft /\ draft.status \in Final
    BY <1>2 DEF CommitOutcome, PlanInv, Decided
  <2>2. QED
    BY <2>1 DEF Rest, AtRest, Lost, Final
<1>3. CASE TellOutcome
  <2>1. /\ pc = "tell" /\ pc' = "done" /\ UNCHANGED <<row, draft, left>>
        /\ draft.status \in Final /\ row \in {draft, Undecided}
    BY <1>3 DEF TellOutcome, PlanInv, Decided
  <2>2. QED
    BY <2>1 DEF Rest, AtRest, Lost, Undecided
<1>4. CASE FinalizeCancelled
  <2>1. pc' = "tell" /\ (row'.status \in Final \/ "commit_fault" \in Environment)
    BY <1>4 DEF FinalizeCancelled, Cancelled, Final
  <2>2. QED
    BY <2>1 DEF Rest, AtRest, Lost, Final
<1>5. CASE CommitLost
  <2>1. /\ pc' = "done" /\ "commit_fault" \in Environment /\ UNCHANGED <<row, draft>>
        /\ draft.status \in Final /\ row = Undecided
    BY <1>5 DEF CommitLost, rowVars, PlanInv, Decided
  <2>2. QED
    BY <2>1 DEF Rest, AtRest, Lost, Undecided
<1>6. CASE Disconnect /\ pc = "tell"
  <2>1. /\ pc = "tell" /\ pc' = "done" /\ UNCHANGED <<row, draft>>
        /\ draft.status \in Final /\ row \in {draft, Undecided}
    BY <1>6 DEF Disconnect, PlanInv, Decided
  <2>2. QED
    BY <2>1 DEF Rest, AtRest, Lost, Undecided
<1>7. CASE (Disconnect /\ pc # "tell") \/ Raise
  <2>1. left' \in Final /\ draft' = Undecided
    BY <1>7 DEF Disconnect, Raise, Unfinalized, Final, PlanInv, Decided
  <2>2. QED
    BY <2>1 DEF Rest, AtRest, Lost, Undecided, Final
<1>8. CASE RunOrphan
  <2>1. row'.status \in Final
    BY <1>8 DEF RunOrphan
  <2>2. QED
    BY <2>1 DEF Rest, AtRest, Lost, Final
<1>9. CASE (\E s \in StepId : RunStep(s)) \/ Cancel \/ UNCHANGED vars
  BY <1>9 DEF RunStep, InvokeTool, Evaluate, Cancel, vars, rowVars, Rest, AtRest, Lost
<1>10. QED
  BY <1>1, <1>2, <1>3, <1>4, <1>5, <1>6, <1>7, <1>8, <1>9 DEF Next

(* A Plan-Execute run whose executor is gone, with no detached finalize    *)
(* owed, has its end in its row: nothing but a commit of the outcome that  *)
(* the database refused, or that a client left in flight, leaves it        *)
(* running.  With RunsDescend, what RunEnds adds is only that the steps    *)
(* are taken.                                                              *)
THEOREM RunsAtRestEnded ==
  Spec => [](AtRest => \/ row.status \in Final
                       \/ Lost /\ "commit_fault" \in Environment)
<1>1. Init => Rest
  BY DEF Init, Rest, AtRest, Lost
<1>2. Rest => (AtRest => \/ row.status \in Final
                         \/ Lost /\ "commit_fault" \in Environment)
  BY DEF Rest
<1>3. QED
  BY <1>1, <1>2, RestNext, Invariant, PTL DEF Spec
=============================================================================
