--------------------------- MODULE MCPlanExecute ---------------------------
(* PlanExecute for TLC: plans of at most MaxSteps steps over two stages,   *)
(* in which a step depends on at most one other, valid and invalid ones    *)
(* alike.                                                                  *)
EXTENDS PlanExecute, FiniteSetsExt, TLC

Few(S, k) == UNION {kSubset(n, S) : n \in 0 .. k}

MCPlans ==
  UNION {{[steps |-> steps, stage |-> stage @@ NoPlan.stage, deps |-> deps @@ NoPlan.deps] :
            stage \in [steps -> Stage], deps \in [steps -> Few(steps, 1)]} :
         steps \in Few(StepId, MaxSteps)}
=============================================================================
