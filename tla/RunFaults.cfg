SPECIFICATION Spec
CONSTANTS
  Request = {q1, q2}
  Task = {t1}
  NoRequest = NoRequest
  MaxIterations = 1
  BatchSize = 1
  Modes = {"simple", "react"}
  Environments = {{"disconnect", "raise", "cancel", "delete", "restart"},
                  {"disconnect", "early", "cancel", "edit", "second_worker"}}
SYMMETRY Interchangeable
INVARIANTS PausedHasPending AnswerIffCompleted CancelReaches NoLeakedEvent CancelledMeansAsked
PROPERTIES FollowsTaskProtocol
CHECK_DEADLOCK FALSE
