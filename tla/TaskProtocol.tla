---------------------------- MODULE TaskProtocol ----------------------------
(***************************************************************************)
(* What an A2A client may rely on about a task (the TaskState values of    *)
(* routes/a2a.py:_run_status_to_task_state): a task is submitted, works,   *)
(* may ask for input and be continued, and reaches one final state that    *)
(* never changes; deleting the agent withdraws its tasks for good.         *)
(***************************************************************************)
CONSTANT TaskId

VARIABLE state

Final == {"completed", "failed", "canceled"}
Open  == {"working", "input_required"}

TaskTypeOK == state \in [TaskId -> {"unknown", "withdrawn"} \cup Open \cup Final]

TaskInit == state = [t \in TaskId |-> "unknown"]

(* The states a task may be in after one step out of state s. *)
Successors(s) ==
  CASE s = "unknown" -> {"unknown", "working"}
    [] s \in Open    -> Open \cup Final \cup {"withdrawn"}
    [] s \in Final   -> {s, "withdrawn"}
    [] OTHER         -> {s}

(* Several tasks move at once when a reaper or a delete cascade runs. *)
TaskNext ==
  /\ \A t \in TaskId : state'[t] \in Successors(state[t])
  /\ state' = [t \in TaskId |-> state'[t]]

TaskSpec == TaskInit /\ [][TaskNext]_state
=============================================================================
