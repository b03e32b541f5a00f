----------------------------- MODULE RunContract -----------------------------
(***************************************************************************)
(* What every executor promises about the run it drives, whatever its      *)
(* mode: the row leaves running once, in the executor's own transaction    *)
(* (settle) or in the detached finalize it leaves behind (abandon); and    *)
(* the client is told at most one final state, the one the row holds.      *)
(***************************************************************************)
VARIABLES
  status,  \* agent_runs.status
  left,    \* "no", the status a detached finalize will write, or "settled"
  told     \* the final state sent to the client, or "none"

Final == {"completed", "failed", "cancelled"}

ContractInit == status = "running" /\ left = "no" /\ told = "none"

Settle ==
  /\ status = "running" /\ left = "no"
  /\ status' \in Final
  /\ UNCHANGED <<left, told>>

Tell ==
  /\ status \in Final /\ left = "no" /\ told = "none"
  /\ told' = status
  /\ UNCHANGED <<status, left>>

Abandon ==
  /\ status = "running" /\ left = "no"
  /\ left' \in Final \ {"completed"}
  /\ UNCHANGED <<status, told>>

SettleDetached ==
  /\ status = "running" /\ left \in Final
  /\ status' = left /\ left' = "settled"
  /\ UNCHANGED told

ContractNext == Settle \/ Tell \/ Abandon \/ SettleDetached

contractVars == <<status, left, told>>

ContractStep == [ContractNext]_contractVars
ContractSpec == ContractInit /\ [][ContractNext]_contractVars
=============================================================================
