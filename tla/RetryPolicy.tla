----------------------------- MODULE RetryPolicy -----------------------------
(***************************************************************************)
(* What a caller of a retried call may rely on (FR-018 for MCP tools,      *)
(* FR-019 for embeddings): the call is tried at most Attempts times, it is *)
(* given up only after all of them, an answer ends it, and a caller who    *)
(* leaves ends it too.  The calls of one caller follow one another.        *)
(***************************************************************************)
EXTENDS Naturals

CONSTANTS Caller, Attempts

VARIABLES
  tries,   \* attempts of each caller's current call
  verdict  \* how that call stands

PolicyInit == /\ tries = [c \in Caller |-> 0]
              /\ verdict = [c \in Caller |-> "none"]

(* A call that cannot be made at all is refused without an attempt. *)
Begin(c) ==
  /\ verdict[c] # "open"
  /\ \E first \in {<<1, "open">>, <<0, "fatal">>} :
       /\ tries' = [tries EXCEPT ![c] = first[1]]
       /\ verdict' = [verdict EXCEPT ![c] = first[2]]

Try(c) ==
  /\ verdict[c] = "open" /\ tries[c] < Attempts
  /\ tries' = [tries EXCEPT ![c] = @ + 1]
  /\ UNCHANGED verdict

Settle(c) ==
  /\ verdict[c] = "open"
  /\ \E how \in {"ok", "fatal", "left", "exhausted"} :
       /\ how = "exhausted" => tries[c] = Attempts
       /\ verdict' = [verdict EXCEPT ![c] = how]
  /\ UNCHANGED tries

PolicyNext == \E c \in Caller : Begin(c) \/ Try(c) \/ Settle(c)

PolicySpec == PolicyInit /\ [][PolicyNext]_<<tries, verdict>>
=============================================================================
