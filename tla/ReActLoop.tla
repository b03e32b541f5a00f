------------------------------ MODULE ReActLoop ------------------------------
(***************************************************************************)
(* One run of executors/react.py: think, compare with the previous         *)
(* thought, call the tools, stop on a final answer, on similarity or on a  *)
(* guardrail (then one synthesis call).                                    *)
(*                                                                         *)
(* What the model says is a nondeterministic choice: the kind of a         *)
(* response, its tokens, its thought (a Text) and its number of tool       *)
(* calls.  A step is what runs between two awaits that matter.             *)
(***************************************************************************)
EXTENDS Naturals, Sequences

CONSTANTS
  Text,         \* thoughts and answers
  EmptyText,    \* the Text with nothing in it
  NoText,       \* None
  MaxLoops, MaxTokens,
  TurnTokens,   \* bound: tokens one response may report
  MaxCalls,     \* bound: tool calls in one response
  Room,         \* bound: messages the context still takes before its hard cap
  Environment   \* which of Hazards may happen

(* disconnect: the client goes.  raise: a library or database call raises. *)
(* commit_fault: the commit that follows finalize_run raises, or the       *)
(* client goes while it is in flight.  cancel: POST :cancel.               *)
Hazards == {"disconnect", "raise", "commit_fault", "cancel"}

ASSUME ReActAssumption ==
  /\ EmptyText \in Text /\ NoText \notin Text
  /\ MaxLoops \in Nat \ {0} /\ MaxTokens \in Nat \ {0}
  /\ TurnTokens \in Nat /\ MaxCalls \in Nat \ {0} /\ Room \in Nat
  /\ Environment \subseteq Hazards

VARIABLES
  pc,        \* where the generator stands
  loops,     \* LLM turns answered
  tokens,    \* total_tokens_out
  cand,      \* candidate_text of this turn
  prev,      \* prev_candidate_text
  vec,       \* the text whose vector prev_vector is
  calls,     \* tool calls of this turn still to run
  pending,   \* stop_reason_pending
  draft,     \* what finalize_run assigned, until its commit
  row,       \* the run's row
  event,     \* the cancellation event
  left,      \* the detached finalize, as in RunContract
  told,      \* the final state the client was sent
  room,      \* messages the context still takes
  written,   \* observations flushed but not committed
  recorded,  \* observations committed
  invoked,   \* history: tools invoked
  thoughts,  \* history: the candidates of the run, in order
  compared   \* history: the pair of texts last compared

loopVars == <<loops, tokens, cand, prev, vec, calls, pending>>
rowVars  == <<row, left, told>>
msgVars  == <<room, written, recorded>>
histVars == <<invoked, thoughts, compared>>
vars     == <<pc, loopVars, draft, event, rowVars, msgVars, histVars>>

Final == {"completed", "failed", "cancelled"}

Stop == {"none", "context_full", "llm_provider_error", "empty_response", "final",
         "embedding_unavailable", "similarity", "max_loops", "max_tokens",
         "guardrail_exceeded_no_synthesis", "cancelled", "client_disconnected",
         "internal_error"}

Outcome == [status : Final \cup {"running"}, stop : Stop, answer : Text \cup {NoText}]
Undecided == [status |-> "running", stop |-> "none", answer |-> NoText]

PC == {"start", "top", "llm", "embed", "tools", "synthesis", "commit",
       "cancelling", "tell", "done"}

TypeOK ==
  /\ pc \in PC
  /\ loops \in 0 .. MaxLoops
  /\ tokens \in 0 .. MaxTokens + (2 * TurnTokens)
  /\ cand \in Text \cup {NoText} /\ prev \in Text \cup {NoText} /\ vec \in Text \cup {NoText}
  /\ calls \in 0 .. MaxCalls
  /\ pending \in {"none", "max_loops", "max_tokens"}
  /\ draft \in Outcome /\ row \in Outcome
  /\ event \in BOOLEAN
  /\ left \in {"no", "settled"} \cup Final
  /\ told \in {"none"} \cup Final
  /\ room \in 0 .. Room
  /\ written \in Nat /\ recorded \in Nat /\ invoked \in Nat
  /\ thoughts \in Seq(Text)
  /\ compared \in {<<>>} \cup (Text \X Text)

Init ==
  /\ pc = "start"
  /\ loops = 0 /\ tokens = 0
  /\ cand = NoText /\ prev = NoText /\ vec = NoText
  /\ calls = 0 /\ pending = "none"
  /\ draft = Undecided /\ row = Undecided
  /\ event = FALSE /\ left = "no" /\ told = "none"
  /\ room \in 0 .. Room
  /\ written = 0 /\ recorded = 0 /\ invoked = 0
  /\ thoughts = <<>> /\ compared = <<>>

----------------------------------------------------------------------------
(* finalize_run; finalized = True; the commit is awaited next. *)
Decide(status, stop, answer) ==
  /\ draft' = [status |-> status, stop |-> stop, answer |-> answer]
  /\ pc' = "commit"

Fail(stop) == Decide("failed", stop, NoText)

(* append_message of the answer, then finalize_run; a full context raises. *)
Complete(stop, answer) ==
  /\ room > 0
  /\ room' = room - 1
  /\ Decide("completed", stop, answer)

(* The guardrail at the end of a turn: synthesis, or the next turn. *)
Exhausted(l, t) == l >= MaxLoops \/ t >= MaxTokens

Guardrail(l, t) ==
  IF Exhausted(l, t)
  THEN /\ pending' = IF l >= MaxLoops THEN "max_loops" ELSE "max_tokens"
       /\ pc' = "synthesis"
  ELSE /\ pc' = "top" /\ UNCHANGED pending

(* Commit what the session has flushed. *)
Flushed ==
  /\ recorded' = recorded + written
  /\ written' = 0

----------------------------------------------------------------------------
AppendUserMessage ==
  /\ pc = "start"
  /\ IF room = 0
     THEN Fail("context_full") /\ UNCHANGED room
     ELSE pc' = "top" /\ room' = room - 1 /\ UNCHANGED draft
  /\ UNCHANGED <<loopVars, event, rowVars, written, recorded, histVars>>

(* The top of the loop looks at the event. *)
StartTurn ==
  /\ pc = "top"
  /\ pc' = IF event THEN "cancelling" ELSE "llm"
  /\ UNCHANGED <<loopVars, draft, event, rowVars, msgVars, histVars>>

(* A turn was answered with t tokens. *)
Answered(t) ==
  /\ pc = "llm"
  /\ tokens' = tokens + t
  /\ loops' = loops + 1

TurnFails ==
  /\ pc = "llm"
  /\ Fail("llm_provider_error")
  /\ UNCHANGED <<loopVars, event, rowVars, msgVars, histVars>>

ParseErrorContinues ==  \* mutant: continue before the guardrail check
  \E t \in 0 .. TurnTokens :
    /\ Answered(t)
    /\ pc' = "top"
    /\ Flushed
    /\ UNCHANGED <<cand, prev, vec, calls, pending, draft, event, rowVars, room, histVars>>

ParseError ==
  \E t \in 0 .. TurnTokens :
    /\ Answered(t)
    /\ Guardrail(loops + 1, tokens + t)
    /\ Flushed
    /\ UNCHANGED <<cand, prev, vec, calls, draft, event, rowVars, room, histVars>>

FinalAnswer ==
  \E t \in 0 .. TurnTokens, text \in Text :
    /\ Answered(t)
    /\ IF text = EmptyText
       THEN Fail("empty_response") /\ UNCHANGED room
       ELSE Complete("final", text)
    /\ UNCHANGED <<cand, prev, vec, calls, pending, event, rowVars, written, recorded, histVars>>

ToolCalls ==
  \E t \in 0 .. TurnTokens, text \in Text, n \in 1 .. MaxCalls :
    /\ Answered(t)
    /\ cand' = text /\ calls' = n
    /\ thoughts' = Append(thoughts, text)
    /\ pc' = "embed"
    /\ UNCHANGED <<prev, vec, pending, draft, event, rowVars, msgVars, invoked, compared>>

----------------------------------------------------------------------------
(* The similarity check, from the second candidate on.  prev_vector is the *)
(* cached vector of the previous candidate, embedded now if there is none. *)
NoComparison ==
  /\ pc = "embed" /\ prev = NoText
  /\ pc' = "tools"
  /\ UNCHANGED <<loopVars, draft, event, rowVars, msgVars, histVars>>

CachedText == IF vec = NoText THEN prev ELSE vec

CompareKeepsVector(similar) ==  \* mutant: prev_vector is not advanced
  /\ pc = "embed" /\ prev # NoText
  /\ compared' = <<CachedText, cand>>
  /\ vec' = CachedText
  /\ IF similar
     THEN Complete("similarity", prev)
     ELSE pc' = "tools" /\ UNCHANGED <<draft, room>>
  /\ UNCHANGED <<loops, tokens, cand, prev, calls, pending, event, rowVars,
                 written, recorded, invoked, thoughts>>

Compare(similar) ==
  /\ pc = "embed" /\ prev # NoText
  /\ compared' = <<CachedText, cand>>
  /\ vec' = cand
  /\ IF similar
     THEN Complete("similarity", prev)
     ELSE pc' = "tools" /\ UNCHANGED <<draft, room>>
  /\ UNCHANGED <<loops, tokens, cand, prev, calls, pending, event, rowVars,
                 written, recorded, invoked, thoughts>>

EmbeddingFails ==
  /\ pc = "embed" /\ prev # NoText
  /\ Fail("embedding_unavailable")
  /\ UNCHANGED <<loopVars, event, rowVars, msgVars, histVars>>

----------------------------------------------------------------------------
(* Each call is preceded by a look at the event and leaves an observation. *)
InvokeTool ==
  /\ pc = "tools" /\ calls > 0 /\ ~event
  /\ calls' = calls - 1
  /\ invoked' = invoked + 1 /\ written' = written + 1
  /\ UNCHANGED <<pc, loops, tokens, cand, prev, vec, pending, draft, event, rowVars,
                 room, recorded, thoughts, compared>>

SeesCancel ==
  /\ pc = "tools" /\ calls > 0 /\ event
  /\ pc' = "cancelling"
  /\ UNCHANGED <<loopVars, draft, event, rowVars, msgVars, histVars>>

TurnDone ==
  /\ pc = "tools" /\ calls = 0
  /\ Flushed
  /\ prev' = cand
  /\ Guardrail(loops, tokens)
  /\ UNCHANGED <<loops, tokens, cand, vec, calls, draft, event, rowVars, room, histVars>>

----------------------------------------------------------------------------
(* One synthesis call, unless it would overshoot max_tokens by half: the   *)
(* scratchpad's size is abstracted, so it may be skipped at any count and  *)
(* must be when the tokens alone already exceed the limit.                 *)
SkipSynthesis ==
  /\ pc = "synthesis"
  /\ Fail("guardrail_exceeded_no_synthesis")
  /\ UNCHANGED <<loopVars, event, rowVars, msgVars, histVars>>

SynthesisFails ==
  /\ pc = "synthesis" /\ 2 * tokens <= 3 * MaxTokens
  /\ Fail("llm_provider_error")
  /\ UNCHANGED <<loopVars, event, rowVars, msgVars, histVars>>

Synthesis ==
  \E t \in 0 .. TurnTokens, text \in Text :
    /\ pc = "synthesis" /\ 2 * tokens <= 3 * MaxTokens
    /\ tokens' = tokens + t
    /\ IF text = EmptyText
       THEN Fail("empty_response") /\ UNCHANGED room
       ELSE Complete(pending, text)
    /\ UNCHANGED <<loops, cand, prev, vec, calls, pending, event, rowVars,
                   written, recorded, histVars>>

----------------------------------------------------------------------------
(* The inline transaction commits, then the final event is sent. *)
CommitOutcome ==
  /\ pc = "commit"
  /\ row' = draft
  /\ Flushed
  /\ pc' = "tell"
  /\ UNCHANGED <<loopVars, draft, event, left, told, room, histVars>>

TellOutcome ==
  /\ pc = "tell"
  /\ told' = draft.status
  /\ pc' = "done"
  /\ UNCHANGED <<loopVars, draft, event, row, left, msgVars, histVars>>

Cancelled == [status |-> "cancelled", stop |-> "cancelled", answer |-> NoText]

CancelRollsBack ==  \* mutant: the cancelled run is finalized in a session of its own
  /\ pc = "cancelling"
  /\ draft' = Cancelled /\ row' = Cancelled
  /\ written' = 0
  /\ pc' = "tell"
  /\ UNCHANGED <<loopVars, event, left, told, room, recorded, histVars>>

(* The inner finally: finalize_run and a commit whose failure is           *)
(* suppressed; either way the client is then told.                         *)
FinalizeCancelled ==
  /\ pc = "cancelling"
  /\ draft' = Cancelled
  /\ \/ row' = Cancelled /\ Flushed
     \/ "commit_fault" \in Environment /\ written' = 0 /\ UNCHANGED <<row, recorded>>
  /\ pc' = "tell"
  /\ UNCHANGED <<loopVars, event, left, told, room, histVars>>

----------------------------------------------------------------------------
(* Cancels, disconnects and exceptions *)

Cancel ==
  /\ "cancel" \in Environment
  /\ row.status = "running" /\ ~event /\ pc # "done"
  /\ event' = TRUE
  /\ UNCHANGED <<pc, loopVars, draft, rowVars, msgVars, histVars>>

(* The generator is gone and its session is rolled back. *)
Leave ==
  /\ pc' = "done"
  /\ written' = 0
  /\ UNCHANGED <<loopVars, draft, event, row, told, room, recorded, histVars>>

UnfinalizedUntilTold == pc # "done"  \* mutant: finalized is set too late
Unfinalized == pc \notin {"commit", "tell", "done"}

(* append_message finds a context at its hard cap after the first message. *)
ContextFull == room = 0 /\ pc \in {"llm", "embed", "synthesis"}

LeaveQuietly ==  \* mutant: the outer finally schedules nothing
  /\ Unfinalized
  /\ "disconnect" \in Environment \/ "raise" \in Environment
  /\ Leave /\ UNCHANGED left

LeaveUnfinalized ==
  /\ Unfinalized
  /\ "disconnect" \in Environment \/ "raise" \in Environment \/ ContextFull
  /\ left' \in {"cancelled", "failed"}
  /\ left' = "failed" => ~event /\ ("raise" \in Environment \/ ContextFull)
  /\ left' = "cancelled" => event \/ "disconnect" \in Environment
  /\ Leave

(* After finalized = True nothing is scheduled. *)
LeaveFinalized ==
  /\ \/ pc = "tell" /\ "disconnect" \in Environment
     \/ pc = "commit" /\ "commit_fault" \in Environment
  /\ Leave /\ UNCHANGED left

RunOrphan ==
  /\ left \in Final
  /\ row' = [status |-> left, answer |-> NoText,
             stop |-> CASE left = "failed" -> "internal_error"
                        [] event           -> "cancelled"
                        [] OTHER           -> "client_disconnected"]
  /\ left' = "settled"
  /\ UNCHANGED <<pc, loopVars, draft, event, told, msgVars, histVars>>

----------------------------------------------------------------------------
Advance ==
  \/ AppendUserMessage \/ StartTurn
  \/ TurnFails \/ ParseError \/ FinalAnswer \/ ToolCalls
  \/ NoComparison \/ (\E similar \in BOOLEAN : Compare(similar)) \/ EmbeddingFails
  \/ InvokeTool \/ SeesCancel \/ TurnDone
  \/ SkipSynthesis \/ SynthesisFails \/ Synthesis
  \/ CommitOutcome \/ TellOutcome \/ FinalizeCancelled

Next ==
  \/ Advance \/ RunOrphan
  \/ Cancel \/ LeaveUnfinalized \/ LeaveFinalized

Spec == Init /\ [][Next]_vars

(* Chat, embedding and tool calls end by their timeouts, and the event loop *)
(* runs every ready task; the client and the operator promise nothing.     *)
FairSpec == Spec /\ WF_vars(Advance) /\ WF_vars(RunOrphan)

----------------------------------------------------------------------------
(* Properties *)

(* A decided outcome whose commit failed: finalized is already set, so     *)
(* nothing will settle the row any more.                                   *)
Lost == pc \in {"tell", "done"} /\ draft.status \in Final /\ row.status = "running"

(* The executor keeps the promise all executors make about a run, unless   *)
(* the last commit was lost: refused, or left in flight by the client.     *)
Contract == INSTANCE RunContract WITH
  status <- row.status, told <- IF Lost THEN "none" ELSE told
KeepsContract == Contract!ContractSpec

(* Stopping on similarity compared the last two thoughts, whatever parse   *)
(* errors lay between them and however the cached vector was obtained, and *)
(* answers with the first of the two.                                      *)
StopsOnNeighbours ==
  row.stop = "similarity" =>
    /\ Len(thoughts) >= 2
    /\ compared = <<thoughts[Len(thoughts) - 1], thoughts[Len(thoughts)]>>
    /\ row.answer = compared[1]

(* Once the client is told how the run ended, the trace holds an           *)
(* observation for every tool that was invoked, a cancelled batch included.*)
EveryCallRecorded == told # "none" /\ ~Lost => recorded = invoked

(* No turn begins once max_loops or max_tokens is reached, whether the     *)
(* last turn called tools or could not be parsed.                          *)
NoTurnPastGuardrail == pc \in {"top", "llm"} => ~Exhausted(loops, tokens)

(* The run ends: inline, or by the detached finalize, and only a lost      *)
(* commit of its outcome leaves it running.                                *)
RunEnds == <>(row.status \in Final \/ Lost)
=============================================================================
