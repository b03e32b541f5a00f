---------------------------- MODULE OutboundCalls ----------------------------
(***************************************************************************)
(* What one turn of an executor asks of the outside: the LLM call, kept in *)
(* a task of its own while SSE comments keep the stream alive (a2a/sse.py, *)
(* llm/provider.py), then tool calls and embeddings with their retries     *)
(* (executors/base.py, mcp_client/tool_caller.py, llm/embeddings.py).      *)
(* Beside the turns, MCP discoveries over stdio patch anyio.open_process,  *)
(* through which tool calls spawn their servers too (mcp_client/stdio.py). *)
(*                                                                         *)
(* When the client of a stream goes away, the response's task group is     *)
(* cancelled: every await of the executor that is not already over raises  *)
(* CancelledError, and so does the next one if that was swallowed.         *)
(* Answers are abstracted to what the retries tell apart.                  *)
(***************************************************************************)
EXTENDS Naturals, Sequences

CONSTANTS
  Turn,       \* executor turns, one per stream
  Discovery,  \* discoveries over stdio (POST .../mcp/.../discover)
  Attempts,   \* length of TOOL_RETRY_BACKOFFS and of EMBED_RETRY_BACKOFFS
  MaxCalls    \* bound: tool calls and embeddings of one turn

ASSUME CallsAssumption ==
  /\ Attempts \in Nat \ {0}
  /\ MaxCalls \in Nat
  /\ Turn \cap Discovery = {}

VARIABLES
  turn,     \* the await the executor stands at
  gone,     \* the turn's task group is cancelled
  ready,    \* when it was, the current await was already over
  chat,     \* the task of the LLM call
  open,     \* httpx clients of the turn that are not closed
  what,     \* the current call: tool over stdio or HTTP, or embedding
  calls,    \* calls begun
  tries,    \* attempts of the current call
  verdict,  \* how the current call stands
  late,     \* history: requests started after the cancellation
  leftAt,   \* history: the await at which the executor was left
  disc,     \* where each discovery stands
  saved,    \* its real_open_process
  patched,  \* anyio.open_process: the wrappers around the real one
  overlapped, \* history: two discoveries were in progress together
  listed    \* whose processes are in RECENT_SPAWNED_PIDS

turnVars == <<turn, gone, ready, chat, open, what, calls, tries, verdict, late, leftAt>>
discVars == <<disc, saved, patched, overlapped>>
vars     == <<turnVars, discVars, listed>>

----------------------------------------------------------------------------
(* Types *)

(* "writing": the database, between requests.  "keepalive": an SSE comment  *)
(* is being sent.  "left": CancelledError or GeneratorExit ended the turn.  *)
Await   == {"writing", "chat", "keepalive", "tool", "embed", "backoff"}
Over    == {"done", "left"}
Tool    == {"stdio", "http"}
Verdict == {"none", "open", "ok", "fatal", "exhausted", "left"}

TypeOK ==
  /\ turn \in [Turn -> Await \cup Over]
  /\ gone \in [Turn -> BOOLEAN]
  /\ ready \in [Turn -> BOOLEAN]
  /\ chat \in [Turn -> {"none", "posting", "answered", "failed", "cancelled"}]
  /\ open \in [Turn -> SUBSET {"chat", "embed"}]
  /\ what \in [Turn -> Tool \cup {"none", "embed"}]
  /\ calls \in [Turn -> 0 .. MaxCalls]
  /\ tries \in [Turn -> 0 .. Attempts]
  /\ verdict \in [Turn -> Verdict]
  /\ late \in [Turn -> Nat]
  /\ leftAt \in [Turn -> Await \cup {"none"}]
  /\ disc \in [Discovery -> {"idle", "spawning", "session", "done"}]
  /\ saved \in [Discovery -> Seq(Discovery)]
  /\ patched \in Seq(Discovery)
  /\ overlapped \in BOOLEAN
  /\ listed \in SUBSET (Turn \cup Discovery)

Init ==
  /\ turn = [t \in Turn |-> "writing"]
  /\ gone = [t \in Turn |-> FALSE]
  /\ ready = [t \in Turn |-> FALSE]
  /\ chat = [t \in Turn |-> "none"]
  /\ open = [t \in Turn |-> {}]
  /\ what = [t \in Turn |-> "none"]
  /\ calls = [t \in Turn |-> 0]
  /\ tries = [t \in Turn |-> 0]
  /\ verdict = [t \in Turn |-> "none"]
  /\ late = [t \in Turn |-> 0]
  /\ leftAt = [t \in Turn |-> "none"]
  /\ disc = [d \in Discovery |-> "idle"]
  /\ saved = [d \in Discovery |-> <<>>]
  /\ patched = <<>>
  /\ overlapped = FALSE
  /\ listed = {}

----------------------------------------------------------------------------
(* Cancellation *)

(* The task group is cancelled; an await whose result is already there     *)
(* still returns it.                                                       *)
Disconnect(t) ==
  /\ ~gone[t] /\ turn[t] \in Await
  /\ gone' = [gone EXCEPT ![t] = TRUE]
  /\ \E over \in BOOLEAN : ready' = [ready EXCEPT ![t] = over]
  /\ UNCHANGED <<turn, chat, open, what, calls, tries, verdict, late, leftAt,
                 discVars, listed>>

(* The await of t returns, so that its executor goes on to the next one. *)
Resumes(t) == /\ gone[t] => ready[t]
              /\ ready' = [ready EXCEPT ![t] = FALSE]
              /\ UNCHANGED <<gone, leftAt, discVars>>

Starts(t) == late' = [late EXCEPT ![t] = IF gone[t] THEN @ + 1 ELSE @]

(* heartbeat_until_done hands the cancellation on to the LLM task; a       *)
(* generator closed while it is sending a keep-alive does not.             *)
CancelNothing(t) == UNCHANGED chat   \* mutant
StopChat(t) ==
  chat' = [chat EXCEPT ![t] = IF turn[t] = "chat" /\ @ = "posting" THEN "cancelled" ELSE @]

(* CancelledError leaves the executor.  embed closes its client on the way *)
(* out, _post_chat does not.  (In a tool call: Interrupted.)               *)
Leave(t) ==
  /\ gone[t] /\ ~ready[t]
  /\ turn[t] \in Await \ {"tool"}
  /\ StopChat(t)
  /\ turn' = [turn EXCEPT ![t] = "left"]
  /\ leftAt' = [leftAt EXCEPT ![t] = turn[t]]
  /\ verdict' = [verdict EXCEPT ![t] = IF @ = "open" THEN "left" ELSE @]
  /\ open' = [open EXCEPT ![t] = @ \ {"embed"}]
  /\ UNCHANGED <<gone, ready, what, calls, tries, late, discVars, listed>>

----------------------------------------------------------------------------
(* The LLM call *)

StartChat(t) ==
  /\ turn[t] = "writing" /\ chat[t] = "none"
  /\ Resumes(t) /\ Starts(t)
  /\ turn' = [turn EXCEPT ![t] = "chat"]
  /\ chat' = [chat EXCEPT ![t] = "posting"]
  /\ open' = [open EXCEPT ![t] = @ \cup {"chat"}]
  /\ UNCHANGED <<what, calls, tries, verdict, listed>>

(* _post_chat closes its own client after an answer of any status, and     *)
(* after a transport error.                                                *)
CloseClient(t) == open' = [open EXCEPT ![t] = @ \ {"chat"}]

(* The task of the LLM call, whatever became of the turn. *)
ChatReturns(t) ==
  /\ chat[t] = "posting"
  /\ \E how \in {"answered", "failed"} :
       /\ chat' = [chat EXCEPT ![t] = how]
       /\ CloseClient(t)
  /\ UNCHANGED <<turn, gone, ready, what, calls, tries, verdict, late, leftAt,
                 discVars, listed>>

Unfinished(t) == TRUE   \* mutant: the loop does not look at task.done()
Pending(t) == chat[t] = "posting"

(* heartbeat_until_done: the interval elapsed before the answer. *)
KeepAlive(t) ==
  /\ turn[t] = "chat" /\ Pending(t)
  /\ Resumes(t)
  /\ turn' = [turn EXCEPT ![t] = "keepalive"]
  /\ UNCHANGED <<chat, open, what, calls, tries, verdict, late, listed>>

KeepAliveSent(t) ==
  /\ turn[t] = "keepalive"
  /\ Resumes(t)
  /\ turn' = [turn EXCEPT ![t] = "chat"]
  /\ UNCHANGED <<chat, open, what, calls, tries, verdict, late, listed>>

(* await chat_task: a failure fails the run. *)
ChatObserved(t) ==
  /\ turn[t] = "chat" /\ chat[t] \in {"answered", "failed"}
  /\ Resumes(t)
  /\ turn' = [turn EXCEPT ![t] = IF chat[t] = "answered" THEN "writing" ELSE "done"]
  /\ UNCHANGED <<chat, open, what, calls, tries, verdict, late, listed>>

----------------------------------------------------------------------------
(* Tool calls and embeddings *)

(* stdio_client spawns through whatever anyio.open_process is by then. *)
Requests(t, kind) ==
  /\ turn' = [turn EXCEPT ![t] = IF kind = "embed" THEN "embed" ELSE "tool"]
  /\ Starts(t)
  /\ listed' = IF kind = "stdio" /\ patched # <<>> THEN listed \cup {t} ELSE listed

CanCall(t) == turn[t] = "writing" /\ chat[t] = "answered" /\ calls[t] < MaxCalls

BeginCall(t, kind) ==
  /\ CanCall(t)
  /\ Resumes(t) /\ Requests(t, kind)
  /\ what' = [what EXCEPT ![t] = kind]
  /\ calls' = [calls EXCEPT ![t] = @ + 1]
  /\ tries' = [tries EXCEPT ![t] = 1]
  /\ verdict' = [verdict EXCEPT ![t] = "open"]
  /\ open' = [open EXCEPT ![t] = IF kind = "embed" THEN @ \cup {"embed"} ELSE @]
  /\ UNCHANGED chat

(* A tool nobody knows is an error result; a command line that cannot be   *)
(* parsed or a setting that cannot be decrypted raises out of the executor. *)
CannotCall(t) ==
  /\ CanCall(t)
  /\ Resumes(t)
  /\ \E next \in {"writing", "done"} : turn' = [turn EXCEPT ![t] = next]
  /\ calls' = [calls EXCEPT ![t] = @ + 1]
  /\ tries' = [tries EXCEPT ![t] = 0]
  /\ verdict' = [verdict EXCEPT ![t] = "fatal"]
  /\ UNCHANGED <<chat, open, what, late, listed>>

CallEnds(t, how, next) ==
  /\ verdict' = [verdict EXCEPT ![t] = how]
  /\ turn' = [turn EXCEPT ![t] = next]
  /\ open' = [open EXCEPT ![t] = @ \ {"embed"}]

(* An attempt failed: wait, or give up after the last one.  An exhausted   *)
(* tool call is an error result for the LLM, an exhausted embedding fails  *)
(* the run.                                                                *)
GiveUp(t) == CallEnds(t, "exhausted", IF turn[t] = "tool" THEN "writing" ELSE "done")
Wait(t) == /\ turn' = [turn EXCEPT ![t] = "backoff"]
           /\ UNCHANGED <<verdict, open>>
RetryOneLess(t)  == IF tries[t] + 1 < Attempts THEN Wait(t) ELSE GiveUp(t)   \* mutant
RetryOrGiveUp(t) == IF tries[t] < Attempts THEN Wait(t) ELSE GiveUp(t)

AttemptFails(t) ==
  /\ turn[t] \in {"tool", "embed"}
  /\ Resumes(t) /\ RetryOrGiveUp(t)
  /\ UNCHANGED <<chat, what, calls, tries, late, listed>>

(* call_tool_stdio and call_tool_http turn the CancelledError into a       *)
(* tool_timeout, which the retry loop takes for a failed attempt.          *)
RetryAtOnce(t) ==   \* mutant: no sleep between the attempts
  IF tries[t] < Attempts
  THEN /\ tries' = [tries EXCEPT ![t] = @ + 1]
       /\ late' = [late EXCEPT ![t] = @ + 1]
       /\ UNCHANGED <<turn, verdict, open>>
  ELSE GiveUp(t) /\ UNCHANGED <<tries, late>>
Swallow(t) == RetryOrGiveUp(t) /\ UNCHANGED <<tries, late>>

Interrupted(t) ==
  /\ turn[t] = "tool" /\ gone[t] /\ ~ready[t]
  /\ Swallow(t)
  /\ UNCHANGED <<gone, ready, chat, what, calls, leftAt, discVars, listed>>

Retry(t) ==
  /\ turn[t] = "backoff"
  /\ Resumes(t) /\ Requests(t, what[t])
  /\ tries' = [tries EXCEPT ![t] = @ + 1]
  /\ UNCHANGED <<chat, open, what, calls, verdict>>

AttemptSucceeds(t) ==
  /\ turn[t] \in {"tool", "embed"}
  /\ Resumes(t) /\ CallEnds(t, "ok", "writing")
  /\ UNCHANGED <<chat, what, calls, tries, late, listed>>

(* An embedding answered with a 4xx other than 429, or with no vector. *)
EmbeddingRefused(t) ==
  /\ turn[t] = "embed"
  /\ Resumes(t) /\ CallEnds(t, "fatal", "done")
  /\ UNCHANGED <<chat, what, calls, tries, late, listed>>

EndTurn(t) ==
  /\ turn[t] = "writing" /\ chat[t] = "answered"
  /\ Resumes(t)
  /\ turn' = [turn EXCEPT ![t] = "done"]
  /\ UNCHANGED <<chat, open, what, calls, tries, verdict, late, listed>>

----------------------------------------------------------------------------
(* Discoveries over stdio *)

InProgress == {d \in Discovery : disc[d] \in {"spawning", "session"}}

(* real_open_process = anyio.open_process; anyio.open_process = a wrapper; *)
(* stdio_client calls that wrapper before anything else runs.              *)
StartDiscovery(d) ==
  /\ disc[d] = "idle"
  /\ disc' = [disc EXCEPT ![d] = "spawning"]
  /\ saved' = [saved EXCEPT ![d] = patched]
  /\ patched' = Append(patched, d)
  /\ overlapped' = (overlapped \/ InProgress # {})
  /\ UNCHANGED <<turnVars, listed>>

(* The process is there: every wrapper it was spawned through lists it. *)
SeenByCall(d) == Append(saved[d], d) # <<>>

Spawned(d) ==
  /\ disc[d] = "spawning"
  /\ disc' = [disc EXCEPT ![d] = "session"]
  /\ listed' = IF SeenByCall(d) THEN listed \cup {d} ELSE listed
  /\ UNCHANGED <<turnVars, saved, patched, overlapped>>

RestoreOnSuccess(d) == patched' = IF disc[d] = "session" THEN saved[d] ELSE patched   \* mutant
Restore(d) == patched' = saved[d]

(* The tools, a failure to spawn or to talk, or the 10 s timeout. *)
EndDiscovery(d) ==
  /\ d \in InProgress
  /\ disc' = [disc EXCEPT ![d] = "done"]
  /\ Restore(d)
  /\ UNCHANGED <<turnVars, saved, overlapped, listed>>

----------------------------------------------------------------------------

TurnStep(t) ==
  \/ Leave(t) \/ StartChat(t) \/ KeepAlive(t) \/ KeepAliveSent(t) \/ ChatObserved(t)
  \/ \E kind \in Tool \cup {"embed"} : BeginCall(t, kind)
  \/ CannotCall(t) \/ AttemptFails(t) \/ Interrupted(t) \/ Retry(t)
  \/ AttemptSucceeds(t) \/ EmbeddingRefused(t) \/ EndTurn(t)

Next ==
  \/ \E t \in Turn : TurnStep(t) \/ ChatReturns(t) \/ Disconnect(t)
  \/ \E d \in Discovery : StartDiscovery(d) \/ Spawned(d) \/ EndDiscovery(d)

Spec == Init /\ [][Next]_vars

(* Every await of a turn ends: the 600 s of _post_chat, the tool's and the *)
(* embedding's timeouts, the sleeps; nobody has to disconnect.             *)
FairSpec == Spec /\ \A t \in Turn : WF_vars(TurnStep(t)) /\ WF_vars(ChatReturns(t))

----------------------------------------------------------------------------
(* Properties *)

(* After the client of a stream left, its turn starts at most one more     *)
(* request, the one its last await had already made way for: although the  *)
(* tool callers swallow the CancelledError, no retry follows it.           *)
StopsSoon == \A t \in Turn : late[t] <= 1

(* An LLM call outlives its turn only if the client left while a           *)
(* keep-alive was being sent (sse.py:65): there the generator is closed    *)
(* without the task being told, and the call goes on for nobody.           *)
OutlivesAtKeepAlive ==
  \A t \in Turn : turn[t] \in Over /\ chat[t] = "posting" => leftAt[t] = "keepalive"

(* No httpx client stays open after its call is over, except the LLM       *)
(* client of a call that was cancelled (provider.py:181 catches HTTPError  *)
(* only).                                                                  *)
ClientsClosed ==
  \A t \in Turn :
    /\ "chat" \in open[t] => chat[t] \in {"posting", "cancelled"}
    /\ "embed" \in open[t] => what[t] = "embed" /\ turn[t] \in {"embed", "backoff"}

(* As long as no two discoveries overlap, anyio.open_process is the real   *)
(* one whenever no discovery is in progress, and wrapped once during one.  *)
PatchContained ==
  ~overlapped => patched \in {<<d>> : d \in InProgress}
                             \cup (IF InProgress = {} THEN {<<>>} ELSE {})

(* The process a discovery spawned is in RECENT_SPAWNED_PIDS, whichever    *)
(* other discovery restored anyio.open_process meanwhile.                  *)
ListsDiscoveries == \A d \in Discovery : disc[d] = "session" => d \in listed

(* Every tool call and embedding follows the retry policy.                 *)
Policy == INSTANCE RetryPolicy WITH Caller <- Turn
KeepsPolicy == Policy!PolicySpec

(* Every turn ends, however many keep-alives and retries it takes.         *)
TurnsEnd == \A t \in Turn : <>(turn[t] \in Over)
=============================================================================
