---------------------------- MODULE RunLifecycle ----------------------------
(***************************************************************************)
(* The life of an A2A run: the agent_runs rows, the requests that create,  *)
(* drive and resume them (routes/a2a.py, executors/simple.py and the       *)
(* control skeleton of executors/react.py and executors/plan_execute.py),  *)
(* the in-process cancellation registry, the detached orphan-finalize      *)
(* tasks, agent deletion, and the restart that reaps abandoned runs.       *)
(*                                                                         *)
(* A row is named after the request that inserted it, so Request is both   *)
(* the set of message:stream / message:send requests and the set of rows.  *)
(* Message texts, tokens and tool results are abstracted: what an LLM turn *)
(* returns is a nondeterministic choice.  A step is what runs between two  *)
(* awaits that matter; a database transaction takes effect at its commit.  *)
(***************************************************************************)
EXTENDS Naturals, FiniteSets

CONSTANTS
  Request,       \* requests, and the rows they insert
  Task,          \* a2a_task_id values; a server-made uuid is one nobody uses yet
  NoRequest,     \* "no event registered" / "no run targeted"
  MaxIterations, \* LLM turns of one executor (MAX_ITERATIONS, max_loops)
  BatchSize,     \* tool calls in a batch that waits for confirmation
  Modes,         \* execution modes the agent is created with or edited to
  Environments   \* the environments to consider: each a set of Hazards

(* What may happen around the server, each enabled by name:                *)
(*   disconnect         the client of a stream goes away                   *)
(*   raise              a database or library call raises                  *)
(*   early              the two above also strike outside the executor's   *)
(*                      try block, or while its last commit is in flight   *)
(*   cancel, delete     POST :cancel, DELETE of the agent                  *)
(*   edit               the agent's mode is edited between requests        *)
(*   concurrent_resume  two answers to one paused task are in flight       *)
(*   restart            the process crashes and boots again                *)
(*   second_worker      another worker boots while this one serves         *)
Hazards == {"disconnect", "raise", "early", "cancel", "delete", "edit",
            "concurrent_resume", "restart", "second_worker"}

ASSUME RunAssumption ==
  /\ NoRequest \notin Request
  /\ MaxIterations \in Nat \ {0}
  /\ BatchSize \in Nat \ {0}
  /\ Modes \subseteq {"simple", "react", "plan_execute"}
  /\ Task # {}
  /\ Environments \subseteq SUBSET Hazards

VARIABLES
  env,       \* which of Hazards may happen; never changes
  row,       \* the agent_runs table
  agent,     \* the agents row: is it there, and its live mode
  registry,  \* CancellationRegistry._events: whose event is registered for a run
  event,     \* the asyncio.Event handed to each request's executor
  call,      \* what a request fixed when it was prepared
  pc,        \* where its handler stands
  todo,      \* saved tool calls a resume has still to run
  iter,      \* LLM turns taken
  mem,       \* the run as the request's ORM session last loaded or wrote it
  outcome,   \* what the executor decided, waiting for its commit
  orphan,    \* the detached finalize task scheduled for the request's run
  reply,     \* the last task state the request's client was sent
  old,       \* rows started more than ABANDONED_RUN_THRESHOLD ago
  asked,     \* history: runs whose cancellation was requested
  pauses,    \* history: how often a run was paused
  invoked    \* history: confirmed calls a request's resume has invoked

rowVars  == <<row, agent, old>>
memVars  == <<registry, event>>
reqVars  == <<call, pc, todo, iter, mem, outcome, orphan, reply>>
histVars == <<asked, pauses, invoked>>
runVars  == <<rowVars, memVars, reqVars, histVars>>
vars     == <<env, runVars>>

----------------------------------------------------------------------------
(* Types *)

Status   == {"absent", "running", "paused", "completed", "failed", "cancelled"}
Terminal == {"completed", "failed", "cancelled"}
Reason   == {"none", "input_required", "error", "cancelled",
             "client_disconnected", "internal_error", "abandoned"}
Mode     == {"simple", "react", "plan_execute"}
Kind     == {"stream", "send"}

(* The columns of agent_runs the protocol depends on. *)
Columns == [status : Status, stop : Reason, answer : BOOLEAN, pending : BOOLEAN]
Row     == [cols : Columns, task : Task]

NoCols  == [status |-> "absent", stop |-> "none", answer |-> FALSE, pending |-> FALSE]
NewCols == [NoCols EXCEPT !.status = "running"]

Call == [target : Request \cup {NoRequest}, kind : Kind, mode : Mode,
         resuming : BOOLEAN, approved : BOOLEAN, batch : Nat]

(* "idle": not received.  "prepared": row committed.  "initial": event      *)
(* registered, first SSE event being sent.  "start": in the executor,       *)
(* before the loop.  "loop", "llm", "tools": in the loop.  "commit": the    *)
(* last transaction is in flight.  "ending": executor returned.             *)
PC == {"idle", "prepared", "initial", "start", "loop", "llm", "tools",
       "commit", "ending", "done"}

Reply == {"none", "working", "input_required", "completed", "failed",
          "canceled", "error"}

(* env is a parameter of the behaviour: Init chooses it, nothing changes it. *)
TypeOK ==
  /\ row \in [Request -> Row]
  /\ agent \in [state : {"started", "deleting", "deleted"}, mode : Mode]
  /\ registry \in [Request -> Request \cup {NoRequest}]
  /\ event \in [Request -> BOOLEAN]
  /\ call \in [Request -> Call]
  /\ pc \in [Request -> PC]
  /\ \A q \in Request : pc[q] # "idle" => call[q].target \in Request
  /\ todo \in [Request -> 0 .. BatchSize]
  /\ iter \in [Request -> 0 .. MaxIterations + 1]
  /\ mem \in [Request -> Columns]
  /\ outcome \in [Request -> Columns]
  /\ orphan \in [Request -> Columns]
  /\ reply \in [Request -> Reply]
  /\ old \in SUBSET Request
  /\ asked \in SUBSET Request
  /\ pauses \in [Request -> Nat]
  /\ invoked \in [Request -> 0 .. BatchSize]

Init ==
  /\ env \in Environments
  /\ row = [r \in Request |-> [cols |-> NoCols, task |-> CHOOSE t \in Task : TRUE]]
  /\ agent \in [state : {"started"}, mode : Modes]
  /\ registry = [r \in Request |-> NoRequest]
  /\ event = [q \in Request |-> FALSE]
  /\ call = [q \in Request |-> [target |-> NoRequest, kind |-> "stream", mode |-> "simple",
                                resuming |-> FALSE, approved |-> FALSE, batch |-> 0]]
  /\ pc = [q \in Request |-> "idle"]
  /\ todo = [q \in Request |-> 0]
  /\ iter = [q \in Request |-> 0]
  /\ mem = [q \in Request |-> NoCols]
  /\ outcome = [q \in Request |-> NoCols]
  /\ orphan = [q \in Request |-> NoCols]
  /\ reply = [q \in Request |-> "none"]
  /\ old = {} /\ asked = {}
  /\ pauses = [r \in Request |-> 0]
  /\ invoked = [q \in Request |-> 0]

----------------------------------------------------------------------------
(* Rows and the registry *)

Exists(r)  == row[r].cols.status # "absent"
Run(q)     == call[q].target
Executing(q) == pc[q] \in {"start", "loop", "llm", "tools", "commit"}
Active(q)  == Executing(q) \/ pc[q] \in {"prepared", "initial", "ending"}
Rows(t)    == {r \in Request : Exists(r) /\ row[r].task = t}
PausedAnyStatus(t) == Rows(t)  \* mutant: the status filter is missing
Paused(t)  == {r \in Rows(t) : row[r].cols.status = "paused"}

(* Only Simple mode looks at destructiveHint and at resume_action. *)
Confirms(q) == call[q].mode = "simple"
Resuming(q) == call[q].resuming /\ Confirms(q)

(* What finalize_run, pause_run_for_input and resume_run assign to the run *)
(* object of a session in which the columns are c.                         *)
Finalized(c, status, stop, answer) ==
  [c EXCEPT !.status = status, !.stop = stop, !.answer = answer]
PausedForInput(c) ==
  [c EXCEPT !.status = "paused", !.stop = "input_required", !.pending = TRUE]
ResumedKeepsStatus(c) == [c EXCEPT !.stop = "none", !.pending = FALSE]  \* mutant
Resumed(c) ==
  [c EXCEPT !.status = "running", !.stop = "none", !.pending = FALSE]

(* The ORM flushes only the columns in which the session's object differs   *)
(* from what the session last knew (expire_on_commit=False: nothing is      *)
(* reloaded), and nothing when the SELECT by id found no row.               *)
Changed(was, now, stored) == IF now = was THEN stored ELSE now

Merged(was, now, stored) ==
  [status  |-> Changed(was.status, now.status, stored.status),
   stop    |-> Changed(was.stop, now.stop, stored.stop),
   answer  |-> Changed(was.answer, now.answer, stored.answer),
   pending |-> Changed(was.pending, now.pending, stored.pending)]

Flush(q, new) ==
  /\ row' = IF Exists(Run(q))
            THEN [row EXCEPT ![Run(q)].cols = Merged(mem[q], new, @)]
            ELSE row
  /\ mem' = [mem EXCEPT ![q] = new]

(* CancellationRegistry.register / unregister / cancel(_all_for_agent). *)
RegisterByRequest(q) == /\ registry' = [registry EXCEPT ![q] = q]        \* mutant
                        /\ event' = [event EXCEPT ![q] = FALSE]
UnregisterByRequest(q) == registry' = [registry EXCEPT ![q] = NoRequest] \* mutant
Register(q)   == /\ registry' = [registry EXCEPT ![Run(q)] = q]
                 /\ event' = [event EXCEPT ![q] = FALSE]
Unregister(q) == registry' = [registry EXCEPT ![Run(q)] = NoRequest]
Signal(runs)  == event' = [q \in Request |-> event[q] \/ \E r \in runs : registry[r] = q]

(* The handler of q is over: its locals and its session are gone. *)
Leave(q, told) ==
  /\ pc' = [pc EXCEPT ![q] = "done"]
  /\ todo' = [todo EXCEPT ![q] = 0]
  /\ iter' = [iter EXCEPT ![q] = 0]
  /\ mem' = [mem EXCEPT ![q] = NoCols]
  /\ outcome' = [outcome EXCEPT ![q] = NoCols]
  /\ reply' = [reply EXCEPT ![q] = told]

----------------------------------------------------------------------------
(* _prepare_run: the transaction that ends at its commit *)

(* No paused run has the task id: a fresh running row is inserted. *)
PrepareFresh(q) ==
  \E t \in Task, k \in Kind :
    /\ pc[q] = "idle" /\ agent.state \in {"started", "deleting"}
    /\ Paused(t) = {}
    /\ row' = [row EXCEPT ![q] = [cols |-> NewCols, task |-> t]]
    /\ mem' = [mem EXCEPT ![q] = NewCols]
    /\ call' = [call EXCEPT ![q] = [target |-> q, kind |-> k, mode |-> agent.mode,
                                    resuming |-> FALSE, approved |-> FALSE, batch |-> 0]]
    /\ pc' = [pc EXCEPT ![q] = "prepared"]
    /\ UNCHANGED <<agent, old, memVars, todo, iter, outcome, orphan, reply, histVars>>

(* Exactly one paused run has it (scalar_one_or_none raises on two): that  *)
(* run is continued; its row stays paused until resume_run.                *)
PrepareResume(q) ==
  \E r \in Request, k \in Kind, yes \in BOOLEAN :
    /\ pc[q] = "idle" /\ agent.state \in {"started", "deleting"}
    /\ Paused(row[r].task) = {r}
    /\ "concurrent_resume" \in env \/ \A p \in Request : Active(p) => Run(p) # r
    /\ mem' = [mem EXCEPT ![q] = row[r].cols]
    /\ call' = [call EXCEPT ![q] = [target |-> r, kind |-> k, mode |-> agent.mode,
                                    resuming |-> TRUE, approved |-> yes, batch |-> pauses[r]]]
    /\ todo' = [todo EXCEPT ![q] = IF agent.mode = "simple" THEN BatchSize ELSE 0]
    /\ pc' = [pc EXCEPT ![q] = "prepared"]
    /\ UNCHANGED <<row, agent, old, memVars, iter, outcome, orphan, reply, histVars>>

(* After the commit: register the event and decrypt the provider key. *)
RegisterRun(q) ==
  /\ pc[q] = "prepared"
  /\ Register(q)
  /\ pc' = [pc EXCEPT ![q] = "initial"]
  /\ UNCHANGED <<rowVars, call, todo, iter, mem, outcome, orphan, reply, histVars>>

(* The key cannot be read: unregister and answer 500; the row is left alone. *)
RejectKey(q) ==
  /\ pc[q] = "prepared" /\ "early" \in env
  /\ Unregister(q)
  /\ Leave(q, "error")
  /\ UNCHANGED <<rowVars, event, call, orphan, histVars>>

(* The initial Task event went out (stream), or the drain began (send). *)
BeginExecutor(q) ==
  /\ pc[q] = "initial"
  /\ pc' = [pc EXCEPT ![q] = "start"]
  /\ reply' = [reply EXCEPT ![q] = "working"]
  /\ UNCHANGED <<rowVars, memVars, call, todo, iter, mem, outcome, orphan, histVars>>

----------------------------------------------------------------------------
(* The executors *)

(* The executor moves on inside its loop. *)
Goto(q, label) ==
  /\ pc' = [pc EXCEPT ![q] = label]
  /\ UNCHANGED <<rowVars, memVars, call, todo, mem, outcome, orphan, reply, histVars>>

(* A terminal or pausing outcome was decided; finalized = True is set and  *)
(* the commit is awaited.                                                  *)
Decide(q, new) ==
  /\ pc' = [pc EXCEPT ![q] = "commit"]
  /\ outcome' = [outcome EXCEPT ![q] = new]
  /\ UNCHANGED <<rowVars, memVars, call, todo, iter, mem, orphan, reply, histVars>>

Fail(q)     == Decide(q, Finalized(mem[q], "failed", "error", FALSE))
Complete(q) == Decide(q, Finalized(mem[q], "completed", "none", TRUE))
Pause(q)    == Decide(q, PausedForInput(mem[q]))

(* A fresh Simple run, or any ReAct or Plan & Execute run, persists the    *)
(* user's message (impossible once the agent's rows are gone).             *)
AppendUserMessage(q) ==
  /\ pc[q] = "start" /\ ~Resuming(q)
  /\ Exists(Run(q))
  /\ \/ Goto(q, "loop") /\ UNCHANGED iter
     \/ Fail(q)    \* ContextFullError

(* One saved call of the confirmed batch: invoked if the user said yes,    *)
(* answered user_denied otherwise; nothing is committed yet.  If the row   *)
(* is gone the first call is made before recording it raises (Interrupt).  *)
ResumeCall(q) ==
  /\ pc[q] = "start" /\ Resuming(q) /\ ~event[q]
  /\ todo[q] > 0
  /\ Exists(Run(q)) \/ todo[q] = BatchSize
  /\ todo' = [todo EXCEPT ![q] = @ - 1]
  /\ invoked' = IF call[q].approved THEN [invoked EXCEPT ![q] = @ + 1] ELSE invoked
  /\ UNCHANGED <<rowVars, memVars, call, pc, iter, mem, outcome, orphan, reply,
                 asked, pauses>>

(* Every call is done, or a cancel was seen: resume_run and commit. *)
ResumeRun(q) ==
  /\ pc[q] = "start" /\ Resuming(q)
  /\ todo[q] = 0 \/ event[q]
  /\ Flush(q, Resumed(mem[q]))
  /\ pc' = [pc EXCEPT ![q] = "loop"]
  /\ UNCHANGED <<agent, old, memVars, call, todo, iter, outcome, orphan, reply, histVars>>

(* Top of the loop: no cancel and turns left, so ask the LLM. *)
StartTurn(q) ==
  /\ pc[q] = "loop" /\ ~event[q] /\ iter[q] < MaxIterations
  /\ Goto(q, "llm")
  /\ iter' = [iter EXCEPT ![q] = @ + 1]

(* No turns left.  Simple fails with guardrail_exceeded; ReAct and Plan &  *)
(* Execute make a last synthesis call, or fail when it would not fit.      *)
ExceedGuardrail(q) ==
  /\ pc[q] = "loop" /\ ~event[q] /\ iter[q] = MaxIterations
  /\ \/ Fail(q)
     \/ /\ ~Confirms(q)
        /\ Goto(q, "llm")
        /\ iter' = [iter EXCEPT ![q] = MaxIterations + 1]

(* The LLM answered.  Simple looks at the event right after the answer. *)
MayUseAnswer(q) == pc[q] = "llm" /\ (Confirms(q) => ~event[q])

(* An LlmProviderError or an empty answer. *)
TurnFails(q) == pc[q] = "llm" /\ Fail(q)

TurnAnswers(q) == MayUseAnswer(q) /\ Exists(Run(q)) /\ Complete(q)

(* The answer asks for tools; a destructive one pauses a Simple run. *)
TurnPauses(q) == MayUseAnswer(q) /\ Confirms(q) /\ Exists(Run(q)) /\ Pause(q)

TurnCallsTools(q) ==
  /\ MayUseAnswer(q) /\ Exists(Run(q)) /\ iter[q] <= MaxIterations
  /\ Goto(q, "tools")
  /\ UNCHANGED iter

(* The batch of tools ran and was committed; an exhausted max_tokens fails *)
(* a Simple run and sends the others to synthesis, without another look at *)
(* the event.                                                              *)
ToolsDone(q) ==
  /\ pc[q] = "tools" /\ Exists(Run(q))
  /\ \/ Goto(q, "loop") /\ UNCHANGED iter
     \/ Confirms(q) /\ Fail(q)
     \/ /\ ~Confirms(q)
        /\ Goto(q, "llm")
        /\ iter' = [iter EXCEPT ![q] = MaxIterations + 1]

(* The cancel event is seen: Simple leaves the finalize to a detached task *)
(* and tells the client; the others finalize in line.                      *)
SeesCancel(q) ==
  /\ event[q]
  /\ pc[q] \in {"loop", "tools"} \/ (pc[q] = "llm" /\ Confirms(q))

BreakUnfinalized(q) ==  \* mutant: the finally does not schedule the finalize
  /\ SeesCancel(q)
  /\ reply' = [reply EXCEPT ![q] = "canceled"]
  /\ pc' = [pc EXCEPT ![q] = "ending"]
  /\ UNCHANGED <<rowVars, memVars, call, todo, iter, mem, outcome, orphan, histVars>>

BreakOnCancel(q) ==
  /\ SeesCancel(q)
  /\ IF Confirms(q)
     THEN /\ orphan' = [orphan EXCEPT ![q] = Finalized(NewCols, "cancelled", "cancelled", FALSE)]
          /\ reply' = [reply EXCEPT ![q] = "canceled"]
          /\ pc' = [pc EXCEPT ![q] = "ending"]
          /\ UNCHANGED <<rowVars, memVars, call, todo, iter, mem, outcome, histVars>>
     ELSE Decide(q, Finalized(mem[q], "cancelled", "cancelled", FALSE))

(* The commit is acknowledged and only then the final event is sent. *)
StateSent(status) ==
  CASE status = "completed" -> "completed"
    [] status = "paused"    -> "input_required"
    [] status = "cancelled" -> "canceled"
    [] OTHER                -> "failed"

CommitOutcome(q) ==
  /\ pc[q] = "commit"
  /\ Flush(q, outcome[q])
  /\ outcome' = [outcome EXCEPT ![q] = NoCols]
  /\ reply' = [reply EXCEPT ![q] = StateSent(outcome[q].status)]
  /\ pauses' = IF outcome[q].status = "paused"
               THEN [pauses EXCEPT ![Run(q)] = @ + 1] ELSE pauses
  /\ pc' = [pc EXCEPT ![q] = "ending"]
  /\ UNCHANGED <<agent, old, memVars, call, todo, iter, orphan, asked, invoked>>

(* The handler's finally unregisters.  message_send then reads the row back *)
(* and answers; everything but completed and cancelled becomes failed.      *)
SendReplyLumped(q) ==  \* mutant: a cancelled run is answered as a failed one
  CASE ~Exists(Run(q))                        -> "error"
    [] row[Run(q)].cols.status = "completed"  -> "completed"
    [] OTHER                                  -> "failed"

SendReply(q) ==
  CASE ~Exists(Run(q))                        -> "error"
    [] row[Run(q)].cols.status = "completed"  -> "completed"
    [] row[Run(q)].cols.status = "cancelled"  -> "canceled"
    [] OTHER                                  -> "failed"

EndRequest(q) ==
  /\ pc[q] = "ending"
  /\ Unregister(q)
  /\ Leave(q, IF call[q].kind = "send" THEN SendReply(q) ELSE reply[q])
  /\ UNCHANGED <<rowVars, event, call, orphan, histVars>>

----------------------------------------------------------------------------
(* Disconnects, exceptions and the orphan finalize *)

(* Where the executor's finally schedules a finalize: inside its try and   *)
(* before finalized = True.  Simple's try only begins at the loop.         *)
GuardedWhenFinalized(q) ==  \* mutant: finalized is never set to True
  \/ pc[q] \in {"loop", "llm", "tools", "ending"}
  \/ pc[q] = "start" /\ ~Confirms(q)

Guarded(q) ==
  \/ pc[q] \in {"loop", "llm", "tools"}
  \/ pc[q] = "start" /\ ~Confirms(q)

Unguarded(q) ==
  \/ pc[q] \in {"initial", "commit"}
  \/ pc[q] = "start" /\ Confirms(q)

(* schedule_orphan_finalize's triage of why the executor was left. *)
TriageLumped(q, cause) ==  \* mutant: a disconnect is filed as a cancel
  IF cause = "disconnect" THEN Finalized(NewCols, "cancelled", "cancelled", FALSE)
  ELSE Finalized(NewCols, "failed", "internal_error", FALSE)

Triage(q, cause) ==
  CASE event[q]             -> Finalized(NewCols, "cancelled", "cancelled", FALSE)
    [] ~event[q] /\ cause = "disconnect"
                            -> Finalized(NewCols, "cancelled", "client_disconnected", FALSE)
    [] OTHER                -> Finalized(NewCols, "failed", "internal_error", FALSE)

(* Recording anything for a deleted run violates a foreign key. *)
MayRaise(q) == "raise" \in env \/ ~Exists(Run(q))

(* A cause that may strike q now. *)
Strikes(q, cause) ==
  \/ cause = "disconnect" /\ "disconnect" \in env /\ call[q].kind = "stream"
  \/ cause = "raise" /\ MayRaise(q)

InterruptUnfinalized(q, cause) ==  \* mutant: nothing finalizes a run that was left
  /\ Guarded(q) /\ Strikes(q, cause)
  /\ Unregister(q)
  /\ Leave(q, "error")
  /\ UNCHANGED <<rowVars, event, call, orphan, histVars>>

(* Left from inside the try: the finalize is detached, the event goes. *)
InterruptGuarded(q, cause) ==
  /\ Guarded(q) /\ Strikes(q, cause)
  /\ orphan' = [orphan EXCEPT ![q] = Triage(q, cause)]
  /\ Unregister(q)
  /\ Leave(q, "error")
  /\ UNCHANGED <<rowVars, event, call, histVars>>

(* Left from outside the try: the session rolls back and nothing finalizes *)
(* the run; before the executor is entered even the event stays behind.    *)
InterruptUnguarded(q, cause) ==
  /\ Unguarded(q) /\ Strikes(q, cause)
  /\ "early" \in env \/ (pc[q] = "start" /\ ~Exists(Run(q)))
  /\ IF pc[q] = "initial" THEN UNCHANGED registry ELSE Unregister(q)
  /\ Leave(q, "error")
  /\ UNCHANGED <<rowVars, event, call, orphan, histVars>>

Interrupt(q) ==
  \E cause \in {"disconnect", "raise"} :
    InterruptGuarded(q, cause) \/ InterruptUnguarded(q, cause)

(* The detached task: a session of its own, so every column is written. *)
RunOrphan(q) ==
  /\ orphan[q].status # "absent"
  /\ row' = IF Exists(Run(q))
            THEN [row EXCEPT ![Run(q)].cols =
                    Finalized(@, orphan[q].status, orphan[q].stop, orphan[q].answer)]
            ELSE row
  /\ orphan' = [orphan EXCEPT ![q] = NoCols]
  /\ UNCHANGED <<agent, old, memVars, call, pc, todo, iter, mem, outcome, reply, histVars>>

----------------------------------------------------------------------------
(* The other clients *)

(* POST :cancel on a running task signals its event and answers CANCELED;  *)
(* on any other status, or on an ambiguous task id, it changes nothing.    *)
CancelTask(r) ==
  /\ "cancel" \in env
  /\ agent.state \in {"started", "deleting"}
  /\ Exists(r) /\ Rows(row[r].task) = {r} /\ row[r].cols.status = "running"
  /\ Signal({r})
  /\ asked' = asked \cup {r}
  /\ UNCHANGED <<rowVars, registry, reqVars, pauses, invoked>>

Running == {r \in Request : row[r].cols.status = "running"}

(* DELETE of the agent: the events of the running runs, then the cascade. *)
DeleteSignal ==
  /\ "delete" \in env /\ agent.state = "started"
  /\ Signal(Running)
  /\ asked' = asked \cup Running
  /\ agent' = [agent EXCEPT !.state = "deleting"]
  /\ UNCHANGED <<row, old, registry, reqVars, pauses, invoked>>

DeleteAgent ==
  /\ agent.state = "deleting"
  /\ agent' = [agent EXCEPT !.state = "deleted"]
  /\ row' = [r \in Request |-> [row[r] EXCEPT !.cols = NoCols]]
  /\ UNCHANGED <<old, memVars, reqVars, histVars>>

(* An edit of the agent changes the mode later requests are dispatched on. *)
EditAgent ==
  /\ "edit" \in env /\ agent.state = "started"
  /\ \E m \in Modes : agent' = [agent EXCEPT !.mode = m]
  /\ UNCHANGED <<row, old, memVars, reqVars, histVars>>

----------------------------------------------------------------------------
(* Restarts *)

CanBoot == {"restart", "second_worker"} \cap env # {}

(* The row's started_at falls behind the reaper's threshold. *)
Age(r) ==
  /\ CanBoot /\ Exists(r) /\ r \notin old
  /\ old' = old \cup {r}
  /\ UNCHANGED <<row, agent, memVars, reqVars, histVars>>

Abandoned(c) == [c EXCEPT !.status = "failed", !.stop = "abandoned"]

ReapAnyStatus ==  \* mutant: the status filter is missing
  row' = [r \in Request |->
            IF Exists(r) /\ r \in old
            THEN [row[r] EXCEPT !.cols = Abandoned(@)]
            ELSE row[r]]

(* reap_abandoned_runs *)
Reap ==
  row' = [r \in Request |->
            IF row[r].cols.status \in {"running", "paused"} /\ r \in old
            THEN [row[r] EXCEPT !.cols = Abandoned(@)]
            ELSE row[r]]

(* The process dies with its requests, events and detached tasks; the next *)
(* one reaps before it serves.                                             *)
Restart ==
  /\ "restart" \in env
  /\ Reap
  /\ registry' = [r \in Request |-> NoRequest]
  /\ event' = [q \in Request |-> FALSE]
  /\ orphan' = [q \in Request |-> NoCols]
  /\ pc' = [q \in Request |-> IF Active(q) THEN "done" ELSE pc[q]]
  /\ reply' = [q \in Request |-> IF Active(q) THEN "error" ELSE reply[q]]
  /\ todo' = [q \in Request |-> 0]
  /\ iter' = [q \in Request |-> 0]
  /\ mem' = [q \in Request |-> NoCols]
  /\ outcome' = [q \in Request |-> NoCols]
  /\ UNCHANGED <<agent, old, call, histVars>>

SecondWorkerBoots ==
  /\ "second_worker" \in env
  /\ Reap
  /\ UNCHANGED <<agent, old, memVars, reqVars, histVars>>

----------------------------------------------------------------------------

(* The steps the server takes by itself for request q. *)
Serve(q) ==
  \/ RegisterRun(q) \/ BeginExecutor(q)
  \/ AppendUserMessage(q) \/ ResumeCall(q) \/ ResumeRun(q)
  \/ StartTurn(q) \/ ExceedGuardrail(q)
  \/ TurnFails(q) \/ TurnAnswers(q) \/ TurnPauses(q) \/ TurnCallsTools(q)
  \/ ToolsDone(q) \/ BreakOnCancel(q)
  \/ CommitOutcome(q) \/ EndRequest(q)

Next ==
  /\ UNCHANGED env
  /\ \/ \E q \in Request :
          \/ PrepareFresh(q) \/ PrepareResume(q) \/ Serve(q) \/ RejectKey(q)
          \/ Interrupt(q) \/ RunOrphan(q)
          \/ CancelTask(q) \/ Age(q)
     \/ DeleteSignal \/ DeleteAgent \/ EditAgent
     \/ Restart \/ SecondWorkerBoots

Spec == Init /\ [][Next]_vars

(* Every await of the server returns: LLM and tool calls have timeouts and *)
(* the event loop runs every ready task, the detached ones included.       *)
Fairness == \A q \in Request : WF_runVars(Serve(q)) /\ WF_runVars(RunOrphan(q))

FairSpec == Spec /\ Fairness

----------------------------------------------------------------------------
(* Properties *)

(* A paused row always carries the saved calls its resume will run:        *)
(* _prepare_run turns a missing pending_action into an empty batch and the *)
(* confirmed calls would be dropped.  The two columns are written by       *)
(* different sessions, each flushing only what it saw change.              *)
PausedHasPending ==
  \A r \in Request : row[r].cols.status = "paused" => row[r].cols.pending

(* A final row has an answer exactly when it completed, whoever finalized  *)
(* it: an executor, a detached finalize, or the reaper.  Two answers to    *)
(* one paused task at a time would merge a failure into a completed row.   *)
AnswerIffCompleted ==
  "concurrent_resume" \notin env =>
    \A r \in Request : row[r].cols.status \in Terminal =>
      (row[r].cols.answer <=> row[r].cols.status = "completed")

(* The batch saved by one pause is run by at most one resume: calls the    *)
(* user confirmed once are not invoked by two requests.                    *)
CallsInvokedOnce ==
  \A q, p \in Request :
    (q # p /\ Run(q) = Run(p) /\ call[q].batch = call[p].batch /\ invoked[q] > 0)
      => invoked[p] = 0

(* That holds as long as a paused task is answered by one request at a     *)
(* time and no resume is struck between its first call and the commit of   *)
(* resume_run: neither by a disconnect or an exception outside the try     *)
(* (early), nor by the end of the process.  Then the session rolls back,   *)
(* the row is still paused, and the next answer invokes the same calls     *)
(* again.  Within these bounds no second pause, cancel or disconnect       *)
(* inside the loop makes a later resume run an earlier batch.              *)
BatchInvokedOnce ==
  env \cap {"concurrent_resume", "early", "restart"} = {} => CallsInvokedOnce

(* The registry keeps no event of a request that is over: as long as       *)
(* nothing strikes outside the executors' try blocks, every path out of a  *)
(* handler unregisters, so the dictionary does not grow.                   *)
NoLeakedEvent ==
  "early" \notin env =>
    \A r \in Request : registry[r] # NoRequest =>
      Run(registry[r]) = r /\ Active(registry[r])

(* While an executor works, the event registered for its run is the one it *)
(* looks at, so a cancel reaches it, as long as a paused task is answered  *)
(* by one request at a time.                                               *)
CancelReaches ==
  "concurrent_resume" \notin env =>
    \A q \in Request : Executing(q) => registry[Run(q)] = q

(* A row says it was cancelled on request only if somebody requested it.   *)
CancelledMeansAsked ==
  \A r \in Request :
    (row[r].cols.status = "cancelled" /\ row[r].cols.stop = "cancelled") => r \in asked

(* What a client was told about the end of its run is what the database    *)
(* says, or (a cancelled Simple run) what the scheduled finalize is going  *)
(* to say.  Only the "failed" of a message:send says less: it also stands  *)
(* for a run that is paused, or whose cancel is not yet in the row.        *)
RepliesTellTruth ==
  \A q \in Request :
    LET status == row[Run(q)].cols.status IN
    pc[q] = "done" \/ (pc[q] = "ending" /\ call[q].kind = "stream") =>
      /\ reply[q] = "completed" => status \in {"completed", "absent"}
      /\ reply[q] = "canceled"  => \/ status \in {"cancelled", "absent"}
                                   \/ orphan[q].status = "cancelled"
      /\ (reply[q] = "failed" /\ call[q].kind = "stream") =>
           status \in {"failed", "absent"}

(* The client's view of each run is a task that follows TaskProtocol: in   *)
(* particular a final state is never left.  Where a second worker boots    *)
(* and may reap a live run, nothing is claimed.                            *)
TaskState(r) ==
  CASE "second_worker" \in env -> "unknown"
    [] row[r].cols.status = "absent" -> IF Run(r) = r THEN "withdrawn" ELSE "unknown"
    [] row[r].cols.status = "running"   -> "working"
    [] row[r].cols.status = "paused"    -> "input_required"
    [] row[r].cols.status = "cancelled" -> "canceled"
    [] OTHER                            -> row[r].cols.status

Protocol == INSTANCE TaskProtocol WITH
  TaskId <- Request, state <- [r \in Request |-> TaskState(r)]

FollowsTaskProtocol == Protocol!TaskSpec

(* A run that cannot ask for confirmation is driven by one request from    *)
(* its insertion to its end.  That request keeps the promise ReActLoop and *)
(* PlanExecute make in detail: the row leaves running once, in the         *)
(* executor's transaction or in the detached finalize, and the client is   *)
(* told, when the handler ends, at most one final state, the row's own.    *)
(* Nothing is claimed where the row itself may be deleted or reaped.       *)
Drives(q) ==
  /\ Run(q) = q /\ ~Confirms(q)
  /\ env \cap {"delete", "restart", "second_worker"} = {}

StatusOf(q) == IF Drives(q) THEN row[q].cols.status ELSE "running"

LeftBy(q) ==
  CASE Drives(q) /\ orphan[q].status # "absent" -> orphan[q].status
    [] /\ Drives(q) /\ orphan[q].status = "absent"
       /\ reply[q] = "error" /\ row[q].cols.status \in Terminal -> "settled"
    [] OTHER -> "no"

ToldBy(q) ==
  IF ~Drives(q) \/ pc[q] # "done" \/ reply[q] \notin {"completed", "failed", "canceled"}
  THEN "none"
  ELSE IF reply[q] = "canceled" THEN "cancelled" ELSE reply[q]

ContractOf(q) == INSTANCE RunContract WITH
  status <- StatusOf(q), left <- LeftBy(q), told <- ToldBy(q)

DrivenRunsKeepContract ==
  /\ \A q \in Request : ContractOf(q)!ContractInit
  /\ [][\A q \in Request : ContractOf(q)!ContractStep]_vars

(* A run does not stay running: its executor, or the detached finalize of  *)
(* an executor that was left, takes it to paused or to a final state.      *)
RunsSettle ==
  \A r \in Request : row[r].cols.status = "running" ~> row[r].cols.status # "running"
=============================================================================
