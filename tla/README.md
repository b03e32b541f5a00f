# A TLA+ model of lcnc-a2a

lcnc-a2a lets an owner build an agent in a browser (prompt, model, MCP servers,
execution mode) and serves it to other programs over the A2A protocol. A
message from a client becomes a *run*: one row of `agent_runs`, one executor
that talks to an LLM and to MCP tools, one stream of events. This directory
models the parts of it that are concurrent or can fail half way, checks them
with TLC on small instances, and proves every safety property the runs check
with TLAPS for every instance.

    tlc -workers 2 -config RunFaults.cfg MCRunLifecycle   # one run
    tlapm RunLifecycleProofs.tla                           # one proof module

`PROJECT.json` lists every run with its configuration, every definition with
the lines it translates, a mutant of the code for every property, the
hazards, the findings and the theorems. Source paths below are relative to
`src/src/lcnc_a2a/`.

## 1. The system

| Component | Code | State it keeps | Operations |
|---|---|---|---|
| A2A task routes | `routes/a2a.py`, `auth/api_key.py` | none of its own; one database session per request | message:send, message:stream, tasks/{id}:cancel, authenticate, prepare, resume |
| Runs service | `services/runs.py`, `models/agent_run.py` | `agent_runs`: status, stop reason, answer, pending action; audit rows | create, pause, resume, finalize, orphan-finalize, reap |
| Cancellation registry | `services/cancellation.py` | one `asyncio.Event` per run, in process memory | register, unregister, cancel, cancel all of an agent |
| Simple executor | `executors/simple.py` | loop state in the generator, row in the session | turn, batch, pause, resume, deny, every way out |
| ReAct executor | `executors/react.py`, `executors/synthesis.py`, `services/similarity.py` | counters, previous thought and its vector | turn, parse error, tools, similarity stop, synthesis |
| Plan-Execute executor | `executors/plan_execute.py`, `services/plan_validator.py` | plan, completed steps, replan counter | plan, stage, concurrent steps, replan, synthesis |
| Executor dispatch | `executors/dispatcher.py`, `executors/base.py` | none | choose an executor, invoke a tool with retries |
| Conversation memory | `services/messages.py` | `agent_messages`, `agent_contexts.message_count` | append, load |
| Agent administration | `routes/agents.py`, `services/agents.py`, `services/api_keys.py`, `schemas/agent_form.py` | `agents`, `agent_api_keys` | create, edit, start, stop, mint a key, delete |
| MCP server configuration | `routes/mcp.py`, `services/mcp_discovery.py` | `agent_mcp_servers` with its `tools_cache` | create, save, discover, delete |
| MCP catalog | `services/mcp_catalog.py` | presets from a file | list, attach a preset at create and edit |
| MCP client | `mcp_client/` | server processes, HTTP sessions, `RECENT_SPAWNED_PIDS`, the patched `anyio.open_process` | list tools, call a tool over stdio or HTTP |
| LLM provider, embeddings | `llm/` | a task and an HTTP client per call | complete, embed with retries |
| Secrets bootstrap, encryption | `services/app_secrets.py`, `crypto*.py` | `app_state`: key fingerprint, encrypted session secret | read or create the key material at boot |
| Login, sessions, CSRF | `auth/`, `routes/auth.py` | `sessions`, signed cookies and form tokens | log in, log out, expire |
| A2A wire format | `a2a/` | the keep-alive loop of `a2a/sse.py`; otherwise none | format, parse, keep a stream alive |
| Dashboard, run history, settings, themes | `routes/dashboard.py`, `routes/runs.py`, `routes/settings.py` | none | read and render |
| Observability | `observability/` | spans | write |
| Application and database wiring | `main.py`, `db.py`, `migrations/` | engine, sessions | boot, reap, migrate |

How they interact. A browser request and an A2A request each have a database
session of their own (FastAPI keeps it open for as long as the response
streams). A session loads rows once and does not expire them at a commit; a
flush writes only the columns that differ from what was loaded, and takes the
row's lock until the commit. So a row another request changed in between is
*merged*, column by column, and this is the source of most of what is hard
here. The registry is shared memory of one process: routes set events,
executors poll them between awaits. A disconnect closes the executor's
generator at whatever await it stands; its `finally` blocks start a detached
task that finalizes the row in yet another session. At boot a reaper fails the
rows of runs that are more than an hour old. Before a worker serves it
bootstraps its key material in one transaction on `app_state`, a row all workers
share. While an executor waits for its LLM a task of its own holds the call, and
SSE comments keep the stream alive; MCP discoveries and tool calls share the
process-wide `anyio.open_process`, which a discovery patches for its duration.

What is hard. The way out of an executor: it can return, raise, be cancelled by
its event, be closed by a disconnect, or lose its row to a deletion, at every
await, with or without a transaction open. Pausing: a run waits for the user
in the database only, and one or several later requests may resume it, after
the agent was edited. Two writers of one row or of one context. A second
process booting while the first one serves, or several booting at once on an
empty database. A plan's steps run concurrently in one task group. A
cancellation that arrives in a tool call is swallowed there and taken for a
failed attempt. Global state is patched and restored out of order.

What makes each component correct, in one line:

- runs service, routes: a row leaves `running` once; what the client was told
  is what the row says; a final state is never changed;
- registry: the event a cancel sets is the one the executor reads, and no
  event outlives its request;
- executors: an end is always recorded, no work after the end, budgets hold, a
  batch approved once is invoked once, dependencies come first;
- memory: a run's messages stay in order, the cap holds, positions are dense,
  each call is followed by its result;
- administration: start and stop are never undone by an edit, the credential
  given last is the one used, the prompts fit the mode, a deletion leaves
  nothing;
- MCP configuration: the cached tools are those of the row's transport, a row
  has the target its transport needs, a deleted row stays deleted;
- secrets: all workers that serve hold one key and one session secret, so what
  one of them stores, signs or renders every other one reads and accepts;
- outbound calls: a call keeps its retry policy, next to nothing is started for
  a client that left, nothing outlives its turn, a patch is undone.

## 2. The modules

| Module | Models | Read it as |
|---|---|---|
| `RunLifecycle` | runs service, routes, registry, simple executor, skeleton of the other two, delete signals, reaper | any number of requests, tasks and rows; the central module |
| `TaskProtocol` | what an A2A client may rely on about a task | abstract specification, implemented by `RunLifecycle` |
| `RunContract` | what every executor promises about its run | abstract specification, implemented by `ReActLoop` and `PlanExecute`, and by `RunLifecycle` behind each handler |
| `ReActLoop` | one ReAct run in full | the detail behind a `react` run of `RunLifecycle` |
| `PlanExecute` | one Plan-Execute run in full | the detail behind a `plan_execute` run |
| `ConversationMemory` | the messages of one context | several runs appending |
| `AgentAdmin` | one agent under its owner's requests and A2A callers | overlapping sessions on one row |
| `McpServerConfig` | one MCP server row | overlapping saves, discoveries, deletion |
| `AppSecrets` | the bootstrap of any number of workers, and the cookies, forms and stored secrets that rest on it | several processes and one table |
| `OutboundCalls` | the LLM call, tool calls and embeddings of a turn; stdio discoveries beside it | the detail behind `StartTurn` and `TurnCallsTools` |
| `RetryPolicy` | what a caller may rely on about a retried call | abstract specification, implemented by `OutboundCalls` |
| `RunLifecycleProofs`, `ReActProofs`, `PlanExecuteProofs`, `ConversationMemoryProofs`, `AgentAdminProofs`, `McpServerProofs`, `AppSecretsProofs`, `OutboundCallsProofs` | theorems about the module each is named for | |
| `MC*` | the symmetry sets and plans of the TLC instances | |

Refinements: `RunLifecycle` maps a task to the state `GET tasks/{id}` would
answer (`TaskState`) and `FollowsTaskProtocol` is `TaskProtocol!TaskSpec` under
that map; `KeepsContract` is `RunContract!ContractSpec` in the two executors'
modules, with `row.status`, the detached finalize and the last event sent;
`KeepsPolicy` is `RetryPolicy!PolicySpec` with the turns as callers;
`DrivenRunsKeepContract` is `RunContract` once more, one instance per request
(`ContractOf(q)`), for the runs that cannot ask for confirmation: what
`ReActLoop` and `PlanExecute` promise of one run in full holds, at the level of
`RunLifecycle`, of every such run among concurrent ones. It claims nothing with
`delete`, `restart` or `second_worker`, under which the row itself may vanish or
be reaped. All five are checked by a run and proved (section 4).

### RunLifecycle

A row is named after the request that inserted it. `row[r].cols` holds the
columns the properties tell apart; `mem[q]` is the row as the session of q
holds it, and a flush writes only the columns that session changed (`Merged`, `Flush`).
`registry` maps a run to the request whose event is registered for it, `event`
is set or not, `orphan` holds the detached finalize task not yet run.

One action is what runs between two awaits that matter:

| Action | Code |
|---|---|
| `PrepareFresh`, `PrepareResume`, `RegisterRun`, `RejectKey`, `BeginExecutor` | `routes/a2a.py` 150-290: look up the paused run, create the row and commit, register, decide the executor on the agent's *live* mode |
| `AppendUserMessage`, `ResumeRun`, `ResumeCall` | `executors/simple.py` 90-200, and the first append of the other two |
| `StartTurn`, `ExceedGuardrail`, `TurnFails`, `TurnAnswers`, `TurnPauses`, `TurnCallsTools`, `ToolsDone`, `SeesCancel`, `BreakOnCancel` | the executor loops |
| `CommitOutcome`, `SendReply`, `EndRequest` | finalize, commit, last event, unregister |
| `Guarded`, `Unguarded`, `Interrupt`, `RunOrphan` | the `except` and `finally` blocks, the detached finalize |
| `CancelTask`, `DeleteSignal`, `DeleteAgent`, `EditAgent` | the cancel route, agent deletion in its two steps, a mode edit |
| `Reap`, `Restart`, `SecondWorkerBoots` | the lifespan's reaper; a process that dies; another that boots |

`env` is the environment: the failures that may happen in this behaviour. It is
a variable that `Init` chooses among `Environments` and no action changes, so
one run explores several environments and a theorem holds for all of them. The
failures are `disconnect`, `raise` (a call raises something the executor does
not expect), `cancel`, `delete`, `edit`, `restart`, `concurrent_resume` (several
answers to one paused task in flight), `early` (the client goes before the
executor's `try`, which for a resume is where its batch is invoked, or while the
final state is being committed) and
`second_worker`. A property that holds only without one of them says so:
`NoLeakedEvent` claims nothing with `early`, `CancelReaches` nothing with
`concurrent_resume`. With `second_worker`, whose reaper writes rows it does not
drive, the protocol claims nothing (`TaskState` is then unknown).

Starting and stopping the agent only gates new requests. Preparing a request
carries no fairness, so an agent that is stopped is a behaviour in which no
more requests are prepared.

### ReActLoop, PlanExecute

`ReActLoop` follows one run through `executors/react.py`: the two counters, the
three outcomes of a parse, the previous thought and its cached embedding, the
similarity stop, tools with their audit rows, the synthesis, and each way out.
What the model answers, and whether two thoughts are similar, is a
nondeterministic choice: parsing and the cosine are not modelled.
`commit_fault` lets the commit of a decided outcome be lost: the database refuses
it, or the client leaves while it is in flight. After `finalized = True` nothing
settles the row any more (`Lost`).

`PlanExecute` has a plan map step ids to stages and dependencies; `Valid`
translates the validator. The steps of a stage are independent actions
(`RunStep`), as `asyncio.gather` interleaves them. `StageCancelled` is what a
disconnect leaves of them: `gather` (`executors/plan_execute.py:257`) passes the
cancellation on until one step has ended; a tool call swallows it
(`mcp_client/tool_caller.py:75`, 106) and retries (`executors/base.py:93-125`), so
the siblings still in a tool call then go on. A lost final commit is
`CommitLost`, or, after a cancel, the second outcome of `FinalizeCancelled`, whose
client is told CANCELED all the same. Argument substitution, step texts and the
`agent_runs.plan` column are left out.

### ConversationMemory, AgentAdmin, McpServerConfig

These three model sessions: load, decide on what was loaded, flush (take the
lock), commit. `ConversationMemory` splits an append at its awaits (`Count`,
`Insert`, `Commit`); `KeepCount` is the soft cap less the system prompt.
A resume that is broken off before its run is marked resumed
(`BeforeResumeRun`) leaves the run paused and answerable again.
ReAct and Plan-Execute runs are its answer-only behaviours.
In `AgentAdmin` `Save` decides whether a preset will be attached and `Commit`
attaches it. A text or a key is named after the request that typed it, so
"the last one given" is a statement about names; `wanted` and `given` are
history variables. Form validation is in `Forms`; names, limits, headers are
left out; `localhost` providers without a key are the blank key. Deletion's
signals to executors are in `RunLifecycle`. In `McpServerConfig`, `command`
stands for command, env and cwd, and `url` for url and headers, which are
saved together. Environment variables left blank in a save wipe the stored
ones, which the docs state ("Empty string is treated as `{}`").

### AppSecrets

A worker boots with a key its operator chooses anew each time; a key stands for
its fingerprint and for what it encrypts. The bootstrap is one PostgreSQL
transaction at READ COMMITTED, one action per statement: `CheckFingerprint`,
`Stamp`, `FindSecret`, `MintSecret`, `RereadSecret`, `Commit`. An insert waits
for another's uncommitted row with the same key and is dropped (`ON CONFLICT DO
NOTHING`) once that row is committed. The fingerprint row is not read again
after such an insert; that workers still agree rests on the whole bootstrap
being one transaction, because the loser then reads a session secret it cannot
decrypt. It fails with `InvalidEncryptionKeyError`, not with the
`EncryptionKeyMismatchError` the docs announce
(`.agent_docs/secrets_bootstrap.md:26`). `ResetDatabase` requires all workers
down, since `dropdb` refuses a database with connections. SQLite, which the
tests use, serialises writers and adds no behaviour. `Seal`, `Login`,
`RenderForm`, `Logout`, `Expire` and `FormExpires` (the hour after which
`auth/csrf.py` refuses a form) are the uses of the key material.

### OutboundCalls

A turn stands at one await: the database, the LLM task, the sending of a
keep-alive, a tool call, an embedding, a back-off. `Disconnect` cancels the
response's task group, as Starlette does for the ASGI version uvicorn serves;
cancellation is level-triggered, so each later await raises too, but an await
whose result was there (`ready`) still returns it and may start one more
request. `Interrupted` translates the tool callers' `except`, which turns the
`CancelledError` into a timeout (`mcp_client/tool_caller.py:75`), and `Swallow`
what the retry loop makes of it. `GeneratorExit` at a keep-alive takes a way of
its own (`Leave`). Discoveries read, wrap and restore `anyio.open_process`
(`StartDiscovery`, `Spawned`, `EndDiscovery`): `patched` is the stack of
wrappers around the real one and `saved` what a discovery will restore. The
three attempts and their order are the code's; their delays are left out.
`$substitution` of step arguments, the chats of the planner and of plan steps,
which no keep-alive shields, and HTTP discoveries, which share nothing, are
left out.

## 3. Runs

`CHECK_DEADLOCK FALSE` is set where an instance has a finite number of requests
and stops when they are served. `Secrets` has no such end: an operator may
always restart a worker, and its run checks for deadlock.

| Run | States | Checks | Instance |
|---|---|---|---|
| `RunFaults` | 566,956 | `PausedHasPending` `AnswerIffCompleted` `CancelReaches` `NoLeakedEvent` `CancelledMeansAsked` `FollowsTaskProtocol` | two requests, one with everything that goes wrong inside a process and its restart, one with early disconnects, an edit and a second worker |
| `RunResume` | 227,414 | `BatchInvokedOnce` | three requests: pause, answer, pause again, answer, with cancels, and clients that leave inside the `try` only |
| `RunLive` | 41,960 | `RepliesTellTruth` `DrivenRunsKeepContract` `RunsSettle` | two turns per run, so that it can fail after it worked |
| `ReAct` | 265,372 | `StopsOnNeighbours` `NoTurnPastGuardrail` `EveryCallRecorded` `KeepsContract` `RunEnds` | three turns, two calls each, lost commits |
| `Plan` | 143,460 | `DependenciesDone` `ToolsStopWithRun` `SucceedsOnce` `CompletedPlan` `KeepsContract` `RunEnds` | three step ids in two stages, two replans, lost commits |
| `Memory` | 351,501 | `PositionsDense` `CapKept` `RunInOrder` `PayloadPaired` | two runs in one context |
| `Admin` | 51,703 | `ToggleSticks` `NothingOrphaned` `LastCredentialWins` `PromptsForMode` | three owner requests, two callers |
| `Mcp` | 39,809 | `ToolsOfTransport` `Usable` `DeletedStaysDeleted` | five owner requests |
| `Outbound` | 831,992 | `StopsSoon` `OutlivesAtKeepAlive` `PatchContained` `KeepsPolicy` `TurnsEnd` | one turn with an embedding and two tool calls of three attempts, three discoveries |
| `Secrets` | 99,666 | `KeysAgree` `LoginsHold` `BootEnds` | three workers, two keys, one login, database resets |
| `RunLeftRunning`, `RunTwoAnswers` | | end with a counterexample, see below | |

What each property says, and which code it is about, is in the comment above
it. No run spends a property on `TypeOK`: every module's is part of the inductive
invariants of section 4, so it is proved for every instance.
Some properties hold only as long as nothing overlapped: the session modules
record in a history variable (`overlapped`, `happened`) that two sessions were
in flight, or that a batch was paused or cancelled, and `LastCredentialWins`,
`PromptsForMode`, `PresetOnce` (a theorem, no run), `ToolsOfTransport`,
`Usable`, `PatchContained`, `PositionsDense`, `CapKept` and `PayloadPaired` are
claimed before that, while `ToggleSticks`, `NothingOrphaned`,
`DeletedStaysDeleted` and `RunInOrder` hold whatever overlaps. One run explores
both.

Bounds and why they suffice. *Requests*: a property about two answers to a
paused task needs the request that paused it and two more, hence three in
`RunResume`; what a disconnect, a restart or an edit can break involves two.
*Tasks*: rows of different tasks share only the registry, which is indexed by
run, so one task is used; the proofs hold for any number. *Turns*: one turn
reaches every way out of a run, two reach "failed after it worked".
*BatchSize* 1 suffices where only whether a batch was invoked counts;
`Memory` uses two, because half a batch is the interesting case there. *ReAct*:
three turns are the least in which a turn that compares nothing lies between
two that do; four tokens at up to two a turn let either guardrail be the first
to hit. *Plan*: two steps run at once or one depends on the other, the third id
is what a replan adds, and two replans make the cap differ from the first
replan. *Memory*: the caps (1000 and 50 in the code) are reduced so that both
are met within two runs of two batches. *Owner*: create and two overlapping
operations; *Mcp*: create, save, discover, delete and one more. *Outbound*:
turns share nothing but the patch, which only discoveries write, so one turn;
two discoveries restore out of order, a third then starts on what they left;
the three attempts are the code's. *Secrets*: a loser of the race, the winner,
and one that boots later; two keys, since only equality counts; three boots in
all let a reset lie between any two.

Why some hazards are absent from some runs, and conditions of some theorems.

- `edit` with a disconnect and three requests: the detached finalize of a ReAct
  resume may overwrite a row that a simple resume is already driving, so the
  protocol is claimed without `edit` (or, in `RunFaults`, where the second
  worker of the same environment already makes `TaskState` unknown).
- `early` breaks `NoLeakedEvent`, `BatchInvokedOnce` (a client that leaves while
  a resume invokes its batch leaves the row paused, and the next answer invokes
  the same calls again) and `RunsSettle`, which is what `RunLeftRunning` shows;
  the first two are therefore claimed only without it.
- `restart` breaks `RepliesTellTruth`, because a process may die between telling
  "canceled" and its detached finalize; `BatchInvokedOnce`, because the calls of
  a resume that died are still pending; and `RunsSettle`.
- `concurrent_resume` is what `RunTwoAnswers` is about. It breaks
  `CancelReaches`, `AnswerIffCompleted` and `BatchInvokedOnce`; the theorems on
  `TypeOK`, `PausedHasPending` and `CancelledMeansAsked` hold with it.
- `RunEnds` and `KeepsContract` of `ReAct` and of `Plan` except a run whose final
  commit was lost (`Lost`): there the code schedules nothing more, the row stays
  running, and a cancelled client has been told CANCELED. `RunLifecycle` knows a
  lost final commit only as part of `early`.
- `ToolsStopWithRun`: once the client was told the end no step is at work. After
  an exception in a step, or a disconnect, `gather` is over as soon as one step
  is, and its siblings go on; the property says that it takes such a sibling.
- `StopsSoon` and `KeepsPolicy` of `Outbound` are about the turns of the simple
  and the ReAct executor, whose calls are awaited inside the cancelled scope. A
  plan's step whose sibling has ended is outside it.

Fairness. `FairSpec` in `RunLifecycle` is weak fairness of `Serve(q)`, the next
step of a request's coroutine, and of `RunOrphan(q)`: the event loop runs every
ready task, and LLM, embedding and tool calls have timeouts in the code, after
which they fail. The client, the owner, preparing a request, cancels and
failures have no fairness. The two executors' modules assume the same of their
run, `PlanExecute` of each concurrent step. `OutboundCalls` assumes it of a
turn's next step and of the answer or timeout of a chat (600 s, `llm/`; 30 s for
a tool, 10 s for a discovery, `mcp_client/`). `AppSecrets` assumes it of a
bootstrap's next statement: the database answers, and ends the transactions of
connections that died, so a lock is released.

### Disagreements between the code and what is written about it

Two runs end with a counterexample (`PROJECT.json` quotes the lines):

| Run | What the counterexample shows |
|---|---|
| `RunLeftRunning` | a client that leaves before the executor's `try`, or during the final commit, leaves a `running` row that only the hourly reaper finds |
| `RunTwoAnswers` | two overlapping answers to one paused task both invoke the batch |

The models reach further states the texts exclude. They are excepted in the
properties above or listed with the hazards, and no run is spent on them:

- a paused run is resumed by the executor of the mode its agent was edited to
  since (`routes/a2a.py:273`, against
  `specs/2026-04-30_20-06-59-lcnc-a2a-builder.md:252`);
- a client that leaves while a resume invokes its batch rolls the resume back:
  the row stays paused and the next answer invokes the same calls again
  (`executors/simple.py:131-159`, against 338-340);
- a step of a plan retries its tool after the client left, once a sibling of its
  stage has ended, possibly after the row says `client_disconnected`
  (`executors/plan_execute.py:257`, `executors/base.py:93-125`,
  `mcp_client/tool_caller.py:75`, 106);
- an event stays registered when its response is closed before the generator is
  entered (`routes/a2a.py:277`);
- the second of two overlapping answers replaces the first one's event, so a
  cancel misses the first (`services/cancellation.py:19`);
- a run committed but not yet registered misses the signal of a deletion
  (`routes/agents.py:460`, against `.agent_docs/a2a_executor.md:37`);
- a restart within the hour keeps serving WORKING for dead runs
  (`services/runs.py:276`, against its docstring at 271);
- message:send answers FAILED for a run that waits for input
  (`routes/a2a.py:334`);
- only the simple executor asks before a destructive tool
  (`executors/react.py:442`, against `executors/base.py:66`);
- a similarity stop may complete with an empty answer (`executors/react.py:412`,
  against 267);
- a commit that is refused, or during which the client leaves, after `finalized`
  was set leaves the row running, although the `finally` is there for that
  (`executors/react.py:630`); so it is in a Plan-Execute run
  (`executors/plan_execute.py:437`, 460, 567), and both tell CANCELED though the
  commit after a cancel failed (`executors/plan_execute.py:417-421`,
  `executors/react.py:492-495`);
- a stage that asks for a replan skips the token check
  (`executors/plan_execute.py:296`, against
  `.agent_docs/plan_execute_executor.md:62`);
- two runs that count before either commits pass the hard cap
  (`services/messages.py:81`), and a context that fills up in mid-run ends it
  with `internal_error`, not `context_full` (`executors/simple.py:329`, against
  `.agent_docs/a2a_executor.md:19`);
- two overlapping edits may merge into a mode without its prompt
  (`services/agents.py:149`), and a save overlapping a discovery may switch the
  transport under its tools (`services/mcp_discovery.py:198`, against
  `.agent_docs/mcp_tools.md:38`);
- a generator closed at a keep-alive leaves the LLM call running
  (`a2a/sse.py:65`, against 49-51), and a cancelled `_post_chat` its client open
  (`llm/provider.py:181`);
- overlapping discoveries leave a wrapper of `anyio.open_process` installed
  (against the comment at `mcp_client/stdio.py:139`);
- the standard-error file of a stdio tool call is never unlinked
  (`mcp_client/tool_caller.py:63`);
- a worker that loses the race with another key fails with an error other than
  the announced one (`.agent_docs/secrets_bootstrap.md:26`).

## 4. Proofs

Each `*Proofs` module proves that an invariant is inductive, for any values of
the constants that satisfy the module's `ASSUME`, and derives the properties.
Every safety property a run checks, action properties and the five refinements
included, is proved, and so is the safety half of every liveness property a run
checks: that work is bounded, and that nobody is left waiting or abandoned. No theorem has assumptions beyond that `ASSUME`; what a
property needs of the environment is written in it (`env`, `overlapped`,
`happened`) or in the theorem (`Orderly`, `Steady`).

| Theorems | Inductive invariant, and what it adds to the property |
|---|---|
| `RunLifecycleProofs` | |
| `TypeCorrect` | `TypeInv` = `TypeOK` and `Budget`: the turn and batch counters never pass their bounds, without which `TypeOK` is not inductive |
| `PausedRowsKeepTheirCalls` | `PauseInv` adds `SessionInv`, what a session holds at each label, so that a pause always flushes its calls and a final status always differs from the loaded one (otherwise a merge of two sessions could leave "paused" with "no calls"), and `OrphanInv`, that a detached finalize writes no pause and no answer |
| `CancelledOnlyWhenAsked` | `AskedInv` adds `Signalled`, that an event set, or seen, or a detached "cancelled" was asked for, and `StopAsked`, that so was a row's stop reason |
| `NoEventLeaks` | `LeakInv`: `TypeInv` and the property itself, with lemmas on how every action moves a handler and touches the registry |
| `CancelAlwaysReaches` | `ReachInv`: rows and runs belong to requests that were received (`Received`), at most one request works on a run (`Exclusive`), and from registration on its event is the run's registered one (`Registered`) |
| `AnswersOfCompleted` | `AnswerInv` = `PauseInv`, `ReachInv`, `Answerless` (sessions still working hold no answer) and `AnswersComplete` (a row's answer is that of its final state) |
| `BatchesInvokedOnce` | `BatchInv` adds `BatchesFollow`: a request that has not yet resumed holds the run's newest batch, and whoever invoked before it held an earlier one; for `Orderly` environments: no overlapping answers, clients leaving outside the `try` (the batch of a resume included) or restarts |
| `RunsFollowProtocol` | `ProtoInv` = `PauseInv`, `ReachInv` and `Settled` (while a request works on a run, or a detached finalize is owed, its row is running and nobody else does or is); `RowSteps` says which changes of a row an action makes, `ProtocolStep` that each is a step of `TaskProtocol`; for `Steady` environments: no edit, overlapping answers or second worker |
| `RepliesAreTrue` | `ProtoInv` and `Claims`: a reply, once sent or decided, keeps agreeing with the row, because final rows are kept (`FinalKept`); `Steady` and no restart |
| `DrivenRunsKeepTheirContract` | `DriveInv`: the one request whose run this is alone drives it (`Sole`), and its session, its detached finalize and its reply stand as the contract's last step left them (`Driven`); other requests, also those overlapping on other runs, map to stutters |
| `RequestsWindDown` | `BoundInv` = `TypeInv`, `TurnsInv`, `NotBegun` (turn counters by label), and the measure `StepsLeft(q)`, which every step for q lowers and no other step raises, in every environment |
| `NoRunIsAbandoned` | `AttendInv` = `AskedInv` and `Attended`, in every environment without `early` and `restart`: only an insertion and a confirmation make a row running (`StartsRunning`), and whoever is behind a running row stays until it writes another status (`AttendsOn`) |
| `ReActProofs` | |
| `GuardrailsHold` `NeighboursCompared` `EveryCallIsRecorded` | `LoopInv`: `Decided` (what was decided, committed and told at each label), `Budget`, `Recorded` (flushed and unflushed audit rows add up to the calls), `Neighbours` (the thoughts of the run against the previous one, the candidate and the cached vector), `Similar` |
| `ReActKeepsContract` | from `LoopInv`: every step is a step of `RunContract` or a stutter, with what a `Lost` run told its client hidden |
| `RunsAreBounded` `RunsAtRestEnded` | from `LoopInv`: the measure `StepsLeft` (turns, calls of the batch, the cancel, the finalize), which every step lowers; `Rest`, that a run with nothing left to do has its end in the row, or lost its final commit |
| `PlanExecuteProofs` | |
| `PlanTypeCorrect` `DependenciesComeFirst` `StepsSucceedOnce` `CompletionRanThePlan` `ToolsStop` | `PlanInv`: `Decided`, `Ordered` (the plan followed is one the validator let through), `Staged` (a stage runs steps of the plan not done, on outputs that are there; `NextStageReady` is the argument: of what remains, the lowest stage depends on nothing that remains), `Counted` (the steps kept are exactly those that succeeded), `Clean`, `Quiet` |
| `PlanKeepsContract` | from `PlanInv`: every step is a step of `RunContract` or a stutter, with what a `Lost` run told its client hidden (`Heard`) |
| `ValidPlansAcyclic` `StagesHaveSteps` | any set of steps has one of least stage, which depends on none of the others: so the dependencies of a plan the validator lets through are well-founded, and (`Busy`, on top of `PlanInv`) a stage the executor starts is never empty |
| `RunsDescend` `RunsAtRestEnded` | from `PlanInv`: `Rank` (replans left, phase, steps remaining, tools at work, cancel, finalize) falls lexicographically at every step and stays in a set in which that order is well founded; `Rest`, that a run with nothing left to do has its end in the row, or lost its final commit |
| `ConversationMemoryProofs` | |
| `PositionsAreDense` `ContextsStayCapped` `RunsReadInOrder` | `MemoryInv` = `TypeOK`, `Committed`, `Alone` (without overlap one session counts without a gap) and, for every session, what it holds, which positions it may still use and how far its run is (`Session`) |
| `PayloadsArePaired` | `PairInv` adds `Matched`: what a session sees and what it is about to append, at the positions the appends will give, pair calls and results; an insert moves one message from the second to the first |
| `AgentAdminProofs` | |
| `TogglesStick` `NothingIsOrphaned` `LastCredentialIsUsed` `PromptsFitMode` `PresetAttachedOnce` | `AdminInv` = `Base` (types, what each session loaded against the row now), `Typed` (a row's credentials come from requests that are over), `Presets` (attached or about to be) and the properties |
| `McpServerProofs` | |
| `ToolsKeepTransport` `RowsUsable` `DeletedRowsStayDeleted` | `McpInv` = `TypeOK`, `Sessions` (what a session in flight will write is consistent), `Undisturbed` (without overlap it still holds the row as loaded), `Ordered` |
| `AppSecretsProofs` | |
| `WorkersAgree` `LoginsHoldEverywhere` | `Agreement`: rows an open transaction inserted are uncommitted, its own, and nobody else's (`StampHeld`, `SecretHeld`), both rows are committed together (`RowsTogether`), so a worker that lost the race meets the winner's secret (`Stamped`) and one about to commit or serving decrypted the row it sees (`Settled`); what was stored, signed or rendered is under those rows (`Signed`) |
| `NobodyWaitsForAWaiter` `BootsCountDown` | from `Agreement`: `Blockers` are the workers whose uncommitted row an insert waits for; the one who holds the stamp holds all there is to wait for, so waiting never makes a circle; `BootLeft` counts the statements to come |
| `OutboundCallsProofs` | |
| `TurnsStopSoon` `ChatOutlivesAtKeepAlive` `ClientsAreClosed` `PatchStaysContained` | `CallsInv` = `TypeOK`, `Disciplined` (what each await says of the turn's requests, and that the one start after a cancellation uses up its `ready` result) and `Contained` (without overlap the stack of wrappers is that of the discovery in flight) |
| `CallsKeepPolicy` | from `CallsInv`: every step is a step of `RetryPolicy` or a stutter |
| `TurnsWindDown` | from `CallsInv`: `StepsLeft(t)` (calls, attempts of the current one, the LLM task, the way out) falls at every step of a turn but a keep-alive, and no other turn or discovery raises it |

The conditions are needed: section 3 says which environment breaks which
property. Each proof has one step per action of `Next`; facts about `Flush`,
`Merged`, the interrupts and the sequences of messages are lemmas cited by name.

What is left to TLC is liveness (`RunsSettle`, `RunEnds` twice, `TurnsEnd`,
`BootEnds`), because fairness and ENABLED are beyond this prover. The theorems
narrow what it means: by `RequestsWindDown`, `RunsAreBounded`, `RunsDescend`,
`TurnsWindDown` and `BootsCountDown` nothing can loop or be kept busy (but by
keep-alives, which an LLM call that ends stops); by `NoRunIsAbandoned`,
`RunsAtRestEnded` and `NobodyWaitsForAWaiter` nothing unfinished is left without
somebody to finish it, nor waits in a circle. What the runs add is that a
request, run, turn or boot that is not over always has a step it may take, and
that fairness takes it.

## 5. Not modelled

- *Content*: what a model answers, whether a text parses, cosine similarity, the
  wire format, argument substitution between plan steps, wording, layout. Each
  is a nondeterministic outcome where something depends on it.
- *The MCP protocol inside a session* and the HTTP discovery: I/O that succeeds,
  fails or times out.
- *Dashboard, run history, settings, themes*: read-only pages. *Observability*:
  spans and log lines, which nothing reads. *Migrations*: run by hand, before a
  worker boots.
- *User rows* (`auth/dev_provider.py`): two first logins of one email race, and
  the unique index decides. The age of a session or a form token is a
  nondeterministic expiry (`Expire`, `FormExpires`).
- *Delays*: back-offs and timeouts are unordered; the code's timeouts are the
  reason for the fairness above.
- *SQLite*, used by the tests only: it serialises writers and adds no behaviour.
- *The `agent_runs.plan` column, token sums of the simple executor, names,
  headers, limits of the forms*: data no property distinguishes.

## 6. Plan

The order was: run lifecycle and its abstract protocol, its first proofs, the
two other executors and their contract, administration, MCP configuration,
memory, then the secrets bootstrap, the outbound calls with their retry policy,
the proofs of every safety property, and the bounds and the absence of abandoned
or circular waits behind the liveness properties. What could follow:

1. A model of the planner's and plan steps' chats, which no keep-alive shields,
   in `OutboundCalls`.
2. The user row at login, if a property turns up that depends on it.
3. What the payload looks like once the soft cap cuts between a call and its
   result (`services/messages.py:116`), when the repository says what it should.
