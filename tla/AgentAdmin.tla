----------------------------- MODULE AgentAdmin -----------------------------
(* One agent as its owner's browser requests create, edit, start, stop, key *)
(* and delete it, and as the A2A requests use it (routes/agents.py,         *)
(* services/agents.py, services/api_keys.py, schemas/agent_form.py,         *)
(* auth/api_key.py, the first half of routes/a2a.py).  Every request has a  *)
(* database session of its own: it loads the agent row, and what it writes  *)
(* later is decided against the row it loaded, while other requests commit. *)
EXTENDS Naturals, FiniteSets

CONSTANTS Owner,      \* requests of the agent's owner
          Caller,     \* A2A requests
          None        \* an empty column, an agent that does not exist

VARIABLES agent,      \* the agents row, None before Create and after Delete
          born,       \* whether the agent was ever created
          keys,       \* agent_api_keys: the requests that minted them
          servers,    \* agent_mcp_servers made from the one preset offered
          runs,       \* agent_runs, by the request that created it
          op,         \* what a request does
          pc,         \* where a request stands
          seen,       \* the row as the request's session loaded it
          draft,      \* the row as the request's session wants it
          attach,     \* whether it will attach the preset
          lock,       \* who holds the row lock of agents until its commit
          wanted,     \* history: status of the last committed toggle
          given,      \* history: credential of the last committed form with one
          overlapped  \* history: two of the owner's requests were in flight

vars == <<agent, born, keys, servers, runs, op, pc, seen, draft, attach, lock,
          wanted, given, overlapped>>

Mode == {"simple", "react", "plan_execute"}
Status == {"stopped", "started"}
Text == Owner \cup {None}
Columns == [mode : Mode, system : Text, planner : Text, key : Text,
            env : Text, status : Status]

Run == [state : {"running", "paused", "done"}, executor : Mode,
        credential : {"key", "env"} \X Text]
Operation == {"none", "create", "save", "start", "stop", "mint", "delete",
              "serve"}
Request == Owner \cup Caller

ASSUME AdminAssumption == /\ None \notin Owner \cup Caller \cup Columns \cup Run
                          /\ Owner \cap Caller = {}

(***************************************************************************)
(* The columns a form asks for.  A new text is named after the request     *)
(* that typed it; a text left as it was is the one the session loaded.     *)
(***************************************************************************)

\* _resolve_provider_key: the variable first, then the stored key
Credential(row) == IF row.env # None THEN <<"env", row.env>>
                   ELSE <<"key", row.key>>

\* a form that checks the prompts against the mode the row had
PromptsOfOldMode(o, mode, row) ==
    IF row.mode = "plan_execute"
    THEN {None} \X ({row.planner, o} \ {None})
    ELSE ({row.system, o} \ {None}) \X {None}

\* what validate_create_agent_form lets through: the prompts of the mode are
\* there, the prompts of the other modes are dropped
Prompts(o, mode, row) ==
    IF mode = "plan_execute"
    THEN {None} \X ({row.planner, o} \ {None})
    ELSE ({row.system, o} \ {None}) \X {None}

\* a key typed into the form leaves the variable in place
KeyedBesideVariable(o, source, row) ==
    CASE source = "env"   -> [row EXCEPT !.env = o, !.key = None]
      [] source = "input" -> [row EXCEPT !.key = o]
      [] source = "blank" -> row

\* _resolve_api_key and update_agent: a variable clears the stored key, a key
\* clears the variable, a blank field keeps both
Keyed(o, source, row) ==
    CASE source = "env"   -> [row EXCEPT !.env = o, !.key = None]
      [] source = "input" -> [row EXCEPT !.key = o, !.env = None]
      [] source = "blank" -> row

Filled(keyed, mode, prompts) ==
    [mode |-> mode, system |-> prompts[1], planner |-> prompts[2],
     key |-> keyed.key, env |-> keyed.env, status |-> keyed.status]

Forms(o, row) ==
    UNION {{Filled(Keyed(o, f[1], row), f[2], prompts) :
               prompts \in Prompts(o, f[2], row)} :
           f \in {"env", "input", "blank"} \X Mode}

\* an UPDATE that writes every column
FlushedWhole(row, old, new) == new

\* the session sends the columns that differ from what it loaded
Flushed(row, old, new) ==
    [c \in DOMAIN row |-> IF new[c] # old[c] THEN new[c] ELSE row[c]]

Blank == [mode |-> "simple", system |-> None, planner |-> None,
          key |-> None, env |-> None, status |-> "stopped"]

\* the credential the form of o carried, if it carried one
Given(o, row) == CASE row.env = o -> <<"env", o>>
                   [] row.key = o -> <<"key", o>>
                   [] OTHER       -> given

\* an UPDATE or DELETE of the row waits for the transaction that updated it
Unlocked == lock = None

-----------------------------------------------------------------------------
Init ==
    /\ agent = None /\ born = FALSE /\ keys = {} /\ servers = {}
    /\ runs = [c \in Caller |-> None]
    /\ op = [q \in Request |-> "none"]
    /\ pc = [q \in Request |-> "idle"]
    /\ seen = [q \in Request |-> None]
    /\ draft = [o \in Owner |-> None]
    /\ attach = [o \in Owner |-> FALSE]
    /\ lock = None /\ wanted = "stopped" /\ given = <<"key", None>>
    /\ overlapped = FALSE

InFlight(o) == pc[o] \in {"loaded", "flushed"}
Begin(o) ==
    /\ pc[o] = "idle"
    /\ overlapped' = (overlapped \/ \E p \in Owner : InFlight(p))

\* create_agent_submit: agent, first API key and presets in one transaction
Create(o, preset) ==
    /\ Begin(o) /\ ~born
    /\ \E row \in Forms(o, Blank) :
          agent' = row /\ given' = Given(o, row)
    /\ born' = TRUE
    /\ keys' = {o}
    /\ servers' = IF preset THEN {o} ELSE {}
    /\ op' = [op EXCEPT ![o] = "create"]
    /\ pc' = [pc EXCEPT ![o] = "done"]
    /\ UNCHANGED <<runs, seen, draft, attach, lock, wanted>>

\* get_agent_for_user: the session loads the row, then the handler goes on
Load(o, what) ==
    /\ Begin(o) /\ agent # None
    /\ op' = [op EXCEPT ![o] = what]
    /\ pc' = [pc EXCEPT ![o] = "loaded"]
    /\ seen' = [seen EXCEPT ![o] = agent]
    /\ UNCHANGED <<agent, born, keys, servers, runs, draft, attach, lock, wanted, given>>

Loaded(o, what) == pc[o] = "loaded" /\ op[o] = what

Done(o) ==
    /\ pc' = [pc EXCEPT ![o] = "done"]
    /\ seen' = [seen EXCEPT ![o] = None]
    /\ UNCHANGED <<born, op, attach, overlapped>>

\* AgentFormError, AgentNameTakenError (rolled back) or label_too_long
Refuse(o) ==
    /\ Loaded(o, "save") \/ Loaded(o, "mint")
    /\ Done(o)
    /\ UNCHANGED <<agent, keys, servers, runs, draft, lock, wanted, given>>

\* update_agent: flush sends the changed columns and takes the row lock; a
\* form that changes nothing sends nothing; an UPDATE that finds no row fails.
\* Then the edit looks whether a server row carries the preset that is ticked.
Save(o, preset) ==
    /\ Loaded(o, "save") /\ agent # None
    /\ \E row \in Forms(o, seen[o]) :
          /\ row # seen[o] => Unlocked
          /\ lock' = IF row = seen[o] THEN lock ELSE o
          /\ draft' = [draft EXCEPT ![o] = row]
    /\ attach' = [attach EXCEPT ![o] = preset /\ servers = {}]
    /\ pc' = [pc EXCEPT ![o] = "flushed"]
    /\ UNCHANGED <<agent, born, keys, servers, runs, op, seen, wanted, given,
                   overlapped>>

\* the agent went away before the flush: StaleDataError, or the refresh fails
SaveFails(o) ==
    /\ Loaded(o, "save") /\ agent = None
    /\ Done(o)
    /\ UNCHANGED <<agent, keys, servers, runs, draft, lock, wanted, given>>

\* the second half of the edit: attach the preset, commit
Commit(o) ==
    /\ pc[o] = "flushed" /\ agent # None
    /\ agent' = Flushed(agent, seen[o], draft[o])
    /\ given' = Given(o, draft[o])
    /\ servers' = IF attach[o] THEN servers \cup {o} ELSE servers
    /\ lock' = IF lock = o THEN None ELSE lock
    /\ draft' = [draft EXCEPT ![o] = None]
    /\ Done(o)
    /\ UNCHANGED <<keys, runs, wanted>>

\* a deletion slipped in, which only a save without the lock allows: the
\* insert of a server row would break its foreign key
CommitNothing(o) ==
    /\ pc[o] = "flushed" /\ agent = None
    /\ draft' = [draft EXCEPT ![o] = None]
    /\ Done(o)
    /\ UNCHANGED <<agent, keys, servers, runs, lock, wanted, given>>

Target(o) == IF op[o] = "start" THEN "started" ELSE "stopped"

\* set_status: an UPDATE of one column, whatever the session had loaded
SetStatus(o) ==
    /\ Loaded(o, "start") \/ Loaded(o, "stop")
    /\ Unlocked
    /\ agent' = IF agent = None THEN None ELSE [agent EXCEPT !.status = Target(o)]
    /\ wanted' = IF agent = None THEN wanted ELSE Target(o)
    /\ Done(o)
    /\ UNCHANGED <<keys, servers, runs, draft, lock, given>>

\* a mint that trusts the row the session loaded
MintUnchecked(o) ==
    /\ Loaded(o, "mint")
    /\ keys' = keys \cup {o}
    /\ Done(o)
    /\ UNCHANGED <<agent, servers, runs, draft, lock, wanted, given>>

\* create_additional_key: the foreign key refuses a key of a deleted agent
Mint(o) ==
    /\ Loaded(o, "mint")
    /\ keys' = IF agent = None THEN keys ELSE keys \cup {o}
    /\ Done(o)
    /\ UNCHANGED <<agent, servers, runs, draft, lock, wanted, given>>

\* delete_agent_cascade (the signals to the executors are in RunLifecycle)
Delete(o) ==
    /\ Loaded(o, "delete")
    /\ Unlocked
    /\ agent' = None /\ keys' = {} /\ servers' = {}
    /\ runs' = [c \in Caller |-> None]
    /\ Done(o)
    /\ UNCHANGED <<draft, lock, wanted, given>>

-----------------------------------------------------------------------------
(***************************************************************************)
(* The A2A side.                                                           *)
(***************************************************************************)

\* _authenticate: load the row, match one of its keys, look at the status
Authenticate(c) ==
    /\ pc[c] = "idle"
    /\ agent # None /\ keys # {} /\ agent.status = "started"
    /\ op' = [op EXCEPT ![c] = "serve"]
    /\ pc' = [pc EXCEPT ![c] = "loaded"]
    /\ seen' = [seen EXCEPT ![c] = agent]
    /\ UNCHANGED <<agent, born, keys, servers, runs, draft, attach, lock, wanted,
                   given, overlapped>>

Running(row) ==
    [state |-> "running", executor |-> row.mode, credential |-> Credential(row)]

\* create_run: the executor and the key come from the loaded row; the foreign
\* key refuses a run of a deleted agent
StartRun(c) ==
    /\ pc[c] = "loaded" /\ c \in Caller
    /\ runs' = IF agent = None THEN runs
               ELSE [runs EXCEPT ![c] = Running(seen[c])]
    /\ Done(c)
    /\ UNCHANGED <<agent, keys, servers, draft, lock, wanted, given>>

Paused(t) == runs[t] # None /\ runs[t].state = "paused"

\* find_paused_run: the executor and the key come from the row this request
\* loaded, not from the snapshot the run was created with
ResumeRun(c, t) ==
    /\ pc[c] = "loaded" /\ c \in Caller
    /\ Paused(t)
    /\ runs' = [runs EXCEPT ![t] = Running(seen[c])]
    /\ Done(c)
    /\ UNCHANGED <<agent, keys, servers, draft, lock, wanted, given>>

\* the executor leaves the run: only the simple one waits for a confirmation
LeaveRun(t, state) ==
    /\ runs[t] # None /\ runs[t].state = "running"
    /\ state = "paused" => runs[t].executor = "simple"
    /\ runs' = [runs EXCEPT ![t].state = state]
    /\ UNCHANGED <<agent, born, keys, servers, op, pc, seen, draft, attach,
                   lock, wanted, given, overlapped>>

OwnerStep(o) ==
    \/ \E preset \in BOOLEAN : Create(o, preset) \/ Save(o, preset)
    \/ \E what \in {"save", "start", "stop", "mint", "delete"} : Load(o, what)
    \/ Refuse(o) \/ SaveFails(o) \/ Commit(o) \/ CommitNothing(o)
    \/ SetStatus(o) \/ Mint(o) \/ Delete(o)

CallerStep(c) ==
    \/ Authenticate(c) \/ StartRun(c)
    \/ \E t \in Caller : ResumeRun(c, t)
    \/ \E state \in {"paused", "done"} : LeaveRun(c, state)

Next == (\E o \in Owner : OwnerStep(o)) \/ (\E c \in Caller : CallerStep(c))

Spec == Init /\ [][Next]_vars

-----------------------------------------------------------------------------
(***************************************************************************)
(* Properties.                                                             *)
(***************************************************************************)

(* Every row, request and lock has the shape the code gives it.            *)
TypeOK ==
    /\ agent \in Columns \cup {None}
    /\ born \in BOOLEAN
    /\ keys \subseteq Owner /\ servers \subseteq Owner
    /\ runs \in [Caller -> Run \cup {None}]
    /\ op \in [Request -> Operation]
    /\ pc \in [Request -> {"idle", "loaded", "flushed", "done"}]
    /\ seen \in [Request -> Columns \cup {None}]
    /\ draft \in [Owner -> Columns \cup {None}]
    /\ attach \in [Owner -> BOOLEAN]
    /\ lock \in Owner \cup {None}
    /\ wanted \in Status
    /\ given \in {"key", "env"} \X Text
    /\ overlapped \in BOOLEAN

(* Start and Stop are never undone by an edit that loaded the row before   *)
(* them and commits after them: the agent has the status the owner's last  *)
(* committed click gave it (set_status against update_agent).              *)
ToggleSticks == agent # None => agent.status = wanted

(* A deleted agent leaves no key, no server and no run behind, even when   *)
(* requests that loaded it before are still in flight.                     *)
NothingOrphaned ==
    agent = None => /\ keys = {} /\ servers = {}
                    /\ \A c \in Caller : runs[c] = None

(* The credential a run would be given is the one of the last form that    *)
(* carried one, whichever of the two columns that form cleared             *)
(* (_resolve_api_key, update_agent, _resolve_provider_key); overlapping    *)
(* edits may merge one's variable with the other's key.                    *)
LastCredentialWins ==
    agent # None /\ ~overlapped => Credential(agent) = given

(* The row carries the prompts its mode runs on; each form is validated    *)
(* against the row its own session loaded, so overlapping edits may merge  *)
(* one's mode with the other's prompts.                                    *)
PromptsForMode ==
    agent # None /\ ~overlapped =>
        IF agent.mode = "plan_execute" THEN agent.planner # None
                                       ELSE agent.system # None

(* Ticking a preset again, or on a later edit, attaches it once, as long   *)
(* as one edit ends before the next begins: edits that change no column    *)
(* take no lock, and two of them may both find the preset missing.         *)
PresetOnce == overlapped \/ Cardinality(servers) <= 1
=============================================================================
