--------------------------- MODULE McpServerConfig ---------------------------
(* One row of agent_mcp_servers under the owner's requests: create, save,   *)
(* discover, delete (routes/mcp.py, services/mcp_discovery.py).  A discovery *)
(* reads the row, talks to the MCP server for up to ten seconds without the *)
(* database, and then writes what its session changed.  command stands for  *)
(* command, env and cwd; url for url and headers.                           *)
EXTENDS Naturals, FiniteSets

CONSTANTS Request,    \* the owner's requests
          None        \* an empty column, a row that does not exist

VARIABLES row,        \* the committed row, None before create and after delete
          born,       \* whether it was ever created
          op,         \* what a request does
          pc,         \* where a request stands
          seen,       \* the row as the request's session loaded it
          draft,      \* the row as the session wants it
          overlapped  \* history: two requests were in flight

vars == <<row, born, op, pc, seen, draft, overlapped>>

Transport == {"stdio", "streamable_http"}
Target == Request \cup {None}
Tools == [transport : Transport, target : Request] \cup {None}
Columns == [transport : Transport, command : Target, url : Target, tools : Tools]

ASSUME McpAssumption == None \notin Request \cup Columns

\* where the tools of the row live
Place(r) == IF r.transport = "stdio" THEN r.command ELSE r.url

\* the columns of the other transport are cleared
Placed(r, transport, target) ==
    [transport |-> transport,
     command   |-> IF transport = "stdio" THEN target ELSE None,
     url       |-> IF transport = "stdio" THEN None ELSE target,
     tools     |-> r.tools]

\* a form types a target of its own or repeats the one of the row
Typed(q, r, transport) ==
    {q, IF transport = "stdio" THEN r.command ELSE r.url}

\* the rows with one of these transports and a target a form can give it
Retargeted(q, r, transports) ==
    UNION {{Placed(r, t, target) : target \in Typed(q, r, t)} : t \in transports}

\* a transport switch that needs no rediscovery
SavedAnyTransport(q, r) == {new \in Retargeted(q, r, Transport) : Place(new) # None}

\* update_server: command or url is required, and a row with tools keeps its
\* transport (rediscovery_required)
Saved(q, r) ==
    {new \in Retargeted(q, r, {t \in Transport : t = r.transport \/ r.tools = None}) :
        Place(new) # None}

\* an override that leaves the columns of the old transport alone
OverriddenBeside(q, r) ==
    {r, [r EXCEPT !.transport = "stdio", !.command = q],
        [r EXCEPT !.transport = "streamable_http", !.url = q]}

\* discover_mcp_server: any field of the form overrides the row; a field left
\* blank keeps the row's
Overridden(q, r) == {r} \cup Retargeted(q, r, Transport)

\* the session inserts the row again when its UPDATE finds none
FlushedOrInserted(r, old, new) ==
    IF r = None THEN new
    ELSE [c \in DOMAIN r |-> IF new[c] # old[c] THEN new[c] ELSE r[c]]

\* the session sends the columns that differ from what it loaded; an UPDATE
\* that finds no row fails (StaleDataError)
Flushed(r, old, new) ==
    IF r = None THEN None
    ELSE [c \in DOMAIN r |-> IF new[c] # old[c] THEN new[c] ELSE r[c]]

-----------------------------------------------------------------------------
Init ==
    /\ row = None /\ born = FALSE
    /\ op = [q \in Request |-> "none"]
    /\ pc = [q \in Request |-> "idle"]
    /\ seen = [q \in Request |-> None]
    /\ draft = [q \in Request |-> None]
    /\ overlapped = FALSE

InFlight(p) == pc[p] \in {"loaded", "discovering"}

Begin(q) ==
    /\ pc[q] = "idle"
    /\ overlapped' = (overlapped \/ \E p \in Request : InFlight(p))

\* create_server: no discovery yet
Create(q, transport) ==
    /\ Begin(q) /\ ~born
    /\ row' = Placed([tools |-> None], transport, q)
    /\ born' = TRUE
    /\ op' = [op EXCEPT ![q] = "create"]
    /\ pc' = [pc EXCEPT ![q] = "done"]
    /\ UNCHANGED <<seen, draft>>

\* get_server_for_agent
Load(q, what) ==
    /\ Begin(q) /\ row # None
    /\ op' = [op EXCEPT ![q] = what]
    /\ pc' = [pc EXCEPT ![q] = "loaded"]
    /\ seen' = [seen EXCEPT ![q] = row]
    /\ UNCHANGED <<row, born, draft>>

Done(q) ==
    /\ pc' = [pc EXCEPT ![q] = "done"]
    /\ seen' = [seen EXCEPT ![q] = None]
    /\ draft' = [draft EXCEPT ![q] = None]
    /\ UNCHANGED <<born, op, overlapped>>

\* update_or_delete_mcp_server, its form accepted
Save(q) ==
    /\ pc[q] = "loaded" /\ op[q] = "save"
    /\ \E new \in Saved(q, seen[q]) : row' = Flushed(row, seen[q], new)
    /\ Done(q)

\* rediscovery_required, command_required, url_required, ...: rolled back
Refuse(q) ==
    /\ pc[q] = "loaded" /\ op[q] \in {"save", "discover"}
    /\ Done(q) /\ UNCHANGED row

\* delete_server; a row already gone makes the DELETE a no-op
Delete(q) ==
    /\ pc[q] = "loaded" /\ op[q] = "delete"
    /\ row' = None
    /\ Done(q)

\* run_discovery starts on the overridden row
Discover(q) ==
    /\ pc[q] = "loaded" /\ op[q] = "discover"
    /\ \E new \in Overridden(q, seen[q]) : draft' = [draft EXCEPT ![q] = new]
    /\ pc' = [pc EXCEPT ![q] = "discovering"]
    /\ UNCHANGED <<row, born, op, seen, overlapped>>

\* mcp_discovery_timeout, mcp_discovery_failed: rolled back
DiscoveryFails(q) ==
    /\ pc[q] = "discovering"
    /\ Done(q) /\ UNCHANGED row

\* persist_discovery_result: the tools and the overridden columns; an empty
\* command or url cannot be reached
Persist(q) ==
    /\ pc[q] = "discovering" /\ Place(draft[q]) # None
    /\ LET new == [draft[q] EXCEPT !.tools =
                      [transport |-> draft[q].transport, target |-> Place(draft[q])]]
       IN row' = Flushed(row, seen[q], new)
    /\ Done(q)

\* the agent is deleted and its servers with it (ON DELETE CASCADE)
Cascade == row # None /\ row' = None /\ UNCHANGED <<born, op, pc, seen, draft, overlapped>>

Next ==
    \/ Cascade
    \/ \E q \in Request :
           \/ \E transport \in Transport : Create(q, transport)
           \/ \E what \in {"save", "discover", "delete"} : Load(q, what)
           \/ Save(q) \/ Refuse(q) \/ Delete(q)
           \/ Discover(q) \/ DiscoveryFails(q) \/ Persist(q)

Spec == Init /\ [][Next]_vars

-----------------------------------------------------------------------------
(* Every row and request has the shape the code gives it.                  *)
TypeOK ==
    /\ row \in Columns \cup {None}
    /\ born \in BOOLEAN
    /\ op \in [Request -> {"none", "create", "save", "discover", "delete"}]
    /\ pc \in [Request -> {"idle", "loaded", "discovering", "done"}]
    /\ seen \in [Request -> Columns \cup {None}]
    /\ draft \in [Request -> Columns \cup {None}]
    /\ overlapped \in BOOLEAN

(* The cached tools were discovered over the transport the row has, so a   *)
(* run calls them over the transport that listed them (update_server's     *)
(* 409, discover_mcp_server's override); a save that overlaps a discovery  *)
(* may switch the transport under the tools.                               *)
ToolsOfTransport ==
    row # None /\ row.tools # None /\ ~overlapped =>
        row.tools.transport = row.transport

(* The row can be called: its transport has a target, and nothing is left  *)
(* of the other transport.                                                 *)
Usable ==
    row # None /\ ~overlapped => /\ Place(row) # None
                                 /\ row.command = None \/ row.url = None

(* A row deleted while a save or a discovery is in flight is not written   *)
(* back by it.                                                             *)
DeletedStaysDeleted == [][born /\ row = None => row' = None]_vars
=============================================================================
