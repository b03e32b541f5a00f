--------------------------- MODULE McpServerProofs ---------------------------
(* Theorems about McpServerConfig, for any number of requests.              *)
EXTENDS McpServerConfig, TLAPS

-----------------------------------------------------------------------------
(* What the helpers return.                                                *)

LEMMA PlacedColumns ==
  ASSUME NEW r, r.tools \in Tools, NEW transport \in Transport, NEW target \in Target
  PROVE  /\ Placed(r, transport, target) \in Columns
         /\ Placed(r, transport, target).tools = r.tools
         /\ Placed(r, transport, target).transport = transport
         /\ Place(Placed(r, transport, target)) = target
         /\ \/ Placed(r, transport, target).command = None
            \/ Placed(r, transport, target).url = None
<1> DEFINE new == Placed(r, transport, target)
<1>1. new = [transport |-> transport,
             command |-> IF transport = "stdio" THEN target ELSE None,
             url |-> IF transport = "stdio" THEN None ELSE target,
             tools |-> r.tools]
  BY DEF Placed
<1>2. None \in Target
  BY DEF Target
<1>3. new \in Columns
  BY <1>1, <1>2 DEF Columns
<1>4. QED
  BY <1>1, <1>3 DEF Place

LEMMA FlushedColumns ==
  ASSUME NEW r \in Columns \cup {None}, NEW old \in Columns, NEW new \in Columns
  PROVE  Flushed(r, old, new) \in Columns \cup {None}
<1>1. CASE r = None
  BY <1>1 DEF Flushed
<1>2. CASE r # None
  <2>1. r \in Columns
    BY <1>2
  <2>2. DOMAIN r = {"transport", "command", "url", "tools"}
    BY <2>1 DEF Columns
  <2>3. Flushed(r, old, new) =
           [transport |-> IF new.transport # old.transport THEN new.transport ELSE r.transport,
            command |-> IF new.command # old.command THEN new.command ELSE r.command,
            url |-> IF new.url # old.url THEN new.url ELSE r.url,
            tools |-> IF new.tools # old.tools THEN new.tools ELSE r.tools]
    BY <1>2, <2>2 DEF Flushed
  <2>4. QED
    BY <2>1, <2>3 DEF Columns
<1>3. QED
  BY <1>1, <1>2

(* A session that commits onto the row it loaded writes what it wants.     *)
LEMMA FlushedOntoLoaded ==
  ASSUME NEW old \in Columns, NEW new \in Columns
  PROVE  Flushed(old, old, new) = new
<1>1. old # None
  BY McpAssumption
<1>2. DOMAIN old = {"transport", "command", "url", "tools"}
  BY DEF Columns
<1>3. Flushed(old, old, new) =
         [transport |-> new.transport, command |-> new.command,
          url |-> new.url, tools |-> new.tools]
  BY <1>1, <1>2 DEF Flushed
<1>4. QED
  BY <1>3 DEF Columns
LEMMA RetargetedColumns ==
  ASSUME NEW q \in Request, NEW r \in Columns, NEW transports \in SUBSET Transport,
         NEW new \in Retargeted(q, r, transports), Place(new) # None
  PROVE  /\ new \in Columns /\ new.tools = r.tools
         /\ new.transport \in transports
         /\ new.command = None \/ new.url = None
<1>1. PICK t \in transports : \E target \in Typed(q, r, t) : new = Placed(r, t, target)
  BY DEF Retargeted
<1>2. PICK target \in Typed(q, r, t) : new = Placed(r, t, target)
  BY <1>1
<1>3. t \in Transport /\ r.tools \in Tools
  BY DEF Columns
<1>4. target \in Target
  BY <1>3 DEF Typed, Columns, Target
<1>5. QED
  BY <1>2, <1>3, <1>4, PlacedColumns

-----------------------------------------------------------------------------
(***************************************************************************)
(* The inductive invariant.                                                *)
(***************************************************************************)

(* What a session loaded and what it wants; a row was created.             *)
Sessions ==
  /\ row # None => born
  /\ \A q \in Request :
        /\ InFlight(q) => seen[q] \in Columns
        /\ pc[q] = "discovering" => draft[q] \in Overridden(q, seen[q])

(* Without overlap at most one session is at work, and the row is the one  *)
(* it loaded, unless the agent was deleted under it.                       *)
Undisturbed ==
  ~overlapped => \A q \in Request : InFlight(q) =>
    /\ row # None => seen[q] = row
    /\ \A p \in Request : InFlight(p) => p = q

(* Without overlap the committed row is in order.                          *)
Ordered == ToolsOfTransport /\ Usable

McpInv == TypeOK /\ Sessions /\ Undisturbed /\ Ordered

-----------------------------------------------------------------------------
LEMMA InitOk == Init => McpInv
  BY DEF Init, McpInv, TypeOK, Sessions, Undisturbed, Ordered, ToolsOfTransport,
         Usable, InFlight

LEMMA StutterOk == McpInv /\ UNCHANGED vars => McpInv'
  BY DEF vars, McpInv, TypeOK, Sessions, Undisturbed, Ordered, ToolsOfTransport,
         Usable, InFlight

LEMMA CascadeOk == McpInv /\ Cascade => McpInv'
  BY DEF Cascade, McpInv, TypeOK, Sessions, Undisturbed, Ordered, ToolsOfTransport,
         Usable, InFlight

LEMMA CreateOk ==
  ASSUME McpInv, NEW q \in Request, NEW transport \in Transport, Create(q, transport)
  PROVE  McpInv'
<1>1. /\ q \in Target /\ [tools |-> None].tools \in Tools
      /\ row' = Placed([tools |-> None], transport, q)
  BY DEF Target, Tools, Create
<1>2. /\ row' \in Columns /\ row'.tools = None
      /\ Place(row') = q /\ (row'.command = None \/ row'.url = None)
  BY <1>1, PlacedColumns
<1>3. q # None
  BY McpAssumption
<1>4. TypeOK'
  BY <1>2 DEF Create, Begin, McpInv, TypeOK
<1>5. Sessions'
  BY DEF Create, Begin, McpInv, TypeOK, Sessions, InFlight
<1>6. Undisturbed'
  BY DEF Create, Begin, McpInv, TypeOK, Undisturbed, InFlight
<1>7. Ordered'
  BY <1>2, <1>3 DEF Ordered, ToolsOfTransport, Usable
<1>8. QED
  BY <1>4, <1>5, <1>6, <1>7 DEF McpInv

LEMMA LoadOk ==
  ASSUME McpInv, NEW q \in Request, NEW what \in {"save", "discover", "delete"},
         Load(q, what)
  PROVE  McpInv'
<1>1. TypeOK'
  BY DEF Load, Begin, McpInv, TypeOK
<1>2. Sessions'
  BY DEF Load, Begin, McpInv, TypeOK, Sessions, InFlight
<1>3. Undisturbed'
  BY DEF Load, Begin, McpInv, TypeOK, Undisturbed, InFlight
<1>4. Ordered'
  BY DEF Load, Begin, McpInv, Ordered, ToolsOfTransport, Usable
<1>5. QED
  BY <1>1, <1>2, <1>3, <1>4 DEF McpInv

(* A session that ends: what it leaves in the row is all that matters.     *)
LEMMA DoneOk ==
  ASSUME McpInv, NEW q \in Request, InFlight(q), Done(q),
         row' \in Columns \cup {None}, row = None => row' = None,
         Ordered'
  PROVE  McpInv'
<1>1. TypeOK'
  BY DEF Done, McpInv, TypeOK
<1>2. Sessions'
  BY DEF Done, McpInv, TypeOK, Sessions, InFlight
<1>3. Undisturbed'
  BY DEF Done, McpInv, TypeOK, Undisturbed, InFlight
<1>4. QED
  BY <1>1, <1>2, <1>3 DEF McpInv

(* A session that commits a row in order.                                  *)
LEMMA WriteOk ==
  ASSUME McpInv, NEW q \in Request, InFlight(q), Done(q), NEW new \in Columns,
         row' = Flushed(row, seen[q], new),
         ~overlapped /\ row # None =>
            /\ new.tools # None => new.tools.transport = new.transport
            /\ Place(new) # None
            /\ new.command = None \/ new.url = None
  PROVE  McpInv'
<1>1. seen[q] \in Columns
  BY DEF McpInv, Sessions
<1>2. row' \in Columns \cup {None}
  BY <1>1, FlushedColumns DEF McpInv, TypeOK
<1>3. row = None => row' = None
  BY DEF Flushed
<1>4. Ordered'
  <2> SUFFICES ASSUME row' # None, ~overlapped'
               PROVE  /\ row'.tools # None => row'.tools.transport = row'.transport
                      /\ Place(row') # None
                      /\ row'.command = None \/ row'.url = None
    BY DEF Ordered, ToolsOfTransport, Usable
  <2>1. ~overlapped /\ row # None
    BY <1>3 DEF Done
  <2>2. seen[q] = row
    BY <2>1 DEF McpInv, Undisturbed
  <2>3. row' = new
    BY <1>1, <2>2, FlushedOntoLoaded
  <2>4. QED
    BY <2>1, <2>3
<1>5. QED
  BY <1>2, <1>3, <1>4, DoneOk

(* What a session keeps of the row it loaded is in order.                  *)
LEMMA LoadedInOrder ==
  ASSUME McpInv, NEW q \in Request, InFlight(q), ~overlapped, row # None
  PROVE  /\ seen[q].tools # None => seen[q].tools.transport = seen[q].transport
         /\ seen[q].command = None \/ seen[q].url = None
  BY DEF McpInv, Undisturbed, Ordered, ToolsOfTransport, Usable

LEMMA SaveOk ==
  ASSUME McpInv, NEW q \in Request, Save(q)
  PROVE  McpInv'
<1>1. InFlight(q) /\ Done(q)
  BY DEF Save, InFlight
<1>2. seen[q] \in Columns
  BY <1>1 DEF McpInv, Sessions
<1>3. PICK new \in Saved(q, seen[q]) : row' = Flushed(row, seen[q], new)
  BY DEF Save
<1> DEFINE allowed == {t \in Transport : t = seen[q].transport \/ seen[q].tools = None}
<1>4. new \in Retargeted(q, seen[q], allowed) /\ Place(new) # None
  BY <1>3 DEF Saved
<1>5. /\ new \in Columns /\ new.tools = seen[q].tools
      /\ new.transport \in allowed
      /\ new.command = None \/ new.url = None
  <2>1. allowed \in SUBSET Transport
    OBVIOUS
  <2>2. QED
    BY <1>2, <1>4, <2>1, RetargetedColumns
<1>6. ~overlapped /\ row # None => (new.tools # None => new.tools.transport = new.transport)
  BY <1>1, <1>5, LoadedInOrder
<1>7. QED
  BY <1>1, <1>3, <1>4, <1>5, <1>6, WriteOk

LEMMA PersistOk ==
  ASSUME McpInv, NEW q \in Request, Persist(q)
  PROVE  McpInv'
<1>1. InFlight(q) /\ Done(q) /\ pc[q] = "discovering" /\ Place(draft[q]) # None
  BY DEF Persist, InFlight
<1>2. seen[q] \in Columns /\ draft[q] \in Overridden(q, seen[q])
  BY <1>1 DEF McpInv, Sessions
<1>3. /\ draft[q] \in Columns
      /\ ~overlapped /\ row # None => draft[q].command = None \/ draft[q].url = None
  <2>1. CASE draft[q] = seen[q]
    BY <1>1, <1>2, <2>1, LoadedInOrder
  <2>2. CASE draft[q] \in Retargeted(q, seen[q], Transport)
    <3>1. Transport \in SUBSET Transport
      OBVIOUS
    <3>2. QED
      BY <1>1, <1>2, <2>2, <3>1, RetargetedColumns
  <2>3. QED
    BY <1>2, <2>1, <2>2 DEF Overridden
<1> DEFINE new == [draft[q] EXCEPT !.tools =
                      [transport |-> draft[q].transport, target |-> Place(draft[q])]]
<1>4. row' = Flushed(row, seen[q], new)
  BY DEF Persist
<1>5. Place(draft[q]) \in Request
  BY <1>1, <1>3 DEF Place, Columns, Target
<1>6. /\ new.transport = draft[q].transport /\ new.command = draft[q].command
      /\ new.url = draft[q].url
      /\ new.tools = [transport |-> draft[q].transport, target |-> Place(draft[q])]
  BY <1>3 DEF Columns
<1>7. new \in Columns
  BY <1>3, <1>5 DEF Columns, Tools
<1>8. Place(new) = Place(draft[q])
  BY <1>6 DEF Place
<1>9. new.tools.transport = new.transport
  BY <1>6
<1> HIDE DEF new
<1>10. QED
  BY <1>1, <1>3, <1>4, <1>6, <1>7, <1>8, <1>9, WriteOk

LEMMA LeaveOk ==
  ASSUME McpInv, NEW q \in Request, Refuse(q) \/ DiscoveryFails(q) \/ Delete(q)
  PROVE  McpInv'
<1>1. InFlight(q) /\ Done(q) /\ (row' = row \/ row' = None)
  BY DEF Refuse, DiscoveryFails, Delete, InFlight
<1>2. Ordered'
  BY <1>1 DEF Done, McpInv, Ordered, ToolsOfTransport, Usable
<1>3. row' \in Columns \cup {None}
  BY <1>1 DEF McpInv, TypeOK
<1>4. QED
  BY <1>1, <1>2, <1>3, DoneOk

LEMMA DiscoverOk ==
  ASSUME McpInv, NEW q \in Request, Discover(q)
  PROVE  McpInv'
<1>1. InFlight(q) /\ seen[q] \in Columns
  BY DEF Discover, InFlight, McpInv, Sessions
<1>2. PICK new \in Overridden(q, seen[q]) : draft' = [draft EXCEPT ![q] = new]
  BY DEF Discover
<1>3. new \in Columns
  <2>1. CASE new = seen[q]
    BY <1>1, <2>1
  <2>2. CASE new \in Retargeted(q, seen[q], Transport)
    <3>1. PICK t \in Transport :
             \E target \in Typed(q, seen[q], t) : new = Placed(seen[q], t, target)
      BY <2>2 DEF Retargeted
    <3>2. PICK target \in Typed(q, seen[q], t) : new = Placed(seen[q], t, target)
      BY <3>1
    <3>3. seen[q].tools \in Tools /\ target \in Target
      BY <1>1 DEF Columns, Typed, Target
    <3>4. QED
      BY <3>2, <3>3, PlacedColumns
  <2>3. QED
    BY <1>2, <2>1, <2>2 DEF Overridden
<1>4. TypeOK'
  BY <1>2, <1>3 DEF Discover, McpInv, TypeOK
<1>5. Sessions'
  BY <1>2 DEF Discover, McpInv, TypeOK, Sessions, InFlight
<1>6. Undisturbed'
  BY DEF Discover, McpInv, TypeOK, Undisturbed, InFlight
<1>7. Ordered'
  BY DEF Discover, McpInv, Ordered, ToolsOfTransport, Usable
<1>8. QED
  BY <1>4, <1>5, <1>6, <1>7 DEF McpInv

LEMMA NextOk == McpInv /\ [Next]_vars => McpInv'
<1> SUFFICES ASSUME McpInv, [Next]_vars
             PROVE  McpInv'
  OBVIOUS
<1>1. CASE Cascade
  BY <1>1, CascadeOk
<1>2. CASE \E q \in Request, transport \in Transport : Create(q, transport)
  BY <1>2, CreateOk
<1>3. CASE \E q \in Request, what \in {"save", "discover", "delete"} : Load(q, what)
  BY <1>3, LoadOk
<1>4. CASE \E q \in Request : Save(q)
  BY <1>4, SaveOk
<1>5. CASE \E q \in Request : Refuse(q) \/ DiscoveryFails(q) \/ Delete(q)
  BY <1>5, LeaveOk
<1>6. CASE \E q \in Request : Discover(q)
  BY <1>6, DiscoverOk
<1>7. CASE \E q \in Request : Persist(q)
  BY <1>7, PersistOk
<1>8. CASE UNCHANGED vars
  BY <1>8, StutterOk
<1>9. QED
  BY <1>1, <1>2, <1>3, <1>4, <1>5, <1>6, <1>7, <1>8 DEF Next

LEMMA Invariant == Spec => []McpInv
  BY InitOk, NextOk, PTL DEF Spec

-----------------------------------------------------------------------------
(* Rows, sessions and histories keep their types.                          *)
THEOREM ConfigTyped == Spec => []TypeOK
<1>1. McpInv => TypeOK
  BY DEF McpInv
<1>2. QED
  BY <1>1, Invariant, PTL

(* As long as no two requests overlap, the cached tools were listed over   *)
(* the transport the row has (update_server, discover_mcp_server).         *)
THEOREM ToolsKeepTransport == Spec => []ToolsOfTransport
<1>1. McpInv => ToolsOfTransport
  BY DEF McpInv, Ordered
<1>2. QED
  BY <1>1, Invariant, PTL

(* As long as no two requests overlap, the row names what its transport    *)
(* needs and nothing of the other.                                         *)
THEOREM RowsUsable == Spec => []Usable
<1>1. McpInv => Usable
  BY DEF McpInv, Ordered
<1>2. QED
  BY <1>1, Invariant, PTL

(* However many saves and discoveries are in flight, a deleted row is not  *)
(* written back by them.                                                   *)
THEOREM DeletedRowsStayDeleted == Spec => DeletedStaysDeleted
<1>1. [Next]_vars => [born /\ row = None => row' = None]_vars
  <2> SUFFICES ASSUME Next, born, row = None
               PROVE  row' = None
    OBVIOUS
  <2>1. ASSUME NEW q \in Request, Save(q) \/ Persist(q)
        PROVE  row' = None
    BY <2>1 DEF Save, Persist, Flushed
  <2>2. ASSUME NEW q \in Request, NEW transport \in Transport, Create(q, transport)
        PROVE  FALSE
    BY <2>2 DEF Create
  <2>3. ASSUME NEW q \in Request, NEW what \in {"save", "discover", "delete"}, Load(q, what)
        PROVE  FALSE
    BY <2>3 DEF Load
  <2>4. ASSUME NEW q \in Request,
               Refuse(q) \/ Delete(q) \/ Discover(q) \/ DiscoveryFails(q)
        PROVE  row' = None
    BY <2>4 DEF Refuse, Delete, Discover, DiscoveryFails
  <2>5. QED
    BY <2>1, <2>2, <2>3, <2>4 DEF Next, Cascade
<1>2. QED
  BY <1>1, PTL DEF Spec, DeletedStaysDeleted
=============================================================================
