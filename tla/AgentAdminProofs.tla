-------------------------- MODULE AgentAdminProofs --------------------------
(* Theorems about AgentAdmin, for any number of owner's requests and A2A    *)
(* requests.                                                                *)
EXTENDS AgentAdmin, FiniteSetTheorems, TLAPS

-----------------------------------------------------------------------------
(* What the helpers return.                                                *)

LEMMA BlankColumns == Blank \in Columns
  BY DEF Blank, Columns, Mode, Status, Text

(* A form keeps the status, gives one credential or keeps the row's, and   *)
(* has the prompts of its mode.                                            *)
LEMMA FormsColumns ==
  ASSUME NEW o \in Owner, NEW row \in Columns, NEW new \in Forms(o, row)
  PROVE  /\ new \in Columns /\ new.status = row.status
         /\ \/ new.env = o /\ new.key = None
            \/ new.env = None /\ new.key = o
            \/ new.env = row.env /\ new.key = row.key
         /\ IF new.mode = "plan_execute" THEN new.planner # None ELSE new.system # None
<1>1. PICK f \in {"env", "input", "blank"} \X Mode :
         \E prompts \in Prompts(o, f[2], row) : new = Filled(Keyed(o, f[1], row), f[2], prompts)
  BY DEF Forms
<1>2. PICK prompts \in Prompts(o, f[2], row) : new = Filled(Keyed(o, f[1], row), f[2], prompts)
  BY <1>1
<1> DEFINE keyed == Keyed(o, f[1], row)
<1>3. /\ row.status \in Status /\ row.env \in Text /\ row.key \in Text
      /\ row.system \in Text /\ row.planner \in Text
      /\ o \in Text /\ None \in Text /\ o # None
  BY AdminAssumption DEF Columns, Text
<1>4. /\ keyed.status = row.status
      /\ \/ keyed.env = o /\ keyed.key = None
         \/ keyed.env = None /\ keyed.key = o
         \/ keyed.env = row.env /\ keyed.key = row.key
  <2>1. f[1] \in {"env", "input", "blank"}
    OBVIOUS
  <2>2. CASE f[1] = "env"
    BY <2>2 DEF Keyed, Columns
  <2>3. CASE f[1] = "input"
    BY <2>3 DEF Keyed, Columns
  <2>4. CASE f[1] = "blank"
    BY <2>4 DEF Keyed
  <2>5. QED
    BY <2>1, <2>2, <2>3, <2>4
<1>5. /\ prompts[1] \in Text /\ prompts[2] \in Text
      /\ IF f[2] = "plan_execute" THEN prompts[2] # None ELSE prompts[1] # None
  BY <1>3 DEF Prompts
<1>6. new = [mode |-> f[2], system |-> prompts[1], planner |-> prompts[2],
             key |-> keyed.key, env |-> keyed.env, status |-> keyed.status]
  BY <1>2 DEF Filled
<1>7. f[2] \in Mode
  OBVIOUS
<1> HIDE DEF keyed
<1>8. QED
  BY <1>3, <1>4, <1>5, <1>6, <1>7 DEF Columns

LEMMA FlushedRow ==
  ASSUME NEW row \in Columns, NEW old \in Columns, NEW new \in Columns
  PROVE  /\ Flushed(row, old, new) \in Columns
         /\ Flushed(row, old, new).status =
               IF new.status # old.status THEN new.status ELSE row.status
         /\ Flushed(row, old, new).env = IF new.env # old.env THEN new.env ELSE row.env
         /\ Flushed(row, old, new).key = IF new.key # old.key THEN new.key ELSE row.key
<1>1. DOMAIN row = {"mode", "system", "planner", "key", "env", "status"}
  BY DEF Columns
<1>2. Flushed(row, old, new) =
         [mode |-> IF new.mode # old.mode THEN new.mode ELSE row.mode,
          system |-> IF new.system # old.system THEN new.system ELSE row.system,
          planner |-> IF new.planner # old.planner THEN new.planner ELSE row.planner,
          key |-> IF new.key # old.key THEN new.key ELSE row.key,
          env |-> IF new.env # old.env THEN new.env ELSE row.env,
          status |-> IF new.status # old.status THEN new.status ELSE row.status]
  BY <1>1 DEF Flushed
<1>3. QED
  BY <1>2 DEF Columns

LEMMA FlushedOntoLoaded ==
  ASSUME NEW old \in Columns, NEW new \in Columns
  PROVE  Flushed(old, old, new) = new
<1>1. DOMAIN old = {"mode", "system", "planner", "key", "env", "status"}
  BY DEF Columns
<1>2. Flushed(old, old, new) =
         [mode |-> new.mode, system |-> new.system, planner |-> new.planner,
          key |-> new.key, env |-> new.env, status |-> new.status]
  BY <1>1 DEF Flushed
<1>3. QED
  BY <1>2 DEF Columns

-----------------------------------------------------------------------------
(***************************************************************************)
(* The inductive invariant.                                                *)
(***************************************************************************)

(* Before Create there is nothing to load.                                 *)
Unborn == ~born => /\ agent = None /\ wanted = "stopped" /\ given = <<"key", None>>
                   /\ \A o \in Owner : ~InFlight(o)

(* A session loaded a row, and wants what a form made of it.               *)
Sessions ==
  /\ \A o \in Owner : /\ InFlight(o) => seen[o] \in Columns
                      /\ pc[o] = "flushed" => draft[o] \in Forms(o, seen[o])
  /\ \A c \in Caller : pc[c] # "idle" /\ pc[c] # "done" => seen[c] \in Columns

(* Without overlap at most one of the owner's sessions is at work, and the *)
(* row is the one it loaded.                                               *)
Undisturbed ==
  ~overlapped => \A o \in Owner : InFlight(o) =>
    /\ agent # None => seen[o] = agent
    /\ \A p \in Owner : InFlight(p) => p = o

(* The credentials of a row were typed by requests that are over.          *)
Old(row) == /\ row.env \in Owner => pc[row.env] = "done"
            /\ row.key \in Owner => pc[row.key] = "done"
Typed == /\ agent # None => Old(agent)
         /\ \A o \in Owner : InFlight(o) => Old(seen[o])

(* Without overlap an edit that attaches the preset found none.            *)
Presets ==
  ~overlapped =>
    /\ servers = {} \/ \E p \in Owner : servers = {p}
    /\ \A o \in Owner : pc[o] = "flushed" /\ attach[o] => servers = {}

Base == TypeOK /\ Unborn /\ Sessions /\ Undisturbed

AdminInv == /\ Base /\ Typed /\ Presets
            /\ ToggleSticks /\ NothingOrphaned
            /\ LastCredentialWins /\ PromptsForMode

-----------------------------------------------------------------------------
LEMMA InitOk == Init => AdminInv
<1> SUFFICES ASSUME Init
             PROVE  AdminInv
  OBVIOUS
<1>1. TypeOK
  BY DEF Init, TypeOK, Operation, Status, Text
<1>2. \A q \in Request : pc[q] = "idle"
  BY DEF Init
<1>3. Unborn /\ Sessions /\ Undisturbed /\ Typed /\ Presets
  BY <1>2 DEF Init, Unborn, Sessions, Undisturbed, Typed, Presets, InFlight, Request
<1>4. ToggleSticks /\ NothingOrphaned /\ LastCredentialWins /\ PromptsForMode
  BY DEF Init, ToggleSticks, NothingOrphaned, LastCredentialWins, PromptsForMode
<1>5. QED
  BY <1>1, <1>3, <1>4 DEF AdminInv, Base

LEMMA StutterOk == AdminInv /\ UNCHANGED vars => AdminInv'
  BY DEF vars, AdminInv, Base, TypeOK, Unborn, Sessions, Undisturbed, Typed, Old, Presets,
         ToggleSticks, NothingOrphaned, LastCredentialWins, PromptsForMode, InFlight

LEMMA CreateOk ==
  ASSUME AdminInv, NEW o \in Owner, NEW preset \in BOOLEAN, Create(o, preset)
  PROVE  AdminInv'
<1>1. PICK row \in Forms(o, Blank) : agent' = row /\ given' = Given(o, row)
  BY DEF Create
<1>2. /\ row \in Columns /\ row.status = "stopped"
      /\ \/ row.env = o /\ row.key = None
         \/ row.env = None /\ row.key = o
         \/ row.env = None /\ row.key = None
      /\ IF row.mode = "plan_execute" THEN row.planner # None ELSE row.system # None
  BY <1>1, FormsColumns, BlankColumns DEF Blank
<1>3. /\ given = <<"key", None>> /\ wanted = "stopped" /\ agent = None
      /\ \A p \in Owner : ~InFlight(p)
  BY DEF AdminInv, Base, Unborn, Create
<1>4. /\ o \in Text /\ None \in Text /\ o # None /\ o \in Request
      /\ row # None
  BY <1>2, AdminAssumption DEF Text, Request
<1>5. given' = Credential(row) /\ given' \in {"key", "env"} \X Text
  BY <1>1, <1>2, <1>3, <1>4 DEF Given, Credential
<1>6. pc' = [pc EXCEPT ![o] = "done"] /\ pc \in [Request -> {"idle", "loaded", "flushed", "done"}]
  BY DEF Create, AdminInv, Base, TypeOK
<1>7. TypeOK'
  BY <1>1, <1>2, <1>4, <1>5 DEF Create, Begin, AdminInv, Base, TypeOK, Operation
<1>8. Unborn' /\ Sessions' /\ Undisturbed'
  BY <1>3, <1>4, <1>6, AdminAssumption
     DEF Create, AdminInv, Base, Unborn, Sessions, Undisturbed, InFlight, Request
<1>9. Typed'
  BY <1>1, <1>2, <1>3, <1>4, <1>6, AdminAssumption DEF Typed, Old, InFlight, Create, Request
<1>10. Presets'
  BY <1>3, <1>4, <1>6 DEF Presets, InFlight, Create, Request
<1>11. ToggleSticks' /\ NothingOrphaned'
  BY <1>1, <1>2, <1>3, <1>4 DEF ToggleSticks, NothingOrphaned, Create
<1>12. LastCredentialWins' /\ PromptsForMode'
  BY <1>1, <1>2, <1>5 DEF LastCredentialWins, PromptsForMode
<1>13. QED
  BY <1>7, <1>8, <1>9, <1>10, <1>11, <1>12 DEF AdminInv, Base

LEMMA LoadOk ==
  ASSUME AdminInv, NEW o \in Owner,
         NEW what \in {"save", "start", "stop", "mint", "delete"}, Load(o, what)
  PROVE  AdminInv'
<1>1. /\ o \in Request /\ agent # None /\ agent \in Columns
      /\ pc[o] = "idle" /\ pc' = [pc EXCEPT ![o] = "loaded"]
      /\ seen' = [seen EXCEPT ![o] = agent] /\ agent' = agent
      /\ pc \in [Request -> {"idle", "loaded", "flushed", "done"}]
      /\ seen \in [Request -> Columns \cup {None}]
  BY DEF Load, Begin, Request, AdminInv, Base, TypeOK
<1>2. TypeOK'
  BY <1>1 DEF Load, Begin, AdminInv, Base, TypeOK, Operation
<1>3. Unborn'
  BY <1>1 DEF Load, AdminInv, Base, Unborn
<1>4. Sessions'
  BY <1>1, AdminAssumption DEF Load, AdminInv, Base, Sessions, InFlight, Request
<1>5. Undisturbed'
  BY <1>1 DEF Load, Begin, AdminInv, Base, Undisturbed, InFlight, Request
<1>6. Typed'
  BY <1>1, AdminAssumption DEF AdminInv, Typed, Old, InFlight, Request
<1>7. Presets'
  BY <1>1 DEF Load, Begin, AdminInv, Presets, Request
<1>8. ToggleSticks' /\ NothingOrphaned'
  BY DEF Load, AdminInv, ToggleSticks, NothingOrphaned
<1>9. LastCredentialWins' /\ PromptsForMode'
  BY DEF Load, Begin, AdminInv, LastCredentialWins, PromptsForMode
<1>10. QED
  BY <1>2, <1>3, <1>4, <1>5, <1>6, <1>7, <1>8, <1>9 DEF AdminInv, Base

LEMMA SaveOk ==
  ASSUME AdminInv, NEW o \in Owner, NEW preset \in BOOLEAN, Save(o, preset)
  PROVE  AdminInv'
<1>1. /\ o \in Request /\ pc[o] = "loaded" /\ pc' = [pc EXCEPT ![o] = "flushed"]
      /\ pc \in [Request -> {"idle", "loaded", "flushed", "done"}]
      /\ seen[o] \in Columns /\ seen' = seen
  BY DEF Save, Loaded, Request, AdminInv, Base, TypeOK, Sessions, InFlight
<1>2. PICK row \in Forms(o, seen[o]) : /\ lock' = IF row = seen[o] THEN lock ELSE o
                                       /\ draft' = [draft EXCEPT ![o] = row]
  BY DEF Save
<1>3. row \in Columns
  BY <1>1, FormsColumns
<1>4. TypeOK'
  BY <1>1, <1>2, <1>3 DEF Save, AdminInv, Base, TypeOK
<1>5. Unborn'
  BY <1>1 DEF Save, AdminInv, Base, Unborn, InFlight
<1>6. Sessions'
  BY <1>1, <1>2, AdminAssumption DEF AdminInv, Base, TypeOK, Sessions, InFlight, Request
<1>7. Undisturbed'
  BY <1>1 DEF Save, AdminInv, Base, Undisturbed, InFlight, Request
<1>8. Typed'
  BY <1>1, AdminAssumption DEF Save, AdminInv, Typed, Old, InFlight, Request
<1>9. Presets'
  BY <1>1 DEF Save, AdminInv, Base, TypeOK, Presets, Request
<1>10. ToggleSticks' /\ NothingOrphaned'
  BY DEF Save, AdminInv, ToggleSticks, NothingOrphaned
<1>11. LastCredentialWins' /\ PromptsForMode'
  BY DEF Save, AdminInv, LastCredentialWins, PromptsForMode
<1>12. QED
  BY <1>4, <1>5, <1>6, <1>7, <1>8, <1>9, <1>10, <1>11 DEF AdminInv, Base

(* A session that ends: what is left is what it did to the tables.         *)
LEMMA DoneOk ==
  ASSUME AdminInv, NEW o \in Owner, InFlight(o), Done(o),
         agent' \in Columns \cup {None}, agent = None => agent' = None,
         keys' \subseteq Owner, servers' \subseteq Owner,
         runs' \in [Caller -> Run \cup {None}],
         draft' \in [Owner -> Columns \cup {None}],
         \A p \in Owner \ {o} : draft'[p] = draft[p],
         lock' \in Owner \cup {None}, wanted' \in Status,
         given' \in {"key", "env"} \X Text
  PROVE  /\ Base'
         /\ \A p \in Owner : ~overlapped' => ~InFlight(p)'
         /\ \A p \in Owner : pc[p] = "done" => pc'[p] = "done"
<1>1. /\ o \in Request /\ pc' = [pc EXCEPT ![o] = "done"]
      /\ seen' = [seen EXCEPT ![o] = None]
      /\ pc \in [Request -> {"idle", "loaded", "flushed", "done"}]
      /\ seen \in [Request -> Columns \cup {None}]
  BY DEF Done, Request, AdminInv, Base, TypeOK
<1>2. TypeOK'
  BY <1>1 DEF Done, AdminInv, Base, TypeOK
<1>3. Unborn'
  BY DEF Done, AdminInv, Base, Unborn
<1>4. Sessions'
  BY <1>1, AdminAssumption DEF AdminInv, Base, Sessions, InFlight, Request
<1>5. \A p \in Owner : ~overlapped' => ~InFlight(p)'
  BY <1>1 DEF Done, AdminInv, Base, Undisturbed, InFlight, Request
<1>6. Undisturbed'
  BY <1>5 DEF Undisturbed
<1>7. \A p \in Owner : pc[p] = "done" => pc'[p] = "done"
  BY <1>1 DEF Request
<1>8. QED
  BY <1>2, <1>3, <1>4, <1>5, <1>6, <1>7 DEF Base

LEMMA CommitOk ==
  ASSUME AdminInv, NEW o \in Owner, Commit(o)
  PROVE  AdminInv'
<1>1. /\ pc[o] = "flushed" /\ InFlight(o) /\ Done(o) /\ o \in Request
      /\ agent # None /\ agent \in Columns /\ seen[o] \in Columns
      /\ draft[o] \in Forms(o, seen[o])
      /\ agent' = Flushed(agent, seen[o], draft[o])
      /\ given' = Given(o, draft[o])
      /\ pc \in [Request -> {"idle", "loaded", "flushed", "done"}]
      /\ pc' = [pc EXCEPT ![o] = "done"]
  BY DEF Commit, Done, InFlight, Request, AdminInv, Base, TypeOK, Sessions
<1> DEFINE row == draft[o]
<1>2. /\ row \in Columns /\ row.status = seen[o].status
      /\ \/ row.env = o /\ row.key = None
         \/ row.env = None /\ row.key = o
         \/ row.env = seen[o].env /\ row.key = seen[o].key
      /\ IF row.mode = "plan_execute" THEN row.planner # None ELSE row.system # None
  BY <1>1, FormsColumns
<1>3. /\ agent' \in Columns /\ agent'.status = agent.status
      /\ agent'.env = (IF row.env # seen[o].env THEN row.env ELSE agent.env)
      /\ agent'.key = (IF row.key # seen[o].key THEN row.key ELSE agent.key)
  BY <1>1, <1>2, FlushedRow
<1>4. agent' # None /\ o \in Text /\ None \in Text /\ o # None
  BY <1>3, AdminAssumption DEF Text
<1>5. given \in {"key", "env"} \X Text
  BY DEF AdminInv, Base, TypeOK
<1>6. given' \in {"key", "env"} \X Text
  BY <1>1, <1>4, <1>5 DEF Given
<1>7. /\ Base'
      /\ \A p \in Owner : ~overlapped' => ~InFlight(p)'
      /\ \A p \in Owner : pc[p] = "done" => pc'[p] = "done"
  <2>1. /\ keys' = keys /\ runs' = runs /\ wanted' = wanted
        /\ servers' \subseteq Owner /\ lock' \in Owner \cup {None}
        /\ draft' = [draft EXCEPT ![o] = None]
    BY DEF Commit, AdminInv, Base, TypeOK
  <2>2. /\ keys' \subseteq Owner /\ runs' \in [Caller -> Run \cup {None}]
        /\ wanted' \in Status /\ draft \in [Owner -> Columns \cup {None}]
    BY <2>1 DEF AdminInv, Base, TypeOK
  <2>3. /\ draft' \in [Owner -> Columns \cup {None}]
        /\ \A p \in Owner \ {o} : draft'[p] = draft[p]
    BY <2>1, <2>2
  <2>4. QED
    BY <1>1, <1>3, <1>6, <2>1, <2>2, <2>3, DoneOk
<1>8. Old(seen[o]) /\ Old(agent) /\ seen[o].env # o /\ seen[o].key # o
  BY <1>1 DEF AdminInv, Typed, Old
<1>9. Typed'
  <2>1. pc'[o] = "done"
    BY <1>1
  <2>2. Old(agent)'
    BY <1>2, <1>3, <1>4, <1>7, <1>8, <2>1, AdminAssumption DEF Old
  <2>3. ASSUME NEW p \in Owner, InFlight(p)'
        PROVE  Old(seen[p])'
    <3>1. p # o /\ InFlight(p)
      BY <1>1, <2>3 DEF InFlight, Request
    <3>2. seen'[p] = seen[p]
      BY <3>1 DEF Commit, Done, AdminInv, Base, TypeOK, Request
    <3>3. QED
      BY <1>7, <3>1, <3>2 DEF AdminInv, Typed, Old
  <2>4. QED
    BY <2>2, <2>3 DEF Typed
<1>10. Presets'
  <2> SUFFICES ASSUME ~overlapped'
               PROVE  servers' = {} \/ \E p \in Owner : servers' = {p}
    BY <1>7 DEF Presets, InFlight
  <2>1. ~overlapped
    BY <1>1 DEF Done
  <2>2. servers' = IF attach[o] THEN servers \cup {o} ELSE servers
    BY DEF Commit
  <2>3. /\ servers = {} \/ \E p \in Owner : servers = {p}
        /\ attach[o] => servers = {}
    BY <1>1, <2>1 DEF AdminInv, Presets
  <2>4. CASE attach[o]
    <3>1. servers' = {o}
      BY <2>2, <2>3, <2>4
    <3>2. QED
      BY <3>1
  <2>5. CASE ~attach[o]
    BY <2>2, <2>3, <2>5
  <2>6. QED
    BY <2>4, <2>5
<1>11. ToggleSticks'
  BY <1>1, <1>3, <1>4 DEF Commit, AdminInv, ToggleSticks
<1>12. NothingOrphaned'
  BY <1>4 DEF NothingOrphaned
<1>13. LastCredentialWins' /\ PromptsForMode'
  <2> SUFFICES ASSUME ~overlapped'
               PROVE  /\ Credential(agent') = given'
                      /\ IF agent'.mode = "plan_execute" THEN agent'.planner # None
                                                         ELSE agent'.system # None
    BY DEF LastCredentialWins, PromptsForMode, Credential
  <2>1. ~overlapped /\ seen[o] = agent /\ Credential(agent) = given
    BY <1>1 DEF Done, AdminInv, Base, Undisturbed, LastCredentialWins
  <2>2. agent' = row
    BY <1>1, <1>2, <2>1, FlushedOntoLoaded
  <2>3. Credential(row) = Given(o, row)
    BY <1>2, <1>4, <1>8, <2>1 DEF Credential, Given
  <2>4. QED
    BY <1>1, <1>2, <2>2, <2>3
<1>14. QED
  BY <1>7, <1>9, <1>10, <1>11, <1>12, <1>13 DEF AdminInv

(* A session that ends leaves what is said of credentials, if the row is   *)
(* the same, has another status, or is gone.                               *)
LEMMA EndOk ==
  ASSUME AdminInv, NEW o \in Owner, InFlight(o), Done(o),
         \/ agent' = None
         \/ /\ agent # None /\ agent' \in Columns
            /\ \A column \in {"mode", "system", "planner", "key", "env"} :
                  agent'[column] = agent[column],
         \/ servers' = servers \/ servers' = {},
         given' = given, Base',
         \A p \in Owner : ~overlapped' => ~InFlight(p)',
         \A p \in Owner : pc[p] = "done" => pc'[p] = "done"
  PROVE  Typed' /\ Presets' /\ LastCredentialWins' /\ PromptsForMode'
<1>1. Typed'
  <2>1. ASSUME agent' # None
        PROVE  Old(agent)'
    BY <2>1 DEF AdminInv, Typed, Old
  <2>2. ASSUME NEW p \in Owner, InFlight(p)'
        PROVE  Old(seen[p])'
    <3>1. p # o /\ InFlight(p) /\ seen'[p] = seen[p]
      BY <2>2, AdminAssumption DEF Done, AdminInv, Base, TypeOK, InFlight, Request
    <3>2. QED
      BY <3>1 DEF AdminInv, Typed, Old
  <2>3. QED
    BY <2>1, <2>2 DEF Typed
<1>2. Presets'
  BY DEF Done, AdminInv, Presets, InFlight
<1>3. LastCredentialWins' /\ PromptsForMode'
  BY DEF Done, AdminInv, LastCredentialWins, PromptsForMode, Credential
<1>4. QED
  BY <1>1, <1>2, <1>3

(* A request that is refused, or comes too late.                           *)
LEMMA RefuseOk ==
  ASSUME AdminInv, NEW o \in Owner, Refuse(o) \/ SaveFails(o) \/ CommitNothing(o)
  PROVE  AdminInv'
<1>1. /\ InFlight(o) /\ Done(o)
      /\ draft' = draft \/ draft' = [draft EXCEPT ![o] = None]
      /\ UNCHANGED <<agent, keys, servers, runs, lock, wanted, given>>
  BY DEF Refuse, SaveFails, CommitNothing, Loaded, InFlight
<1>2. /\ draft' \in [Owner -> Columns \cup {None}]
      /\ \A p \in Owner \ {o} : draft'[p] = draft[p]
      /\ agent' \in Columns \cup {None} /\ keys' \subseteq Owner /\ servers' \subseteq Owner
      /\ runs' \in [Caller -> Run \cup {None}] /\ lock' \in Owner \cup {None}
      /\ wanted' \in Status /\ given' \in {"key", "env"} \X Text
  BY <1>1 DEF AdminInv, Base, TypeOK
<1>3. /\ Base'
      /\ \A p \in Owner : ~overlapped' => ~InFlight(p)'
      /\ \A p \in Owner : pc[p] = "done" => pc'[p] = "done"
  BY <1>1, <1>2, DoneOk
<1>4. Typed' /\ Presets' /\ LastCredentialWins' /\ PromptsForMode'
  <2>1. agent' = None \/ (agent # None /\ agent' \in Columns)
    BY <1>1, <1>2
  <2>2. QED
    BY <1>1, <1>3, <2>1, EndOk
<1>5. ToggleSticks' /\ NothingOrphaned'
  BY <1>1 DEF AdminInv, ToggleSticks, NothingOrphaned
<1>6. QED
  BY <1>3, <1>4, <1>5 DEF AdminInv

LEMMA SetStatusOk ==
  ASSUME AdminInv, NEW o \in Owner, SetStatus(o)
  PROVE  AdminInv'
<1>1. /\ InFlight(o) /\ Done(o)
      /\ agent' = IF agent = None THEN None ELSE [agent EXCEPT !.status = Target(o)]
      /\ wanted' = IF agent = None THEN wanted ELSE Target(o)
      /\ UNCHANGED <<keys, servers, runs, draft, lock, given>>
  BY DEF SetStatus, Loaded, InFlight
<1>2. Target(o) \in Status
  BY DEF Target, Status
<1>3. \/ agent' = None
      \/ /\ agent # None /\ agent' \in Columns
         /\ \A column \in {"mode", "system", "planner", "key", "env"} :
               agent'[column] = agent[column]
  BY <1>1, <1>2 DEF AdminInv, Base, TypeOK, Columns
<1>4. /\ draft' \in [Owner -> Columns \cup {None}]
      /\ \A p \in Owner \ {o} : draft'[p] = draft[p]
      /\ agent' \in Columns \cup {None} /\ keys' \subseteq Owner /\ servers' \subseteq Owner
      /\ runs' \in [Caller -> Run \cup {None}] /\ lock' \in Owner \cup {None}
      /\ wanted' \in Status /\ given' \in {"key", "env"} \X Text
  BY <1>1, <1>2, <1>3 DEF AdminInv, Base, TypeOK
<1>5. /\ Base'
      /\ \A p \in Owner : ~overlapped' => ~InFlight(p)'
      /\ \A p \in Owner : pc[p] = "done" => pc'[p] = "done"
  BY <1>1, <1>4, DoneOk
<1>6. Typed' /\ Presets' /\ LastCredentialWins' /\ PromptsForMode'
  BY <1>1, <1>3, <1>5, EndOk
<1>7. agent' # None => agent \in Columns /\ agent'.status = wanted'
  BY <1>1 DEF AdminInv, Base, TypeOK, Columns
<1>8. agent' = None => agent = None
  BY <1>1, <1>2, AdminAssumption DEF AdminInv, Base, TypeOK, Columns
<1>9. ToggleSticks' /\ NothingOrphaned'
  BY <1>1, <1>7, <1>8 DEF AdminInv, ToggleSticks, NothingOrphaned
<1>10. QED
  BY <1>5, <1>6, <1>9 DEF AdminInv

LEMMA MintOk ==
  ASSUME AdminInv, NEW o \in Owner, Mint(o)
  PROVE  AdminInv'
<1>1. /\ InFlight(o) /\ Done(o)
      /\ keys' = IF agent = None THEN keys ELSE keys \cup {o}
      /\ UNCHANGED <<agent, servers, runs, draft, lock, wanted, given>>
  BY DEF Mint, Loaded, InFlight
<1>2. /\ draft' \in [Owner -> Columns \cup {None}]
      /\ \A p \in Owner \ {o} : draft'[p] = draft[p]
      /\ agent' \in Columns \cup {None} /\ keys' \subseteq Owner /\ servers' \subseteq Owner
      /\ runs' \in [Caller -> Run \cup {None}] /\ lock' \in Owner \cup {None}
      /\ wanted' \in Status /\ given' \in {"key", "env"} \X Text
  BY <1>1 DEF AdminInv, Base, TypeOK
<1>3. /\ Base'
      /\ \A p \in Owner : ~overlapped' => ~InFlight(p)'
      /\ \A p \in Owner : pc[p] = "done" => pc'[p] = "done"
  BY <1>1, <1>2, DoneOk
<1>4. Typed' /\ Presets' /\ LastCredentialWins' /\ PromptsForMode'
  <2>1. agent' = None \/ (agent # None /\ agent' \in Columns)
    BY <1>1, <1>2
  <2>2. QED
    BY <1>1, <1>3, <2>1, EndOk
<1>5. ToggleSticks' /\ NothingOrphaned'
  BY <1>1 DEF AdminInv, ToggleSticks, NothingOrphaned
<1>6. QED
  BY <1>3, <1>4, <1>5 DEF AdminInv

LEMMA DeleteOk ==
  ASSUME AdminInv, NEW o \in Owner, Delete(o)
  PROVE  AdminInv'
<1>1. /\ InFlight(o) /\ Done(o)
      /\ agent' = None /\ keys' = {} /\ servers' = {}
      /\ runs' = [c \in Caller |-> None]
      /\ UNCHANGED <<draft, lock, wanted, given>>
  BY DEF Delete, Loaded, InFlight
<1>2. /\ draft' \in [Owner -> Columns \cup {None}]
      /\ \A p \in Owner \ {o} : draft'[p] = draft[p]
      /\ agent' \in Columns \cup {None} /\ keys' \subseteq Owner /\ servers' \subseteq Owner
      /\ runs' \in [Caller -> Run \cup {None}] /\ lock' \in Owner \cup {None}
      /\ wanted' \in Status /\ given' \in {"key", "env"} \X Text
  BY <1>1 DEF AdminInv, Base, TypeOK
<1>3. /\ Base'
      /\ \A p \in Owner : ~overlapped' => ~InFlight(p)'
      /\ \A p \in Owner : pc[p] = "done" => pc'[p] = "done"
  BY <1>1, <1>2, DoneOk
<1>4. Typed' /\ Presets' /\ LastCredentialWins' /\ PromptsForMode'
  BY <1>1, <1>3, EndOk
<1>5. ToggleSticks' /\ NothingOrphaned'
  BY <1>1 DEF ToggleSticks, NothingOrphaned
<1>6. QED
  BY <1>3, <1>4, <1>5 DEF AdminInv

-----------------------------------------------------------------------------
(* An A2A request, and the executor of its run, leave the agent alone.     *)
LEMMA CallerOk ==
  ASSUME AdminInv, NEW c \in Caller, CallerStep(c)
  PROVE  AdminInv'
<1>1. /\ UNCHANGED <<agent, born, keys, servers, draft, attach, lock, wanted, given,
                     overlapped>>
      /\ \/ op' = op
         \/ op' = [op EXCEPT ![c] = "serve"]
      /\ \/ pc' = pc /\ seen' = seen
         \/ pc' = [pc EXCEPT ![c] = "done"] /\ seen' = [seen EXCEPT ![c] = None]
         \/ /\ pc' = [pc EXCEPT ![c] = "loaded"] /\ seen' = [seen EXCEPT ![c] = agent]
            /\ agent # None
  BY DEF CallerStep, Authenticate, StartRun, ResumeRun, LeaveRun, Done
<1>2. c \in Request /\ c \notin Owner
  BY AdminAssumption DEF Request
<1>3. \A row \in Columns : Running(row) \in Run
  BY DEF Running, Run, Credential, Columns
<1>4. /\ runs' \in [Caller -> Run \cup {None}]
      /\ agent = None /\ (\A t \in Caller : runs[t] = None)
            => \A t \in Caller : runs'[t] = None
  <2>1. runs \in [Caller -> Run \cup {None}]
    BY DEF AdminInv, Base, TypeOK
  <2>2. pc[c] = "loaded" => seen[c] \in Columns
    BY DEF AdminInv, Base, Sessions
  <2>3. CASE Authenticate(c)
    BY <2>1, <2>3 DEF Authenticate
  <2>4. CASE StartRun(c)
    BY <1>3, <2>1, <2>2, <2>4 DEF StartRun
  <2>5. ASSUME NEW t \in Caller, ResumeRun(c, t)
        PROVE  <1>4!1 /\ <1>4!2
    BY <1>3, <2>1, <2>2, <2>5 DEF ResumeRun, Paused
  <2>6. ASSUME NEW state \in {"paused", "done"}, LeaveRun(c, state)
        PROVE  <1>4!1 /\ <1>4!2
    BY <2>1, <2>6 DEF LeaveRun, Run
  <2>7. QED
    BY <2>3, <2>4, <2>5, <2>6 DEF CallerStep
<1>5. \A o \in Owner : pc'[o] = pc[o] /\ seen'[o] = seen[o]
  BY <1>1, <1>2 DEF AdminInv, Base, TypeOK, Request
<1>6. TypeOK'
  BY <1>1, <1>2, <1>4 DEF AdminInv, Base, TypeOK, Operation
<1>7. Unborn' /\ Undisturbed'
  BY <1>1, <1>5 DEF AdminInv, Base, Unborn, Undisturbed, InFlight
<1>8. Sessions'
  BY <1>1, <1>2, <1>5 DEF AdminInv, Base, TypeOK, Sessions, InFlight, Request
<1>9. Typed'
  BY <1>1, <1>5 DEF AdminInv, Typed, Old, InFlight
<1>10. Presets'
  BY <1>1, <1>5 DEF AdminInv, Presets
<1>11. ToggleSticks' /\ NothingOrphaned'
  BY <1>1, <1>4 DEF AdminInv, ToggleSticks, NothingOrphaned
<1>12. LastCredentialWins' /\ PromptsForMode'
  BY <1>1 DEF AdminInv, LastCredentialWins, PromptsForMode
<1>13. QED
  BY <1>6, <1>7, <1>8, <1>9, <1>10, <1>11, <1>12 DEF AdminInv, Base

-----------------------------------------------------------------------------
LEMMA NextOk == AdminInv /\ [Next]_vars => AdminInv'
<1> SUFFICES ASSUME AdminInv, [Next]_vars
             PROVE  AdminInv'
  OBVIOUS
<1>1. ASSUME NEW o \in Owner, OwnerStep(o)
      PROVE  AdminInv'
  BY <1>1, CreateOk, LoadOk, SaveOk, CommitOk, RefuseOk, SetStatusOk, MintOk, DeleteOk
     DEF OwnerStep
<1>2. ASSUME NEW c \in Caller, CallerStep(c)
      PROVE  AdminInv'
  BY <1>2, CallerOk
<1>3. QED
  BY <1>1, <1>2, StutterOk DEF Next

LEMMA Invariant == Spec => []AdminInv
  BY InitOk, NextOk, PTL DEF Spec

-----------------------------------------------------------------------------
(* Rows, sessions and locks keep their types.                              *)
THEOREM AdminTyped == Spec => []TypeOK
<1>1. AdminInv => TypeOK
  BY DEF AdminInv, Base
<1>2. QED
  BY <1>1, Invariant, PTL

(* However many edits are in flight, none undoes a start or a stop         *)
(* (set_status, update_agent).                                             *)
THEOREM TogglesStick == Spec => []ToggleSticks
<1>1. AdminInv => ToggleSticks
  BY DEF AdminInv
<1>2. QED
  BY <1>1, Invariant, PTL

(* Whoever is in flight when an agent is deleted, no key, server or run of *)
(* it is left or added (delete_agent_cascade, the foreign keys).           *)
THEOREM NothingIsOrphaned == Spec => []NothingOrphaned
<1>1. AdminInv => NothingOrphaned
  BY DEF AdminInv
<1>2. QED
  BY <1>1, Invariant, PTL

(* As long as no two of the owner's requests overlap, the credential given *)
(* last is the one a run gets.                                             *)
THEOREM LastCredentialIsUsed == Spec => []LastCredentialWins
<1>1. AdminInv => LastCredentialWins
  BY DEF AdminInv
<1>2. QED
  BY <1>1, Invariant, PTL

(* As long as no two of the owner's requests overlap, the row has the      *)
(* prompts its mode runs on.                                               *)
THEOREM PromptsFitMode == Spec => []PromptsForMode
<1>1. AdminInv => PromptsForMode
  BY DEF AdminInv
<1>2. QED
  BY <1>1, Invariant, PTL

(* As long as no two of the owner's requests overlap, a preset ticked      *)
(* again is not attached again.                                            *)
THEOREM PresetAttachedOnce == Spec => []PresetOnce
<1>1. AdminInv => PresetOnce
  <2> SUFFICES ASSUME AdminInv, ~overlapped
               PROVE  Cardinality(servers) <= 1
    BY DEF PresetOnce
  <2>1. servers = {} \/ \E p \in Owner : servers = {p}
    BY DEF AdminInv, Presets
  <2>2. QED
    BY <2>1, FS_EmptySet, FS_Singleton
<1>2. QED
  BY <1>1, Invariant, PTL
=============================================================================
