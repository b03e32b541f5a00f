----------------------------- MODULE AppSecrets -----------------------------
(***************************************************************************)
(* How the workers of one deployment come to share an encryption key and a *)
(* session secret (services/app_secrets.py, run by create_app before a     *)
(* worker serves), and what rests on it: the cookies and CSRF tokens one   *)
(* worker signs and another checks (auth/session.py, auth/csrf.py,         *)
(* routes/auth.py), and the provider and MCP secrets they encrypt.         *)
(*                                                                         *)
(* A worker is a process, or one of uvicorn's; what key it boots with is   *)
(* the operator's doing (LCNC_A2A_ENCRYPTION_KEY or the machine id) and is *)
(* chosen anew at every boot.  A key stands for its fingerprint too.  The  *)
(* bootstrap is one PostgreSQL transaction at READ COMMITTED, so an INSERT *)
(* waits for another's uncommitted row with the same primary key.          *)
(***************************************************************************)
EXTENDS Naturals

CONSTANTS
  Worker,   \* worker processes
  Key,      \* Fernet keys the operator may start a worker with
  Session,  \* ids of sessions rows; a uuid is never used twice
  None,     \* no row, no key
  MaxBoots  \* bound: how often create_app is called

ASSUME SecretsAssumption == None \notin Key /\ MaxBoots \in Nat

VARIABLES
  boots,     \* create_app calls so far
  boot,      \* the number of each worker's current boot
  pc,        \* where its bootstrap stands
  key,       \* its Fernet key
  mine,      \* the session secret it decrypted
  state,     \* the app_state table as committed
  written,   \* the app_state rows its open transaction has inserted
  sessions,  \* the sessions table
  cookies,   \* session cookies handed out
  tokens,    \* unexpired CSRF tokens rendered since the database was last reset
  sealed     \* keys under which some stored secret is encrypted

workerVars == <<boots, boot, pc, key, mine>>
webVars    == <<sessions, cookies, tokens, sealed>>
vars       == <<workerVars, state, written, webVars>>

----------------------------------------------------------------------------

(* secrets.token_hex(32) never repeats: the secret a boot generates is     *)
(* named after the boot.                                                   *)
Secret    == 0 .. MaxBoots
SecretRow == [name : Secret, under : Key \cup {None}]
AppState  == [fingerprint : Key \cup {None}, secret : SecretRow]

NoSecret == [name |-> 0, under |-> None]
NoRows   == [fingerprint |-> None, secret |-> NoSecret]

Booting == {"fingerprint", "stamp", "secret", "mint", "reread", "commit"}

TypeOK ==
  /\ boots \in 0 .. MaxBoots
  /\ boot \in [Worker -> 0 .. boots]
  /\ pc \in [Worker -> Booting \cup {"down", "serving"}]
  /\ key \in [Worker -> Key \cup {None}]
  /\ mine \in [Worker -> Secret]
  /\ state \in AppState
  /\ written \in [Worker -> AppState]
  /\ sessions \in [Session -> {"unused", "live", "expired", "gone"}]
  /\ cookies \subseteq [id : Session, by : Secret]
  /\ tokens \subseteq Secret
  /\ sealed \subseteq Key

Init ==
  /\ boots = 0
  /\ boot = [w \in Worker |-> 0]
  /\ pc = [w \in Worker |-> "down"]
  /\ key = [w \in Worker |-> None]
  /\ mine = [w \in Worker |-> 0]
  /\ state = NoRows
  /\ written = [w \in Worker |-> NoRows]
  /\ sessions = [s \in Session |-> "unused"]
  /\ cookies = {} /\ tokens = {} /\ sealed = {}

----------------------------------------------------------------------------
(* bootstrap_secrets *)

Goto(w, label) == pc' = [pc EXCEPT ![w] = label]

DownHolding(w) ==  \* mutant: the transaction is left open
  /\ Goto(w, "down")
  /\ boot' = [boot EXCEPT ![w] = 0]
  /\ key' = [key EXCEPT ![w] = None]
  /\ mine' = [mine EXCEPT ![w] = 0]
  /\ UNCHANGED written

(* The process ends, by an error of its bootstrap or killed; its open      *)
(* transaction is rolled back.                                             *)
Down(w) ==
  /\ Goto(w, "down")
  /\ boot' = [boot EXCEPT ![w] = 0]
  /\ key' = [key EXCEPT ![w] = None]
  /\ mine' = [mine EXCEPT ![w] = 0]
  /\ written' = [written EXCEPT ![w] = NoRows]

(* _resolve_encryption_key, and a transaction is begun. *)
Boot(w) ==
  /\ pc[w] = "down" /\ boots < MaxBoots
  /\ boots' = boots + 1
  /\ boot' = [boot EXCEPT ![w] = boots + 1]
  /\ \E k \in Key : key' = [key EXCEPT ![w] = k]
  /\ Goto(w, "fingerprint")
  /\ UNCHANGED <<mine, state, written, webVars>>

(* The stored fingerprint: absent, or ours. *)
CheckFingerprint(w) ==
  /\ pc[w] = "fingerprint" /\ state.fingerprint \in {None, key[w]}
  /\ Goto(w, IF state.fingerprint = None THEN "stamp" ELSE "secret")
  /\ UNCHANGED <<boots, boot, key, mine, state, written, webVars>>

(* Another key's: EncryptionKeyMismatchError. *)
RefuseFingerprint(w) ==
  /\ pc[w] = "fingerprint" /\ state.fingerprint \notin {None, key[w]}
  /\ Down(w)
  /\ UNCHANGED <<boots, state, webVars>>

StampCommits(w) ==  \* mutant: the fingerprint is committed on its own
  /\ pc[w] = "stamp"
  /\ state' = IF state.fingerprint = None THEN [state EXCEPT !.fingerprint = key[w]] ELSE state
  /\ Goto(w, "secret")
  /\ UNCHANGED <<boots, boot, key, mine, written, webVars>>

(* INSERT .. ON CONFLICT DO NOTHING of the fingerprint, once nobody else's *)
(* row is pending.  What the row then says is not read back.               *)
Stamp(w) ==
  /\ pc[w] = "stamp"
  /\ \A v \in Worker \ {w} : written[v].fingerprint = None
  /\ written' = IF state.fingerprint = None
                THEN [written EXCEPT ![w].fingerprint = key[w]] ELSE written
  /\ Goto(w, "secret")
  /\ UNCHANGED <<boots, boot, key, mine, state, webVars>>

(* A transaction sees its own rows and the committed ones. *)
SeenSecret(w) == IF written[w].secret # NoSecret THEN written[w].secret ELSE state.secret

(* The row decrypts: it is there, and encrypted under this worker's key. *)
Decrypts(w) == SeenSecret(w) # NoSecret /\ SeenSecret(w).under = key[w]

(* The session secret exists and decrypts, or it has to be made. *)
FindSecret(w) ==
  /\ pc[w] = "secret"
  /\ \/ /\ Decrypts(w)
        /\ mine' = [mine EXCEPT ![w] = state.secret.name]
        /\ Goto(w, "commit")
     \/ state.secret = NoSecret /\ Goto(w, "mint") /\ UNCHANGED mine
  /\ UNCHANGED <<boots, boot, key, state, written, webVars>>

MintInMemory(w) ==  \* mutant: the generated secret is used and never stored
  /\ pc[w] = "mint"
  /\ mine' = [mine EXCEPT ![w] = boot[w]]
  /\ Goto(w, "commit")
  /\ UNCHANGED <<boots, boot, key, state, written, webVars>>

(* A generated secret is inserted, ON CONFLICT DO NOTHING. *)
MintSecret(w) ==
  /\ pc[w] = "mint"
  /\ \A v \in Worker \ {w} : written[v].secret = NoSecret
  /\ written' = IF state.secret = NoSecret
                THEN [written EXCEPT ![w].secret = [name |-> boot[w], under |-> key[w]]]
                ELSE written
  /\ Goto(w, "reread")
  /\ UNCHANGED <<boots, boot, key, mine, state, webVars>>

(* The row is read back: it may be another worker's. *)
RereadSecret(w) ==
  /\ pc[w] = "reread" /\ Decrypts(w)
  /\ mine' = [mine EXCEPT ![w] = SeenSecret(w).name]
  /\ Goto(w, "commit")
  /\ UNCHANGED <<boots, boot, key, state, written, webVars>>

(* InvalidEncryptionKeyError: the row is another key's (or gone when read  *)
(* back).                                                                  *)
Undecryptable(w) ==
  /\ pc[w] \in {"secret", "reread"} /\ ~Decrypts(w)
  /\ pc[w] = "secret" => state.secret # NoSecret
  /\ Down(w)
  /\ UNCHANGED <<boots, state, webVars>>

(* The transaction commits and the worker starts to serve. *)
Commit(w) ==
  /\ pc[w] = "commit"
  /\ state' = [fingerprint |-> IF written[w].fingerprint # None
                               THEN written[w].fingerprint ELSE state.fingerprint,
               secret      |-> SeenSecret(w)]
  /\ written' = [written EXCEPT ![w] = NoRows]
  /\ Goto(w, "serving")
  /\ UNCHANGED <<boots, boot, key, mine, webVars>>

(* A worker is killed or stopped. *)
Crash(w) ==
  /\ pc[w] # "down"
  /\ Down(w)
  /\ UNCHANGED <<boots, state, webVars>>

(* make db-reset; dropdb refuses while a worker is connected. *)
ResetDatabase ==
  /\ \A w \in Worker : pc[w] = "down"
  /\ state' = NoRows
  /\ sessions' = [s \in Session |-> IF sessions[s] = "unused" THEN "unused" ELSE "gone"]
  /\ tokens' = {} /\ sealed' = {}
  /\ UNCHANGED <<workerVars, written, cookies>>

----------------------------------------------------------------------------
(* What the workers sign and encrypt.  A token or cookie is accepted by    *)
(* whoever has the secret it was signed with.                              *)

Serving == {w \in Worker : pc[w] = "serving"}

RenderForm(w) ==
  /\ w \in Serving
  /\ tokens' = tokens \cup {mine[w]}
  /\ UNCHANGED <<workerVars, state, written, sessions, cookies, sealed>>

(* POST /login with a token: the session row, committed, then its cookie. *)
Login(w, s, t) ==
  /\ w \in Serving /\ t = mine[w] /\ sessions[s] = "unused"
  /\ sessions' = [sessions EXCEPT ![s] = "live"]
  /\ cookies' = cookies \cup {[id |-> s, by |-> mine[w]]}
  /\ UNCHANGED <<workerVars, state, written, tokens, sealed>>

(* fetch_current_user *)
Recognised(w, c) == c.by = mine[w] /\ sessions[c.id] = "live"

(* POST /logout with a token and a cookie: the row is deleted. *)
Logout(w, c, t) ==
  /\ w \in Serving /\ t = mine[w] /\ c.by = mine[w]
  /\ sessions[c.id] \in {"live", "expired"}
  /\ sessions' = [sessions EXCEPT ![c.id] = "gone"]
  /\ UNCHANGED <<workerVars, state, written, cookies, tokens, sealed>>

(* expires_at passes. *)
Expire(s) ==
  /\ sessions[s] = "live"
  /\ sessions' = [sessions EXCEPT ![s] = "expired"]
  /\ UNCHANGED <<workerVars, state, written, cookies, tokens, sealed>>

(* The forms signed with a secret are older than CSRFManager's max_age.    *)
FormExpires(t) ==
  /\ tokens' = tokens \ {t}
  /\ UNCHANGED <<workerVars, state, written, sessions, cookies, sealed>>

(* An agent's key or headers, or an MCP server's, are stored encrypted. *)
Seal(w) ==
  /\ w \in Serving
  /\ sealed' = sealed \cup {key[w]}
  /\ UNCHANGED <<workerVars, state, written, sessions, cookies, tokens>>

----------------------------------------------------------------------------

Bootstrap(w) ==
  \/ CheckFingerprint(w) \/ RefuseFingerprint(w) \/ Stamp(w)
  \/ FindSecret(w) \/ MintSecret(w) \/ RereadSecret(w) \/ Undecryptable(w)
  \/ Commit(w)

Next ==
  \/ \E w \in Worker :
       \/ Boot(w) \/ Bootstrap(w) \/ Crash(w)
       \/ RenderForm(w) \/ Seal(w)
       \/ \E t \in tokens :
            (\E s \in Session : Login(w, s, t)) \/ (\E c \in cookies : Logout(w, c, t))
  \/ \E t \in tokens : FormExpires(t)
  \/ \E s \in Session : Expire(s)
  \/ ResetDatabase

Spec == Init /\ [][Next]_vars

(* The database answers every statement: it blocks none for ever and       *)
(* aborts what a dead connection left open.                                *)
FairSpec == Spec /\ \A w \in Worker : WF_vars(Bootstrap(w))

----------------------------------------------------------------------------
(* Properties *)

(* Every worker that serves has the key whose fingerprint is stored, so a  *)
(* deployment never runs under two keys, and can read every provider or    *)
(* MCP secret that is stored, whoever stored it and before whichever       *)
(* restarts.  The stamp alone does not see to it: whoever loses the race   *)
(* for the row never looks at it again.                                    *)
KeysAgree ==
  \A w \in Serving : state.fingerprint = key[w] /\ sealed \subseteq {key[w]}

(* A login holds at every worker: the cookie of a session that is live is  *)
(* recognised, and a form rendered by any of them is accepted while it is  *)
(* unexpired, also after restarts.                                         *)
LoginsHold ==
  \A w \in Serving : /\ \A c \in cookies : sessions[c.id] = "live" => Recognised(w, c)
                     /\ \A t \in tokens : t = mine[w]

(* A worker that boots ends up serving or stops with an error: two that    *)
(* insert the same rows do not wait for each other.                        *)
BootEnds == \A w \in Worker : pc[w] \in Booting ~> pc[w] \notin Booting
=============================================================================
