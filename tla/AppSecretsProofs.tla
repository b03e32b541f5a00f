-------------------------- MODULE AppSecretsProofs --------------------------
(***************************************************************************)
(* The workers of a deployment agree on the key and on the session secret, *)
(* for any number of workers, keys, sessions and boots.                    *)
(***************************************************************************)
EXTENDS AppSecrets, TLAPS

USE SecretsAssumption

----------------------------------------------------------------------------
(* The inductive invariant. *)

(* A row that an open transaction has inserted is not committed yet, is    *)
(* its worker's own, and no other transaction has inserted it.             *)
StampHeld ==
  \A w \in Worker : written[w].fingerprint # None =>
    /\ written[w].fingerprint = key[w] /\ state.fingerprint = None
    /\ pc[w] \in {"secret", "mint", "reread", "commit"}
    /\ \A v \in Worker \ {w} : written[v].fingerprint = None

SecretHeld ==
  \A w \in Worker : written[w].secret # NoSecret =>
    /\ written[w].fingerprint # None
    /\ written[w].secret.under = key[w]
    /\ pc[w] \in {"reread", "commit"}

(* The two rows are committed together, the secret under the stamped key.  *)
RowsTogether == state.fingerprint = state.secret.under

(* The name of no secret comes with no key, and conversely. *)
RowFormed(r) == r = NoSecret \/ r.under # None

WellFormed == RowFormed(state.secret) /\ \A w \in Worker : RowFormed(written[w].secret)

(* Past the stamp, a worker holds the stamp until some are committed.  A   *)
(* worker that lost the race therefore finds the winner's secret.          *)
Stamped ==
  \A w \in Worker :
    /\ (pc[w] = "secret" /\ state.fingerprint = None) => written[w].fingerprint # None
    /\ pc[w] \in {"mint", "reread"} => written[w].fingerprint # None
    /\ pc[w] = "reread" => written[w].secret # NoSecret

(* What a worker decrypted is the row it sees. *)
Settled ==
  \A w \in Worker : pc[w] \in {"commit", "serving"} =>
    /\ SeenSecret(w) # NoSecret
    /\ SeenSecret(w).under = key[w]
    /\ mine[w] = SeenSecret(w).name
    /\ written[w].fingerprint # None => written[w].secret # NoSecret

(* What was signed or encrypted, under the rows that are stored. *)
Signed ==
  /\ \A c \in cookies : sessions[c.id] = "live" => c.by = state.secret.name
  /\ \A c \in cookies : sessions[c.id] # "unused"
  /\ tokens \subseteq {state.secret.name}
  /\ sealed \subseteq {state.fingerprint}
  /\ state.secret = NoSecret => /\ tokens = {} /\ sealed = {}
                                /\ \A s \in Session : sessions[s] # "live"

Booted == \A w \in Worker : pc[w] # "down" <=> key[w] # None

Agreement == /\ TypeOK /\ Booted /\ StampHeld /\ SecretHeld /\ RowsTogether
             /\ WellFormed /\ Stamped /\ Settled /\ Signed

----------------------------------------------------------------------------
(* Preservation, one lemma per kind of step. *)

LEMMA AgreementInit == Init => Agreement
BY DEF Init, Agreement, TypeOK, Booted, StampHeld, SecretHeld, RowsTogether, WellFormed,
   RowFormed, Stamped, Settled, Signed, NoRows, NoSecret, Secret, SecretRow, AppState

(* The rows as every other worker's transaction sees them do not change    *)
(* when a worker goes down: what it had inserted is rolled back.           *)
LEMMA DownKeeps ==
  ASSUME Agreement, NEW w \in Worker, Down(w), UNCHANGED <<boots, state, webVars>>
  PROVE  Agreement'
<1>1. TypeOK'
  BY DEF Agreement, TypeOK, Down, Goto, webVars, AppState, SecretRow, Secret, NoRows, NoSecret
<1>2. /\ \A v \in Worker \ {w} : /\ pc'[v] = pc[v] /\ key'[v] = key[v] /\ mine'[v] = mine[v]
                                 /\ written'[v] = written[v]
      /\ pc'[w] = "down" /\ key'[w] = None /\ written'[w] = NoRows
  BY DEF Agreement, TypeOK, Down, Goto
<1>3. Booted' /\ StampHeld' /\ SecretHeld' /\ Stamped'
  BY <1>2 DEF Agreement, Booted, StampHeld, SecretHeld, Stamped, NoRows, Booting
<1>4. WellFormed' /\ RowsTogether' /\ Signed'
  BY <1>2 DEF Agreement, WellFormed, RowFormed, RowsTogether, Signed, webVars, NoRows
<1>5. Settled'
  BY <1>2 DEF Agreement, Settled, SeenSecret
<1>6. QED
  BY <1>1, <1>3, <1>4, <1>5 DEF Agreement

(* A step in which worker w moves from one label to another, and neither   *)
(* inserts nor commits a row.                                              *)
LEMMA BootKeeps ==
  ASSUME Agreement, NEW w \in Worker, Boot(w)
  PROVE  Agreement'
<1>1. TypeOK'
  BY DEF Agreement, TypeOK, Boot, Goto, webVars, Secret, Booting, AppState, SecretRow
<1>2. /\ \A v \in Worker \ {w} : pc'[v] = pc[v] /\ key'[v] = key[v]
      /\ UNCHANGED <<mine, state, written>>
      /\ pc[w] = "down" /\ pc'[w] = "fingerprint" /\ key'[w] \in Key
  BY DEF Agreement, TypeOK, Boot, Goto
<1>3. Booted' /\ StampHeld' /\ SecretHeld' /\ Stamped'
  BY <1>2 DEF Agreement, Booted, StampHeld, SecretHeld, Stamped
<1>4. WellFormed' /\ RowsTogether' /\ Signed'
  BY <1>2 DEF Agreement, WellFormed, RowFormed, RowsTogether, Signed, webVars, Boot
<1>5. Settled'
  BY <1>2 DEF Agreement, Settled, SeenSecret
<1>6. QED
  BY <1>1, <1>3, <1>4, <1>5 DEF Agreement

(* Reading the two rows. *)
LEMMA ReadKeeps ==
  ASSUME Agreement, NEW w \in Worker,
         CheckFingerprint(w) \/ FindSecret(w) \/ RereadSecret(w)
  PROVE  Agreement'
<1>1. TypeOK'
  <2>1. state.secret.name \in Secret /\ SeenSecret(w).name \in Secret
    BY DEF Agreement, TypeOK, SeenSecret, AppState, SecretRow
  <2>2. CASE CheckFingerprint(w)
    BY <2>2 DEF Agreement, TypeOK, CheckFingerprint, Goto, webVars, Booting
  <2>3. CASE FindSecret(w)
    BY <2>1, <2>3 DEF Agreement, TypeOK, FindSecret, Goto, webVars, Booting
  <2>4. CASE RereadSecret(w)
    BY <2>1, <2>4 DEF Agreement, TypeOK, RereadSecret, Goto, webVars, Booting
  <2>5. QED
    BY <2>2, <2>3, <2>4
<1>2. /\ \A v \in Worker \ {w} : pc'[v] = pc[v] /\ mine'[v] = mine[v]
      /\ UNCHANGED <<key, state, written, webVars>>
      /\ \/ pc[w] = "fingerprint" /\ pc'[w] = "stamp"
         \/ /\ pc[w] = "fingerprint" /\ pc'[w] = "secret"
            /\ state.fingerprint # None
         \/ /\ pc[w] \in {"secret", "reread"} /\ pc'[w] = "commit"
            /\ Decrypts(w) /\ mine'[w] = SeenSecret(w).name
         \/ pc[w] = "secret" /\ pc'[w] = "mint" /\ state.secret = NoSecret
  <2>1. CASE CheckFingerprint(w)
    BY <2>1 DEF Agreement, TypeOK, CheckFingerprint, Goto
  <2>2. CASE FindSecret(w)
    <3>1. written[w].secret = NoSecret
      BY <2>2 DEF FindSecret, Agreement, SecretHeld
    <3>2. QED
      BY <2>2, <3>1 DEF Agreement, TypeOK, FindSecret, SeenSecret, Goto
  <2>3. CASE RereadSecret(w)
    BY <2>3 DEF Agreement, TypeOK, RereadSecret, Goto
  <2>4. QED
    BY <2>1, <2>2, <2>3
<1>3. Booted' /\ WellFormed' /\ RowsTogether' /\ Signed'
  BY <1>2 DEF Agreement, Booted, WellFormed, RowFormed, RowsTogether, Signed, webVars
<1>4. StampHeld' /\ SecretHeld'
  BY <1>2 DEF Agreement, StampHeld, SecretHeld
<1>5. Stamped'
  BY <1>2 DEF Agreement, Stamped, RowsTogether, NoSecret
<1>6. Settled'
  <2>1. SUFFICES ASSUME NEW v \in Worker, pc'[v] \in {"commit", "serving"}
                 PROVE  /\ SeenSecret(v)' # NoSecret
                        /\ SeenSecret(v)'.under = key'[v]
                        /\ mine'[v] = SeenSecret(v)'.name
                        /\ written'[v].fingerprint # None => written'[v].secret # NoSecret
    BY DEF Settled
  <2>2. SeenSecret(v)' = SeenSecret(v) /\ written' = written /\ key' = key
    BY <1>2 DEF SeenSecret
  <2>3. CASE v # w
    BY <1>2, <2>1, <2>2, <2>3 DEF Agreement, Settled
  <2>4. CASE v = w
    <3>1. pc[w] \in {"secret", "reread"} /\ Decrypts(w) /\ mine'[w] = SeenSecret(w).name
      BY <1>2, <2>1, <2>4
    <3>2. written[w].fingerprint # None => written[w].secret # NoSecret
      <4>1. CASE pc[w] = "reread"
        BY <4>1 DEF Agreement, Stamped
      <4>2. CASE pc[w] = "secret"
        BY <3>1, <4>2 DEF Agreement, StampHeld, RowsTogether, WellFormed, RowFormed, Decrypts,
           SeenSecret, SecretHeld
      <4>3. QED
        BY <3>1, <4>1, <4>2
    <3>3. QED
      BY <2>2, <2>4, <3>1, <3>2 DEF Decrypts
  <2>5. QED
    BY <2>3, <2>4
<1>7. QED
  BY <1>1, <1>3, <1>4, <1>5, <1>6 DEF Agreement

(* Inserting the stamp: nobody else holds it, and if it is not needed the  *)
(* secret is stored with it.                                               *)
LEMMA StampKeeps ==
  ASSUME Agreement, NEW w \in Worker, Stamp(w)
  PROVE  Agreement'
<1>1. TypeOK'
  BY DEF Agreement, TypeOK, Stamp, Goto, webVars, Booting, AppState, SecretRow
<1>2. /\ \A v \in Worker \ {w} : pc'[v] = pc[v] /\ written'[v] = written[v]
      /\ written'[w].secret = written[w].secret
      /\ UNCHANGED <<key, mine, state, webVars>>
      /\ pc[w] = "stamp" /\ pc'[w] = "secret"
      /\ \A v \in Worker \ {w} : written[v].fingerprint = None
  BY DEF Agreement, TypeOK, Stamp, Goto, AppState
<1>3. /\ state.fingerprint = None => written'[w].fingerprint = key[w]
      /\ state.fingerprint # None => written'[w].fingerprint = written[w].fingerprint
      /\ written[w].fingerprint = None /\ written[w].secret = NoSecret
  BY DEF Agreement, TypeOK, Stamp, AppState, StampHeld, SecretHeld
<1>4. key[w] # None
  BY <1>2 DEF Agreement, Booted
<1>5. Booted' /\ StampHeld' /\ SecretHeld' /\ Stamped'
  BY <1>2, <1>3, <1>4 DEF Agreement, Booted, StampHeld, SecretHeld, Stamped
<1>6. WellFormed' /\ RowsTogether' /\ Signed'
  BY <1>2, <1>3 DEF Agreement, WellFormed, RowFormed, RowsTogether, Signed, webVars
<1>7. Settled'
  BY <1>2 DEF Agreement, Settled, SeenSecret
<1>8. QED
  BY <1>1, <1>5, <1>6, <1>7 DEF Agreement

(* Inserting a generated secret: the worker holds the stamp, so nothing is *)
(* stored yet and nobody else is at it.                                    *)
LEMMA MintKeeps ==
  ASSUME Agreement, NEW w \in Worker, MintSecret(w)
  PROVE  Agreement'
<1> DEFINE minted == [name |-> boot[w], under |-> key[w]]
<1>1. /\ written[w].fingerprint # None /\ state.fingerprint = None
      /\ state.secret = NoSecret /\ key[w] \in Key /\ boot[w] \in Secret
  BY DEF Agreement, MintSecret, Stamped, StampHeld, RowsTogether, WellFormed, RowFormed, TypeOK,
     Booted, Secret
<1>2. minted # NoSecret /\ minted \in SecretRow /\ minted.under # None
  BY <1>1 DEF NoSecret, SecretRow
<1>3. written' = [written EXCEPT ![w].secret = minted]
  BY <1>1 DEF MintSecret
<1>4. /\ \A v \in Worker \ {w} : pc'[v] = pc[v] /\ written'[v] = written[v]
      /\ written'[w].secret = minted /\ written'[w].fingerprint = written[w].fingerprint
      /\ UNCHANGED <<key, mine, state, webVars>>
      /\ pc[w] = "mint" /\ pc'[w] = "reread"
  BY <1>3 DEF Agreement, TypeOK, MintSecret, Goto, AppState
<1>5. TypeOK'
  BY <1>2, <1>3 DEF Agreement, TypeOK, MintSecret, Goto, webVars, Booting, AppState
<1>6. Booted' /\ StampHeld' /\ SecretHeld' /\ Stamped'
  BY <1>1, <1>2, <1>4 DEF Agreement, Booted, StampHeld, SecretHeld, Stamped
<1>7. WellFormed' /\ RowsTogether' /\ Signed'
  <2> HIDE DEF minted
  <2> QED
    BY <1>2, <1>4 DEF Agreement, WellFormed, RowFormed, RowsTogether, Signed, webVars
<1>8. Settled'
  BY <1>4 DEF Agreement, Settled, SeenSecret
<1>9. QED
  BY <1>5, <1>6, <1>7, <1>8 DEF Agreement

(* A commit stores both rows of the worker that holds the stamp, or        *)
(* nothing.                                                                *)
LEMMA CommitKeeps ==
  ASSUME Agreement, NEW w \in Worker, Commit(w)
  PROVE  Agreement'
<1>1. /\ SeenSecret(w) # NoSecret /\ SeenSecret(w).under = key[w]
      /\ mine[w] = SeenSecret(w).name
      /\ written[w].fingerprint # None <=> written[w].secret # NoSecret
  BY DEF Agreement, Settled, Commit, SecretHeld
<1>2. SeenSecret(w) \in SecretRow
  BY DEF Agreement, TypeOK, AppState, SeenSecret
<1>3. TypeOK'
  BY <1>2 DEF Agreement, TypeOK, Commit, Goto, webVars, AppState, NoRows, NoSecret, SecretRow,
     Secret
<1>4. /\ \A v \in Worker \ {w} : pc'[v] = pc[v] /\ written'[v] = written[v]
      /\ written'[w].secret = NoSecret /\ written'[w].fingerprint = None
      /\ UNCHANGED <<key, mine, webVars>>
      /\ pc[w] = "commit" /\ pc'[w] = "serving"
      /\ state'.secret = SeenSecret(w)
  BY DEF Agreement, TypeOK, Commit, Goto, NoRows
<1>5. CASE written[w].fingerprint = None
  <2>1. state' = state
    <3>1. SeenSecret(w) = state.secret
      BY <1>1, <1>5 DEF SeenSecret
    <3>2. QED
      BY <1>5, <3>1 DEF Commit, Agreement, TypeOK, AppState
  <2>2. Booted' /\ StampHeld' /\ SecretHeld' /\ Stamped'
    BY <1>4, <2>1 DEF Agreement, Booted, StampHeld, SecretHeld, Stamped
  <2>3. WellFormed' /\ RowsTogether' /\ Signed'
    BY <1>4, <2>1 DEF Agreement, WellFormed, RowFormed, RowsTogether, Signed, webVars
  <2>4. SeenSecret(w)' = SeenSecret(w) /\ \A v \in Worker \ {w} : SeenSecret(v)' = SeenSecret(v)
    BY <1>4, <2>1 DEF SeenSecret
  <2>5. Settled'
    BY <1>1, <1>4, <2>4 DEF Agreement, Settled
  <2>6. QED
    BY <1>3, <2>2, <2>3, <2>5 DEF Agreement
<1>6. CASE written[w].fingerprint # None
  <2>1. /\ state.fingerprint = None /\ state.secret = NoSecret
        /\ state'.fingerprint = key[w] /\ state'.secret = written[w].secret
        /\ written[w].secret # NoSecret /\ written[w].secret.under = key[w] /\ key[w] # None
        /\ \A v \in Worker \ {w} : written[v].fingerprint = None /\ written[v].secret = NoSecret
    BY <1>1, <1>6 DEF Agreement, StampHeld, SecretHeld, RowsTogether, WellFormed, RowFormed,
       Commit, SeenSecret
  <2>2. \A v \in Worker \ {w} : pc[v] \notin {"mint", "reread", "commit", "serving"}
    BY <2>1 DEF Agreement, Stamped, Settled, SeenSecret
  <2>3. Booted' /\ StampHeld' /\ SecretHeld' /\ Stamped'
    BY <1>4, <2>1, <2>2 DEF Agreement, Booted, StampHeld, SecretHeld, Stamped
  <2>4. WellFormed' /\ RowsTogether'
    BY <1>4, <2>1 DEF Agreement, WellFormed, RowFormed, RowsTogether
  <2>5. Signed'
    <3>1. \A c \in cookies : sessions[c.id] # "live"
      BY <2>1 DEF Agreement, Signed, TypeOK
    <3>2. QED
      BY <1>4, <2>1, <3>1 DEF Agreement, Signed, webVars
  <2>6. Settled'
    BY <1>1, <1>4, <2>1, <2>2 DEF Agreement, Settled, SeenSecret
  <2>7. QED
    BY <1>3, <2>3, <2>4, <2>5, <2>6 DEF Agreement
<1>7. QED
  BY <1>5, <1>6

(* A worker that serves uses the rows that are stored. *)
LEMMA ServingUses ==
  ASSUME Agreement, NEW w \in Serving
  PROVE  /\ state.secret # NoSecret /\ mine[w] = state.secret.name
         /\ key[w] = state.fingerprint /\ key[w] \in Key
<1>1. w \in Worker /\ pc[w] = "serving"
  BY DEF Serving
<1>2. written[w].secret = NoSecret
  BY <1>1 DEF Agreement, SecretHeld
<1>3. QED
  BY <1>1, <1>2 DEF Agreement, Settled, SeenSecret, RowsTogether, TypeOK, Booted

LEMMA WebKeeps ==
  ASSUME Agreement, UNCHANGED <<workerVars, state, written>>,
         \/ \E w \in Worker :
              \/ RenderForm(w) \/ Seal(w)
              \/ \E t \in tokens : \/ \E s \in Session : Login(w, s, t)
                                  \/ \E c \in cookies : Logout(w, c, t)
         \/ \E s \in Session : Expire(s)
         \/ \E t \in tokens : FormExpires(t)
  PROVE  Agreement'
<1>1. Booted' /\ StampHeld' /\ SecretHeld' /\ Stamped' /\ WellFormed' /\ RowsTogether'
  BY DEF workerVars, Agreement, Booted, StampHeld, SecretHeld, Stamped, WellFormed, RowFormed,
     RowsTogether
<1>2. Settled'
  BY DEF workerVars, Agreement, Settled, SeenSecret
<1>3. ASSUME NEW w \in Worker, RenderForm(w) \/ Seal(w)
      PROVE  TypeOK' /\ Signed'
  <2>1. /\ state.secret # NoSecret /\ mine[w] = state.secret.name /\ mine[w] \in Secret
        /\ key[w] = state.fingerprint /\ key[w] \in Key
    BY <1>3, ServingUses DEF RenderForm, Seal, Agreement, TypeOK
  <2>2. CASE RenderForm(w)
    BY <2>1, <2>2 DEF RenderForm, workerVars, Agreement, TypeOK, Signed
  <2>3. CASE Seal(w)
    BY <2>1, <2>3 DEF Seal, workerVars, Agreement, TypeOK, Signed
  <2>4. QED
    BY <1>3, <2>2, <2>3
<1>4. ASSUME NEW w \in Worker, NEW t \in tokens, NEW s \in Session, Login(w, s, t)
      PROVE  TypeOK' /\ Signed'
  <2>1. w \in Serving
    BY <1>4 DEF Login
  <2>2. QED
    BY <1>4, <2>1, ServingUses DEF Login, workerVars, Agreement, TypeOK, Signed
<1>5. ASSUME NEW w \in Worker, NEW t \in tokens, NEW c \in cookies, Logout(w, c, t)
      PROVE  TypeOK' /\ Signed'
  BY <1>5 DEF Logout, workerVars, Agreement, TypeOK, Signed
<1>6. ASSUME NEW s \in Session, Expire(s)
      PROVE  TypeOK' /\ Signed'
  BY <1>6 DEF Expire, workerVars, Agreement, TypeOK, Signed
<1>7. ASSUME NEW t \in tokens, FormExpires(t)
      PROVE  TypeOK' /\ Signed'
  BY <1>7 DEF FormExpires, workerVars, Agreement, TypeOK, Signed
<1>8. QED
  BY <1>1, <1>2, <1>3, <1>4, <1>5, <1>6, <1>7 DEF Agreement

LEMMA ResetKeeps ==
  ASSUME Agreement, ResetDatabase
  PROVE  Agreement'
<1>1. TypeOK'
  BY DEF Agreement, TypeOK, ResetDatabase, workerVars, AppState, SecretRow, Secret, NoRows,
     NoSecret
<1>2. \A w \in Worker : pc[w] = "down" /\ written[w].fingerprint = None
                       /\ written[w].secret = NoSecret
  BY DEF Agreement, ResetDatabase, StampHeld, SecretHeld
<1>3. Booted' /\ StampHeld' /\ SecretHeld' /\ Stamped' /\ Settled'
  BY <1>2 DEF Agreement, ResetDatabase, workerVars, Booted, StampHeld, SecretHeld, Stamped,
     Settled
<1>4. WellFormed' /\ RowsTogether' /\ Signed'
  BY <1>2 DEF Agreement, ResetDatabase, TypeOK, WellFormed, RowFormed, RowsTogether, Signed,
     NoRows, NoSecret
<1>5. QED
  BY <1>1, <1>3, <1>4 DEF Agreement

LEMMA AgreementNext ==
  ASSUME Agreement, [Next]_vars
  PROVE  Agreement'
<1>1. CASE UNCHANGED vars
  BY <1>1 DEF vars, workerVars, webVars, Agreement, TypeOK, Booted, StampHeld, SecretHeld,
     RowsTogether, WellFormed, RowFormed, Stamped, Settled, SeenSecret, Signed
<1>2. ASSUME NEW w \in Worker, Bootstrap(w) \/ Boot(w) \/ Crash(w)
      PROVE  Agreement'
  BY <1>2, DownKeeps, BootKeeps, ReadKeeps, StampKeeps, MintKeeps, CommitKeeps
     DEF Bootstrap, RefuseFingerprint, Undecryptable, Crash
<1>3. ASSUME NEW w \in Worker, RenderForm(w) \/ Seal(w)
      PROVE  Agreement'
  BY <1>3, WebKeeps DEF RenderForm, Seal
<1>4. ASSUME NEW w \in Worker, NEW t \in tokens,
             \/ \E s \in Session : Login(w, s, t)
             \/ \E c \in cookies : Logout(w, c, t)
      PROVE  Agreement'
  BY <1>4, WebKeeps DEF Login, Logout
<1>5. ASSUME NEW s \in Session, Expire(s)
      PROVE  Agreement'
  BY <1>5, WebKeeps DEF Expire
<1>6. ASSUME NEW t \in tokens, FormExpires(t)
      PROVE  Agreement'
  BY <1>6, WebKeeps DEF FormExpires
<1>7. CASE ResetDatabase
  BY <1>7, ResetKeeps
<1>8. QED
  BY <1>1, <1>2, <1>3, <1>4, <1>5, <1>6, <1>7 DEF Next

LEMMA Agreed == Spec => []Agreement
<1>1. Init => Agreement
  BY AgreementInit
<1>2. Agreement /\ [Next]_vars => Agreement'
  BY AgreementNext
<1>3. QED
  BY <1>1, <1>2, PTL DEF Spec

----------------------------------------------------------------------------

(* Every variable keeps its type. *)
THEOREM SecretsTyped == Spec => []TypeOK
<1>1. Agreement => TypeOK
  BY DEF Agreement
<1>2. QED
  BY <1>1, Agreed, PTL

(* However many workers race on an empty database, with whatever keys,     *)
(* those that get to serve have the key that is stamped and can decrypt    *)
(* what any worker encrypted.                                              *)
THEOREM WorkersAgree == Spec => []KeysAgree
<1>1. Agreement => KeysAgree
  BY ServingUses DEF KeysAgree, Agreement, Signed
<1>2. QED
  BY <1>1, Agreed, PTL

(* What any worker signed, every worker that serves accepts.               *)
THEOREM LoginsHoldEverywhere == Spec => []LoginsHold
<1>1. Agreement => LoginsHold
  BY ServingUses DEF LoginsHold, Recognised, Agreement, Signed
<1>2. QED
  BY <1>1, Agreed, PTL

----------------------------------------------------------------------------
(* What can be proved of BootEnds: nobody waits in a circle, and a boot    *)
(* has few steps.                                                          *)

(* The workers whose uncommitted rows the INSERT of w waits for. *)
Blockers(w) ==
  {v \in Worker \ {w} : \/ pc[w] = "stamp" /\ written[v].fingerprint # None
                        \/ pc[w] = "mint" /\ written[v].secret # NoSecret}

(* A worker that holds an uncommitted row waits for nobody: whoever mints  *)
(* a secret holds the stamp, and so nobody else holds anything.            *)
LEMMA HoldersDoNotWait ==
  ASSUME Agreement, NEW v \in Worker, written[v] # NoRows
  PROVE  Blockers(v) = {}
<1>1. written[v].fingerprint # None
  <2>1. written[v] = [fingerprint |-> written[v].fingerprint, secret |-> written[v].secret]
    BY DEF Agreement, TypeOK, AppState
  <2>2. written[v].fingerprint # None \/ written[v].secret # NoSecret
    BY <2>1 DEF NoRows
  <2>3. QED
    BY <2>2 DEF Agreement, SecretHeld
<1>2. pc[v] # "stamp"
  BY <1>1 DEF Agreement, StampHeld
<1>3. \A u \in Worker \ {v} : written[u].secret = NoSecret
  BY <1>1 DEF Agreement, StampHeld, SecretHeld
<1>4. QED
  BY <1>2, <1>3 DEF Blockers

(* Workers that insert the same rows never wait for each other, nor along  *)
(* a longer circle: whoever a worker waits for waits for nobody, and a     *)
(* worker that waits is at the stamp, never at the secret.                 *)
THEOREM NobodyWaitsForAWaiter ==
  Spec => [](\A w \in Worker :
               /\ \A v \in Blockers(w) : Blockers(v) = {}
               /\ Blockers(w) # {} => pc[w] = "stamp")
<1> DEFINE Acyclic == \A w \in Worker :
                        /\ \A v \in Blockers(w) : Blockers(v) = {}
                        /\ Blockers(w) # {} => pc[w] = "stamp"
<1>1. ASSUME Agreement PROVE Acyclic
  <2>1. \A w \in Worker : \A v \in Blockers(w) : v \in Worker /\ written[v] # NoRows
    BY DEF Blockers, NoRows
  <2>2. \A w \in Worker : pc[w] = "mint" => written[w] # NoRows
    BY <1>1 DEF Agreement, Stamped, NoRows
  <2>3. \A w \in Worker : Blockers(w) # {} => pc[w] \in {"stamp", "mint"}
    BY DEF Blockers
  <2>4. \A v \in Worker : written[v] # NoRows => Blockers(v) = {}
    BY <1>1, HoldersDoNotWait
  <2>5. QED
    BY <2>1, <2>2, <2>3, <2>4, Zenon
<1>2. QED
  BY <1>1, Agreed, PTL

(* The steps a boot still has to take, at most. *)
BootLeft(label) ==
  CASE label = "fingerprint" -> 6 [] label = "stamp"  -> 5 [] label = "secret" -> 4
    [] label = "mint"        -> 3 [] label = "reread" -> 2 [] label = "commit" -> 1
    [] OTHER                 -> 0

(* Every step of a bootstrap, and a crash in it, leaves fewer to take, and *)
(* no step of anybody else sets it back.                                   *)
THEOREM BootsCountDown ==
  Spec => [][\A w \in Worker :
               /\ Bootstrap(w) => BootLeft(pc'[w]) < BootLeft(pc[w])
               /\ pc[w] \in Booting => BootLeft(pc'[w]) <= BootLeft(pc[w])]_vars
<1> DEFINE Fewer(w) == /\ Bootstrap(w) => BootLeft(pc'[w]) < BootLeft(pc[w])
                       /\ pc[w] \in Booting => BootLeft(pc'[w]) <= BootLeft(pc[w])
<1>1. ASSUME TypeOK, Next, NEW w \in Worker PROVE Fewer(w)
  <2>1. ASSUME Bootstrap(w)
        PROVE  BootLeft(pc'[w]) < BootLeft(pc[w])
    BY <1>1, <2>1
      DEF Bootstrap, CheckFingerprint, RefuseFingerprint, Stamp, FindSecret, MintSecret,
          RereadSecret, Undecryptable, Commit, Down, Goto, BootLeft, TypeOK
  <2>2. ASSUME pc[w] \in Booting
        PROVE  Bootstrap(w) \/ pc'[w] = pc[w] \/ pc'[w] = "down"
    <3>1. CASE \E v \in Worker : Boot(v) \/ Crash(v)
      BY <1>1, <2>2, <3>1 DEF Boot, Crash, Down, Goto, TypeOK, Booting
    <3>2. ASSUME NEW v \in Worker \ {w}, Bootstrap(v) PROVE pc'[w] = pc[w]
      BY <1>1, <3>2
        DEF Bootstrap, CheckFingerprint, RefuseFingerprint, Stamp, FindSecret, MintSecret,
            RereadSecret, Undecryptable, Commit, Down, Goto, TypeOK
    <3>3. CASE UNCHANGED pc
      BY <3>3
    <3>4. QED
      BY <1>1, <3>1, <3>2, <3>3
        DEF Next, RenderForm, Seal, Login, Logout, FormExpires, Expire, ResetDatabase,
            workerVars
  <2>3. BootLeft("down") = 0 /\ BootLeft(pc[w]) \in Nat /\ BootLeft(pc'[w]) \in Nat
    BY DEF BootLeft
  <2>4. QED
    BY <2>1, <2>2, <2>3
<1>2. ASSUME TypeOK, [Next]_vars PROVE [\A w \in Worker : Fewer(w)]_vars
  BY <1>1, <1>2
<1>3. QED
  BY <1>2, SecretsTyped, PTL DEF Spec
=============================================================================
