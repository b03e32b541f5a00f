------------------------ MODULE OutboundCallsProofs ------------------------
(***************************************************************************)
(* Proofs about OutboundCalls for any number of turns, discoveries,        *)
(* attempts and calls.  Disciplined and Contained are the inductive        *)
(* strengthenings: where a turn stands fixes how its LLM call and its      *)
(* current call stand, and without an overlap the saved open_process of a  *)
(* discovery in progress is the real one.                                  *)
(***************************************************************************)
EXTENDS OutboundCalls, SequenceTheorems, TLAPS

(* What the await a turn stands at says of its requests. *)
Placed(t) ==
  /\ turn[t] = "writing" => chat[t] \in {"none", "answered"}
  /\ turn[t] \in {"chat", "keepalive"} => chat[t] \in {"posting", "answered", "failed"}
  /\ turn[t] \in {"tool", "embed", "backoff"} => chat[t] = "answered"
  /\ turn[t] \in {"tool", "embed", "backoff"} <=> verdict[t] = "open"
  /\ turn[t] = "backoff" => tries[t] < Attempts

(* The one start that may follow a cancellation uses up ready. *)
Allowance(t) ==
  /\ ready[t] => gone[t]
  /\ ~gone[t] \/ ready[t] => late[t] = 0
  /\ late[t] <= 1

Closed(t) ==
  /\ "chat" \in open[t] => chat[t] \in {"posting", "cancelled"}
  /\ "embed" \in open[t] => what[t] = "embed" /\ turn[t] \in {"embed", "backoff"}

Outlives(t) ==
  turn[t] \in Over /\ chat[t] = "posting" => leftAt[t] = "keepalive"

Disciplined ==
  \A t \in Turn : Placed(t) /\ Allowance(t) /\ Closed(t) /\ Outlives(t)

Contained ==
  /\ ~overlapped => /\ \A c, d \in InProgress : c = d
                    /\ \A d \in InProgress : saved[d] = <<>> /\ patched = <<d>>
                    /\ InProgress = {} => patched = <<>>
  /\ \A d \in Discovery : disc[d] = "session" => d \in listed

CallsInv == TypeOK /\ Disciplined /\ Contained

----------------------------------------------------------------------------
(* Initially nothing is under way. *)
LEMMA CallsInit == Init => CallsInv
<1> SUFFICES ASSUME Init PROVE CallsInv
  OBVIOUS
<1> USE CallsAssumption DEF Init
<1>1. TypeOK
  <2>1. saved \in [Discovery -> Seq(Discovery)] /\ patched \in Seq(Discovery)
    BY EmptySeq
  <2>3. /\ gone \in [Turn -> BOOLEAN] /\ ready \in [Turn -> BOOLEAN]
        /\ overlapped \in BOOLEAN
    BY Zenon
  <2>4. /\ calls \in [Turn -> 0 .. MaxCalls] /\ tries \in [Turn -> 0 .. Attempts]
        /\ late \in [Turn -> Nat]
    OBVIOUS
  <2> QED
    BY <2>1, <2>3, <2>4 DEF TypeOK, Await, Over, Tool, Verdict
<1>2. Disciplined
  <2> SUFFICES ASSUME NEW t \in Turn
               PROVE  Placed(t) /\ Allowance(t) /\ Closed(t) /\ Outlives(t)
    BY DEF Disciplined
  <2>1. Placed(t) /\ Closed(t) /\ Outlives(t)
    BY DEF Placed, Closed, Outlives, Over
  <2>2. ready[t] = FALSE /\ late[t] = 0
    OBVIOUS
  <2>3. Allowance(t)
    BY <2>2 DEF Allowance
  <2> QED
    BY <2>1, <2>3
<1>3. Contained
  BY DEF Contained, InProgress
<1> QED
  BY <1>1, <1>2, <1>3 DEF CallsInv

(* A step of a turn, of its LLM task or of its client leaves the           *)
(* discoveries alone, and lists no process but its own.                    *)
LEMMA TurnsLeaveDiscoveries ==
  ASSUME NEW t \in Turn, TurnStep(t) \/ ChatReturns(t) \/ Disconnect(t)
  PROVE  /\ UNCHANGED discVars
         /\ listed' \in {listed, listed \cup {t}}
BY DEF TurnStep, ChatReturns, Disconnect, Leave, StartChat, KeepAlive,
       KeepAliveSent, ChatObserved, BeginCall, CannotCall, AttemptFails,
       Interrupted, Retry, AttemptSucceeds, EmbeddingRefused, EndTurn,
       Resumes, Requests, discVars

(* What an attempt that failed leaves behind is typed. *)
LEMMA FailureTyped ==
  ASSUME TypeOK, NEW t \in Turn, RetryOrGiveUp(t)
  PROVE  /\ turn' \in [Turn -> Await \cup Over]
         /\ verdict' \in [Turn -> Verdict]
         /\ open' \in [Turn -> SUBSET {"chat", "embed"}]
<1> USE DEF TypeOK, Await, Over, Verdict
<1>1. CASE Wait(t)
  BY <1>1 DEF Wait
<1>2. CASE GiveUp(t)
  BY <1>2 DEF GiveUp, CallEnds
<1> QED
  BY <1>1, <1>2 DEF RetryOrGiveUp

(* Steps of a turn keep the types. *)
LEMMA TurnTyped ==
  ASSUME TypeOK, Disciplined, NEW t \in Turn,
         TurnStep(t) \/ ChatReturns(t) \/ Disconnect(t)
  PROVE  TypeOK'
<1> USE CallsAssumption
    DEF TypeOK, Await, Over, Tool, Verdict, Resumes, Starts, discVars
<1>1. CASE Disconnect(t)
  BY <1>1 DEF Disconnect
<1>2. CASE ChatReturns(t)
  BY <1>2 DEF ChatReturns, CloseClient
<1>3. CASE Leave(t)
  BY <1>3 DEF Leave, StopChat
<1>4. CASE StartChat(t)
  BY <1>4 DEF StartChat
<1>5. CASE KeepAlive(t)
  BY <1>5 DEF KeepAlive
<1>12. CASE KeepAliveSent(t)
  BY <1>12 DEF KeepAliveSent
<1>13. CASE ChatObserved(t)
  BY <1>13 DEF ChatObserved
<1>14. CASE EndTurn(t)
  BY <1>14 DEF EndTurn
<1>6. ASSUME NEW kind \in Tool \cup {"embed"}, BeginCall(t, kind) PROVE TypeOK'
  BY <1>6 DEF BeginCall, CanCall, Requests
<1>7. CASE CannotCall(t)
  BY <1>7 DEF CannotCall, CanCall
<1>8. CASE AttemptFails(t)
  <2>1. RetryOrGiveUp(t)
    BY <1>8 DEF AttemptFails
  <2>2. /\ turn' \in [Turn -> Await \cup Over] /\ verdict' \in [Turn -> Verdict]
        /\ open' \in [Turn -> SUBSET {"chat", "embed"}]
    BY <2>1, FailureTyped
  <2> QED
    BY <1>8, <2>2 DEF AttemptFails
<1>9. CASE Interrupted(t)
  <2>1. RetryOrGiveUp(t)
    BY <1>9 DEF Interrupted, Swallow
  <2>2. /\ turn' \in [Turn -> Await \cup Over] /\ verdict' \in [Turn -> Verdict]
        /\ open' \in [Turn -> SUBSET {"chat", "embed"}]
    BY <2>1, FailureTyped
  <2> QED
    BY <1>9, <2>2 DEF Interrupted, Swallow
<1>10. CASE Retry(t)
  BY <1>10 DEF Retry, Requests, Disciplined, Placed
<1>11. CASE AttemptSucceeds(t)
  BY <1>11 DEF AttemptSucceeds, CallEnds
<1>15. CASE EmbeddingRefused(t)
  BY <1>15 DEF EmbeddingRefused, CallEnds
<1> QED
  BY <1>1, <1>2, <1>3, <1>4, <1>5, <1>6, <1>7, <1>8, <1>9, <1>10, <1>11,
     <1>12, <1>13, <1>14, <1>15 DEF TurnStep

(* Steps of a turn keep its discipline, and leave the other turns alone. *)
LEMMA TurnDisciplined ==
  ASSUME TypeOK, Disciplined, NEW t \in Turn,
         TurnStep(t) \/ ChatReturns(t) \/ Disconnect(t)
  PROVE  Disciplined'
<1> SUFFICES ASSUME NEW u \in Turn
             PROVE  (Placed(u) /\ Allowance(u) /\ Closed(u) /\ Outlives(u))'
  BY DEF Disciplined
<1> Placed(u) /\ Allowance(u) /\ Closed(u) /\ Outlives(u)
  BY DEF Disciplined
<1> USE CallsAssumption
    DEF TypeOK, Await, Over, Tool, Verdict, Resumes, Starts, discVars,
        Placed, Allowance, Closed, Outlives
<1>1. CASE Disconnect(t)
  BY <1>1 DEF Disconnect
<1>2. CASE ChatReturns(t)
  BY <1>2 DEF ChatReturns, CloseClient
<1>3. CASE Leave(t)
  BY <1>3 DEF Leave, StopChat
<1>4. CASE StartChat(t)
  BY <1>4 DEF StartChat
<1>5. CASE KeepAlive(t)
  BY <1>5 DEF KeepAlive, Pending
<1>6. CASE KeepAliveSent(t)
  BY <1>6 DEF KeepAliveSent
<1>7. CASE ChatObserved(t)
  BY <1>7 DEF ChatObserved
<1>8. CASE EndTurn(t)
  BY <1>8 DEF EndTurn
<1>9. ASSUME NEW kind \in Tool \cup {"embed"}, BeginCall(t, kind)
      PROVE  (Placed(u) /\ Allowance(u) /\ Closed(u) /\ Outlives(u))'
  BY <1>9 DEF BeginCall, CanCall, Requests
<1>10. CASE CannotCall(t)
  BY <1>10 DEF CannotCall, CanCall
<1>11. CASE AttemptFails(t)
  BY <1>11 DEF AttemptFails, RetryOrGiveUp, Wait, GiveUp, CallEnds
<1>12. CASE Interrupted(t)
  BY <1>12 DEF Interrupted, Swallow, RetryOrGiveUp, Wait, GiveUp, CallEnds
<1>13. CASE Retry(t)
  BY <1>13 DEF Retry, Requests
<1>14. CASE AttemptSucceeds(t)
  BY <1>14 DEF AttemptSucceeds, CallEnds
<1>15. CASE EmbeddingRefused(t)
  BY <1>15 DEF EmbeddingRefused, CallEnds
<1> QED
  BY <1>1, <1>2, <1>3, <1>4, <1>5, <1>6, <1>7, <1>8, <1>9, <1>10, <1>11,
     <1>12, <1>13, <1>14, <1>15 DEF TurnStep

(* Steps of a discovery keep the invariant. *)
LEMMA DiscoveryStep ==
  ASSUME CallsInv, NEW d \in Discovery,
         StartDiscovery(d) \/ Spawned(d) \/ EndDiscovery(d)
  PROVE  CallsInv'
<1> USE DEF CallsInv
<1>1. UNCHANGED turnVars
  BY DEF StartDiscovery, Spawned, EndDiscovery
<1>2. TypeOK'
  <2>1. saved' \in [Discovery -> Seq(Discovery)] /\ patched' \in Seq(Discovery)
    <3>1. saved \in [Discovery -> Seq(Discovery)] /\ patched \in Seq(Discovery)
      BY DEF TypeOK
    <3>2. Append(patched, d) \in Seq(Discovery)
      BY <3>1, AppendProperties
    <3>3. CASE StartDiscovery(d)
      BY <3>1, <3>2, <3>3 DEF StartDiscovery
    <3>4. CASE Spawned(d)
      BY <3>1, <3>4 DEF Spawned
    <3>5. CASE EndDiscovery(d)
      BY <3>1, <3>5 DEF EndDiscovery, Restore
    <3> QED
      BY <3>3, <3>4, <3>5
  <2>2. /\ disc' \in [Discovery -> {"idle", "spawning", "session", "done"}]
        /\ overlapped' \in BOOLEAN
        /\ listed' \in SUBSET (Turn \cup Discovery)
    BY DEF TypeOK, StartDiscovery, Spawned, EndDiscovery
  <2> QED
    BY <1>1, <2>1, <2>2 DEF TypeOK, turnVars
<1>3. Disciplined'
  BY <1>1 DEF turnVars, Disciplined, Placed, Allowance, Closed, Outlives
<1>4. Contained'
  <2>1. CASE StartDiscovery(d)
    <3>1. InProgress' = InProgress \cup {d}
      BY <2>1 DEF StartDiscovery, InProgress, TypeOK
    <3>2. ASSUME ~overlapped'
          PROVE  /\ InProgress' = {d}
                 /\ saved'[d] = <<>> /\ patched' = <<d>>
      <4>1. InProgress = {} /\ patched = <<>>
        BY <2>1, <3>2 DEF StartDiscovery, Contained
      <4>2. Append(<<>>, d) = <<d>>
        OBVIOUS
      <4> QED
        BY <2>1, <3>1, <4>1, <4>2 DEF StartDiscovery, TypeOK
    <3>3. \A e \in Discovery : disc'[e] = "session" => e \in listed'
      BY <2>1 DEF StartDiscovery, Contained, TypeOK
    <3> QED
      BY <3>1, <3>2, <3>3 DEF Contained
  <2>2. CASE Spawned(d)
    <3>1. InProgress' = InProgress /\ d \in InProgress
      BY <2>2 DEF Spawned, InProgress, TypeOK
    <3>2. Append(saved[d], d) # <<>>
      <4>1. saved[d] \in Seq(Discovery)
        BY DEF TypeOK
      <4> QED
        BY <4>1, AppendProperties
    <3>3. \A e \in Discovery : disc'[e] = "session" => e \in listed'
      BY <2>2, <3>2 DEF Spawned, SeenByCall, Contained, TypeOK
    <3>4. saved' = saved /\ patched' = patched /\ overlapped' = overlapped
      BY <2>2 DEF Spawned
    <3> QED
      BY <3>1, <3>3, <3>4 DEF Contained
  <2>3. CASE EndDiscovery(d)
    <3>1. InProgress' = InProgress \ {d} /\ d \in InProgress
      BY <2>3 DEF EndDiscovery, InProgress, TypeOK
    <3>2. ASSUME ~overlapped' PROVE InProgress' = {} /\ patched' = <<>>
      <4>1. ~overlapped
        BY <2>3, <3>2 DEF EndDiscovery
      <4>2. InProgress = {d} /\ saved[d] = <<>>
        BY <3>1, <4>1 DEF Contained
      <4> QED
        BY <2>3, <3>1, <4>2 DEF EndDiscovery, Restore
    <3>3. \A e \in Discovery : disc'[e] = "session" => e \in listed'
      BY <2>3 DEF EndDiscovery, Contained, TypeOK
    <3> QED
      BY <3>2, <3>3 DEF Contained
  <2> QED
    BY <2>1, <2>2, <2>3
<1> QED
  BY <1>2, <1>3, <1>4

(* The invariant is inductive. *)
LEMMA CallsStep == CallsInv /\ [Next]_vars => CallsInv'
<1> SUFFICES ASSUME CallsInv, [Next]_vars PROVE CallsInv'
  OBVIOUS
<1>1. ASSUME NEW t \in Turn, TurnStep(t) \/ ChatReturns(t) \/ Disconnect(t)
      PROVE  CallsInv'
  <2>1. TypeOK' /\ Disciplined'
    BY <1>1, TurnTyped, TurnDisciplined DEF CallsInv
  <2>2. UNCHANGED discVars /\ listed \subseteq listed'
    BY <1>1, TurnsLeaveDiscoveries
  <2>3. InProgress' = InProgress
    BY <2>2 DEF InProgress, discVars
  <2>4. Contained'
    BY <2>2, <2>3 DEF CallsInv, Contained, discVars
  <2> QED
    BY <2>1, <2>4 DEF CallsInv
<1>2. CASE UNCHANGED vars
  BY <1>2 DEF vars, turnVars, discVars, CallsInv, TypeOK, Disciplined, Placed,
              Allowance, Closed, Outlives, Contained, InProgress
<1> QED
  BY <1>1, <1>2, DiscoveryStep DEF Next

LEMMA CallsInvariant == Spec => []CallsInv
BY CallsInit, CallsStep, PTL DEF Spec

----------------------------------------------------------------------------
(* Every variable keeps to its type; no call is ever tried more than       *)
(* Attempts times.                                                         *)
THEOREM CallsTyped == Spec => []TypeOK
<1>1. CallsInv => TypeOK
  BY DEF CallsInv
<1> QED
  BY <1>1, CallsInvariant, PTL

(* After its client left, a turn starts at most one more request, whatever *)
(* the tool callers swallow.                                               *)
THEOREM TurnsStopSoon == Spec => []StopsSoon
<1>1. CallsInv => StopsSoon
  BY DEF CallsInv, Disciplined, Allowance, StopsSoon
<1> QED
  BY <1>1, CallsInvariant, PTL

(* An LLM call outlives its turn only if the client left during a          *)
(* keep-alive.                                                             *)
THEOREM ChatOutlivesAtKeepAlive == Spec => []OutlivesAtKeepAlive
<1>1. CallsInv => OutlivesAtKeepAlive
  BY DEF CallsInv, Disciplined, Outlives, OutlivesAtKeepAlive
<1> QED
  BY <1>1, CallsInvariant, PTL

(* HTTP clients are closed with their calls, cancelled LLM calls excepted. *)
THEOREM ClientsAreClosed == Spec => []ClientsClosed
<1>1. CallsInv => ClientsClosed
  BY DEF CallsInv, Disciplined, Closed, ClientsClosed
<1> QED
  BY <1>1, CallsInvariant, PTL

(* Discoveries that do not overlap leave anyio.open_process as it was. *)
THEOREM PatchStaysContained == Spec => []PatchContained
<1>1. CallsInv => PatchContained
  <2> SUFFICES ASSUME CallsInv, ~overlapped
               PROVE  patched \in {<<d>> : d \in InProgress}
                                  \cup (IF InProgress = {} THEN {<<>>} ELSE {})
    BY DEF PatchContained
  <2>1. CASE InProgress = {}
    BY <2>1 DEF CallsInv, Contained
  <2>2. CASE InProgress # {}
    <3>1. PICK d \in InProgress : TRUE
      BY <2>2
    <3> QED
      BY <3>1 DEF CallsInv, Contained
  <2> QED
    BY <2>1, <2>2
<1> QED
  BY <1>1, CallsInvariant, PTL

(* Overlapping or not, a discovery's process is listed. *)
THEOREM DiscoveriesListed == Spec => []ListsDiscoveries
<1>1. CallsInv => ListsDiscoveries
  BY DEF CallsInv, Contained, ListsDiscoveries
<1> QED
  BY <1>1, CallsInvariant, PTL

----------------------------------------------------------------------------
(* Refinement *)

(* A step of a turn is a step of the retry policy, or touches no call. *)
LEMMA TurnKeepsPolicy ==
  ASSUME TypeOK, Disciplined, NEW t \in Turn,
         TurnStep(t) \/ ChatReturns(t) \/ Disconnect(t)
  PROVE  \/ Policy!Begin(t) \/ Policy!Try(t) \/ Policy!Settle(t)
         \/ UNCHANGED <<tries, verdict>>
<1> Placed(t)
  BY DEF Disciplined
<1> USE CallsAssumption DEF TypeOK, Placed
<1>1. CASE Disconnect(t) \/ ChatReturns(t) \/ StartChat(t) \/ KeepAlive(t)
           \/ KeepAliveSent(t) \/ ChatObserved(t) \/ EndTurn(t)
  BY <1>1 DEF Disconnect, ChatReturns, StartChat, KeepAlive, KeepAliveSent,
              ChatObserved, EndTurn
<1>2. CASE Leave(t)
  <2>1. CASE verdict[t] = "open"
    BY <1>2, <2>1 DEF Leave, Policy!Settle
  <2>2. CASE verdict[t] # "open"
    <3>1. verdict' = verdict
      BY <1>2, <2>2 DEF Leave
    <3> QED
      BY <1>2, <3>1 DEF Leave
  <2> QED
    BY <2>1, <2>2
<1>3. ASSUME NEW kind \in Tool \cup {"embed"}, BeginCall(t, kind)
      PROVE  Policy!Begin(t)
  BY <1>3 DEF BeginCall, CanCall, Policy!Begin
<1>4. CASE CannotCall(t)
  BY <1>4 DEF CannotCall, CanCall, Policy!Begin
<1>5. CASE AttemptFails(t) \/ Interrupted(t)
  BY <1>5 DEF AttemptFails, Interrupted, Swallow, RetryOrGiveUp, Wait, GiveUp,
              CallEnds, Policy!Settle
<1>6. CASE Retry(t)
  BY <1>6 DEF Retry, Policy!Try
<1>7. CASE AttemptSucceeds(t) \/ EmbeddingRefused(t)
  BY <1>7 DEF AttemptSucceeds, EmbeddingRefused, CallEnds, Policy!Settle
<1> QED
  BY <1>1, <1>2, <1>3, <1>4, <1>5, <1>6, <1>7 DEF TurnStep

(* Tool calls and embeddings implement the retry policy. *)
THEOREM CallsKeepPolicy == Spec => KeepsPolicy
<1>1. Init => Policy!PolicyInit
  BY DEF Init, Policy!PolicyInit
<1>2. CallsInv /\ [Next]_vars => [Policy!PolicyNext]_<<tries, verdict>>
  <2> SUFFICES ASSUME CallsInv, [Next]_vars
               PROVE  Policy!PolicyNext \/ UNCHANGED <<tries, verdict>>
    OBVIOUS
  <2>1. ASSUME NEW t \in Turn, TurnStep(t) \/ ChatReturns(t) \/ Disconnect(t)
        PROVE  Policy!PolicyNext \/ UNCHANGED <<tries, verdict>>
    BY <2>1, TurnKeepsPolicy DEF CallsInv, Policy!PolicyNext
  <2>2. ASSUME NEW d \in Discovery, StartDiscovery(d) \/ Spawned(d) \/ EndDiscovery(d)
        PROVE  UNCHANGED <<tries, verdict>>
    BY <2>2 DEF StartDiscovery, Spawned, EndDiscovery, turnVars
  <2>3. CASE UNCHANGED vars
    BY <2>3 DEF vars, turnVars
  <2> QED
    BY <2>1, <2>2, <2>3 DEF Next
<1> QED
  BY <1>1, <1>2, CallsInvariant, PTL DEF Spec, KeepsPolicy, Policy!PolicySpec

----------------------------------------------------------------------------
(* What can be proved of TurnsEnd: only keep-alives can go on for ever. *)

(* A call is begun, fails, is retried, ..., and ends. *)
CallSteps == 2 * Attempts

CallsLeft(n) == (MaxCalls - n) * CallSteps

(* The steps the executor of t may still take, keep-alives apart. *)
AwaitsLeft(t) ==
  CASE turn[t] = "writing" /\ chat[t] = "none" -> CallsLeft(calls[t]) + 3
    [] turn[t] \in {"chat", "keepalive"}        -> CallsLeft(calls[t]) + 2
    [] turn[t] = "writing" /\ chat[t] # "none" -> CallsLeft(calls[t]) + 1
    [] turn[t] \in {"tool", "embed"} ->
         CallsLeft(calls[t]) + (2 * (Attempts - tries[t])) + 2
    [] turn[t] = "backoff" ->
         CallsLeft(calls[t]) + (2 * (Attempts - tries[t])) + 1
    [] OTHER -> 0

ChatLeft(t)   == IF chat[t] \in {"none", "posting"} THEN 1 ELSE 0
ClientLeft(t) == IF gone[t] THEN 0 ELSE 1

StepsLeft(t) == AwaitsLeft(t) + ChatLeft(t) + ClientLeft(t)
MostSteps    == (MaxCalls * CallSteps) + 5

LEMMA CallsCountDown ==
  ASSUME NEW n \in 0 .. MaxCalls
  PROVE  /\ CallsLeft(n) \in Nat
         /\ n < MaxCalls => CallsLeft(n) = CallsLeft(n + 1) + (2 * Attempts)
<1>1. CallSteps \in Nat /\ MaxCalls - n \in Nat /\ CallSteps = 2 * Attempts
  BY CallsAssumption DEF CallSteps
<1>2. \A k, w \in Nat : k * w \in Nat /\ (k + 1) * w = k * w + w
  OBVIOUS
<1>3. CallsLeft(n) \in Nat
  BY <1>1, <1>2 DEF CallsLeft
<1>4. ASSUME n < MaxCalls PROVE CallsLeft(n) = CallsLeft(n + 1) + (2 * Attempts)
  <2>1. MaxCalls - (n + 1) \in Nat /\ MaxCalls - n = (MaxCalls - (n + 1)) + 1
    BY <1>4, CallsAssumption
  <2>2. (MaxCalls - n) * CallSteps = (MaxCalls - (n + 1)) * CallSteps + CallSteps
    BY <1>1, <1>2, <2>1
  <2>3. QED
    BY <1>1, <2>2 DEF CallsLeft
<1>5. QED
  BY <1>3, <1>4

LEMMA AwaitsTyped ==
  ASSUME TypeOK, NEW t \in Turn
  PROVE  AwaitsLeft(t) \in Nat
<1>1. /\ CallsLeft(calls[t]) \in Nat /\ Attempts \in Nat /\ tries[t] \in 0 .. Attempts
  BY CallsCountDown, CallsAssumption DEF TypeOK
<1> HIDE DEF CallsLeft
<1>2. 2 * (Attempts - tries[t]) \in Nat
  BY <1>1
<1>3. QED
  BY <1>1, <1>2 DEF AwaitsLeft

(* An await of t that is over leaves its executor fewer. *)
LEMMA AwaitCounts ==
  ASSUME CallsInv, NEW t \in Turn, TurnStep(t)
  PROVE  \/ /\ KeepAlive(t) \/ KeepAliveSent(t)
            /\ AwaitsLeft(t)' = AwaitsLeft(t) /\ UNCHANGED chat
         \/ AwaitsLeft(t)' < AwaitsLeft(t) /\ ChatLeft(t)' <= ChatLeft(t)
<1> DEFINE Fewer == AwaitsLeft(t)' < AwaitsLeft(t) /\ ChatLeft(t)' <= ChatLeft(t)
<1>1. /\ CallsLeft(calls[t]) \in Nat
      /\ Attempts \in Nat \ {0} /\ MaxCalls \in Nat
      /\ calls[t] \in 0 .. MaxCalls /\ tries[t] \in 0 .. Attempts
      /\ turn[t] \in Await \cup Over
      /\ turn[t] = "backoff" => tries[t] < Attempts
      /\ turn[t] = "writing" => chat[t] # "posting"
  BY CallsCountDown, CallsAssumption DEF CallsInv, TypeOK, Disciplined, Placed
<1>2. calls[t] < MaxCalls =>
        /\ CallsLeft(calls[t] + 1) \in Nat
        /\ CallsLeft(calls[t]) = CallsLeft(calls[t] + 1) + (2 * Attempts)
  BY <1>1, CallsCountDown
<1>3. TypeOK
  BY DEF CallsInv
<1> HIDE DEF CallsLeft
<1>4. CASE KeepAlive(t) \/ KeepAliveSent(t)
  BY <1>1, <1>3, <1>4 DEF KeepAlive, KeepAliveSent, AwaitsLeft, TypeOK
<1>5. CASE Leave(t)
  BY <1>1, <1>3, <1>5 DEF Leave, StopChat, AwaitsLeft, ChatLeft, TypeOK, Await, Over, Tool
<1>6. CASE StartChat(t) \/ ChatObserved(t) \/ EndTurn(t)
  BY <1>1, <1>3, <1>6 DEF StartChat, ChatObserved, EndTurn, AwaitsLeft, ChatLeft, TypeOK
<1>7. ASSUME NEW kind \in Tool \cup {"embed"}, BeginCall(t, kind) PROVE Fewer
  BY <1>1, <1>2, <1>3, <1>7
    DEF BeginCall, CanCall, Requests, AwaitsLeft, ChatLeft, TypeOK
<1>8. CASE CannotCall(t)
  BY <1>1, <1>2, <1>3, <1>8 DEF CannotCall, CanCall, AwaitsLeft, ChatLeft, TypeOK
<1>9. CASE AttemptFails(t) \/ Interrupted(t)
  <2>1. /\ turn[t] \in {"tool", "embed"} /\ chat[t] = "answered"
        /\ turn'[t] \in {"backoff", "writing", "done"}
        /\ UNCHANGED <<chat, calls, tries>>
    BY <1>3, <1>9 DEF AttemptFails, Interrupted, Swallow, RetryOrGiveUp, Wait, GiveUp,
       CallEnds, CallsInv, Disciplined, Placed, TypeOK
  <2>2. QED
    BY <1>1, <2>1 DEF AwaitsLeft, ChatLeft
<1>10. CASE Retry(t)
  <2>1. /\ turn[t] = "backoff" /\ turn'[t] \in {"tool", "embed"}
        /\ tries'[t] = tries[t] + 1 /\ UNCHANGED <<chat, calls>>
    BY <1>3, <1>10 DEF Retry, Requests, TypeOK
  <2>2. QED
    BY <1>1, <2>1 DEF AwaitsLeft, ChatLeft
<1>11. CASE AttemptSucceeds(t) \/ EmbeddingRefused(t)
  <2>1. /\ turn[t] \in {"tool", "embed"} /\ chat[t] = "answered"
        /\ turn'[t] \in {"writing", "done"}
        /\ UNCHANGED <<chat, calls, tries>>
    BY <1>3, <1>11 DEF AttemptSucceeds, EmbeddingRefused, CallEnds,
       CallsInv, Disciplined, Placed, TypeOK
  <2>2. QED
    BY <1>1, <2>1 DEF AwaitsLeft, ChatLeft
<1>12. QED
  BY <1>4, <1>5, <1>6, <1>7, <1>8, <1>9, <1>10, <1>11 DEF TurnStep

Counted(t) ==
  /\ AwaitsLeft(t) \in Nat /\ ChatLeft(t) \in 0 .. 1 /\ ClientLeft(t) \in 0 .. 1
  /\ StepsLeft(t) = AwaitsLeft(t) + ChatLeft(t) + ClientLeft(t)

LEMMA StepsTyped == TypeOK => \A t \in Turn : Counted(t)
<1>1. ASSUME TypeOK, NEW t \in Turn PROVE Counted(t)
  <2>1. AwaitsLeft(t) \in Nat
    BY <1>1, AwaitsTyped
  <2>2. QED
    BY <2>1 DEF ChatLeft, ClientLeft, StepsLeft, Counted
<1>2. QED
  BY <1>1, Zenon

LEMMA StepsTypedNext == TypeOK' => (\A t \in Turn : Counted(t))'
BY StepsTyped, PTL

LEMMA SumFalls ==
  ASSUME NEW a \in Nat, NEW x \in Nat,
         NEW b \in 0 .. 1, NEW y \in 0 .. 1, NEW c \in 0 .. 1, NEW z \in 0 .. 1,
         x <= a, y <= b, z <= c
  PROVE  /\ x + y + z <= a + b + c
         /\ x < a \/ y < b \/ z < c => x + y + z < a + b + c
OBVIOUS

Within(t) == StepsLeft(t) \in 0 .. MostSteps

(* A step of a turn, of its LLM task or of its client leaves t fewer, or   *)
(* is a keep-alive; a step of anything else leaves it as many.             *)
LEMMA StepCounts ==
  ASSUME CallsInv, CallsInv', Next, NEW t \in Turn
  PROVE  /\ StepsLeft(t)' <= StepsLeft(t)
         /\ TurnStep(t) \/ ChatReturns(t) \/ Disconnect(t) =>
              StepsLeft(t)' < StepsLeft(t) \/ KeepAlive(t) \/ KeepAliveSent(t)
<1>1. TypeOK /\ TypeOK'
  BY DEF CallsInv
<1>2. /\ AwaitsLeft(t) \in Nat /\ ChatLeft(t) \in 0 .. 1 /\ ClientLeft(t) \in 0 .. 1
      /\ StepsLeft(t) = AwaitsLeft(t) + ChatLeft(t) + ClientLeft(t)
      /\ AwaitsLeft(t)' \in Nat /\ ChatLeft(t)' \in 0 .. 1 /\ ClientLeft(t)' \in 0 .. 1
      /\ StepsLeft(t)' = AwaitsLeft(t)' + ChatLeft(t)' + ClientLeft(t)'
  BY <1>1, StepsTyped, StepsTypedNext DEF Counted
<1> DEFINE Down == \/ AwaitsLeft(t)' < AwaitsLeft(t)
                   \/ ChatLeft(t)' < ChatLeft(t)
                   \/ ClientLeft(t)' < ClientLeft(t)
           Kept == /\ AwaitsLeft(t)' <= AwaitsLeft(t)
                   /\ ChatLeft(t)' <= ChatLeft(t)
                   /\ ClientLeft(t)' <= ClientLeft(t)
<1>3. ASSUME TurnStep(t)
      PROVE  Kept /\ (Down \/ KeepAlive(t) \/ KeepAliveSent(t))
  <2>1. UNCHANGED gone
    BY <1>3 DEF TurnStep, Leave, StartChat, KeepAlive, KeepAliveSent, ChatObserved,
       BeginCall, CannotCall, AttemptFails, Interrupted, Retry, AttemptSucceeds,
       EmbeddingRefused, EndTurn, Resumes
  <2>2. ClientLeft(t)' = ClientLeft(t)
    BY <2>1 DEF ClientLeft
  <2>3. UNCHANGED chat => ChatLeft(t)' = ChatLeft(t)
    BY DEF ChatLeft
  <2>4. QED
    BY <1>2, <1>3, <2>2, <2>3, AwaitCounts
<1>4. ASSUME ChatReturns(t) PROVE Kept /\ Down
  <2>1. /\ chat[t] = "posting" /\ chat'[t] \in {"answered", "failed"}
        /\ UNCHANGED <<turn, gone, calls, tries>>
    BY <1>1, <1>4 DEF ChatReturns, TypeOK
  <2>5. turn[t] # "writing"
    BY <2>1 DEF CallsInv, Disciplined, Placed
  <2>2. AwaitsLeft(t)' = AwaitsLeft(t)
    BY <2>1, <2>5 DEF AwaitsLeft, CallsLeft
  <2>3. ChatLeft(t)' < ChatLeft(t) /\ ClientLeft(t)' = ClientLeft(t)
    BY <2>1 DEF ChatLeft, ClientLeft
  <2>4. QED
    BY <1>2, <2>2, <2>3
<1>5. ASSUME Disconnect(t) PROVE Kept /\ Down
  <2>1. UNCHANGED <<turn, chat, calls, tries>> /\ ~gone[t] /\ gone'[t]
    BY <1>1, <1>5 DEF Disconnect, TypeOK
  <2>2. AwaitsLeft(t)' = AwaitsLeft(t) /\ ChatLeft(t)' = ChatLeft(t)
    BY <2>1 DEF AwaitsLeft, CallsLeft, ChatLeft
  <2>3. ClientLeft(t)' < ClientLeft(t)
    BY <2>1 DEF ClientLeft
  <2>4. QED
    BY <1>2, <2>2, <2>3
<1>6. ASSUME UNCHANGED <<turn[t], chat[t], gone[t], calls[t], tries[t]>>
      PROVE  Kept
  <2>1. /\ AwaitsLeft(t)' = AwaitsLeft(t) /\ ChatLeft(t)' = ChatLeft(t)
        /\ ClientLeft(t)' = ClientLeft(t)
    BY <1>6 DEF AwaitsLeft, CallsLeft, ChatLeft, ClientLeft
  <2>2. QED
    BY <1>2, <2>1
<1>7. ASSUME NEW u \in Turn \ {t}, TurnStep(u) \/ ChatReturns(u) \/ Disconnect(u)
      PROVE  UNCHANGED <<turn[t], chat[t], gone[t], calls[t], tries[t]>>
  <2> USE <1>1 DEF TypeOK, Resumes
  <2>1. CASE ChatReturns(u) \/ Disconnect(u)
    BY <2>1 DEF ChatReturns, Disconnect
  <2>2. CASE Leave(u)
    BY <2>2 DEF Leave, StopChat
  <2>3. CASE StartChat(u) \/ KeepAlive(u) \/ KeepAliveSent(u) \/ ChatObserved(u) \/ EndTurn(u)
    BY <2>3 DEF StartChat, KeepAlive, KeepAliveSent, ChatObserved, EndTurn
  <2>4. ASSUME NEW kind \in Tool \cup {"embed"}, BeginCall(u, kind)
        PROVE  UNCHANGED <<turn[t], chat[t], gone[t], calls[t], tries[t]>>
    BY <2>4 DEF BeginCall, Requests
  <2>5. CASE CannotCall(u) \/ Retry(u)
    BY <2>5 DEF CannotCall, Retry, Requests
  <2>6. CASE AttemptFails(u) \/ Interrupted(u)
    BY <2>6 DEF AttemptFails, Interrupted, Swallow, RetryOrGiveUp, Wait, GiveUp, CallEnds
  <2>7. CASE AttemptSucceeds(u) \/ EmbeddingRefused(u)
    BY <2>7 DEF AttemptSucceeds, EmbeddingRefused, CallEnds
  <2>8. QED
    BY <1>7, <2>1, <2>2, <2>3, <2>4, <2>5, <2>6, <2>7 DEF TurnStep
<1>8. ASSUME NEW d \in Discovery, StartDiscovery(d) \/ Spawned(d) \/ EndDiscovery(d)
      PROVE  UNCHANGED <<turn[t], chat[t], gone[t], calls[t], tries[t]>>
  BY <1>8 DEF StartDiscovery, Spawned, EndDiscovery, turnVars
<1>9. Kept
  BY <1>3, <1>4, <1>5, <1>6, <1>7, <1>8 DEF Next
<1> HIDE DEF Kept
<1>10. TurnStep(t) \/ ChatReturns(t) \/ Disconnect(t) =>
         Down \/ KeepAlive(t) \/ KeepAliveSent(t)
  BY <1>3, <1>4, <1>5
<1>11. StepsLeft(t)' <= StepsLeft(t) /\ (Down => StepsLeft(t)' < StepsLeft(t))
  BY <1>2, <1>9, SumFalls DEF Kept
<1> HIDE DEF Down
<1>12. QED
  BY <1>10, <1>11

(* A turn takes at most MostSteps steps besides its keep-alives, whatever  *)
(* its calls and its client do: every retry, the CancelledErrors swallowed *)
(* by the tool callers included, leaves it fewer.  And a keep-alive goes   *)
(* out only while the LLM task is posting, so a turn that does not end     *)
(* waits for that task, or is not scheduled.                               *)
THEOREM TurnsWindDown ==
  Spec => /\ [](\A t \in Turn : Within(t))
          /\ [][\A t \in Turn :
                  /\ StepsLeft(t)' <= StepsLeft(t)
                  /\ TurnStep(t) \/ ChatReturns(t) \/ Disconnect(t) =>
                       \/ StepsLeft(t)' < StepsLeft(t)
                       \/ KeepAlive(t) \/ KeepAliveSent(t)]_vars
<1> DEFINE AllWithin == \A t \in Turn : Within(t)
           Counts(t) == /\ StepsLeft(t)' <= StepsLeft(t)
                        /\ TurnStep(t) \/ ChatReturns(t) \/ Disconnect(t) =>
                             \/ StepsLeft(t)' < StepsLeft(t)
                             \/ KeepAlive(t) \/ KeepAliveSent(t)
<1>0. MostSteps \in Nat
  BY CallsCountDown, CallsAssumption DEF MostSteps, CallsLeft
<1>1. ASSUME Init PROVE AllWithin
  <2>1. CallsLeft(0) = MaxCalls * CallSteps /\ CallsLeft(0) \in Nat
    BY CallsCountDown, CallsAssumption DEF CallsLeft
  <2>2. ASSUME NEW t \in Turn PROVE Within(t)
    <3>1. AwaitsLeft(t) = CallsLeft(0) + 3 /\ ChatLeft(t) = 1 /\ ClientLeft(t) = 1
      BY <1>1 DEF Init, AwaitsLeft, ChatLeft, ClientLeft
    <3>2. QED
      BY <1>0, <2>1, <3>1 DEF StepsLeft, MostSteps, Within
  <2>3. QED
    BY <2>2, Zenon
<1>2. ASSUME CallsInv, CallsInv', AllWithin, [Next]_vars PROVE AllWithin'
  <2> SUFFICES ASSUME NEW t \in Turn PROVE Within(t)'
    OBVIOUS
  <2>1. UNCHANGED vars => StepsLeft(t)' = StepsLeft(t)
    BY DEF vars, turnVars, StepsLeft, AwaitsLeft, CallsLeft, ChatLeft, ClientLeft
  <2>2. StepsLeft(t)' \in Nat
    BY <1>2, StepsTypedNext DEF CallsInv, Counted
  <2>3. QED
    BY <1>0, <1>2, <2>1, <2>2, StepCounts DEF Within
<1>3. ASSUME CallsInv, CallsInv', [Next]_vars PROVE [\A t \in Turn : Counts(t)]_vars
  BY <1>3, StepCounts
<1> HIDE DEF AllWithin
<1>4. Spec => []AllWithin
  BY <1>1, <1>2, CallsInvariant, PTL DEF Spec
<1>5. QED
  BY <1>3, <1>4, CallsInvariant, PTL DEF Spec, AllWithin
=============================================================================
