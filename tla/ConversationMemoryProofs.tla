---------------------- MODULE ConversationMemoryProofs ----------------------
(* Theorems about ConversationMemory, for any number of runs, any cap and   *)
(* any size of batch.                                                       *)
EXTENDS ConversationMemory, FiniteSetTheorems, SequenceTheorems, TLAPS

-----------------------------------------------------------------------------
(***************************************************************************)
(* The inductive invariant.                                                *)
(***************************************************************************)
Mine(s) == {m \in Seen(s) : m.run = s}

(* Between two appends a session holds nothing.                            *)
Appending(s) == Working(s) /\ pc[s] # "think"
Quiet(s) == ~Appending(s) => todo[s] = <<>> /\ pending[s] = {} /\ counted[s] = None

(* What a session holds is its own, and finite.                            *)
Held(s) ==
  /\ IsFiniteSet(pending[s])
  /\ \A m \in pending[s] : m.run = s
  /\ \A i \in 1..Len(todo[s]) : todo[s][i].run = s
  /\ counted[s] # None => todo[s] # <<>>
  /\ pending[s] # {} =>
        \E top \in pending[s] : \A m \in pending[s] : m.pos <= top.pos

(* Positions lie below the count, and a count above the run's own ones.    *)
Below(s) ==
  /\ \A m \in pending[s] : m.pos < Cardinality(Seen(s))
  /\ counted[s] # None =>
        /\ counted[s] <= Cardinality(Seen(s))
        /\ \A m \in Mine(s) : m.pos < counted[s]

(* What is to be appended comes after what the run appended.               *)
Later(s) ==
  /\ \A m \in Mine(s), i \in 1..Len(todo[s]) : Earlier(m, todo[s][i])
  /\ \A i, j \in 1..Len(todo[s]) : i < j => Earlier(todo[s][i], todo[s][j])

(* Where the run stands bounds the turns of its messages.                  *)
Asked(m, turn) == m.turn < turn \/ m.call = 0
Progress(s) ==
  /\ pc[s] = "idle" => Mine(s) = {}
  /\ pc[s] \in {"opening", "think", "calling", "pausing", "paused", "resuming"} =>
        /\ \A m \in Mine(s) : m.turn <= turns[s]
        /\ \A i \in 1..Len(todo[s]) : todo[s][i].turn <= turns[s]
  /\ pc[s] \in {"pausing", "paused"} =>
        /\ \A m \in Mine(s) : Asked(m, turns[s])
        /\ \A i \in 1..Len(todo[s]) : Asked(todo[s][i], turns[s])
  /\ BeforeResumeRun(s) =>
        \A m \in msgs : m.run = s => m.turn <= turns[s] /\ Asked(m, turns[s])
  /\ pc[s] = "calling" => saved[s] = 0

(* What a run appended reads in the order it appended it.                  *)
InOrder(s) == \A m, n \in Mine(s) : Earlier(m, n) => m.pos < n.pos

Session(s) == Quiet(s) /\ Held(s) /\ Below(s) /\ Later(s) /\ Progress(s) /\ InOrder(s)

Committed == IsFiniteSet(msgs) /\ \A m \in msgs : m.pos < Cardinality(msgs)

(* Runs that do not overlap number what they see without a gap.            *)
Dense(messages) == {m.pos : m \in messages} = 0..(Cardinality(messages) - 1)
Alone ==
  "overlap" \notin happened =>
    /\ \A r, s \in Run : Working(r) /\ Working(s) => r = s
    /\ Dense(msgs) /\ counter = Cardinality(msgs) /\ Cardinality(msgs) <= HardCap
    /\ \A s \in Run :
         /\ Dense(Seen(s)) /\ Cardinality(Seen(s)) <= HardCap
         /\ counted[s] # None =>
               counted[s] = Cardinality(Seen(s)) /\ Cardinality(Seen(s)) < HardCap
         /\ pending[s] # {} =>
               \E m \in pending[s] : m.pos = Cardinality(Seen(s)) - 1

MemoryInv == TypeOK /\ Committed /\ Alone /\ \A s \in Run : Session(s)

-----------------------------------------------------------------------------
(***************************************************************************)
(* Facts about messages and what a session sees.                           *)
(***************************************************************************)
LEMMA MessageStored ==
  ASSUME NEW s \in Run, NEW role \in {"user", "assistant", "tool"},
         NEW turn \in 0..(MaxTurns + 1), NEW n \in 0..BatchSize, NEW i \in 0..BatchSize
  PROVE  Message(s, role, turn, n, i) \in Stored
BY DEF Message, Stored

LEMMA ResultsStored ==
  ASSUME NEW s \in Run, NEW turn \in 0..MaxTurns, NEW n \in 0..BatchSize
  PROVE  /\ Results(s, turn, n) \in Seq(Stored)
         /\ Len(Results(s, turn, n)) = n
         /\ \A i \in 1..n : /\ Results(s, turn, n)[i].run = s
                            /\ Results(s, turn, n)[i].turn = turn
                            /\ Results(s, turn, n)[i].call = i
<1>1. \A i \in 1..n : Message(s, "tool", turn, 0, i) \in Stored
  BY MessageStored, MemoryAssumption
<1>2. QED
  BY <1>1, MemoryAssumption DEF Results, Message

LEMMA SeenFinite ==
  ASSUME MemoryInv, NEW s \in Run
  PROVE  /\ IsFiniteSet(Seen(s)) /\ Cardinality(Seen(s)) \in Nat
         /\ IsFiniteSet(msgs) /\ Cardinality(msgs) \in Nat
         /\ Cardinality(msgs) <= Cardinality(Seen(s))
         /\ Seen(s) \subseteq Stored
<1>1. IsFiniteSet(msgs) /\ IsFiniteSet(pending[s])
  BY DEF MemoryInv, Committed, Session, Held
<1>2. IsFiniteSet(Seen(s)) /\ msgs \in SUBSET Seen(s)
  BY <1>1, FS_Union DEF Seen
<1>3. Cardinality(msgs) <= Cardinality(Seen(s))
  BY <1>2, FS_Subset
<1>4. QED
  BY <1>1, <1>2, <1>3, FS_CardinalityType DEF MemoryInv, TypeOK, Seen

(* A session that did not move is not disturbed by what does not touch     *)
(* the committed messages.                                                 *)
LEMMA OtherSession ==
  ASSUME MemoryInv, NEW r \in Run, msgs' = msgs,
         pc'[r] = pc[r], todo'[r] = todo[r], counted'[r] = counted[r],
         pending'[r] = pending[r], turns'[r] = turns[r], saved'[r] = saved[r]
  PROVE  Session(r)' /\ Seen(r)' = Seen(r) /\ (Working(r)' <=> Working(r))
<1>1. Seen(r)' = Seen(r) /\ Mine(r)' = Mine(r) /\ (Working(r)' <=> Working(r))
  BY DEF Seen, Mine, Working
<1>2. Session(r)
  BY DEF MemoryInv
<1>3. Quiet(r)' /\ Held(r)'
  BY <1>1, <1>2 DEF Session, Quiet, Held, Appending
<1>4. Below(r)' /\ Later(r)' /\ Progress(r)' /\ InOrder(r)'
  BY <1>1, <1>2 DEF Session, Below, Later, Progress, InOrder, BeforeResumeRun
<1>5. QED
  BY <1>1, <1>3, <1>4 DEF Session

-----------------------------------------------------------------------------
(***************************************************************************)
(* Steps that start something, and end it without a commit.                *)
(***************************************************************************)
PC == {"idle", "opening", "think", "answering", "calling", "pausing", "paused",
       "resuming", "cancelling", "done"}

(* A session that holds nothing takes up the messages of its next step.    *)
LEMMA BeginOk ==
  ASSUME MemoryInv, NEW s \in Run, ~Appending(s),
         NEW doing \in PC, NEW q \in Seq(Stored), Begin(s, doing, q),
         UNCHANGED <<msgs, counter, lock, counted, pending>>,
         turns' \in [Run -> 0..MaxTurns], saved' \in [Run -> 0..BatchSize],
         happened' \subseteq Hazards,
         \A r \in Run \ {s} : turns'[r] = turns[r] /\ saved'[r] = saved[r],
         \A i \in 1..Len(q) : q[i].run = s,
         \A m \in Mine(s), i \in 1..Len(q) : Earlier(m, q[i]),
         \A i, j \in 1..Len(q) : i < j => Earlier(q[i], q[j]),
         doing \in {"idle", "think", "paused", "done"} => q = <<>>,
         Progress(s)',
         "overlap" \notin happened' =>
            "overlap" \notin happened /\ (Working(s) \/ \A r \in Run : ~Working(r))
  PROVE  MemoryInv'
<1>1. /\ pc' = [pc EXCEPT ![s] = doing] /\ todo' = [todo EXCEPT ![s] = q]
      /\ pc'[s] = doing /\ todo'[s] = q
  BY DEF Begin, MemoryInv, TypeOK
<1>2. /\ todo[s] = <<>> /\ pending[s] = {} /\ counted[s] = None
      /\ InOrder(s) /\ Session(s)
  BY DEF MemoryInv, Session, Quiet
<1>3. TypeOK'
  BY <1>1 DEF MemoryInv, TypeOK, PC
<1>4. Committed'
  BY DEF MemoryInv, Committed
<1>5. Seen(s)' = Seen(s) /\ Mine(s)' = Mine(s)
  BY DEF Seen, Mine
<1>6. Session(s)'
  <2>1. Quiet(s)'
    BY <1>1, <1>2 DEF Quiet, Appending, Working
  <2>2. Held(s)' /\ Below(s)' /\ Later(s)' /\ InOrder(s)'
    BY <1>1, <1>2, <1>5 DEF Session, Held, Below, Later, InOrder
  <2>3. QED
    BY <2>1, <2>2 DEF Session
<1>7. ASSUME NEW r \in Run, r # s
      PROVE  Session(r)' /\ Seen(r)' = Seen(r) /\ (Working(r)' <=> Working(r))
  <2>1. pc'[r] = pc[r] /\ todo'[r] = todo[r]
    BY <1>1, <1>7 DEF MemoryInv, TypeOK
  <2>2. QED
    BY <1>7, <2>1, OtherSession
<1>8. Alone'
  <2>1. SUFFICES ASSUME "overlap" \notin happened'
                 PROVE  Alone'
    BY DEF Alone
  <2>2. \A r, t \in Run : Working(r)' /\ Working(t)' => r = t
    BY <1>7, <2>1 DEF MemoryInv, Alone
  <2>3. \A r \in Run : Seen(r)' = Seen(r)
    BY <1>5, <1>7
  <2>4. QED
    BY <2>1, <2>2, <2>3 DEF MemoryInv, Alone, Dense
<1>9. QED
  BY <1>3, <1>4, <1>6, <1>7, <1>8 DEF MemoryInv

LEMMA OpenOk == ASSUME MemoryInv, NEW s \in Run, Open(s) PROVE MemoryInv'
<1> DEFINE q == <<User(s)>>
<1>1. User(s) \in Stored /\ User(s).run = s /\ User(s).turn = 0 /\ User(s).call = 0
  BY MessageStored, MemoryAssumption DEF User, Message
<1>2. q \in Seq(Stored) /\ Len(q) = 1 /\ q[1] = User(s)
  BY <1>1
<1>3. Mine(s) = {} /\ ~Working(s)
  BY DEF MemoryInv, Session, Progress, Open, Working
<1>4. pc'[s] = "opening" /\ todo'[s] = q /\ Mine(s)' = Mine(s) /\ turns[s] \in Nat
  BY DEF Open, Begin, MemoryInv, TypeOK, Mine, Seen
<1>5. Progress(s)'
  BY <1>1, <1>2, <1>3, <1>4 DEF Progress, BeforeResumeRun, Open
<1>6. "overlap" \notin happened' => "overlap" \notin happened /\ \A r \in Run : ~Working(r)
  BY DEF Open, Enter
<1>7. /\ turns' \in [Run -> 0..MaxTurns] /\ saved' \in [Run -> 0..BatchSize]
      /\ happened' \subseteq Hazards
  BY DEF Open, Enter, MemoryInv, TypeOK, Hazards
<1>8. /\ Begin(s, "opening", q)
      /\ UNCHANGED <<msgs, counter, lock, counted, pending, turns, saved>>
  BY DEF Open
<1>9. ~Appending(s) /\ "opening" \in PC
  BY <1>3 DEF Appending, PC
<1>10. /\ \A i \in 1..Len(q) : q[i].run = s
       /\ \A i, j \in 1..Len(q) : i < j => Earlier(q[i], q[j])
       /\ \A m \in Mine(s), i \in 1..Len(q) : Earlier(m, q[i])
  BY <1>1, <1>2, <1>3
<1>11. \A r \in Run \ {s} : turns'[r] = turns[r] /\ saved'[r] = saved[r]
  BY <1>8
<1> HIDE DEF q
<1>12. QED
  BY <1>2, <1>5, <1>6, <1>7, <1>8, <1>9, <1>10, <1>11, BeginOk

LEMMA ResumeOk == ASSUME MemoryInv, NEW s \in Run, Resume(s) PROVE MemoryInv'
<1> DEFINE q == Results(s, turns[s], saved[s])
<1>1. turns[s] \in 0..MaxTurns /\ saved[s] \in 0..BatchSize
  BY DEF MemoryInv, TypeOK
<1>2. /\ q \in Seq(Stored) /\ Len(q) = saved[s]
      /\ \A i \in 1..Len(q) : q[i].run = s /\ q[i].turn = turns[s] /\ q[i].call = i
  BY <1>1, ResultsStored
<1>3. pc[s] = "paused" /\ ~Working(s) /\ pending[s] = {}
  BY DEF Resume, Working, MemoryInv, Session, Quiet, Appending
<1>4. \A m \in Mine(s) : m.turn \in Nat /\ m.turn <= turns[s] /\ Asked(m, turns[s])
  BY <1>3, SeenFinite DEF MemoryInv, Session, Progress, Mine, Stored
<1>5. pc'[s] = "resuming" /\ todo'[s] = q /\ Mine(s)' = Mine(s) /\ turns' = turns
  BY DEF Resume, Begin, MemoryInv, TypeOK, Mine, Seen
<1>6. \A m \in msgs' : m.run = s => m \in Mine(s)
  BY DEF Resume, Mine, Seen
<1>7. Progress(s)'
  BY <1>1, <1>2, <1>4, <1>5, <1>6 DEF Progress, BeforeResumeRun
<1>8. \A m \in Mine(s), i \in 1..Len(q) : Earlier(m, q[i])
  BY <1>1, <1>2, <1>4 DEF Earlier, Asked
<1>9. \A i, j \in 1..Len(q) : i < j => Earlier(q[i], q[j])
  BY <1>2 DEF Earlier
<1>10. "overlap" \notin happened' => "overlap" \notin happened /\ \A r \in Run : ~Working(r)
  BY DEF Resume, Enter
<1>11. /\ turns' \in [Run -> 0..MaxTurns] /\ saved' \in [Run -> 0..BatchSize]
       /\ happened' \subseteq Hazards
  BY DEF Resume, Enter, MemoryInv, TypeOK, Hazards
<1>12. /\ Begin(s, "resuming", q)
       /\ UNCHANGED <<msgs, counter, lock, counted, pending, turns, saved>>
  BY DEF Resume
<1>13. ~Appending(s) /\ "resuming" \in PC
  BY <1>3 DEF Appending, PC
<1> HIDE DEF q
<1>14. QED
  BY <1>2, <1>7, <1>8, <1>9, <1>10, <1>11, <1>12, <1>13, BeginOk

LEMMA ReplyTextOk == ASSUME MemoryInv, NEW s \in Run, ReplyText(s) PROVE MemoryInv'
<1> DEFINE a == Answer(s, turns[s] + 1, 0)
           q == <<a>>
<1>1. turns[s] \in 0..MaxTurns
  BY DEF MemoryInv, TypeOK
<1>2. a \in Stored /\ a.run = s /\ a.turn = turns[s] + 1
  BY <1>1, MessageStored, MemoryAssumption DEF Answer, Message
<1>3. q \in Seq(Stored) /\ Len(q) = 1 /\ q[1] = a
  BY <1>2
<1>4. pc[s] = "think" /\ Working(s) /\ ~Appending(s)
  BY DEF ReplyText, Working, Appending
<1>5. \A m \in Mine(s) : m.turn \in Nat /\ m.turn <= turns[s]
  BY <1>4, SeenFinite DEF MemoryInv, Session, Progress, Mine, Stored
<1>6. pc'[s] = "answering"
  BY DEF ReplyText, Begin, MemoryInv, TypeOK
<1>7. Progress(s)'
  BY <1>6 DEF Progress, BeforeResumeRun
<1>8. /\ \A i \in 1..Len(q) : q[i].run = s
      /\ \A i, j \in 1..Len(q) : i < j => Earlier(q[i], q[j])
      /\ \A m \in Mine(s), i \in 1..Len(q) : Earlier(m, q[i])
  BY <1>1, <1>2, <1>3, <1>5 DEF Earlier
<1>9. /\ Begin(s, "answering", q)
      /\ UNCHANGED <<msgs, counter, lock, counted, pending, turns, saved, happened>>
  BY DEF ReplyText
<1>10. /\ turns' \in [Run -> 0..MaxTurns] /\ saved' \in [Run -> 0..BatchSize]
       /\ happened' \subseteq Hazards
       /\ \A r \in Run \ {s} : turns'[r] = turns[r] /\ saved'[r] = saved[r]
  BY <1>9 DEF MemoryInv, TypeOK
<1>11. "answering" \in PC /\ happened' = happened
  BY <1>9 DEF PC
<1> HIDE DEF q
<1>12. QED
  BY <1>3, <1>4, <1>7, <1>8, <1>9, <1>10, <1>11, BeginOk

LEMMA StopOk == ASSUME MemoryInv, NEW s \in Run, Stop(s) PROVE MemoryInv'
<1>1. Working(s) /\ ~Appending(s)
  BY DEF Stop, Working, Appending
<1>2. pc'[s] = "done"
  BY DEF Stop, Begin, MemoryInv, TypeOK
<1>3. Progress(s)'
  BY <1>2 DEF Progress, BeforeResumeRun
<1>4. /\ Begin(s, "done", <<>>) /\ "done" \in PC
      /\ UNCHANGED <<msgs, counter, lock, counted, pending, turns, saved, happened>>
  BY DEF Stop, PC
<1>5. /\ turns' \in [Run -> 0..MaxTurns] /\ saved' \in [Run -> 0..BatchSize]
      /\ happened' \subseteq Hazards
      /\ \A r \in Run \ {s} : turns'[r] = turns[r] /\ saved'[r] = saved[r]
  BY <1>4 DEF MemoryInv, TypeOK
<1> DEFINE q == <<>>
<1>6. q \in Seq(Stored) /\ Len(q) = 0 /\ Begin(s, "done", q) /\ q = <<>>
  BY <1>4
<1>7. 1..Len(q) = {}
  BY <1>6
<1> HIDE DEF q
<1>8. QED
  BY <1>1, <1>3, <1>4, <1>5, <1>6, <1>7, BeginOk

LEMMA ReplyCallsOk ==
  ASSUME MemoryInv, NEW s \in Run, NEW n \in 1..BatchSize,
         NEW doing \in {"calling", "pausing"}, ReplyCalls(s, n, doing)
  PROVE  MemoryInv'
<1> DEFINE turn == turns[s] + 1
           a == Answer(s, turn, n)
           rs == Results(s, turn, n)
           q == IF doing = "pausing" THEN <<a>> ELSE <<a>> \o rs
<1>1. turns[s] \in Nat /\ turn \in 1..MaxTurns /\ n \in 0..BatchSize
  BY MemoryAssumption DEF MemoryInv, TypeOK, ReplyCalls
<1>2. a \in Stored /\ a.run = s /\ a.turn = turn /\ a.call = 0
  BY <1>1, MessageStored, MemoryAssumption DEF Answer, Message
<1>3. /\ rs \in Seq(Stored) /\ Len(rs) = n
      /\ \A i \in 1..n : rs[i].run = s /\ rs[i].turn = turn /\ rs[i].call = i
  BY <1>1, ResultsStored
<1>4. <<a>> \in Seq(Stored) /\ Len(<<a>>) = 1 /\ <<a>>[1] = a
  BY <1>2
<1>5. /\ q \in Seq(Stored) /\ Len(q) \in Nat
      /\ doing = "pausing" => Len(q) = 1
      /\ \A i \in 1..Len(q) : q[i].run = s /\ q[i].turn = turn /\ q[i].call = i - 1
  <2>1. CASE doing = "pausing"
    BY <1>2, <1>4, <2>1
  <2>2. CASE doing # "pausing"
    <3> HIDE DEF a, rs
    <3>1. q = <<a>> \o rs
      BY <2>2
    <3>2. /\ q \in Seq(Stored) /\ Len(q) = 1 + n
          /\ \A i \in 1..(1 + n) : q[i] = IF i <= 1 THEN a ELSE rs[i - 1]
      BY <1>3, <1>4, <3>1, ConcatProperties
    <3>3. ASSUME NEW i \in 1..(1 + n)
          PROVE  q[i].run = s /\ q[i].turn = turn /\ q[i].call = i - 1
      <4>1. CASE i = 1
        BY <1>2, <3>2, <4>1
      <4>2. CASE i # 1
        <5>1. i - 1 \in 1..n /\ q[i] = rs[i - 1]
          BY <1>1, <3>2, <4>2
        <5>2. QED
          BY <1>3, <5>1
      <4>3. QED
        BY <4>1, <4>2
    <3>4. QED
      BY <1>1, <2>2, <3>2, <3>3
  <2>3. QED
    BY <2>1, <2>2
<1>6. pc[s] = "think" /\ Working(s) /\ ~Appending(s)
  BY DEF ReplyCalls, Working, Appending
<1>7. \A m \in Mine(s) : m.turn \in Nat /\ m.turn <= turns[s]
  BY <1>6, SeenFinite DEF MemoryInv, Session, Progress, Mine, Stored
<1>8. /\ Begin(s, doing, q) /\ doing \in PC
      /\ UNCHANGED <<msgs, counter, lock, counted, pending>>
      /\ turns' = [turns EXCEPT ![s] = turn]
  BY DEF ReplyCalls, PC
<1>9. pc'[s] = doing /\ todo'[s] = q /\ turns'[s] = turn /\ Mine(s)' = Mine(s)
  BY <1>8 DEF Begin, MemoryInv, TypeOK, Mine, Seen
<1>10. /\ turns' \in [Run -> 0..MaxTurns] /\ saved' \in [Run -> 0..BatchSize]
       /\ happened' \subseteq Hazards
       /\ \A r \in Run \ {s} : turns'[r] = turns[r] /\ saved'[r] = saved[r]
       /\ "overlap" \notin happened' => "overlap" \notin happened
       /\ doing = "calling" => saved'[s] = 0
  <2>1. turn \in 0..MaxTurns /\ turns \in [Run -> 0..MaxTurns]
    BY <1>1 DEF MemoryInv, TypeOK
  <2>2. turns' \in [Run -> 0..MaxTurns] /\ \A r \in Run \ {s} : turns'[r] = turns[r]
    BY <1>8, <2>1
  <2>3. (IF doing = "pausing" THEN n ELSE 0) \in 0..BatchSize
    <3>1. n \in 0..BatchSize /\ 0 \in 0..BatchSize
      BY <1>1, MemoryAssumption
    <3>2. QED
      BY <3>1, Zenon
  <2>4. /\ saved' \in [Run -> 0..BatchSize]
        /\ doing = "calling" => saved'[s] = 0
        /\ \A r \in Run \ {s} : saved'[r] = saved[r]
    BY <2>3 DEF ReplyCalls, MemoryInv, TypeOK
  <2>5. happened' \in {happened, happened \cup {"pause"}}
    BY DEF ReplyCalls
  <2>6. QED
    BY <2>2, <2>4, <2>5 DEF MemoryInv, TypeOK, Hazards
<1> HIDE DEF q
<1>11. Progress(s)'
  <2>1. \A m \in Mine(s) : m.turn <= turn /\ m.turn < turn
    BY <1>1, <1>7
  <2>2. \A i \in 1..Len(q) : q[i].turn <= turn
    BY <1>1, <1>5
  <2>3. ASSUME doing = "pausing", NEW i \in 1..Len(q)
        PROVE  q[i].call = 0
    <3>1. Len(q) = 1
      BY <1>5, <2>3
    <3>2. i = 1
      BY <3>1
    <3>3. q[i].call = i - 1
      BY <1>5
    <3>4. QED
      BY <3>2, <3>3
  <2>4. QED
    BY <1>9, <1>10, <2>1, <2>2, <2>3 DEF Progress, Asked, BeforeResumeRun
<1>12. /\ \A i, j \in 1..Len(q) : i < j => Earlier(q[i], q[j])
       /\ \A m \in Mine(s), i \in 1..Len(q) : Earlier(m, q[i])
  BY <1>1, <1>5, <1>7 DEF Earlier
<1>13. QED
  BY <1>5, <1>6, <1>8, <1>10, <1>11, <1>12, BeginOk

LEMMA CancelBatchOk == ASSUME MemoryInv, NEW s \in Run, CancelBatch(s) PROVE MemoryInv'
<1>1. /\ pc' = [pc EXCEPT ![s] = "cancelling"] /\ todo' = [todo EXCEPT ![s] = <<>>]
      /\ UNCHANGED <<msgs, counter, lock, counted, pending, turns, saved>>
      /\ happened' = happened \cup {"cancel"} /\ counted[s] = None
      /\ Working(s) /\ Session(s)
  BY DEF CancelBatch, Begin, Working, MemoryInv
<1>2. pc'[s] = "cancelling" /\ todo'[s] = <<>> /\ Working(s)'
  BY <1>1 DEF MemoryInv, TypeOK, Working
<1>3. TypeOK'
  BY <1>1 DEF MemoryInv, TypeOK, Hazards
<1>4. Seen(s)' = Seen(s) /\ Mine(s)' = Mine(s)
  BY <1>1 DEF Seen, Mine
<1>5. Session(s)'
  <2>1. Quiet(s)' /\ Held(s)' /\ Later(s)'
    BY <1>1, <1>2 DEF Session, Quiet, Held, Later, Appending, Working
  <2>2. Below(s)' /\ InOrder(s)'
    BY <1>1, <1>4 DEF Session, Below, InOrder
  <2>3. Progress(s)'
    <3>1. saved[s] > 0 => pc[s] # "calling"
      BY <1>1 DEF Session, Progress
    <3>2. saved[s] > 0 => BeforeResumeRun(s)
      BY <3>1 DEF CancelBatch, BeforeResumeRun
    <3>3. QED
      BY <1>1, <1>2, <3>2 DEF Session, Progress, BeforeResumeRun
  <2>4. QED
    BY <2>1, <2>2, <2>3 DEF Session
<1>6. ASSUME NEW r \in Run, r # s
      PROVE  Session(r)' /\ Seen(r)' = Seen(r) /\ (Working(r)' <=> Working(r))
  <2>1. pc'[r] = pc[r] /\ todo'[r] = todo[r]
    BY <1>1, <1>6 DEF MemoryInv, TypeOK
  <2>2. QED
    BY <1>1, <1>6, <2>1, OtherSession
<1>7. Alone'
  <2>1. \A r \in Run : Seen(r)' = Seen(r) /\ (Working(r)' <=> Working(r))
    BY <1>1, <1>2, <1>4, <1>6
  <2>2. QED
    BY <1>1, <2>1 DEF MemoryInv, Alone, Dense
<1>8. Committed'
  BY <1>1 DEF MemoryInv, Committed
<1>9. QED
  BY <1>3, <1>5, <1>6, <1>7, <1>8 DEF MemoryInv

LEMMA RollbackOk ==
  ASSUME MemoryInv, NEW s \in Run, Working(s), Rollback(s)
  PROVE  MemoryInv'
<1>1. /\ UNCHANGED <<msgs, counter, turns, saved, happened>>
      /\ todo'[s] = <<>> /\ pending'[s] = {} /\ counted'[s] = None
      /\ pc'[s] = (IF BeforeResumeRun(s) THEN "paused" ELSE "done")
      /\ \A r \in Run \ {s} : /\ pc'[r] = pc[r] /\ todo'[r] = todo[r]
                              /\ pending'[r] = pending[r] /\ counted'[r] = counted[r]
  BY DEF Rollback, MemoryInv, TypeOK
<1>2. TypeOK'
  <2>1. \A r \in Run : pending'[r] # {} => lock' = r
    BY <1>1 DEF Rollback, MemoryInv, TypeOK
  <2>2. QED
    BY <2>1 DEF Rollback, MemoryInv, TypeOK
<1>3. Seen(s)' = msgs /\ ~Working(s)' /\ Mine(s)' \subseteq Mine(s)
  BY <1>1 DEF Seen, Working, Mine
<1>4. Session(s)'
  <2>1. Session(s)
    BY DEF MemoryInv
  <2>2. Quiet(s)' /\ Below(s)' /\ Later(s)'
    BY <1>1 DEF Quiet, Below, Later
  <2>3. Held(s)'
    BY <1>1, FS_EmptySet DEF Held
  <2>4. InOrder(s)'
    BY <1>3, <2>1 DEF Session, InOrder
  <2>5. Mine(s)' = {m \in msgs : m.run = s}
    BY <1>3 DEF Mine
  <2>6. Progress(s)'
    BY <1>1, <1>3, <2>1, <2>5 DEF Session, Progress, BeforeResumeRun
  <2>7. QED
    BY <2>2, <2>3, <2>4, <2>6 DEF Session
<1>5. ASSUME NEW r \in Run, r # s
      PROVE  Session(r)' /\ Seen(r)' = Seen(r) /\ (Working(r)' <=> Working(r))
  BY <1>1, <1>5, OtherSession
<1>6. Alone'
  <2>1. \A r, t \in Run : Working(r)' /\ Working(t)' => Working(r) /\ Working(t)
    BY <1>3, <1>5
  <2>2. QED
    BY <1>1, <1>3, <1>5, <2>1 DEF MemoryInv, Alone, Dense
<1>7. Committed'
  BY <1>1 DEF MemoryInv, Committed
<1>8. QED
  BY <1>2, <1>4, <1>5, <1>6, <1>7 DEF MemoryInv

-----------------------------------------------------------------------------
(***************************************************************************)
(* append_message and commit.                                              *)
(***************************************************************************)
LEMMA CountOk == ASSUME MemoryInv, NEW s \in Run, Count(s) PROVE MemoryInv'
<1> DEFINE n == Cardinality(Seen(s))
<1>1. /\ todo[s] # <<>> /\ n \in Nat /\ n < HardCap
      /\ UNCHANGED <<msgs, counter, lock, pc, todo, pending, turns, saved, happened>>
      /\ counted'[s] = n /\ Session(s)
      /\ \A r \in Run \ {s} : counted'[r] = counted[r]
  BY SeenFinite, MemoryAssumption DEF Count, Full, MemoryInv, TypeOK
<1>2. TypeOK'
  BY <1>1 DEF Count, MemoryInv, TypeOK
<1>3. Seen(s)' = Seen(s) /\ Mine(s)' = Mine(s)
  BY <1>1 DEF Seen, Mine
<1>4. \A m \in Mine(s) : m.pos < n
  <2>1. \A m \in msgs : m \in Seen(s) /\ m.pos \in Nat /\ m.pos < Cardinality(msgs)
    BY SeenFinite DEF MemoryInv, Committed, Stored, Seen
  <2>2. Cardinality(msgs) <= n /\ Cardinality(msgs) \in Nat
    BY SeenFinite
  <2>3. \A m \in msgs : m.pos < n
    BY <1>1, <2>1, <2>2
  <2>4. \A m \in pending[s] : m.pos < n
    BY <1>1 DEF Session, Below
  <2>5. QED
    BY <2>3, <2>4 DEF Mine, Seen
<1>5. Session(s)'
  <2>1. Below(s)'
    BY <1>1, <1>3, <1>4 DEF Session, Below
  <2>2. Held(s)' /\ Later(s)' /\ Progress(s)' /\ InOrder(s)'
    BY <1>1, <1>3 DEF Session, Held, Later, Progress, InOrder, BeforeResumeRun
  <2>3. Quiet(s)'
    BY <1>1 DEF Session, Quiet, Appending, Working
  <2>4. QED
    BY <2>1, <2>2, <2>3 DEF Session
<1>6. ASSUME NEW r \in Run, r # s
      PROVE  Session(r)' /\ Seen(r)' = Seen(r) /\ (Working(r)' <=> Working(r))
  BY <1>1, <1>6, OtherSession
<1>7. Alone'
  <2>1. \A r \in Run : Seen(r)' = Seen(r) /\ (Working(r)' <=> Working(r))
    BY <1>1, <1>3, <1>6 DEF Working
  <2>2. QED
    BY <1>1, <2>1 DEF MemoryInv, Alone, Dense
<1>8. Committed'
  BY <1>1 DEF MemoryInv, Committed
<1>9. QED
  BY <1>2, <1>5, <1>6, <1>7, <1>8 DEF MemoryInv

LEMMA InsertOk == ASSUME MemoryInv, NEW s \in Run, Insert(s) PROVE MemoryInv'
<1> DEFINE h == todo[s][1]
           c == counted[s]
           x == [h EXCEPT !.pos = c]
           n == Cardinality(Seen(s))
<1>1. /\ c # None /\ lock \in {None, s} /\ lock' = s
      /\ UNCHANGED <<msgs, counter, pc, turns, saved, happened>>
      /\ Session(s) /\ todo[s] \in Seq(Stored) /\ todo[s] # <<>>
  BY DEF Insert, MemoryInv, TypeOK, Session, Held
<1>2. /\ Tail(todo[s]) \in Seq(Stored) /\ Len(todo[s]) \in Nat \ {0}
      /\ Len(Tail(todo[s])) = Len(todo[s]) - 1
      /\ \A i \in 1..Len(Tail(todo[s])) : Tail(todo[s])[i] = todo[s][i + 1]
      /\ Head(todo[s]) = h /\ h \in Stored
  BY <1>1, HeadTailProperties, EmptySeq, ElementOfSeq
<1>3. c \in Nat /\ n \in Nat /\ c <= n /\ \A m \in Mine(s) : m.pos < c
  BY <1>1, SeenFinite DEF Session, Below, MemoryInv, TypeOK
<1>4. /\ x \in Stored /\ x.pos = c /\ x.run = s /\ x.turn = h.turn /\ x.call = h.call
  <2>1. h.run = s
    BY <1>1, <1>2 DEF Session, Held
  <2>2. QED
    BY <1>2, <1>3, <2>1 DEF Stored
<1> HIDE DEF x
<1>5. /\ pending' = [pending EXCEPT ![s] = @ \cup {x}]
      /\ todo' = [todo EXCEPT ![s] = Tail(@)]
      /\ counted' = [counted EXCEPT ![s] = None]
      /\ pending'[s] = pending[s] \cup {x} /\ todo'[s] = Tail(todo[s]) /\ counted'[s] = None
      /\ \A r \in Run \ {s} : /\ todo'[r] = todo[r] /\ pending'[r] = pending[r]
                              /\ counted'[r] = counted[r]
  BY <1>2 DEF x, Insert, MemoryInv, TypeOK
<1>6. TypeOK'
  <2>1. \A r \in Run : pending'[r] # {} => lock' = r
    BY <1>1, <1>5, MemoryAssumption DEF MemoryInv, TypeOK
  <2>2. pending' \in [Run -> SUBSET Stored]
    BY <1>4, <1>5 DEF MemoryInv, TypeOK
  <2>3. todo' \in [Run -> Seq(Stored)]
    BY <1>2, <1>5 DEF MemoryInv, TypeOK
  <2>4. counted' \in [Run -> Nat \cup {None}]
    BY <1>5 DEF MemoryInv, TypeOK
  <2>5. QED
    BY <1>1, <2>1, <2>2, <2>3, <2>4 DEF MemoryInv, TypeOK
<1>7. /\ Seen(s)' = Seen(s) \cup {x} /\ Mine(s)' = Mine(s) \cup {x}
      /\ x \notin Seen(s)
  <2>1. Seen(s)' = Seen(s) \cup {x}
    BY <1>1, <1>5 DEF Seen
  <2>2. x \notin Mine(s)
    BY <1>3, <1>4
  <2>3. QED
    BY <1>4, <2>1, <2>2 DEF Mine
<1>8. Cardinality(Seen(s)') = n + 1 /\ IsFiniteSet(pending[s] \cup {x})
  <2>1. IsFiniteSet(Seen(s)) /\ IsFiniteSet(pending[s])
    BY <1>1, SeenFinite DEF Session, Held
  <2>2. QED
    BY <1>7, <2>1, FS_AddElement
<1>9. Appending(s) /\ (Working(s)' <=> Working(s)) /\ Appending(s)'
  BY <1>1 DEF Session, Quiet, Appending, Working
<1>10. 1 \in 1..Len(todo[s]) /\ \A m \in Mine(s) : Earlier(m, h) /\ m.pos \in Nat
  <2>1. 1 \in 1..Len(todo[s])
    BY <1>2
  <2>2. \A m \in Mine(s) : Earlier(m, h)
    BY <1>1, <2>1 DEF Session, Later
  <2>3. \A m \in Mine(s) : m.pos \in Nat
    BY SeenFinite DEF Mine, Stored
  <2>4. QED
    BY <2>1, <2>2, <2>3
<1>11. \A i \in 1..Len(todo'[s]) : i + 1 \in 1..Len(todo[s]) /\ todo'[s][i] = todo[s][i + 1]
  <2>1. Len(todo'[s]) = Len(todo[s]) - 1 /\ Len(todo[s]) \in Nat
    BY <1>2, <1>5
  <2>2. \A i \in 1..Len(todo'[s]) : i + 1 \in 1..Len(todo[s])
    BY <2>1
  <2>3. \A i \in 1..Len(todo'[s]) : todo'[s][i] = todo[s][i + 1]
    BY <1>2, <1>5
  <2>4. QED
    BY <2>2, <2>3
<1>12. Held(s)'
  <2>1. \E top \in pending'[s] : \A m \in pending'[s] : m.pos <= top.pos
    <3>1. CASE pending[s] = {}
      BY <1>3, <1>4, <1>5, <3>1
    <3>2. CASE pending[s] # {}
      <4>1. PICK top \in pending[s] : \A m \in pending[s] : m.pos <= top.pos
        BY <1>1, <3>2 DEF Session, Held
      <4>2. \A m \in pending[s] : m.run = s /\ m \in Mine(s)
        BY <1>1 DEF Session, Held, Mine, Seen
      <4>3. \A m \in pending[s] : m.pos <= c /\ m.pos \in Nat
        BY <1>3, <1>10, <4>2
      <4>4. QED
        BY <1>3, <1>4, <1>5, <4>3
    <3>3. QED
      BY <3>1, <3>2
  <2>2. \A m \in pending'[s] : m.run = s
    BY <1>1, <1>4, <1>5 DEF Session, Held
  <2>3. \A i \in 1..Len(todo'[s]) : todo'[s][i].run = s
    BY <1>1, <1>11 DEF Session, Held
  <2>4. QED
    BY <1>5, <1>8, <2>1, <2>2, <2>3 DEF Held
<1>13. Below(s)'
  <2>1. \A m \in pending[s] : m.pos \in Nat /\ m.pos < n
    BY <1>1, SeenFinite DEF Session, Below, Seen, Stored
  <2>2. QED
    BY <1>3, <1>4, <1>5, <1>8, <2>1 DEF Below
<1>14. Later(s)'
  <2>1. ASSUME NEW m \in Mine(s)', NEW i \in 1..Len(todo'[s])
        PROVE  Earlier(m, todo'[s][i])
    <3>1. CASE m = x
      <4>1. Earlier(h, todo[s][i + 1])
        BY <1>1, <1>2, <1>10, <1>11 DEF Session, Later
      <4>2. QED
        BY <1>4, <1>11, <3>1, <4>1 DEF Earlier
    <3>2. CASE m \in Mine(s)
      BY <1>1, <1>11, <3>2 DEF Session, Later
    <3>3. QED
      BY <1>7, <3>1, <3>2
  <2>2. ASSUME NEW i \in 1..Len(todo'[s]), NEW j \in 1..Len(todo'[s]), i < j
        PROVE  Earlier(todo'[s][i], todo'[s][j])
    BY <1>1, <1>11, <2>2 DEF Session, Later
  <2>3. QED
    BY <2>1, <2>2 DEF Later
<1>15. Progress(s)'
  <2>1. pc[s] # "idle" /\ pc'[s] = pc[s] /\ turns'[s] = turns[s]
    BY <1>1, <1>9 DEF Appending, Working
  <2>2. pc[s] \in {"opening", "think", "calling", "pausing", "paused", "resuming"} =>
           /\ \A m \in Mine(s)' : m.turn <= turns[s]
           /\ \A i \in 1..Len(todo'[s]) : todo'[s][i].turn <= turns[s]
    BY <1>1, <1>4, <1>7, <1>10, <1>11 DEF Session, Progress
  <2>3. pc[s] \in {"pausing", "paused"} =>
           /\ \A m \in Mine(s)' : Asked(m, turns[s])
           /\ \A i \in 1..Len(todo'[s]) : Asked(todo'[s][i], turns[s])
    BY <1>1, <1>4, <1>7, <1>10, <1>11 DEF Session, Progress, Asked
  <2>4. QED
    BY <1>1, <2>1, <2>2, <2>3 DEF Session, Progress, BeforeResumeRun
<1>16. InOrder(s)'
  <2>1. SUFFICES ASSUME NEW m \in Mine(s)', NEW k \in Mine(s)', Earlier(m, k)
                 PROVE  m.pos < k.pos
    BY DEF InOrder
  <2>2. \A q \in Mine(s) : /\ q.turn \in Nat /\ q.call \in Nat
    BY MemoryAssumption, SeenFinite DEF Mine, Stored
  <2>3. x.turn \in Nat /\ x.call \in Nat
    BY <1>4, MemoryAssumption DEF Stored
  <2>4. CASE k = x
    <3>1. m # x
      BY <2>1, <2>3, <2>4 DEF Earlier
    <3>2. QED
      BY <1>3, <1>4, <1>7, <2>4, <3>1
  <2>5. CASE k \in Mine(s) /\ m = x
    <3>1. Earlier(k, x)
      BY <1>4, <1>10, <2>5 DEF Earlier
    <3>2. QED
      BY <2>1, <2>2, <2>3, <2>5, <3>1 DEF Earlier
  <2>6. CASE k \in Mine(s) /\ m \in Mine(s)
    BY <1>1, <2>1, <2>6 DEF Session, InOrder
  <2>7. QED
    BY <1>7, <2>4, <2>5, <2>6
<1>17. Session(s)'
  BY <1>9, <1>12, <1>13, <1>14, <1>15, <1>16 DEF Session, Quiet
<1>18. ASSUME NEW r \in Run, r # s
       PROVE  Session(r)' /\ Seen(r)' = Seen(r) /\ (Working(r)' <=> Working(r))
  BY <1>1, <1>5, <1>18, OtherSession
<1>19. Alone'
  <2>1. SUFFICES ASSUME "overlap" \notin happened
                 PROVE  Alone'
    BY <1>1 DEF Alone
  <2>2. c = n /\ n < HardCap /\ Dense(Seen(s))
    BY <1>1, <2>1 DEF MemoryInv, Alone
  <2>3. Dense(Seen(s)')
    <3>1. {m.pos : m \in Seen(s)'} = {m.pos : m \in Seen(s)} \cup {c}
      BY <1>4, <1>7
    <3>2. (0..(n - 1)) \cup {n} = 0..n /\ (n + 1) - 1 = n
      BY <1>3
    <3>3. QED
      BY <1>8, <2>2, <3>1, <3>2 DEF Dense
  <2>4. \A r \in Run : Working(r)' <=> Working(r)
    BY <1>9, <1>18
  <2>5. Cardinality(Seen(s)') <= HardCap /\ x.pos = Cardinality(Seen(s)') - 1 /\ x \in pending'[s]
    BY <1>3, <1>4, <1>5, <1>8, <2>2, MemoryAssumption
  <2>6. /\ \A r, t \in Run : Working(r)' /\ Working(t)' => r = t
        /\ Dense(msgs)' /\ (counter = Cardinality(msgs))' /\ (Cardinality(msgs) <= HardCap)'
    BY <1>1, <2>1, <2>4 DEF MemoryInv, Alone, Dense
  <2>7. ASSUME NEW r \in Run
        PROVE  /\ Dense(Seen(r)') /\ Cardinality(Seen(r)') <= HardCap
               /\ counted'[r] # None => /\ counted'[r] = Cardinality(Seen(r)')
                                        /\ Cardinality(Seen(r)') < HardCap
               /\ pending'[r] # {} =>
                     \E m \in pending'[r] : m.pos = Cardinality(Seen(r)') - 1
    <3>1. CASE r = s
      BY <1>5, <2>3, <2>5, <3>1
    <3>2. CASE r # s
      BY <1>5, <1>18, <2>1, <3>2 DEF MemoryInv, Alone
    <3>3. QED
      BY <3>1, <3>2
  <2>8. QED
    BY <2>6, <2>7 DEF Alone, Dense
<1>20. Committed'
  BY <1>1 DEF MemoryInv, Committed
<1>21. QED
  BY <1>6, <1>17, <1>18, <1>19, <1>20 DEF MemoryInv

(* What a session has not committed ends below what it sees: the highest    *)
(* position is the one the counter is set to.                              *)
LEMMA CounterOfCommit ==
  ASSUME MemoryInv, NEW s \in Run, CommitAt(s)
  PROVE  /\ counter' \in Nat
         /\ "overlap" \notin happened => counter' = Cardinality(Seen(s))
<1> DEFINE n == Cardinality(Seen(s))
           P == {m.pos : m \in pending[s]}
           Top(p) == \A m \in pending[s] : m.pos <= p
<1>1. /\ n \in Nat /\ Session(s)
      /\ \A m \in pending[s] : m.pos \in Nat /\ m.pos < n
  BY SeenFinite DEF MemoryInv, Session, Below, Seen, Stored
<1>2. CASE pending[s] = {}
  <2>1. counter' = counter /\ Seen(s) = msgs
    BY <1>2 DEF CommitAt, Seen
  <2>2. QED
    BY <2>1 DEF MemoryInv, TypeOK, Alone
<1>3. CASE pending[s] # {}
  <2>1. \E p \in P : Top(p)
    BY <1>1, <1>3 DEF Session, Held
  <2>2. PICK p \in P : Top(p) /\ counter' = 1 + p
    <3>1. counter' = 1 + (CHOOSE p \in P : Top(p))
      BY <1>3 DEF CommitAt
    <3>2. QED
      BY <2>1, <3>1
  <2>3. p \in Nat /\ p < n
    BY <1>1, <2>2
  <2>4. ASSUME "overlap" \notin happened
        PROVE  1 + p = n
    <3>1. PICK m \in pending[s] : m.pos = n - 1
      BY <1>3, <2>4 DEF MemoryInv, Alone
    <3>2. n - 1 <= p
      BY <2>2, <3>1
    <3>3. QED
      BY <1>1, <2>3, <3>2
  <2>5. QED
    BY <2>2, <2>3, <2>4
<1>4. QED
  BY <1>2, <1>3

LEMMA CommitOk == ASSUME MemoryInv, NEW s \in Run, Commit(s) PROVE MemoryInv'
<1>1. /\ msgs' = Seen(s) /\ pending' = [pending EXCEPT ![s] = {}]
      /\ pc' = [pc EXCEPT ![s] = After(pc[s])]
      /\ UNCHANGED <<todo, counted, turns, saved, happened>>
      /\ CommitAt(s) /\ Working(s) /\ pc[s] # "think" /\ todo[s] = <<>> /\ Session(s)
  BY DEF Commit, CommitAt, Seen, MemoryInv
<1>2. pc[s] \in {"opening", "answering", "calling", "pausing", "resuming", "cancelling"}
  BY <1>1 DEF Working, MemoryInv, TypeOK
<1>3. /\ After(pc[s]) \in {"think", "paused", "done"}
      /\ After(pc[s]) = "think" => pc[s] \in {"opening", "calling", "resuming"}
      /\ After(pc[s]) = "paused" => pc[s] = "pausing"
  BY <1>2 DEF After
<1>4. /\ pc'[s] = After(pc[s]) /\ pending'[s] = {} /\ counted[s] = None
      /\ \A r \in Run \ {s} : pc'[r] = pc[r] /\ pending'[r] = pending[r]
  BY <1>1 DEF MemoryInv, TypeOK, Session, Held
<1>5. TypeOK'
  <2>1. counter' \in Nat /\ msgs' \subseteq Stored
    BY <1>1, CounterOfCommit, SeenFinite
  <2>2. lock' = IF lock = s THEN None ELSE lock
    BY <1>1 DEF CommitAt
  <2>3. \A r \in Run : pending'[r] # {} => lock' = r
    BY <1>4, <2>2 DEF MemoryInv, TypeOK
  <2>4. pc' \in [Run -> {"idle", "opening", "think", "answering", "calling",
                         "pausing", "paused", "resuming", "cancelling", "done"}]
    BY <1>1, <1>3 DEF MemoryInv, TypeOK
  <2>5. pending' \in [Run -> SUBSET Stored] /\ lock' \in Run \cup {None}
    BY <1>1, <2>2 DEF MemoryInv, TypeOK
  <2>6. QED
    BY <1>1, <2>1, <2>3, <2>4, <2>5 DEF MemoryInv, TypeOK
<1>6. Seen(s)' = Seen(s) /\ Mine(s)' = Mine(s)
  BY <1>1, <1>4 DEF Seen, Mine
<1>7. Committed'
  <2>1. IsFiniteSet(msgs)'
    BY <1>1, SeenFinite
  <2>2. \A m \in msgs : m.pos \in Nat /\ m.pos < Cardinality(msgs)
    BY SeenFinite DEF MemoryInv, Committed, Stored, Seen
  <2>3. \A m \in pending[s] : m.pos < Cardinality(Seen(s))
    BY <1>1 DEF Session, Below
  <2>4. Cardinality(msgs) <= Cardinality(Seen(s)) /\ Cardinality(msgs) \in Nat
        /\ Cardinality(Seen(s)) \in Nat
    BY SeenFinite
  <2>5. \A m \in msgs : m.pos < Cardinality(Seen(s))
    BY <2>2, <2>4
  <2>6. \A m \in Seen(s) : m.pos < Cardinality(Seen(s))
    BY <2>3, <2>5 DEF Seen
  <2>7. QED
    BY <1>1, <2>1, <2>6 DEF Committed
<1>8. Session(s)'
  <2>1. Quiet(s)' /\ Below(s)' /\ Later(s)'
    BY <1>1, <1>4 DEF Quiet, Below, Later
  <2>2. Held(s)'
    <3>1. todo'[s] = <<>> /\ counted'[s] = None /\ pending'[s] = {}
      BY <1>1, <1>4
    <3>2. QED
      BY <3>1, FS_EmptySet DEF Held
  <2>3. InOrder(s)'
    BY <1>1, <1>6 DEF Session, InOrder
  <2>4. Progress(s)'
    BY <1>1, <1>3, <1>4, <1>6 DEF Session, Progress, BeforeResumeRun
  <2>5. QED
    BY <2>1, <2>2, <2>3, <2>4 DEF Session
<1>9. ASSUME NEW r \in Run, r # s
      PROVE  /\ Session(r)' /\ (Working(r)' <=> Working(r))
             /\ pending[r] = {} => Seen(r)' = Seen(s)
  <2>1. pc'[r] = pc[r] /\ pending'[r] = pending[r] /\ (Working(r)' <=> Working(r))
    BY <1>4, <1>9 DEF Working
  <2>2. Seen(r)' = Seen(r) \cup pending[s]
    BY <1>1, <2>1 DEF Seen
  <2>3. Session(r) /\ \A m \in pending[s] : m.run # r
    BY <1>1, <1>9 DEF MemoryInv, Session, Held
  <2>4. Mine(r)' = Mine(r)
    BY <2>2, <2>3 DEF Mine
  <2>5. /\ Cardinality(Seen(r)) <= Cardinality(Seen(r)')
        /\ Cardinality(Seen(r)) \in Nat /\ Cardinality(Seen(r)') \in Nat
    <3>1. IsFiniteSet(Seen(r)) /\ IsFiniteSet(pending[s])
      BY <1>1, SeenFinite DEF Session, Held
    <3>2. IsFiniteSet(Seen(r)') /\ Seen(r) \in SUBSET Seen(r)'
      BY <2>2, <3>1, FS_Union
    <3>3. QED
      BY <3>1, <3>2, FS_Subset, FS_CardinalityType
  <2>6. Below(r)'
    <3>1. \A m \in pending[r] : m.pos \in Nat /\ m.pos < Cardinality(Seen(r))
      BY <2>3, SeenFinite DEF Session, Below, Seen, Stored
    <3>2. counted[r] # None => counted[r] \in Nat
      BY DEF MemoryInv, TypeOK
    <3>3. counted[r] # None => counted[r] <= Cardinality(Seen(r)')
      BY <2>3, <2>5, <3>2 DEF Session, Below
    <3>4. \A m \in pending'[r] : m.pos < Cardinality(Seen(r)')
      BY <2>1, <2>5, <3>1
    <3>5. QED
      BY <1>1, <2>3, <2>4, <3>3, <3>4 DEF Session, Below
  <2>7. Quiet(r)' /\ Held(r)' /\ Later(r)' /\ InOrder(r)'
    BY <1>1, <2>1, <2>3, <2>4 DEF Session, Quiet, Held, Later, InOrder, Appending, Working
  <2>8. \A m \in msgs' : m.run = r => m \in msgs
    BY <1>1, <2>3 DEF Seen
  <2>9. Progress(r)'
    BY <1>1, <2>1, <2>3, <2>4, <2>8 DEF Session, Progress, BeforeResumeRun
  <2>10. QED
    BY <1>1, <2>1, <2>6, <2>7, <2>9 DEF Session, Seen
<1>10. Alone'
  <2>1. SUFFICES ASSUME "overlap" \notin happened
                 PROVE  Alone'
    BY <1>1 DEF Alone
  <2>2. \A r \in Run : r # s => ~Working(r)
    BY <1>1, <2>1 DEF MemoryInv, Alone
  <2>3. ASSUME NEW r \in Run, r # s
        PROVE  pending[r] = {} /\ counted[r] = None /\ Seen(r)' = Seen(s)
    BY <1>9, <2>2, <2>3 DEF MemoryInv, Session, Quiet, Appending
  <2>4. /\ \A r \in Run : Seen(r)' = Seen(s) /\ pending'[r] = {} /\ counted'[r] = None
        /\ Dense(Seen(s)) /\ Cardinality(Seen(s)) <= HardCap
    BY <1>1, <1>4, <1>6, <2>1, <2>3 DEF MemoryInv, Alone
  <2>5. \A r, t \in Run : Working(r)' /\ Working(t)' => r = t
    BY <1>9, <2>2
  <2>6. counter' = Cardinality(Seen(s))
    BY <1>1, <2>1, CounterOfCommit
  <2>7. QED
    BY <1>1, <2>4, <2>5, <2>6 DEF Alone, Dense
<1>11. QED
  BY <1>5, <1>7, <1>8, <1>9, <1>10 DEF MemoryInv

-----------------------------------------------------------------------------
(***************************************************************************)
(* Calls and results.  While nothing overlapped, paused or was cancelled,  *)
(* what a session sees and what it is about to append are paired together, *)
(* at the positions the appends will give.                                 *)
(***************************************************************************)
At(m, p) == [m EXCEPT !.pos = p]
Upcoming(s) ==
  {At(todo[s][i], Cardinality(Seen(s)) + (i - 1)) : i \in 1..Len(todo[s])}

Waiting == {"pausing", "paused", "resuming", "cancelling"}

Matched ==
  happened = {} =>
    /\ Paired(msgs)
    /\ \A s \in Run : pc[s] \notin Waiting /\ Paired(Seen(s) \cup Upcoming(s))

PairInv == MemoryInv /\ Matched

LEMMA PairedUnion ==
  ASSUME NEW A, NEW B, Paired(A), Paired(B)
  PROVE  Paired(A \cup B)
BY DEF Paired

LEMMA PairedPlain ==
  ASSUME NEW A, \A m \in A : m.calls = 0 /\ m.role # "tool"
  PROVE  Paired(A)
<1>1. 1..0 = {}
  OBVIOUS
<1>2. QED
  BY <1>1 DEF Paired

LEMMA AtFields ==
  ASSUME NEW m \in Stored, NEW p
  PROVE  /\ At(m, p).pos = p /\ At(m, p).run = m.run /\ At(m, p).role = m.role
         /\ At(m, p).turn = m.turn /\ At(m, p).calls = m.calls /\ At(m, p).call = m.call
BY DEF At, Stored

(* A session between two appends sees what is committed. *)
LEMMA NothingUpcoming ==
  ASSUME NEW s \in Run, todo[s] = <<>>
  PROVE  Upcoming(s) = {}
<1>1. 1..Len(todo[s]) = {}
  OBVIOUS
<1>2. QED
  BY <1>1 DEF Upcoming

(* One session moves and commits nothing. *)
LEMMA MatchedStep ==
  ASSUME MemoryInv, Matched, happened = {}, NEW s \in Run, msgs' = msgs,
         \A r \in Run \ {s} : /\ pc'[r] = pc[r] /\ todo'[r] = todo[r]
                              /\ pending'[r] = pending[r],
         pc'[s] \notin Waiting, Paired(Seen(s)' \cup Upcoming(s)')
  PROVE  Matched'
<1>1. ASSUME NEW r \in Run, r # s
      PROVE  pc'[r] \notin Waiting /\ Seen(r)' = Seen(r) /\ Upcoming(r)' = Upcoming(r)
  BY <1>1 DEF Matched, Seen, Upcoming
<1>2. QED
  BY <1>1 DEF Matched

(* The messages of a new step are paired among themselves. *)
LEMMA MatchedBegin ==
  ASSUME MemoryInv, Matched, happened = {}, NEW s \in Run, ~Appending(s),
         NEW doing \in PC \ Waiting, NEW q \in Seq(Stored), Begin(s, doing, q),
         UNCHANGED <<msgs, pending>>,
         Paired({At(q[i], Cardinality(msgs) + (i - 1)) : i \in 1..Len(q)})
  PROVE  Matched'
<1>1. /\ pc'[s] = doing /\ todo'[s] = q /\ pending[s] = {}
      /\ \A r \in Run \ {s} : pc'[r] = pc[r] /\ todo'[r] = todo[r]
  BY DEF Begin, MemoryInv, TypeOK, Session, Quiet
<1>2. Seen(s)' = msgs
  BY <1>1 DEF Seen
<1>3. Upcoming(s)' = {At(q[i], Cardinality(msgs) + (i - 1)) : i \in 1..Len(q)}
  BY <1>1, <1>2 DEF Upcoming
<1>4. Paired(Seen(s)' \cup Upcoming(s)')
  BY <1>2, <1>3, PairedUnion DEF Matched
<1>5. QED
  BY <1>1, <1>4, MatchedStep

(* A message that asks for nothing. *)
LEMMA MatchedPlain ==
  ASSUME MemoryInv, Matched, happened = {}, NEW s \in Run, ~Appending(s),
         NEW doing \in PC \ Waiting, NEW a \in Stored, a.calls = 0, a.role # "tool",
         Begin(s, doing, <<a>>), UNCHANGED <<msgs, pending>>
  PROVE  Matched'
<1> DEFINE q == <<a>>
           B == {At(q[i], Cardinality(msgs) + (i - 1)) : i \in 1..Len(q)}
<1>1. q \in Seq(Stored) /\ \A i \in 1..Len(q) : q[i] = a
  OBVIOUS
<1>2. \A m \in B : m.calls = 0 /\ m.role # "tool"
  BY <1>1, AtFields
<1>3. Paired(B)
  BY <1>2, PairedPlain
<1>4. Begin(s, doing, q)
  OBVIOUS
<1> HIDE DEF q
<1>5. QED
  BY <1>1, <1>3, <1>4, MatchedBegin

(* An answer and the results of its calls, appended one after the other.   *)
LEMMA MatchedCalls ==
  ASSUME MemoryInv, Matched, happened' = {}, NEW s \in Run, NEW n \in 1..BatchSize,
         NEW doing \in {"calling", "pausing"}, ReplyCalls(s, n, doing)
  PROVE  Matched'
<1> DEFINE turn == turns[s] + 1
           a == Answer(s, turn, n)
           rs == Results(s, turn, n)
           q == <<a>> \o rs
           c == Cardinality(msgs)
           B == {At(q[i], c + (i - 1)) : i \in 1..Len(q)}
<1>1. /\ doing = "calling" /\ happened = {} /\ ~Appending(s)
      /\ UNCHANGED <<msgs, pending>> /\ doing \in PC \ Waiting
  BY DEF ReplyCalls, Appending, PC, Waiting
<1>2. turns[s] \in Nat /\ turn \in 1..MaxTurns /\ n \in 0..BatchSize /\ n \in Nat /\ c \in Nat
  BY SeenFinite, MemoryAssumption DEF MemoryInv, TypeOK, ReplyCalls
<1>3. /\ a \in Stored /\ a.run = s /\ a.turn = turn /\ a.calls = n
      /\ a.role = "assistant"
  BY <1>2, MessageStored, MemoryAssumption DEF Answer, Message
<1>4. /\ rs \in Seq(Stored) /\ Len(rs) = n
      /\ \A i \in 1..n : /\ rs[i].run = s /\ rs[i].turn = turn /\ rs[i].call = i
                         /\ rs[i].role = "tool" /\ rs[i].calls = 0 /\ rs[i] \in Stored
  <2>1. /\ rs \in Seq(Stored) /\ Len(rs) = n
        /\ \A i \in 1..n : rs[i].run = s /\ rs[i].turn = turn /\ rs[i].call = i
    BY <1>2, ResultsStored
  <2>2. \A i \in 1..n : rs[i].role = "tool" /\ rs[i].calls = 0
    BY DEF Results, Message
  <2>3. \A i \in 1..n : rs[i] \in Stored
    BY <2>1, ElementOfSeq
  <2>4. QED
    BY <2>1, <2>2, <2>3
<1>5. Begin(s, doing, q)
  BY <1>1 DEF ReplyCalls
<1> HIDE DEF a, rs
<1>6. /\ q \in Seq(Stored) /\ Len(q) = 1 + n
      /\ \A i \in 1..(1 + n) : q[i] = IF i <= 1 THEN a ELSE rs[i - 1]
  <2>1. <<a>> \in Seq(Stored) /\ Len(<<a>>) = 1 /\ <<a>>[1] = a
    BY <1>3
  <2>2. QED
    BY <1>4, <2>1, ConcatProperties
<1> HIDE DEF q
<1>7. At(a, c) \in B /\ \A i \in 1..n : At(rs[i], c + i) \in B
  <2>1. 1 \in 1..Len(q) /\ q[1] = a /\ c + (1 - 1) = c
    BY <1>2, <1>6
  <2>2. ASSUME NEW i \in 1..n
        PROVE  At(rs[i], c + i) \in B
    <3>1. i + 1 \in 1..Len(q) /\ q[i + 1] = rs[i] /\ c + ((i + 1) - 1) = c + i
      BY <1>2, <1>6
    <3>2. QED
      BY <3>1
  <2>3. QED
    BY <2>1, <2>2
<1>8. ASSUME NEW m \in B
      PROVE  m = At(a, c) \/ \E i \in 1..n : m = At(rs[i], c + i)
  <2>1. PICK i \in 1..Len(q) : m = At(q[i], c + (i - 1))
    OBVIOUS
  <2>2. CASE i = 1
    <3>1. q[i] = a /\ c + (i - 1) = c
      BY <1>2, <1>6, <2>2
    <3>2. QED
      BY <2>1, <3>1
  <2>3. CASE i # 1
    <3>1. i - 1 \in 1..n /\ q[i] = rs[i - 1]
      BY <1>2, <1>6, <2>3
    <3>2. QED
      BY <2>1, <3>1
  <2>4. QED
    BY <2>2, <2>3
<1> HIDE DEF B
<1>9. \A i \in 1..n : Answers(At(rs[i], c + i), At(a, c), i)
  BY <1>2, <1>3, <1>4, AtFields DEF Answers
<1>10. Paired(B)
  <2>1. ASSUME NEW m \in B, NEW i \in 1..m.calls
        PROVE  \E k \in B : Answers(k, m, i)
    <3>1. CASE m = At(a, c)
      <4>1. i \in 1..n
        BY <1>3, <2>1, <3>1, AtFields
      <4>2. QED
        BY <1>7, <1>9, <3>1, <4>1
    <3>2. CASE \E j \in 1..n : m = At(rs[j], c + j)
      <4>1. m.calls = 0
        BY <1>4, <3>2, AtFields
      <4>2. QED
        BY <2>1, <4>1
    <3>3. QED
      BY <1>8, <3>1, <3>2
  <2>2. ASSUME NEW k \in B, k.role = "tool"
        PROVE  \E m \in B : k.call <= m.calls /\ Answers(k, m, k.call)
    <3>1. k # At(a, c)
      BY <1>3, <2>2, AtFields
    <3>2. PICK i \in 1..n : k = At(rs[i], c + i)
      BY <1>8, <3>1
    <3>3. k.call = i /\ At(a, c).calls = n
      BY <1>3, <1>4, <3>2, AtFields
    <3>4. QED
      BY <1>7, <1>9, <3>2, <3>3
  <2>3. QED
    BY <2>1, <2>2 DEF Paired
<1>11. Paired({At(q[i], Cardinality(msgs) + (i - 1)) : i \in 1..Len(q)})
  BY <1>10 DEF B
<1>12. QED
  BY <1>1, <1>5, <1>6, <1>11, MatchedBegin

(* An insert only moves a message from what is coming to what is seen.     *)
LEMMA MatchedInsert ==
  ASSUME MemoryInv, Matched, happened = {}, NEW s \in Run, Insert(s)
  PROVE  Matched'
<1> DEFINE n == Cardinality(Seen(s))
           x == At(Head(todo[s]), counted[s])
<1>1. /\ counted[s] # None /\ Session(s) /\ todo[s] \in Seq(Stored) /\ todo[s] # <<>>
      /\ UNCHANGED <<msgs, pc>> /\ pc[s] \notin Waiting
  BY DEF Insert, MemoryInv, TypeOK, Session, Held, Matched
<1>2. /\ Tail(todo[s]) \in Seq(Stored) /\ Len(todo[s]) \in Nat \ {0}
      /\ Len(Tail(todo[s])) = Len(todo[s]) - 1
      /\ \A i \in 1..Len(Tail(todo[s])) : Tail(todo[s])[i] = todo[s][i + 1]
      /\ Head(todo[s]) = todo[s][1] /\ todo[s][1] \in Stored
  BY <1>1, HeadTailProperties, EmptySeq, ElementOfSeq
<1>3. counted[s] = n /\ n \in Nat
  BY <1>1, SeenFinite DEF MemoryInv, Alone
<1>4. /\ pending'[s] = pending[s] \cup {x} /\ todo'[s] = Tail(todo[s])
      /\ \A r \in Run \ {s} : pending'[r] = pending[r] /\ todo'[r] = todo[r]
  BY DEF Insert, At, MemoryInv, TypeOK
<1>5. Seen(s)' = Seen(s) \cup {x} /\ x = At(todo[s][1], n)
  BY <1>1, <1>2, <1>3, <1>4 DEF Seen
<1>6. x.run = s /\ x.pos = n
  BY <1>1, <1>2, <1>5, AtFields DEF Session, Held
<1> HIDE DEF x
<1>7. x \notin Seen(s)
  <2>1. \A m \in Mine(s) : m.pos < n
    BY <1>1, <1>3 DEF Session, Below
  <2>2. x \notin Mine(s)
    BY <1>3, <1>6, <2>1
  <2>3. QED
    BY <1>6, <2>2 DEF Mine
<1>8. Cardinality(Seen(s)') = n + 1
  BY <1>5, <1>7, SeenFinite, FS_AddElement
<1>9. {x} \cup Upcoming(s)' = Upcoming(s)
  <2>1. Upcoming(s)' = {At(Tail(todo[s])[i], (n + 1) + (i - 1)) : i \in 1..Len(Tail(todo[s]))}
    BY <1>4, <1>8 DEF Upcoming
  <2>2. ASSUME NEW m \in Upcoming(s)'
        PROVE  m \in Upcoming(s)
    <3>1. PICK i \in 1..Len(Tail(todo[s])) : m = At(Tail(todo[s])[i], (n + 1) + (i - 1))
      BY <2>1
    <3>2. /\ i + 1 \in 1..Len(todo[s]) /\ (n + 1) + (i - 1) = n + ((i + 1) - 1)
      BY <1>2, <1>3
    <3>3. m = At(todo[s][i + 1], n + ((i + 1) - 1))
      BY <1>2, <3>1, <3>2
    <3>4. QED
      BY <3>2, <3>3 DEF Upcoming
  <2>3. x \in Upcoming(s)
    <3>1. 1 \in 1..Len(todo[s]) /\ n + (1 - 1) = n
      BY <1>2, <1>3
    <3>2. QED
      BY <1>5, <3>1 DEF Upcoming
  <2>4. ASSUME NEW m \in Upcoming(s), m # x
        PROVE  m \in Upcoming(s)'
    <3>1. PICK i \in 1..Len(todo[s]) : m = At(todo[s][i], n + (i - 1))
      BY DEF Upcoming
    <3>2. i # 1
      <4>1. n + (1 - 1) = n
        BY <1>3
      <4>2. QED
        BY <1>5, <2>4, <3>1, <4>1
    <3>3. /\ i - 1 \in 1..Len(Tail(todo[s])) /\ (i - 1) + 1 = i
          /\ (n + 1) + ((i - 1) - 1) = n + (i - 1)
      BY <1>2, <1>3, <3>2
    <3>4. Tail(todo[s])[i - 1] = todo[s][i]
      BY <1>2, <3>3
    <3>5. m = At(Tail(todo[s])[i - 1], (n + 1) + ((i - 1) - 1))
      BY <3>1, <3>3, <3>4
    <3>6. QED
      BY <2>1, <3>3, <3>5
  <2>5. QED
    BY <2>2, <2>3, <2>4
<1>10. Paired(Seen(s)' \cup Upcoming(s)')
  <2>1. Seen(s)' \cup Upcoming(s)' = Seen(s) \cup Upcoming(s)
    BY <1>5, <1>9
  <2>2. QED
    BY <2>1 DEF Matched
<1>11. QED
  BY <1>1, <1>4, <1>10, MatchedStep

(* A session commits when nothing is coming. *)
LEMMA MatchedCommit ==
  ASSUME MemoryInv, Matched, happened = {}, NEW s \in Run, Commit(s)
  PROVE  Matched'
<1>1. /\ todo[s] = <<>> /\ todo' = todo /\ msgs' = Seen(s) /\ pending'[s] = {}
      /\ \A r \in Run \ {s} : pending'[r] = pending[r] /\ pc'[r] = pc[r]
      /\ pc'[s] = After(pc[s]) /\ Working(s) /\ pc[s] # "think"
  BY DEF Commit, CommitAt, Seen, MemoryInv, TypeOK
<1>2. Paired(Seen(s))
  BY <1>1, NothingUpcoming DEF Matched
<1>3. pc'[s] \notin Waiting
  <2>1. pc[s] \in {"opening", "answering", "calling"}
    BY <1>1 DEF Working, MemoryInv, TypeOK, Matched, Waiting
  <2>2. QED
    BY <1>1, <2>1 DEF After, Waiting
<1>4. ASSUME NEW r \in Run
      PROVE  Seen(r)' = msgs' /\ todo'[r] = <<>>
  <2>1. CASE r = s
    BY <1>1, <2>1 DEF Seen
  <2>2. CASE r # s
    <3>1. ~Working(r)
      BY <1>1, <2>2 DEF MemoryInv, Alone
    <3>2. pending[r] = {} /\ todo[r] = <<>>
      BY <3>1 DEF MemoryInv, Session, Quiet, Appending
    <3>3. QED
      BY <1>1, <2>2, <3>2 DEF Seen
  <2>3. QED
    BY <2>1, <2>2
<1>5. ASSUME NEW r \in Run
      PROVE  Upcoming(r)' = {}
  <2>1. 1..Len(todo'[r]) = {}
    BY <1>4
  <2>2. QED
    BY <2>1 DEF Upcoming
<1>6. QED
  BY <1>1, <1>2, <1>3, <1>4, <1>5 DEF Matched

LEMMA MatchedRollback ==
  ASSUME MemoryInv, Matched, happened = {}, NEW s \in Run, Rollback(s)
  PROVE  Matched'
<1>1. /\ msgs' = msgs /\ todo'[s] = <<>> /\ pending'[s] = {}
      /\ \A r \in Run \ {s} : /\ pc'[r] = pc[r] /\ todo'[r] = todo[r]
                              /\ pending'[r] = pending[r]
  BY DEF Rollback, MemoryInv, TypeOK
<1>2. pc'[s] \notin Waiting
  BY DEF Rollback, BeforeResumeRun, MemoryInv, TypeOK, Matched, Waiting
<1>3. Seen(s)' = msgs
  BY <1>1 DEF Seen
<1>4. Upcoming(s)' = {}
  <2>1. 1..Len(todo'[s]) = {}
    BY <1>1
  <2>2. QED
    BY <2>1 DEF Upcoming
<1>5. QED
  BY <1>1, <1>2, <1>3, <1>4, MatchedStep DEF Matched

LEMMA MatchedNext ==
  ASSUME MemoryInv, Matched, [Next]_vars
  PROVE  Matched'
<1> SUFFICES ASSUME happened' = {} PROVE Matched'
  BY DEF Matched
<1>1. CASE UNCHANGED vars
  BY <1>1 DEF vars, Matched, Seen, Upcoming
<1>2. ASSUME NEW s \in Run, Open(s) PROVE Matched'
  <2>1. User(s) \in Stored /\ User(s).calls = 0 /\ User(s).role # "tool"
    BY MessageStored, MemoryAssumption DEF User, Message
  <2>2. /\ happened = {} /\ ~Appending(s) /\ "opening" \in PC \ Waiting
        /\ Begin(s, "opening", <<User(s)>>) /\ UNCHANGED <<msgs, pending>>
    BY <1>2 DEF Open, Enter, Appending, Working, PC, Waiting
  <2>3. QED
    BY <2>1, <2>2, MatchedPlain
<1>3. ASSUME NEW s \in Run, ReplyText(s) PROVE Matched'
  <2> DEFINE a == Answer(s, turns[s] + 1, 0)
  <2>1. turns[s] + 1 \in 0..(MaxTurns + 1)
    BY MemoryAssumption DEF MemoryInv, TypeOK
  <2>2. a \in Stored /\ a.calls = 0 /\ a.role # "tool"
    BY <2>1, MessageStored, MemoryAssumption DEF Answer, Message
  <2>3. /\ happened = {} /\ ~Appending(s) /\ "answering" \in PC \ Waiting
        /\ Begin(s, "answering", <<a>>) /\ UNCHANGED <<msgs, pending>>
    BY <1>3 DEF ReplyText, Appending, PC, Waiting
  <2> HIDE DEF a
  <2>4. QED
    BY <2>2, <2>3, MatchedPlain
<1>4. ASSUME NEW s \in Run, Stop(s) PROVE Matched'
  <2> DEFINE q == <<>>
             B == {At(q[i], Cardinality(msgs) + (i - 1)) : i \in 1..Len(q)}
  <2>1. /\ happened = {} /\ ~Appending(s) /\ "done" \in PC \ Waiting
        /\ Begin(s, "done", q) /\ UNCHANGED <<msgs, pending>>
    BY <1>4 DEF Stop, Appending, PC, Waiting
  <2>2. q \in Seq(Stored) /\ 1..Len(q) = {}
    OBVIOUS
  <2> HIDE DEF q
  <2>3. Paired(B)
    <3>1. B = {}
      BY <2>2
    <3>2. QED
      BY <3>1, PairedPlain
  <2>4. QED
    BY <2>1, <2>2, <2>3, MatchedBegin
<1>5. ASSUME NEW s \in Run, Count(s) PROVE Matched'
  BY <1>5 DEF Count, Matched, Seen, Upcoming
<1>6. ASSUME NEW s \in Run, Insert(s) \/ Commit(s) PROVE Matched'
  BY <1>6, MatchedInsert, MatchedCommit DEF Insert, Commit
<1>7. ASSUME NEW s \in Run, MeetFull(s) \/ Disconnect(s) PROVE Matched'
  BY <1>7, MatchedRollback DEF MeetFull, Disconnect, Rollback
<1>8. ASSUME NEW s \in Run, Resume(s) PROVE Matched'
  BY <1>8 DEF Resume, Enter, Matched, Waiting
<1>9. ASSUME NEW s \in Run, CancelBatch(s) PROVE Matched'
  BY <1>9 DEF CancelBatch
<1>10. QED
  BY <1>1, <1>2, <1>3, <1>4, <1>5, <1>6, <1>7, <1>8, <1>9, MatchedCalls DEF Next

-----------------------------------------------------------------------------
(***************************************************************************)
(* The theorems.                                                           *)
(***************************************************************************)
LEMMA InitOk == Init => MemoryInv
<1> SUFFICES ASSUME Init PROVE MemoryInv
  OBVIOUS
<1>1. TypeOK
  <2>1. todo \in [Run -> Seq(Stored)]
    <3>1. <<>> \in Seq(Stored)
      BY EmptySeq
    <3>2. QED
      BY <3>1 DEF Init
  <2>2. /\ turns \in [Run -> 0..MaxTurns] /\ saved \in [Run -> 0..BatchSize]
        /\ counted \in [Run -> Nat \cup {None}] /\ counter \in Nat
    BY MemoryAssumption DEF Init
  <2>3. /\ pending \in [Run -> SUBSET Stored] /\ msgs \subseteq Stored
        /\ happened \subseteq Hazards /\ lock \in Run \cup {None}
        /\ \A s \in Run : pending[s] # {} => lock = s
    BY DEF Init
  <2>4. QED
    BY <2>1, <2>2, <2>3 DEF Init, TypeOK
<1>2. Committed
  BY FS_EmptySet DEF Init, Committed
<1>3. Dense({}) /\ Cardinality({}) = 0
  <2>1. Cardinality({}) = 0 /\ 0..(0 - 1) = {}
    BY FS_EmptySet
  <2>2. QED
    BY <2>1 DEF Dense
<1>4. \A s \in Run : Seen(s) = {} /\ Mine(s) = {} /\ ~Working(s)
  BY DEF Init, Seen, Mine, Working
<1>5. Alone
  <2>1. Dense(msgs) /\ counter = Cardinality(msgs) /\ Cardinality(msgs) <= HardCap
    BY <1>3, MemoryAssumption DEF Init
  <2>2. ASSUME NEW s \in Run
        PROVE  /\ Dense(Seen(s)) /\ Cardinality(Seen(s)) <= HardCap
               /\ counted[s] = None /\ pending[s] = {}
    <3>1. Seen(s) = {} /\ 0 <= HardCap
      BY <1>4, MemoryAssumption
    <3>2. counted[s] = None /\ pending[s] = {}
      BY DEF Init
    <3>3. QED
      BY <1>3, <3>1, <3>2
  <2>3. QED
    BY <1>4, <2>1, <2>2 DEF Alone
<1>6. ASSUME NEW s \in Run
      PROVE  Session(s)
  <2>1. Held(s)
    BY FS_EmptySet DEF Init, Held
  <2>2. QED
    BY <1>4, <2>1 DEF Init, Session, Quiet, Below, Later, Progress, InOrder, Appending,
                               BeforeResumeRun
<1>7. QED
  BY <1>1, <1>2, <1>5, <1>6 DEF MemoryInv

LEMMA StutterOk == MemoryInv /\ UNCHANGED vars => MemoryInv'
<1> SUFFICES ASSUME MemoryInv, UNCHANGED vars PROVE MemoryInv'
  OBVIOUS
<1>1. TypeOK' /\ Committed'
  BY DEF vars, MemoryInv, TypeOK, Committed
<1>2. \A r \in Run : Session(r)' /\ Seen(r)' = Seen(r) /\ (Working(r)' <=> Working(r))
  BY OtherSession DEF vars
<1>3. Alone'
  BY <1>2 DEF vars, MemoryInv, Alone, Dense
<1>4. QED
  BY <1>1, <1>2, <1>3 DEF MemoryInv

LEMMA StepOk == MemoryInv /\ [Next]_vars => MemoryInv'
<1> SUFFICES ASSUME MemoryInv, [Next]_vars PROVE MemoryInv'
  OBVIOUS
<1>1. CASE UNCHANGED vars
  BY <1>1, StutterOk
<1>2. ASSUME NEW s \in Run,
             \/ Open(s) \/ Resume(s) \/ ReplyText(s) \/ Stop(s)
             \/ Count(s) \/ Insert(s) \/ Commit(s) \/ CancelBatch(s)
      PROVE  MemoryInv'
  BY <1>2, OpenOk, ResumeOk, ReplyTextOk, StopOk, CountOk, InsertOk, CommitOk, CancelBatchOk
<1>3. ASSUME NEW s \in Run, NEW n \in 1..BatchSize, NEW doing \in {"calling", "pausing"},
             ReplyCalls(s, n, doing)
      PROVE  MemoryInv'
  BY <1>3, ReplyCallsOk
<1>4. ASSUME NEW s \in Run, MeetFull(s) \/ Disconnect(s)
      PROVE  MemoryInv'
  <2>1. Rollback(s) /\ Working(s)
    BY <1>4 DEF MeetFull, Disconnect, MemoryInv, Session, Quiet, Appending
  <2>2. QED
    BY <2>1, RollbackOk
<1>5. QED
  BY <1>1, <1>2, <1>3, <1>4 DEF Next

(* Every append, commit, rollback and pause keeps the invariant above.     *)
THEOREM MemoryInvariant == Spec => []MemoryInv
  BY InitOk, StepOk, PTL DEF Spec

(* Every message, session and history has the shape the code gives it.     *)
THEOREM MemoryTyped == Spec => []TypeOK
<1>1. MemoryInv => TypeOK
  BY DEF MemoryInv
<1>2. QED
  BY <1>1, MemoryInvariant, PTL

(* Runs that work one after the other number their messages without a gap, *)
(* and the counter agrees.                                                 *)
THEOREM PositionsAreDense == Spec => []PositionsDense
<1>1. MemoryInv => PositionsDense
  BY DEF MemoryInv, Alone, Dense, PositionsDense
<1>2. QED
  BY <1>1, MemoryInvariant, PTL

(* No context outgrows its hard cap while its runs do not overlap.         *)
THEOREM ContextsStayCapped == Spec => []CapKept
<1>1. MemoryInv => CapKept
  BY DEF MemoryInv, Alone, CapKept
<1>2. QED
  BY <1>1, MemoryInvariant, PTL

(* Overlapping or not, the messages of a run read in the order it appended *)
(* them.                                                                   *)
THEOREM RunsReadInOrder == Spec => []RunInOrder
<1>1. MemoryInv => RunInOrder
  <2>1. SUFFICES ASSUME MemoryInv, NEW m \in msgs, NEW n \in msgs,
                        m.run = n.run, Earlier(m, n)
                 PROVE  m.pos < n.pos
    BY DEF RunInOrder
  <2>2. m.run \in Run
    BY <2>1 DEF MemoryInv, TypeOK, Stored
  <2>3. m \in Mine(m.run) /\ n \in Mine(m.run) /\ InOrder(m.run)
    BY <2>1, <2>2 DEF Mine, Seen, MemoryInv, Session
  <2>4. QED
    BY <2>1, <2>3 DEF InOrder
<1>2. QED
  BY <1>1, MemoryInvariant, PTL

(* As long as nothing overlapped, paused or was cancelled, the model is    *)
(* sent every call with its result right after it, unless the soft cap     *)
(* cuts between them.                                                      *)
THEOREM PayloadsArePaired == Spec => []PayloadPaired
<1>1. Init => Matched
  <2>1. Paired({})
    BY PairedPlain
  <2>2. ASSUME Init, NEW s \in Run
        PROVE  Seen(s) = {} /\ Upcoming(s) = {} /\ pc[s] \notin Waiting
    BY <2>2, NothingUpcoming DEF Init, Seen, Waiting
  <2>3. QED
    BY <2>1, <2>2 DEF Init, Matched
<1>2. PairInv /\ [Next]_vars => PairInv'
  BY StepOk, MatchedNext DEF PairInv
<1>3. PairInv => PayloadPaired
  <2>1. SUFFICES ASSUME PairInv, NEW s \in Run, pc[s] = "think", happened = {}
                 PROVE  Paired(Seen(s))
    BY DEF PayloadPaired
  <2>2. pending[s] = {} /\ Paired(msgs)
    BY <2>1 DEF PairInv, MemoryInv, Session, Quiet, Appending, Matched
  <2>3. QED
    BY <2>2 DEF Seen
<1>4. Init => PairInv
  BY <1>1, InitOk DEF PairInv
<1>5. QED
  BY <1>2, <1>3, <1>4, PTL DEF Spec
=============================================================================
