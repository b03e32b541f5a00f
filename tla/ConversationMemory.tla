------------------------- MODULE ConversationMemory -------------------------
(* The messages of one conversation context (services/messages.py) as the   *)
(* executors append to it (executors/simple.py, and the user message and    *)
(* the answer of react.py and plan_execute.py).  An append counts, then     *)
(* inserts at that count, then updates agent_contexts, whose row stays      *)
(* locked until the session commits; a session sees what is committed and   *)
(* what it inserted itself.  Texts are abstracted, the roles and the calls  *)
(* an assistant message asks for are kept.                                  *)
EXTENDS Naturals, Sequences, FiniteSets

CONSTANTS Run,          \* the runs that talk in this context
          None,         \* no count read, no lock
          HardCap,      \* HARD_CAP
          KeepCount,    \* SOFT_CAP less the system prompt
          BatchSize,    \* bound: tool calls in one answer
          MaxTurns      \* bound: answers with tool calls per run

(* overlap: several runs work at once.  pause: a batch waits for the user.  *)
(* cancel: a batch is cancelled half way.                                   *)
Hazards == {"overlap", "pause", "cancel"}

ASSUME MemoryAssumption ==
    /\ HardCap \in Nat /\ KeepCount \in Nat \ {0}
    /\ BatchSize \in Nat /\ MaxTurns \in Nat
    /\ None \notin Nat \cup Run

VARIABLES msgs,         \* agent_messages, committed
          counter,      \* agent_contexts.message_count, committed
          lock,         \* the session that holds the agent_contexts row
          pc,           \* what a run is doing
          todo,         \* the messages it still has to append before a commit
          counted,      \* what count_messages told it, until the insert
          pending,      \* its uncommitted messages
          turns,        \* answers with tool calls it has had
          saved,        \* the size of the batch its pending_action holds
          happened      \* history: which of Hazards happened

vars == <<msgs, counter, lock, pc, todo, counted, pending, turns, saved,
          happened>>

\* calls: how many calls an assistant message asks for; call: which of them a
\* tool message answers; pos: given by the insert
Message(s, role, turn, calls, call) ==
    [run |-> s, role |-> role, turn |-> turn, calls |-> calls, call |-> call,
     pos |-> 0]

User(s) == Message(s, "user", 0, 0, 0)
Answer(s, turn, calls) == Message(s, "assistant", turn, calls, 0)
Results(s, turn, n) == [i \in 1..n |-> Message(s, "tool", turn, 0, i)]

Working(s) == pc[s] \notin {"idle", "paused", "done"}

\* what the session of s reads: what is committed and what it inserted
SeenCommittedOnly(s) == msgs
Seen(s) == msgs \cup pending[s]

\* list_messages and build_llm_payload: the last KeepCount by position
Payload(s) == {m \in Seen(s) :
                  Cardinality({n \in Seen(s) : n.pos > m.pos}) < KeepCount}

\* append_message refuses one message too late
FullLate(n) == n > HardCap
Full(n) == n >= HardCap

-----------------------------------------------------------------------------
Init ==
    /\ msgs = {} /\ counter = 0 /\ lock = None
    /\ pc = [s \in Run |-> "idle"]
    /\ todo = [s \in Run |-> <<>>]
    /\ counted = [s \in Run |-> None]
    /\ pending = [s \in Run |-> {}]
    /\ turns = [s \in Run |-> 0]
    /\ saved = [s \in Run |-> 0]
    /\ happened = {}

\* another run may be at work
Enter(s) ==
    happened' = IF \E r \in Run : Working(r) THEN happened \cup {"overlap"}
                                             ELSE happened

Begin(s, doing, messages) ==
    /\ pc' = [pc EXCEPT ![s] = doing]
    /\ todo' = [todo EXCEPT ![s] = messages]

\* the user's message of a fresh run
Open(s) ==
    /\ pc[s] = "idle" /\ Enter(s)
    /\ Begin(s, "opening", <<User(s)>>)
    /\ UNCHANGED <<msgs, counter, lock, counted, pending, turns, saved>>

\* the user answers the paused task: the saved calls are run or denied, each
\* with a result of its own
Resume(s) ==
    /\ pc[s] = "paused" /\ Enter(s)
    /\ Begin(s, "resuming", Results(s, turns[s], saved[s]))
    /\ UNCHANGED <<msgs, counter, lock, counted, pending, turns, saved>>

\* the model answers
ReplyText(s) ==
    /\ pc[s] = "think"
    /\ Begin(s, "answering", <<Answer(s, turns[s] + 1, 0)>>)
    /\ UNCHANGED <<msgs, counter, lock, counted, pending, turns, saved, happened>>

\* the model asks for n calls; if one of them is destructive the batch waits
ReplyCalls(s, n, doing) ==
    /\ pc[s] = "think" /\ turns[s] < MaxTurns
    /\ happened' = IF doing = "pausing" THEN happened \cup {"pause"} ELSE happened
    /\ LET turn == turns[s] + 1
           asked == <<Answer(s, turn, n)>>
       IN /\ turns' = [turns EXCEPT ![s] = turn]
          /\ Begin(s, doing, IF doing = "pausing" THEN asked
                             ELSE asked \o Results(s, turn, n))
    /\ saved' = [saved EXCEPT ![s] = IF doing = "pausing" THEN n ELSE 0]
    /\ UNCHANGED <<msgs, counter, lock, counted, pending>>

\* llm_provider_error, empty_response, guardrail_exceeded, max_tokens, cancel
Stop(s) ==
    /\ pc[s] = "think"
    /\ Begin(s, "done", <<>>)
    /\ UNCHANGED <<msgs, counter, lock, counted, pending, turns, saved, happened>>

-----------------------------------------------------------------------------
(***************************************************************************)
(* append_message, commit and rollback.                                    *)
(***************************************************************************)

\* count_messages
Count(s) ==
    /\ todo[s] # <<>> /\ counted[s] = None
    /\ ~Full(Cardinality(Seen(s)))
    /\ counted' = [counted EXCEPT ![s] = Cardinality(Seen(s))]
    /\ UNCHANGED <<msgs, counter, lock, pc, todo, pending, turns, saved, happened>>

\* INSERT at the count, UPDATE of the context, which waits for its lock
Insert(s) ==
    /\ counted[s] # None /\ lock \in {None, s}
    /\ pending' = [pending EXCEPT ![s] =
                      @ \cup {[Head(todo[s]) EXCEPT !.pos = counted[s]]}]
    /\ todo' = [todo EXCEPT ![s] = Tail(@)]
    /\ counted' = [counted EXCEPT ![s] = None]
    /\ lock' = s
    /\ UNCHANGED <<msgs, counter, pc, turns, saved, happened>>

After(doing) == CASE doing \in {"opening", "calling", "resuming"} -> "think"
                  [] doing = "pausing" -> "paused"
                  [] doing \in {"answering", "cancelling"} -> "done"

CommitAt(s) ==
    /\ msgs' = msgs \cup pending[s]
    /\ counter' = IF pending[s] = {} THEN counter
                  ELSE 1 + CHOOSE p \in {m.pos : m \in pending[s]} :
                              \A m \in pending[s] : m.pos <= p
    /\ lock' = IF lock = s THEN None ELSE lock
    /\ pending' = [pending EXCEPT ![s] = {}]

\* a commit after every message of a batch
CommitEach(s) ==
    /\ Working(s) /\ pc[s] # "think" /\ counted[s] = None
    /\ todo[s] = <<>> \/ pending[s] # {}
    /\ CommitAt(s)
    /\ pc' = IF todo[s] = <<>> THEN [pc EXCEPT ![s] = After(pc[s])] ELSE pc
    /\ UNCHANGED <<todo, counted, turns, saved, happened>>

\* the commit at the end of a step of the executor
Commit(s) ==
    /\ Working(s) /\ pc[s] # "think" /\ todo[s] = <<>>
    /\ CommitAt(s)
    /\ pc' = [pc EXCEPT ![s] = After(pc[s])]
    /\ UNCHANGED <<todo, counted, turns, saved, happened>>

\* a resume runs its batch, or has dropped the rest of it: its run is paused
\* until resume_run commits
BeforeResumeRun(s) == pc[s] = "resuming" \/ (pc[s] = "cancelling" /\ saved[s] > 0)

\* the session is closed without a commit
Rollback(s) ==
    /\ lock' = IF lock = s THEN None ELSE lock
    /\ pending' = [pending EXCEPT ![s] = {}]
    /\ todo' = [todo EXCEPT ![s] = <<>>]
    /\ counted' = [counted EXCEPT ![s] = None]
    /\ pc' = [pc EXCEPT ![s] = IF BeforeResumeRun(s) THEN "paused" ELSE "done"]
    /\ UNCHANGED <<msgs, counter, turns, saved, happened>>

\* ContextFullError: as a stop reason of its own around the user's message,
\* as an unexpected exception elsewhere
MeetFull(s) ==
    /\ todo[s] # <<>> /\ counted[s] = None
    /\ Full(Cardinality(Seen(s)))
    /\ Rollback(s)

\* the cancellation event is seen between two tools: the rest of the batch is
\* dropped, what was appended is committed
CancelBatch(s) ==
    /\ happened' = happened \cup {"cancel"}
    /\ pc[s] \in {"calling", "resuming"} /\ counted[s] = None
    /\ todo[s] # <<>> /\ Head(todo[s]).role = "tool"
    /\ Begin(s, "cancelling", <<>>)
    /\ UNCHANGED <<msgs, counter, lock, counted, pending, turns, saved>>

Disconnect(s) ==
    /\ Working(s)
    /\ Rollback(s)

Next ==
    \E s \in Run :
        \/ Open(s) \/ Resume(s) \/ ReplyText(s) \/ Stop(s)
        \/ \E n \in 1..BatchSize, doing \in {"calling", "pausing"} :
              ReplyCalls(s, n, doing)
        \/ Count(s) \/ Insert(s) \/ Commit(s) \/ MeetFull(s)
        \/ CancelBatch(s) \/ Disconnect(s)

Spec == Init /\ [][Next]_vars

-----------------------------------------------------------------------------
(***************************************************************************)
(* Properties.                                                             *)
(***************************************************************************)
Stored == [run : Run, role : {"user", "assistant", "tool"},
           turn : 0..(MaxTurns + 1), calls : 0..BatchSize,
           call : 0..BatchSize, pos : Nat]

(* Every message, session and history has the shape the code gives it; a   *)
(* session with uncommitted messages holds the row of the context.         *)
TypeOK ==
    /\ msgs \subseteq Stored /\ counter \in Nat /\ lock \in Run \cup {None}
    /\ pc \in [Run -> {"idle", "opening", "think", "answering", "calling",
                       "pausing", "paused", "resuming", "cancelling", "done"}]
    /\ todo \in [Run -> Seq(Stored)]
    /\ counted \in [Run -> Nat \cup {None}]
    /\ pending \in [Run -> SUBSET Stored]
    /\ turns \in [Run -> 0..MaxTurns] /\ saved \in [Run -> 0..BatchSize]
    /\ happened \subseteq Hazards
    /\ \A s \in Run : pending[s] # {} => lock = s

(* One position per message and no gap, and the counter agrees, whatever   *)
(* was rolled back, paused or broken off: "in position order" means one    *)
(* order, as long as the runs of a context work one after the other.       *)
PositionsDense ==
    "overlap" \notin happened =>
        /\ {m.pos : m \in msgs} = 0..(Cardinality(msgs) - 1)
        /\ counter = Cardinality(msgs)

(* "Hard cap of 1000 messages per context".  Runs at work at once count    *)
(* before either commits and may pass it.                                  *)
CapKept == "overlap" \notin happened => Cardinality(msgs) <= HardCap

(* Messages of one run are read back in the order it appended them, even   *)
(* when other runs append to the context at the same time.                 *)
Earlier(m, n) == \/ m.turn < n.turn
                 \/ m.turn = n.turn /\ m.call < n.call
RunInOrder ==
    \A m, n \in msgs : m.run = n.run /\ Earlier(m, n) => m.pos < n.pos

(* What the model is sent pairs every call with its result, right after    *)
(* it, whoever disconnected: a batch is committed whole or not at all.  A  *)
(* pause, a cancel or the soft cap separates a call from its result.       *)
Answers(n, m, i) == /\ n.role = "tool" /\ n.run = m.run /\ n.turn = m.turn
                    /\ n.call = i /\ n.pos = m.pos + i
Paired(messages) ==
    /\ \A m \in messages : \A i \in 1..m.calls :
          \E n \in messages : Answers(n, m, i)
    /\ \A n \in messages : n.role = "tool" =>
          \E m \in messages : n.call <= m.calls /\ Answers(n, m, n.call)
PayloadPaired ==
    \A s \in Run : pc[s] = "think" /\ happened = {} /\ Payload(s) = Seen(s) =>
        Paired(Payload(s))
=============================================================================
