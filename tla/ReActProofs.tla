----------------------------- MODULE ReActProofs -----------------------------
(***************************************************************************)
(* Theorems about a ReAct run, for any texts, limits, context sizes and    *)
(* failures.                                                               *)
(***************************************************************************)
EXTENDS ReActLoop, TLAPS

USE ReActAssumption

----------------------------------------------------------------------------
(* The inductive invariant. *)

Thinking == {"start", "top", "llm"}

(* What has been decided, committed and told at each label. *)
Decided ==
  /\ pc \notin {"tell", "done"} => row = Undecided
  /\ pc \notin {"commit", "tell", "done"} => draft = Undecided
  /\ pc \in {"commit", "tell"} => draft.status \in Final
  /\ pc = "tell" => row \in {draft, Undecided}
  /\ pc # "done" => left = "no" /\ told = "none"
  /\ left # "no" => told = "none"
  /\ left \in Final => row.status = "running"
  /\ told # "none" => draft.status \in Final /\ row \in {draft, Undecided}

(* The counters, so that a turn may add its tokens and the synthesis too. *)
Budget ==
  /\ pc = "start" => loops = 0 /\ tokens = 0
  /\ pc \in {"top", "llm"} => ~Exhausted(loops, tokens)
  /\ pc \in {"embed", "tools", "synthesis", "cancelling"} => tokens <= MaxTokens + TurnTokens

(* Every tool that was invoked is flushed, until the outcome is committed. *)
Recorded ==
  /\ pc \notin {"tell", "done"} => recorded + written = invoked
  /\ pc = "tell" /\ row = draft => recorded = invoked
  /\ told # "none" /\ row = draft => recorded = invoked

(* The thoughts of the run against prev, cand and the cached vector. *)
Neighbours ==
  /\ pc \in Thinking =>
       prev = IF thoughts = <<>> THEN NoText ELSE thoughts[Len(thoughts)]
  /\ pc \in {"embed", "tools"} =>
       /\ thoughts # <<>> /\ cand = thoughts[Len(thoughts)]
       /\ prev = IF Len(thoughts) = 1 THEN NoText ELSE thoughts[Len(thoughts) - 1]
  /\ pc \in Thinking \cup {"embed"} => vec \in {NoText, prev}
  /\ pc = "tools" => vec \in {NoText, cand}

Similar(outcome) ==
  outcome.stop = "similarity" =>
    /\ Len(thoughts) >= 2
    /\ compared = <<thoughts[Len(thoughts) - 1], thoughts[Len(thoughts)]>>
    /\ outcome.answer = compared[1]

LoopInv ==
  /\ TypeOK /\ Decided /\ Budget /\ Recorded /\ Neighbours
  /\ Similar(draft) /\ Similar(row)

----------------------------------------------------------------------------
(* What an action decides. *)

LEMMA DecideOutcome ==
  ASSUME NEW status \in Final, NEW stop \in Stop, NEW answer \in Text \cup {NoText},
         Decide(status, stop, answer)
  PROVE  /\ pc' = "commit" /\ draft' \in Outcome
         /\ draft'.status = status /\ draft'.stop = stop /\ draft'.answer = answer
  BY DEF Decide, Outcome

LEMMA FailOutcome ==
  ASSUME NEW stop \in Stop, Fail(stop)
  PROVE  /\ pc' = "commit" /\ draft' \in Outcome
         /\ draft'.status = "failed" /\ draft'.stop = stop
<1>1. "failed" \in Final
  BY DEF Final
<1>2. QED
  BY <1>1, DecideOutcome DEF Fail

LEMMA CompleteOutcome ==
  ASSUME TypeOK, NEW stop \in Stop, NEW answer \in Text, Complete(stop, answer)
  PROVE  /\ pc' = "commit" /\ draft' \in Outcome /\ room' \in 0 .. Room
         /\ draft'.status = "completed" /\ draft'.stop = stop /\ draft'.answer = answer
<1>1. "completed" \in Final
  BY DEF Final
<1>2. room' \in 0 .. Room
  BY DEF Complete, TypeOK
<1>3. QED
  BY <1>1, <1>2, DecideOutcome DEF Complete

(* A turn goes on to the commit of an outcome that no comparison decided.  *)
LEMMA OutcomeOk ==
  ASSUME LoopInv, pc \notin {"commit", "tell", "done"}, pc' = "commit",
         draft' \in Outcome, draft'.status \in Final, draft'.stop # "similarity",
         loops' \in 0 .. MaxLoops, tokens' \in 0 .. MaxTokens + (2 * TurnTokens),
         room' \in 0 .. Room,
         UNCHANGED <<cand, prev, vec, calls, pending, event, rowVars, written, recorded,
                     histVars>>
  PROVE  LoopInv'
<1>1. TypeOK'
  BY DEF LoopInv, TypeOK, rowVars, histVars, PC
<1>2. Decided'
  BY DEF LoopInv, Decided, rowVars
<1>3. Budget'
  BY DEF Budget
<1>4. Recorded'
  BY DEF LoopInv, Decided, Recorded, rowVars, histVars
<1>5. Neighbours'
  BY DEF Neighbours, Thinking
<1>6. Similar(draft)' /\ Similar(row)'
  BY DEF LoopInv, Similar, rowVars, histVars
<1>7. QED
  BY <1>1, <1>2, <1>3, <1>4, <1>5, <1>6 DEF LoopInv

----------------------------------------------------------------------------
LEMMA InitOk == Init => LoopInv
<1> SUFFICES ASSUME Init
             PROVE  LoopInv
  OBVIOUS
<1>1. Undecided \in Outcome
  BY DEF Undecided, Outcome, Stop
<1>2. TypeOK
  <2>1. 0 \in 0 .. MaxLoops /\ 0 \in 0 .. MaxTokens + (2 * TurnTokens) /\ 0 \in 0 .. MaxCalls
    OBVIOUS
  <2>2. <<>> \in Seq(Text)
    OBVIOUS
  <2>3. QED
    BY <1>1, <2>1, <2>2 DEF Init, TypeOK, PC
<1>3. Decided /\ Budget /\ Recorded
  BY DEF Init, Decided, Budget, Recorded, Undecided, Final
<1>4. Neighbours /\ Similar(draft) /\ Similar(row)
  BY DEF Init, Neighbours, Similar, Undecided, Thinking
<1>5. QED
  BY <1>2, <1>3, <1>4 DEF LoopInv

LEMMA StutterOk == LoopInv /\ UNCHANGED vars => LoopInv'
  BY DEF LoopInv, vars, loopVars, rowVars, msgVars, histVars, TypeOK, Decided, Budget,
         Recorded, Neighbours, Similar, Exhausted

LEMMA AppendUserMessageOk == LoopInv /\ AppendUserMessage => LoopInv'
<1> SUFFICES ASSUME LoopInv, AppendUserMessage
             PROVE  LoopInv'
  OBVIOUS
<1>1. /\ pc = "start"
      /\ UNCHANGED <<loopVars, event, rowVars, written, recorded, histVars>>
  BY DEF AppendUserMessage
<1>2. CASE room = 0
  <2>1. Fail("context_full") /\ room' = room
    BY <1>2 DEF AppendUserMessage
  <2>2. /\ pc' = "commit" /\ draft' \in Outcome
        /\ draft'.status = "failed" /\ draft'.stop = "context_full"
    BY <2>1, FailOutcome DEF Stop
  <2>3. QED
    BY <1>1, <2>1, <2>2, OutcomeOk DEF LoopInv, TypeOK, loopVars, Final
<1>3. CASE room # 0
  <2>1. pc' = "top" /\ room' = room - 1 /\ UNCHANGED draft
    BY <1>3 DEF AppendUserMessage
  <2>2. TypeOK' /\ Decided'
    BY <1>1, <1>3, <2>1 DEF LoopInv, TypeOK, Decided, PC, loopVars, rowVars, histVars
  <2>3. Budget'
    BY <1>1, <2>1 DEF LoopInv, Budget, Exhausted, loopVars
  <2>4. Recorded' /\ Neighbours' /\ Similar(draft)' /\ Similar(row)'
    BY <1>1, <2>1
       DEF LoopInv, Recorded, Neighbours, Thinking, Similar, loopVars, rowVars, histVars
  <2>5. QED
    BY <2>2, <2>3, <2>4 DEF LoopInv
<1>4. QED
  BY <1>2, <1>3

LEMMA StartTurnOk == LoopInv /\ StartTurn => LoopInv'
<1> SUFFICES ASSUME LoopInv, StartTurn
             PROVE  LoopInv'
  OBVIOUS
<1>1. /\ pc = "top" /\ pc' \in {"cancelling", "llm"}
      /\ UNCHANGED <<loopVars, draft, event, rowVars, msgVars, histVars>>
  BY DEF StartTurn
<1>2. TypeOK' /\ Decided'
  BY <1>1 DEF LoopInv, TypeOK, Decided, PC, loopVars, rowVars, msgVars, histVars
<1>3. Budget'
  BY <1>1 DEF LoopInv, TypeOK, Budget, Exhausted, loopVars
<1>4. Recorded' /\ Neighbours' /\ Similar(draft)' /\ Similar(row)'
  BY <1>1
     DEF LoopInv, Recorded, Neighbours, Thinking, Similar, loopVars, rowVars, msgVars, histVars
<1>5. QED
  BY <1>2, <1>3, <1>4 DEF LoopInv

(* The counters of a turn that was answered. *)
LEMMA AnsweredCounts ==
  ASSUME LoopInv, NEW t \in 0 .. TurnTokens, Answered(t)
  PROVE  /\ loops' \in 0 .. MaxLoops /\ tokens' \in 0 .. MaxTokens + TurnTokens
         /\ tokens' \in 0 .. MaxTokens + (2 * TurnTokens)
         /\ pc = "llm" /\ loops' = loops + 1 /\ tokens' = tokens + t
  BY DEF LoopInv, TypeOK, Budget, Exhausted, Answered

LEMMA TurnFailsOk == LoopInv /\ TurnFails => LoopInv'
<1> SUFFICES ASSUME LoopInv, TurnFails
             PROVE  LoopInv'
  OBVIOUS
<1>1. /\ pc' = "commit" /\ draft' \in Outcome
      /\ draft'.status = "failed" /\ draft'.stop = "llm_provider_error"
  BY FailOutcome DEF TurnFails, Stop
<1>2. QED
  BY <1>1, OutcomeOk DEF TurnFails, LoopInv, TypeOK, loopVars, msgVars, Final

LEMMA FinalAnswerOk == LoopInv /\ FinalAnswer => LoopInv'
<1> SUFFICES ASSUME LoopInv,
                    NEW t \in 0 .. TurnTokens, NEW text \in Text, Answered(t),
                    IF text = EmptyText THEN Fail("empty_response") /\ UNCHANGED room
                                        ELSE Complete("final", text),
                    UNCHANGED <<cand, prev, vec, calls, pending, event, rowVars, written,
                                recorded, histVars>>
             PROVE  LoopInv'
  BY DEF FinalAnswer
<1>1. /\ pc = "llm" /\ loops' \in 0 .. MaxLoops
      /\ tokens' \in 0 .. MaxTokens + (2 * TurnTokens)
  BY AnsweredCounts
<1>2. /\ pc' = "commit" /\ draft' \in Outcome /\ room' \in 0 .. Room
      /\ draft'.status \in Final /\ draft'.stop # "similarity"
  <2>1. CASE text = EmptyText
    <3>1. Fail("empty_response") /\ room' = room
      BY <2>1
    <3>2. QED
      BY <3>1, FailOutcome DEF Stop, Final, LoopInv, TypeOK
  <2>2. CASE text # EmptyText
    <3>1. Complete("final", text)
      BY <2>2
    <3>2. QED
      BY <3>1, CompleteOutcome DEF Stop, Final, LoopInv
  <2>3. QED
    BY <2>1, <2>2
<1>3. QED
  BY <1>1, <1>2, OutcomeOk

(* The guardrail sends the run to the synthesis or to a turn it may take.  *)
LEMMA GuardrailAllows ==
  ASSUME NEW l \in Nat, NEW t \in Nat, pending \in {"none", "max_loops", "max_tokens"},
         Guardrail(l, t)
  PROVE  /\ pc' \in {"top", "synthesis"}
         /\ pc' = "top" => ~Exhausted(l, t)
         /\ pending' \in {"none", "max_loops", "max_tokens"}
  BY DEF Guardrail

LEMMA ParseErrorOk == LoopInv /\ ParseError => LoopInv'
<1> SUFFICES ASSUME LoopInv, NEW t \in 0 .. TurnTokens, Answered(t),
                    Guardrail(loops + 1, tokens + t), Flushed,
                    UNCHANGED <<cand, prev, vec, calls, draft, event, rowVars, room, histVars>>
             PROVE  LoopInv'
  BY DEF ParseError
<1>1. /\ loops' \in 0 .. MaxLoops /\ tokens' \in 0 .. MaxTokens + TurnTokens
      /\ tokens' \in 0 .. MaxTokens + (2 * TurnTokens)
      /\ pc = "llm" /\ loops' = loops + 1 /\ tokens' = tokens + t
  BY AnsweredCounts
<1>2. /\ pc' \in {"top", "synthesis"}
      /\ pc' = "top" => ~Exhausted(loops', tokens')
      /\ pending' \in {"none", "max_loops", "max_tokens"}
  BY <1>1, GuardrailAllows DEF LoopInv, TypeOK
<1>3. TypeOK'
  BY <1>1, <1>2 DEF LoopInv, TypeOK, PC, Flushed, rowVars, histVars
<1>4. Decided'
  BY <1>1, <1>2 DEF LoopInv, Decided, rowVars
<1>5. Budget'
  BY <1>1, <1>2 DEF Budget, Exhausted
<1>6. Recorded'
  BY <1>1, <1>2 DEF LoopInv, TypeOK, Decided, Recorded, Flushed, rowVars, histVars
<1>7. Neighbours' /\ Similar(draft)' /\ Similar(row)'
  BY <1>1, <1>2 DEF LoopInv, Neighbours, Thinking, Similar, rowVars, histVars
<1>8. QED
  BY <1>3, <1>4, <1>5, <1>6, <1>7 DEF LoopInv

LEMMA ToolCallsOk == LoopInv /\ ToolCalls => LoopInv'
<1> SUFFICES ASSUME LoopInv,
                    NEW t \in 0 .. TurnTokens, NEW text \in Text, NEW n \in 1 .. MaxCalls,
                    Answered(t), cand' = text, calls' = n,
                    thoughts' = Append(thoughts, text), pc' = "embed",
                    UNCHANGED <<prev, vec, pending, draft, event, rowVars, msgVars,
                                invoked, compared>>
             PROVE  LoopInv'
  BY DEF ToolCalls
<1>1. /\ loops' \in 0 .. MaxLoops /\ tokens' \in 0 .. MaxTokens + TurnTokens
      /\ tokens' \in 0 .. MaxTokens + (2 * TurnTokens) /\ pc = "llm"
  BY AnsweredCounts
<1>2. /\ thoughts \in Seq(Text) /\ thoughts' \in Seq(Text)
      /\ Len(thoughts') = Len(thoughts) + 1 /\ Len(thoughts) \in Nat
      /\ thoughts'[Len(thoughts')] = text
      /\ thoughts # <<>> => thoughts'[Len(thoughts)] = thoughts[Len(thoughts)]
      /\ thoughts = <<>> <=> Len(thoughts) = 0
  BY DEF LoopInv, TypeOK
<1>3. TypeOK'
  BY <1>1, <1>2 DEF LoopInv, TypeOK, PC, rowVars, msgVars
<1>4. Decided' /\ Budget' /\ Recorded'
  BY <1>1 DEF LoopInv, Decided, Budget, Recorded, rowVars, msgVars
<1>5. Neighbours'
  <2>1. thoughts' # <<>> /\ (Len(thoughts') = 1 <=> thoughts = <<>>)
    BY <1>2
  <2>2. prev' = IF Len(thoughts') = 1 THEN NoText ELSE thoughts'[Len(thoughts') - 1]
    BY <1>1, <1>2, <2>1 DEF LoopInv, Neighbours, Thinking
  <2>3. vec' \in {NoText, prev'}
    BY <1>1 DEF LoopInv, Neighbours, Thinking
  <2>4. QED
    BY <1>2, <2>1, <2>2, <2>3 DEF Neighbours, Thinking
<1>6. draft = Undecided /\ row = Undecided
  BY <1>1 DEF LoopInv, Decided
<1>7. Similar(draft)' /\ Similar(row)'
  BY <1>6 DEF Similar, Undecided, rowVars
<1>8. QED
  BY <1>3, <1>4, <1>5, <1>7 DEF LoopInv

LEMMA NoComparisonOk == LoopInv /\ NoComparison => LoopInv'
<1> SUFFICES ASSUME LoopInv, NoComparison
             PROVE  LoopInv'
  OBVIOUS
<1>1. /\ pc = "embed" /\ pc' = "tools" /\ prev = NoText
      /\ UNCHANGED <<loopVars, draft, event, rowVars, msgVars, histVars>>
  BY DEF NoComparison
<1>2. TypeOK' /\ Decided' /\ Budget' /\ Recorded'
  BY <1>1 DEF LoopInv, TypeOK, Decided, Budget, Recorded, PC, loopVars, rowVars, msgVars,
              histVars
<1>3. Neighbours' /\ Similar(draft)' /\ Similar(row)'
  BY <1>1 DEF LoopInv, Neighbours, Thinking, Similar, loopVars, rowVars, histVars
<1>4. QED
  BY <1>2, <1>3 DEF LoopInv

(* The pair compared is the last two thoughts: the cached vector is the    *)
(* one of the previous thought, if there is one.                           *)
LEMMA CompareOk == LoopInv /\ (\E similar \in BOOLEAN : Compare(similar)) => LoopInv'
<1> SUFFICES ASSUME LoopInv, NEW similar \in BOOLEAN, Compare(similar)
             PROVE  LoopInv'
  OBVIOUS
<1>1. /\ pc = "embed" /\ prev # NoText /\ vec' = cand /\ compared' = <<CachedText, cand>>
      /\ UNCHANGED <<loops, tokens, cand, prev, calls, pending, event, rowVars,
                     written, recorded, invoked, thoughts>>
  BY DEF Compare
<1>2. /\ thoughts \in Seq(Text) /\ thoughts # <<>> /\ cand = thoughts[Len(thoughts)]
      /\ prev = IF Len(thoughts) = 1 THEN NoText ELSE thoughts[Len(thoughts) - 1]
      /\ vec \in {NoText, prev} /\ prev \in Text
  BY <1>1 DEF LoopInv, TypeOK, Neighbours, Thinking
<1>3. Len(thoughts) >= 2 /\ prev = thoughts[Len(thoughts) - 1]
  <2>1. Len(thoughts) \in Nat /\ Len(thoughts) # 0
    BY <1>2
  <2>2. Len(thoughts) # 1
    BY <1>1, <1>2
  <2>3. Len(thoughts) >= 2
    BY <2>1, <2>2
  <2>4. prev = thoughts[Len(thoughts) - 1]
    BY <1>2, <2>2
  <2>5. QED
    BY <2>3, <2>4
<1>4. CachedText = prev /\ cand \in Text
  BY <1>2 DEF CachedText
<1>5. compared' = <<thoughts[Len(thoughts) - 1], thoughts[Len(thoughts)]>> /\ compared'[1] = prev
  BY <1>1, <1>2, <1>3, <1>4
<1>6. compared' \in Text \X Text
  BY <1>1, <1>2, <1>4
<1>7. row = Undecided /\ left = "no" /\ told = "none" /\ draft = Undecided
  BY <1>1 DEF LoopInv, Decided
<1>8. Similar(row)'
  BY <1>1, <1>7 DEF Similar, Undecided, rowVars
<1>9. CASE similar
  <2>1. Complete("similarity", prev)
    BY <1>9 DEF Compare
  <2>2. /\ pc' = "commit" /\ draft' \in Outcome /\ room' \in 0 .. Room
        /\ draft'.status = "completed" /\ draft'.stop = "similarity" /\ draft'.answer = prev
    BY <1>2, <2>1, CompleteOutcome DEF Stop, LoopInv
  <2>3. TypeOK'
    BY <1>1, <1>4, <1>6, <2>2 DEF LoopInv, TypeOK, PC, rowVars
  <2>4. Decided' /\ Budget'
    BY <1>1, <1>7, <2>2 DEF LoopInv, Decided, Budget, rowVars, Final
  <2>5. Recorded'
    BY <1>1, <1>7, <2>2 DEF LoopInv, Recorded, rowVars
  <2>6. Neighbours'
    BY <2>2 DEF Neighbours, Thinking
  <2>7. Similar(draft)'
    BY <1>1, <1>3, <1>5, <2>2 DEF Similar
  <2>8. QED
    BY <1>8, <2>3, <2>4, <2>5, <2>6, <2>7 DEF LoopInv
<1>10. CASE ~similar
  <2>1. pc' = "tools" /\ UNCHANGED <<draft, room>>
    BY <1>10 DEF Compare
  <2>2. TypeOK'
    BY <1>1, <1>4, <1>6, <2>1 DEF LoopInv, TypeOK, PC, rowVars
  <2>3. Decided' /\ Budget' /\ Recorded'
    BY <1>1, <2>1 DEF LoopInv, Decided, Budget, Recorded, rowVars
  <2>4. Neighbours'
    BY <1>1, <1>2, <2>1 DEF Neighbours, Thinking
  <2>5. Similar(draft)'
    BY <1>7, <2>1 DEF Similar, Undecided
  <2>6. QED
    BY <1>8, <2>2, <2>3, <2>4, <2>5 DEF LoopInv
<1>11. QED
  BY <1>9, <1>10

LEMMA EmbeddingFailsOk == LoopInv /\ EmbeddingFails => LoopInv'
<1> SUFFICES ASSUME LoopInv, EmbeddingFails
             PROVE  LoopInv'
  OBVIOUS
<1>1. /\ pc' = "commit" /\ draft' \in Outcome
      /\ draft'.status = "failed" /\ draft'.stop = "embedding_unavailable"
  BY FailOutcome DEF EmbeddingFails, Stop
<1>2. QED
  BY <1>1, OutcomeOk DEF EmbeddingFails, LoopInv, TypeOK, loopVars, msgVars, Final

LEMMA InvokeToolOk == LoopInv /\ InvokeTool => LoopInv'
<1> SUFFICES ASSUME LoopInv, InvokeTool
             PROVE  LoopInv'
  OBVIOUS
<1>1. /\ pc = "tools" /\ pc' = pc /\ calls > 0 /\ calls' = calls - 1
      /\ invoked' = invoked + 1 /\ written' = written + 1
      /\ UNCHANGED <<loops, tokens, cand, prev, vec, pending, draft, event, rowVars,
                     room, recorded, thoughts, compared>>
  BY DEF InvokeTool
<1>2. TypeOK'
  BY <1>1 DEF LoopInv, TypeOK, rowVars
<1>3. Decided' /\ Budget'
  BY <1>1 DEF LoopInv, Decided, Budget, rowVars
<1>4. Recorded'
  BY <1>1 DEF LoopInv, TypeOK, Decided, Recorded, rowVars
<1>5. Neighbours' /\ Similar(draft)' /\ Similar(row)'
  BY <1>1 DEF LoopInv, Neighbours, Thinking, Similar, rowVars
<1>6. QED
  BY <1>2, <1>3, <1>4, <1>5 DEF LoopInv

LEMMA SeesCancelOk == LoopInv /\ SeesCancel => LoopInv'
<1> SUFFICES ASSUME LoopInv, SeesCancel
             PROVE  LoopInv'
  OBVIOUS
<1>1. /\ pc = "tools" /\ pc' = "cancelling"
      /\ UNCHANGED <<loopVars, draft, event, rowVars, msgVars, histVars>>
  BY DEF SeesCancel
<1>2. TypeOK' /\ Decided' /\ Budget' /\ Recorded'
  BY <1>1 DEF LoopInv, TypeOK, Decided, Budget, Recorded, PC, loopVars, rowVars, msgVars,
              histVars
<1>3. Neighbours' /\ Similar(draft)' /\ Similar(row)'
  BY <1>1 DEF LoopInv, Neighbours, Thinking, Similar, loopVars, rowVars, histVars
<1>4. QED
  BY <1>2, <1>3 DEF LoopInv

LEMMA TurnDoneOk == LoopInv /\ TurnDone => LoopInv'
<1> SUFFICES ASSUME LoopInv, TurnDone
             PROVE  LoopInv'
  OBVIOUS
<1>1. /\ pc = "tools" /\ Flushed /\ prev' = cand /\ Guardrail(loops, tokens)
      /\ UNCHANGED <<loops, tokens, cand, vec, calls, draft, event, rowVars, room, histVars>>
  BY DEF TurnDone
<1>2. /\ pc' \in {"top", "synthesis"}
      /\ pc' = "top" => ~Exhausted(loops, tokens)
      /\ pending' \in {"none", "max_loops", "max_tokens"}
  BY <1>1, GuardrailAllows DEF LoopInv, TypeOK
<1>3. TypeOK'
  BY <1>1, <1>2 DEF LoopInv, TypeOK, PC, Flushed, rowVars, histVars
<1>4. Decided' /\ Budget'
  BY <1>1, <1>2 DEF LoopInv, Decided, Budget, Exhausted, rowVars
<1>5. Recorded'
  BY <1>1, <1>2 DEF LoopInv, TypeOK, Decided, Recorded, Flushed, rowVars, histVars
<1>6. Neighbours' /\ Similar(draft)' /\ Similar(row)'
  BY <1>1, <1>2 DEF LoopInv, Neighbours, Thinking, Similar, rowVars, histVars
<1>7. QED
  BY <1>3, <1>4, <1>5, <1>6 DEF LoopInv

LEMMA SynthesisOk == LoopInv /\ (SkipSynthesis \/ SynthesisFails \/ Synthesis) => LoopInv'
<1>1. ASSUME LoopInv, SkipSynthesis \/ SynthesisFails
      PROVE  LoopInv'
  <2>1. \E stop \in Stop \ {"similarity"} : Fail(stop)
    BY <1>1 DEF SkipSynthesis, SynthesisFails, Stop
  <2>2. /\ pc' = "commit" /\ draft' \in Outcome
        /\ draft'.status = "failed" /\ draft'.stop # "similarity"
    BY <2>1, FailOutcome
  <2>3. QED
    BY <1>1, <2>2, OutcomeOk
       DEF SkipSynthesis, SynthesisFails, LoopInv, TypeOK, loopVars, msgVars, Final
<1>2. ASSUME LoopInv, Synthesis
      PROVE  LoopInv'
  <2>1. PICK t \in 0 .. TurnTokens, text \in Text :
          /\ pc = "synthesis" /\ tokens' = tokens + t
          /\ IF text = EmptyText THEN Fail("empty_response") /\ UNCHANGED room
                                 ELSE Complete(pending, text)
          /\ UNCHANGED <<loops, cand, prev, vec, calls, pending, event, rowVars,
                         written, recorded, histVars>>
    BY <1>2 DEF Synthesis
  <2>2. tokens' \in 0 .. MaxTokens + (2 * TurnTokens) /\ loops' \in 0 .. MaxLoops
    BY <1>2, <2>1 DEF LoopInv, TypeOK, Budget
  <2>3. /\ pc' = "commit" /\ draft' \in Outcome /\ room' \in 0 .. Room
        /\ draft'.status \in Final /\ draft'.stop # "similarity"
    <3>1. CASE text = EmptyText
      <4>1. Fail("empty_response") /\ room' = room
        BY <2>1, <3>1
      <4>2. QED
        BY <1>2, <4>1, FailOutcome DEF Stop, Final, LoopInv, TypeOK
    <3>2. CASE text # EmptyText
      <4>1. Complete(pending, text)
        BY <2>1, <3>2
      <4>2. pending \in Stop \ {"similarity"}
        BY <1>2 DEF LoopInv, TypeOK, Stop
      <4>3. QED
        BY <1>2, <4>1, <4>2, CompleteOutcome DEF Final, LoopInv
    <3>3. QED
      BY <3>1, <3>2
  <2>4. QED
    BY <1>2, <2>1, <2>2, <2>3, OutcomeOk
<1>3. QED
  BY <1>1, <1>2

----------------------------------------------------------------------------
(* The ways out. *)

LEMMA CommitOutcomeOk == LoopInv /\ CommitOutcome => LoopInv'
<1> SUFFICES ASSUME LoopInv, CommitOutcome
             PROVE  LoopInv'
  OBVIOUS
<1>1. /\ pc = "commit" /\ pc' = "tell" /\ row' = draft
      /\ recorded' = recorded + written /\ written' = 0
      /\ UNCHANGED <<loopVars, draft, event, left, told, room, histVars>>
  BY DEF CommitOutcome, Flushed
<1>2. TypeOK' /\ Decided' /\ Budget' /\ Recorded'
  BY <1>1 DEF LoopInv, TypeOK, Decided, Budget, Recorded, PC, loopVars, histVars, Final
<1>3. Neighbours' /\ Similar(draft)' /\ Similar(row)'
  BY <1>1 DEF LoopInv, Neighbours, Thinking, Similar, loopVars, histVars
<1>4. QED
  BY <1>2, <1>3 DEF LoopInv

LEMMA TellOutcomeOk == LoopInv /\ TellOutcome => LoopInv'
<1> SUFFICES ASSUME LoopInv, TellOutcome
             PROVE  LoopInv'
  OBVIOUS
<1>1. /\ pc = "tell" /\ pc' = "done" /\ told' = draft.status
      /\ UNCHANGED <<loopVars, draft, event, row, left, msgVars, histVars>>
  BY DEF TellOutcome
<1>2. TypeOK' /\ Decided' /\ Budget' /\ Recorded'
  BY <1>1 DEF LoopInv, TypeOK, Decided, Budget, Recorded, PC, loopVars, msgVars, histVars,
              Final
<1>3. Neighbours' /\ Similar(draft)' /\ Similar(row)'
  BY <1>1 DEF LoopInv, Neighbours, Thinking, Similar, loopVars, histVars
<1>4. QED
  BY <1>2, <1>3 DEF LoopInv

LEMMA FinalizeCancelledOk == LoopInv /\ FinalizeCancelled => LoopInv'
<1> SUFFICES ASSUME LoopInv, FinalizeCancelled
             PROVE  LoopInv'
  OBVIOUS
<1>1. /\ pc = "cancelling" /\ pc' = "tell" /\ draft' = Cancelled
      /\ \/ row' = Cancelled /\ recorded' = recorded + written /\ written' = 0
         \/ row' = row /\ recorded' = recorded /\ written' = 0
      /\ UNCHANGED <<loopVars, event, left, told, room, histVars>>
  BY DEF FinalizeCancelled, Flushed
<1>2. /\ Cancelled \in Outcome /\ Cancelled.status = "cancelled"
      /\ Cancelled.stop = "cancelled" /\ Cancelled # Undecided
  BY DEF Cancelled, Outcome, Undecided, Stop, Final
<1>3. row = Undecided /\ left = "no" /\ told = "none" /\ recorded + written = invoked
  BY <1>1 DEF LoopInv, Decided, Recorded
<1>4. TypeOK' /\ Decided' /\ Budget' /\ Recorded'
  BY <1>1, <1>2, <1>3
     DEF LoopInv, TypeOK, Decided, Budget, Recorded, PC, loopVars, histVars, Final
<1>5. Neighbours'
  BY <1>1 DEF Neighbours, Thinking
<1>6. Similar(draft)' /\ Similar(row)'
  BY <1>1, <1>2, <1>3 DEF Similar, Undecided
<1>7. QED
  BY <1>4, <1>5, <1>6 DEF LoopInv

LEMMA CancelOk == LoopInv /\ Cancel => LoopInv'
<1> SUFFICES ASSUME LoopInv, Cancel
             PROVE  LoopInv'
  OBVIOUS
<1>1. event' = TRUE /\ UNCHANGED <<pc, loopVars, draft, rowVars, msgVars, histVars>>
  BY DEF Cancel
<1>2. TypeOK' /\ Decided' /\ Budget' /\ Recorded'
  BY <1>1 DEF LoopInv, TypeOK, Decided, Budget, Exhausted, Recorded, loopVars, rowVars,
              msgVars, histVars
<1>3. Neighbours' /\ Similar(draft)' /\ Similar(row)'
  BY <1>1 DEF LoopInv, Neighbours, Thinking, Similar, loopVars, rowVars, histVars
<1>4. QED
  BY <1>2, <1>3 DEF LoopInv

LEMMA LeaveOk == LoopInv /\ (LeaveUnfinalized \/ LeaveFinalized) => LoopInv'
<1> SUFFICES ASSUME LoopInv, LeaveUnfinalized \/ LeaveFinalized
             PROVE  LoopInv'
  OBVIOUS
<1>1. /\ pc' = "done" /\ written' = 0
      /\ UNCHANGED <<loopVars, draft, event, row, told, room, recorded, histVars>>
  BY DEF LeaveUnfinalized, LeaveFinalized, Leave
<1>2. /\ pc # "done" /\ left = "no" /\ told = "none"
      /\ \/ left' = "no"
         \/ left' \in {"cancelled", "failed"} /\ row = Undecided
  BY DEF LeaveUnfinalized, LeaveFinalized, Unfinalized, Leave, LoopInv, Decided
<1>3. TypeOK' /\ Decided' /\ Budget' /\ Recorded'
  BY <1>1, <1>2
     DEF LoopInv, TypeOK, Decided, Budget, Recorded, PC, loopVars, histVars, Final, Undecided
<1>4. Neighbours' /\ Similar(draft)' /\ Similar(row)'
  BY <1>1 DEF LoopInv, Neighbours, Thinking, Similar, loopVars, histVars
<1>5. QED
  BY <1>3, <1>4 DEF LoopInv

LEMMA RunOrphanOk == LoopInv /\ RunOrphan => LoopInv'
<1> SUFFICES ASSUME LoopInv, RunOrphan
             PROVE  LoopInv'
  OBVIOUS
<1>1. /\ left \in Final /\ left' = "settled"
      /\ UNCHANGED <<pc, loopVars, draft, event, told, msgVars, histVars>>
      /\ row'.stop \in {"internal_error", "cancelled", "client_disconnected"}
      /\ row' \in Outcome
  BY DEF RunOrphan, Outcome, Stop
<1>2. pc = "done" /\ told = "none"
  BY <1>1 DEF LoopInv, Decided, Final
<1>3. TypeOK' /\ Decided' /\ Budget' /\ Recorded'
  BY <1>1, <1>2
     DEF LoopInv, TypeOK, Decided, Budget, Recorded, loopVars, msgVars, histVars, Final
<1>4. Neighbours' /\ Similar(draft)' /\ Similar(row)'
  BY <1>1, <1>2 DEF LoopInv, Neighbours, Thinking, Similar, histVars
<1>5. QED
  BY <1>3, <1>4 DEF LoopInv

LEMMA NextOk == LoopInv /\ [Next]_vars => LoopInv'
  BY StutterOk, AppendUserMessageOk, StartTurnOk, TurnFailsOk, ParseErrorOk, FinalAnswerOk,
     ToolCallsOk, NoComparisonOk, CompareOk, EmbeddingFailsOk, InvokeToolOk, SeesCancelOk,
     TurnDoneOk, SynthesisOk, CommitOutcomeOk, TellOutcomeOk, FinalizeCancelledOk, CancelOk,
     LeaveOk, RunOrphanOk
     DEF Next, Advance

LEMMA Invariant == Spec => []LoopInv
  BY InitOk, NextOk, PTL DEF Spec

----------------------------------------------------------------------------
(* Counters, texts, outcomes and histories keep their types; the loop and  *)
(* token counters never pass their limits by more than one response each.  *)
THEOREM LoopTyped == Spec => []TypeOK
<1>1. LoopInv => TypeOK
  BY DEF LoopInv
<1>2. QED
  BY <1>1, Invariant, PTL

(* No turn begins once a limit is reached, whichever path the last turn    *)
(* took through the loop.                                                  *)
THEOREM GuardrailsHold == Spec => []NoTurnPastGuardrail
<1>1. LoopInv => NoTurnPastGuardrail
  BY DEF LoopInv, Budget, NoTurnPastGuardrail
<1>2. QED
  BY <1>1, Invariant, PTL

(* A stop on similarity compared the last two thoughts.                    *)
THEOREM NeighboursCompared == Spec => []StopsOnNeighbours
<1>1. LoopInv => StopsOnNeighbours
  BY DEF LoopInv, Similar, StopsOnNeighbours
<1>2. QED
  BY <1>1, Invariant, PTL

(* When the client is told how the run ended, and the database took the    *)
(* outcome, every tool that was invoked is on record.                      *)
THEOREM EveryCallIsRecorded == Spec => []EveryCallRecorded
<1>1. LoopInv => EveryCallRecorded
  BY DEF LoopInv, Decided, Recorded, EveryCallRecorded, Lost, Undecided
<1>2. QED
  BY <1>1, Invariant, PTL

----------------------------------------------------------------------------
(* The refinement of RunContract. *)

(* What the abstract client is told: nothing, when the outcome was lost.   *)
Heard == IF Lost THEN "none" ELSE told

LEMMA StepKeepsContract ==
  ASSUME LoopInv, LoopInv', [Next]_vars
  PROVE  Contract!ContractNext \/ UNCHANGED <<row.status, left, Heard>>
<1>1. CASE CommitOutcome
  <2>1. /\ row = Undecided /\ left = "no" /\ told = "none" /\ draft.status \in Final
        /\ row' = draft /\ UNCHANGED <<left, told>>
    BY <1>1 DEF CommitOutcome, LoopInv, Decided
  <2>2. Heard = "none" /\ Heard' = "none"
    BY <2>1 DEF Heard
  <2>3. Contract!Settle
    BY <2>1, <2>2 DEF Contract!Settle, Contract!Final, Final, Undecided, Heard
  <2>4. QED
    BY <2>3 DEF Contract!ContractNext
<1>2. CASE FinalizeCancelled
  <2>1. /\ row = Undecided /\ left = "no" /\ told = "none"
        /\ row' = Cancelled \/ row' = row
        /\ UNCHANGED <<left, told>>
    BY <1>2 DEF FinalizeCancelled, LoopInv, Decided
  <2>2. Heard = "none" /\ Heard' = "none"
    BY <2>1 DEF Heard
  <2>3. CASE row' = Cancelled
    <3>1. Contract!Settle
      BY <2>1, <2>2, <2>3 DEF Contract!Settle, Contract!Final, Undecided, Cancelled, Heard
    <3>2. QED
      BY <3>1 DEF Contract!ContractNext
  <2>4. CASE row' = row
    BY <2>1, <2>2, <2>4
  <2>5. QED
    BY <2>1, <2>3, <2>4
<1>3. CASE TellOutcome
  <2>1. /\ pc = "tell" /\ pc' = "done" /\ told = "none" /\ left = "no"
        /\ draft.status \in Final /\ row \in {draft, Undecided}
        /\ told' = draft.status /\ UNCHANGED <<draft, row, left>>
    BY <1>3 DEF TellOutcome, LoopInv, Decided
  <2>2. Heard = "none"
    BY <2>1 DEF Heard
  <2>3. CASE row = Undecided
    <3>1. Lost'
      BY <2>1, <2>3 DEF Lost, Undecided
    <3>2. QED
      BY <2>1, <2>2, <3>1 DEF Heard
  <2>4. CASE row = draft
    <3>1. ~Lost'
      BY <2>1, <2>4 DEF Lost, Final
    <3>2. Contract!Tell
      BY <2>1, <2>2, <2>4, <3>1 DEF Contract!Tell, Contract!Final, Final, Heard
    <3>3. QED
      BY <3>2 DEF Contract!ContractNext
  <2>5. QED
    BY <2>1, <2>3, <2>4
<1>4. CASE LeaveUnfinalized
  <2>1. /\ row = Undecided /\ left = "no" /\ told = "none"
        /\ left' \in {"cancelled", "failed"} /\ UNCHANGED <<row, told>>
    BY <1>4 DEF LeaveUnfinalized, Leave, Unfinalized, LoopInv, Decided
  <2>2. Heard = "none" /\ Heard' = "none"
    BY <2>1 DEF Heard
  <2>3. Contract!Abandon
    BY <2>1, <2>2 DEF Contract!Abandon, Contract!Final, Undecided, Heard
  <2>4. QED
    BY <2>3 DEF Contract!ContractNext
<1>5. CASE RunOrphan
  <2>1. /\ row.status = "running" /\ left \in Final /\ told = "none" /\ told' = told
        /\ row'.status = left /\ left' = "settled"
    BY <1>5 DEF RunOrphan, LoopInv, Decided, Final
  <2>2. Heard = "none" /\ Heard' = "none"
    BY <2>1 DEF Heard
  <2>3. Contract!SettleDetached
    BY <2>1, <2>2 DEF Contract!SettleDetached, Contract!Final, Final, Heard
  <2>4. QED
    BY <2>3 DEF Contract!ContractNext
<1>6. CASE LeaveFinalized \/ Cancel
  <2>1. pc # "done" /\ told = "none" /\ UNCHANGED <<row, left, told>>
    BY <1>6 DEF LeaveFinalized, Leave, Cancel, rowVars, LoopInv, Decided
  <2>2. QED
    BY <2>1 DEF Heard
<1>7. CASE \/ AppendUserMessage \/ StartTurn \/ TurnFails \/ ParseError \/ FinalAnswer
           \/ ToolCalls \/ NoComparison \/ (\E similar \in BOOLEAN : Compare(similar))
           \/ EmbeddingFails \/ InvokeTool \/ SeesCancel \/ TurnDone
           \/ SkipSynthesis \/ SynthesisFails \/ Synthesis
  <2>1. UNCHANGED rowVars /\ pc # "done"
    BY <1>7 DEF AppendUserMessage, StartTurn, TurnFails, ParseError, FinalAnswer, ToolCalls,
                NoComparison, Compare, EmbeddingFails, InvokeTool, SeesCancel, TurnDone,
                SkipSynthesis, SynthesisFails, Synthesis, Answered
  <2>2. told = "none" /\ UNCHANGED <<row, left, told>>
    BY <2>1 DEF LoopInv, Decided, rowVars
  <2>3. QED
    BY <2>2 DEF Heard
<1>8. CASE UNCHANGED vars
  BY <1>8 DEF vars, rowVars, Heard, Lost
<1>9. QED
  BY <1>1, <1>2, <1>3, <1>4, <1>5, <1>6, <1>7, <1>8 DEF Next, Advance

(* A ReAct run keeps the promise all executors make: its row leaves        *)
(* running once, and the client is told the state the row holds.           *)
THEOREM ReActKeepsContract == Spec => KeepsContract
<1>1. Init => Contract!ContractInit
  BY DEF Init, Contract!ContractInit, Undecided, Lost
<1>2. LoopInv /\ LoopInv' /\ [Next]_vars
        => [Contract!ContractNext]_<<row.status, left, IF Lost THEN "none" ELSE told>>
  BY StepKeepsContract DEF Heard
<1>3. QED
  BY <1>1, <1>2, Invariant, PTL
    DEF Spec, KeepsContract, Contract!ContractSpec, Contract!contractVars

----------------------------------------------------------------------------
(* A run takes a bounded number of steps. *)

(* The steps of a turn: the look at the event, the answer, the comparison, *)
(* the calls, and the end of the turn.                                     *)
TurnSteps == MaxCalls + 4

TurnsLeft(n) == (MaxLoops - n) * TurnSteps

(* The steps the run may still take, cancel and detached finalize apart.   *)
Ahead ==
  CASE pc = "start"                    -> TurnsLeft(loops) + 5
    [] pc = "top"                      -> TurnsLeft(loops) + 4
    [] pc = "llm"                      -> TurnsLeft(loops) + 3
    [] pc = "embed"                    -> TurnsLeft(loops) + MaxCalls + 6
    [] pc = "tools"                    -> TurnsLeft(loops) + calls + 5
    [] pc = "synthesis"                -> 3
    [] pc \in {"commit", "cancelling"} -> 2
    [] pc = "tell"                     -> 1
    [] OTHER                           -> 0

ToCancel == IF event THEN 0 ELSE 1
ToSettle == IF left \in Final THEN 1 ELSE 0

StepsLeft == Ahead + ToCancel + ToSettle

MostSteps == (MaxLoops * TurnSteps) + 6

LEMMA TurnsCountDown ==
  ASSUME NEW n \in 0 .. MaxLoops
  PROVE  /\ TurnsLeft(n) \in Nat
         /\ n < MaxLoops => TurnsLeft(n) = TurnsLeft(n + 1) + TurnSteps
<1>1. TurnSteps \in Nat /\ MaxLoops - n \in Nat
  BY DEF TurnSteps
<1>2. \A k, w \in Nat : k * w \in Nat /\ (k + 1) * w = k * w + w
  OBVIOUS
<1>3. TurnsLeft(n) \in Nat
  BY <1>1, <1>2 DEF TurnsLeft
<1>4. ASSUME n < MaxLoops PROVE TurnsLeft(n) = TurnsLeft(n + 1) + TurnSteps
  <2>1. MaxLoops - (n + 1) \in Nat /\ MaxLoops - n = (MaxLoops - (n + 1)) + 1
    BY <1>4
  <2>2. QED
    BY <1>1, <1>2, <2>1 DEF TurnsLeft
<1>5. QED
  BY <1>3, <1>4

LEMMA AheadType == LoopInv => Ahead \in Nat
<1> SUFFICES ASSUME LoopInv PROVE Ahead \in Nat
  OBVIOUS
<1>1. TurnsLeft(loops) \in Nat /\ calls \in Nat /\ MaxCalls \in Nat
  BY TurnsCountDown DEF LoopInv, TypeOK
<1> HIDE DEF TurnsLeft
<1>2. QED
  BY <1>1 DEF Ahead

LEMMA AheadTypeNext == LoopInv' => (Ahead \in Nat)'
BY AheadType, PTL

(* Each step of the executor is one less. *)
LEMMA AdvanceCounts ==
  ASSUME LoopInv, Advance
  PROVE  Ahead' < Ahead /\ UNCHANGED <<event, left>>
<1> DEFINE Turns == TurnsLeft(loops)
<1>1. /\ loops \in 0 .. MaxLoops /\ calls \in 0 .. MaxCalls /\ MaxCalls \in Nat
      /\ TurnsLeft(loops) \in Nat /\ TurnSteps = MaxCalls + 4
      /\ pc \in {"top", "llm"} => loops < MaxLoops /\ loops + 1 \in 0 .. MaxLoops
  BY TurnsCountDown DEF LoopInv, TypeOK, Budget, Exhausted, TurnSteps
<1>2. /\ pc = "llm" => /\ TurnsLeft(loops + 1) \in Nat
                       /\ TurnsLeft(loops) = TurnsLeft(loops + 1) + MaxCalls + 4
  BY <1>1, TurnsCountDown
<1> HIDE DEF TurnsLeft
<1>3. CASE AppendUserMessage \/ StartTurn
  BY <1>1, <1>3 DEF AppendUserMessage, StartTurn, Fail, Decide, Ahead, loopVars, rowVars
<1>4. CASE TurnFails \/ FinalAnswer
  BY <1>1, <1>4
    DEF TurnFails, FinalAnswer, Answered, Complete, Fail, Decide, Ahead, loopVars, rowVars
<1>5. CASE ParseError
  BY <1>1, <1>2, <1>5 DEF ParseError, Answered, Guardrail, Ahead, rowVars
<1>6. CASE ToolCalls
  <2>1. /\ pc = "llm" /\ pc' = "embed" /\ loops' = loops + 1
        /\ UNCHANGED <<event, left>>
    BY <1>6 DEF ToolCalls, Answered, rowVars
  <2>2. Ahead = TurnsLeft(loops) + 3 /\ Ahead' = TurnsLeft(loops + 1) + MaxCalls + 6
    BY <2>1 DEF Ahead
  <2>3. QED
    BY <1>1, <1>2, <2>1, <2>2
<1>7. CASE NoComparison \/ EmbeddingFails \/ (\E similar \in BOOLEAN : Compare(similar))
  BY <1>1, <1>7
    DEF NoComparison, EmbeddingFails, Compare, Complete, Fail, Decide, Ahead, loopVars, rowVars
<1>8. CASE InvokeTool \/ SeesCancel \/ TurnDone
  BY <1>1, <1>8 DEF InvokeTool, SeesCancel, TurnDone, Guardrail, Ahead, loopVars, rowVars
<1>9. CASE SkipSynthesis \/ SynthesisFails \/ Synthesis
  BY <1>9
    DEF SkipSynthesis, SynthesisFails, Synthesis, Complete, Fail, Decide, Ahead, rowVars
<1>10. CASE CommitOutcome \/ TellOutcome \/ FinalizeCancelled
  BY <1>10 DEF CommitOutcome, TellOutcome, FinalizeCancelled, Ahead, rowVars
<1>11. QED
  BY <1>3, <1>4, <1>5, <1>6, <1>7, <1>8, <1>9, <1>10 DEF Advance

LEMMA SumFalls ==
  ASSUME NEW a \in Nat, NEW x \in Nat,
         NEW b \in 0 .. 1, NEW y \in 0 .. 1, NEW c \in 0 .. 1, NEW z \in 0 .. 1,
         \/ x < a /\ y = b /\ (z = c \/ (x = 0 /\ a >= 2))
         \/ x = a /\ y < b /\ z = c
         \/ x = a /\ y = b /\ z < c
  PROVE  /\ a + b + c \in Nat /\ x + y + z \in Nat
         /\ x + y + z < a + b + c
OBVIOUS

LEMMA StepCounts ==
  ASSUME LoopInv, LoopInv', Next
  PROVE  /\ StepsLeft \in Nat /\ StepsLeft' \in Nat
         /\ StepsLeft' < StepsLeft
<1>1. /\ TurnsLeft(loops) \in Nat /\ calls \in Nat /\ MaxCalls \in Nat
      /\ pc \in PC /\ event \in BOOLEAN
  BY TurnsCountDown DEF LoopInv, TypeOK
<1> HIDE DEF TurnsLeft
<1>2. Ahead \in Nat /\ Ahead' \in Nat
  BY AheadType, AheadTypeNext
<1>3. /\ ToCancel \in 0 .. 1 /\ ToCancel' \in 0 .. 1
      /\ ToSettle \in 0 .. 1 /\ ToSettle' \in 0 .. 1
  BY DEF ToCancel, ToSettle
<1>0. /\ StepsLeft = Ahead + ToCancel + ToSettle
      /\ StepsLeft' = Ahead' + ToCancel' + ToSettle'
  BY DEF StepsLeft
<1> HIDE DEF Ahead, ToCancel, ToSettle, StepsLeft
<1>4. CASE Advance
  <2>1. Ahead' < Ahead /\ UNCHANGED <<event, left>>
    BY <1>4, AdvanceCounts
  <2>2. ToCancel' = ToCancel /\ ToSettle' = ToSettle
    BY <2>1 DEF ToCancel, ToSettle
  <2>3. QED
    BY <1>0, <1>2, <1>3, <2>1, <2>2, SumFalls
<1>5. CASE Cancel \/ RunOrphan
  <2>1. UNCHANGED <<pc, loops, calls>>
    BY <1>5 DEF Cancel, RunOrphan, loopVars
  <2>2. Ahead' = Ahead
    BY <2>1 DEF Ahead, TurnsLeft
  <2>3. \/ ToCancel = 1 /\ ToCancel' = 0 /\ ToSettle' = ToSettle
        \/ ToSettle = 1 /\ ToSettle' = 0 /\ ToCancel' = ToCancel
    BY <1>5 DEF Cancel, RunOrphan, rowVars, Final, ToCancel, ToSettle
  <2>4. \/ ToCancel' < ToCancel /\ ToSettle' = ToSettle
        \/ ToSettle' < ToSettle /\ ToCancel' = ToCancel
    BY <2>3
  <2>5. QED
    BY <1>0, <1>2, <1>3, <2>2, <2>4, SumFalls
<1>6. CASE LeaveUnfinalized \/ LeaveFinalized
  <2>1. UNCHANGED event /\ Ahead' = 0 /\ Ahead >= 1 /\ (left' = left \/ Ahead >= 2)
    BY <1>1, <1>6
      DEF LeaveUnfinalized, LeaveFinalized, Leave, Unfinalized, ContextFull, Ahead, PC
  <2>2. ToCancel' = ToCancel /\ (ToSettle' = ToSettle \/ Ahead >= 2)
    BY <2>1 DEF ToCancel, ToSettle
  <2>3. /\ Ahead' < Ahead /\ ToCancel' = ToCancel
        /\ ToSettle' = ToSettle \/ (Ahead' = 0 /\ Ahead >= 2)
    BY <1>2, <2>1, <2>2
  <2>4. QED
    BY <1>0, <1>2, <1>3, <2>3, SumFalls
<1>7. QED
  BY <1>4, <1>5, <1>6 DEF Next

(* A ReAct run takes at most MostSteps steps, whatever the model answers   *)
(* and the client does: every step, a cancel, a disconnect and the         *)
(* detached finalize included, leaves fewer steps to take.  So a run that  *)
(* does not end is one that is not scheduled, never one that loops.        *)
THEOREM RunsAreBounded ==
  Spec => [](StepsLeft \in 0 .. MostSteps) /\ [][StepsLeft' < StepsLeft]_vars
<1> DEFINE Within == StepsLeft \in 0 .. MostSteps
<1>1. Init => Within
  <2>1. SUFFICES ASSUME Init PROVE StepsLeft = MostSteps /\ MostSteps \in Nat
    OBVIOUS
  <2>2. TurnsLeft(0) = MaxLoops * TurnSteps /\ TurnsLeft(0) \in Nat
    BY TurnsCountDown DEF TurnsLeft
  <2>3. Ahead = TurnsLeft(0) + 5 /\ ToCancel = 1 /\ ToSettle = 0
    BY <2>1 DEF Init, Ahead, ToCancel, ToSettle, Final
  <2>4. QED
    BY <2>2, <2>3 DEF StepsLeft, MostSteps
<1>2. LoopInv /\ LoopInv' /\ Within /\ [Next]_vars => Within'
  <2>1. UNCHANGED vars => StepsLeft' = StepsLeft
    BY DEF vars, loopVars, rowVars, StepsLeft, Ahead, TurnsLeft, ToCancel, ToSettle
  <2>2. MostSteps \in Nat
    BY TurnsCountDown DEF MostSteps, TurnsLeft
  <2>3. QED
    BY <2>1, <2>2, StepCounts
<1>3. LoopInv /\ LoopInv' /\ [Next]_vars => [StepsLeft' < StepsLeft]_vars
  BY StepCounts
<1> HIDE DEF Within
<1>4. Spec => []Within
  BY <1>1, <1>2, Invariant, PTL DEF Spec
<1>5. QED
  BY <1>3, <1>4, Invariant, PTL DEF Spec, Within
----------------------------------------------------------------------------
(* What else can be proved of RunEnds: a run with nothing left to do has   *)
(* ended.                                                                  *)

(* The executor is gone, and no detached finalize is owed. *)
AtRest == pc = "done" /\ left \notin Final

Rest ==
  /\ AtRest => row.status \in Final \/ Lost
  /\ Lost => "commit_fault" \in Environment

(* Until its outcome is decided a run is not over. *)
LEMMA WorkGoesOn ==
  ASSUME Advance, ~CommitOutcome, ~TellOutcome, ~FinalizeCancelled
  PROVE  pc' \notin {"tell", "done"}
<1>1. CASE AppendUserMessage \/ StartTurn \/ TurnFails \/ ParseError \/ FinalAnswer \/ ToolCalls
  BY <1>1 DEF AppendUserMessage, StartTurn, TurnFails, ParseError, FinalAnswer, ToolCalls,
     Answered, Guardrail, Fail, Complete, Decide
<1>2. CASE NoComparison \/ (\E similar \in BOOLEAN : Compare(similar)) \/ EmbeddingFails
  BY <1>2 DEF NoComparison, Compare, EmbeddingFails, Fail, Complete, Decide
<1>3. CASE InvokeTool \/ SeesCancel \/ TurnDone
  BY <1>3 DEF InvokeTool, SeesCancel, TurnDone, Guardrail
<1>4. CASE SkipSynthesis \/ SynthesisFails \/ Synthesis
  BY <1>4 DEF SkipSynthesis, SynthesisFails, Synthesis, Fail, Complete, Decide
<1>5. QED
  BY <1>1, <1>2, <1>3, <1>4 DEF Advance

LEMMA RestNext == LoopInv /\ Rest /\ [Next]_vars => Rest'
<1> SUFFICES ASSUME LoopInv, Rest, [Next]_vars PROVE Rest'
  OBVIOUS
<1>1. CASE Advance /\ ~CommitOutcome /\ ~TellOutcome /\ ~FinalizeCancelled
  BY <1>1, WorkGoesOn DEF Rest, AtRest, Lost
<1>2. CASE CommitOutcome
  <2>1. pc' = "tell" /\ row' = draft /\ draft.status \in Final
    BY <1>2 DEF CommitOutcome, LoopInv, Decided
  <2>2. QED
    BY <2>1 DEF Rest, AtRest, Lost, Final
<1>3. CASE TellOutcome
  <2>1. /\ pc = "tell" /\ pc' = "done" /\ UNCHANGED <<row, draft, left>>
        /\ draft.status \in Final /\ row \in {draft, Undecided}
    BY <1>3 DEF TellOutcome, LoopInv, Decided
  <2>2. QED
    BY <2>1 DEF Rest, AtRest, Lost, Undecided
<1>4. CASE FinalizeCancelled
  <2>1. /\ pc' = "tell"
        /\ row'.status \in Final \/ "commit_fault" \in Environment
    BY <1>4 DEF FinalizeCancelled, Cancelled, Final
  <2>2. QED
    BY <2>1 DEF Rest, AtRest, Lost, Final
<1>5. CASE LeaveUnfinalized
  <2>1. pc \notin {"commit", "tell", "done"} /\ left' \in Final /\ UNCHANGED <<row, draft>>
    BY <1>5 DEF LeaveUnfinalized, Unfinalized, Leave, Final
  <2>2. draft.status \notin Final
    BY <2>1 DEF LoopInv, Decided, Undecided, Final
  <2>3. QED
    BY <2>1, <2>2 DEF Rest, AtRest, Lost
<1>6. CASE LeaveFinalized
  <2>1. /\ pc' = "done" /\ UNCHANGED <<row, draft, left>>
        /\ pc = "tell" \/ (pc = "commit" /\ "commit_fault" \in Environment)
    BY <1>6 DEF LeaveFinalized, Leave
  <2>2. /\ draft.status \in Final
        /\ pc = "tell" => row \in {draft, Undecided}
        /\ pc = "commit" => row = Undecided
    BY <2>1 DEF LoopInv, Decided
  <2>3. QED
    BY <2>1, <2>2 DEF Rest, AtRest, Lost, Undecided
<1>7. CASE RunOrphan
  <2>1. row'.status \in Final
    BY <1>7 DEF RunOrphan
  <2>2. QED
    BY <2>1 DEF Rest, AtRest, Lost, Final
<1>8. CASE Cancel \/ UNCHANGED vars
  BY <1>8 DEF Cancel, vars, rowVars, Rest, AtRest, Lost
<1>9. QED
  BY <1>1, <1>2, <1>3, <1>4, <1>5, <1>6, <1>7, <1>8 DEF Next

(* A ReAct run whose executor is gone, with no detached finalize owed, has *)
(* its end in its row: nothing but a final commit that the database        *)
(* refused, or that the client left, leaves it running.  With               *)
(* RunsAreBounded, RunEnds adds only that the steps are taken.             *)
THEOREM RunsAtRestEnded ==
  Spec => [](AtRest => \/ row.status \in Final
                       \/ Lost /\ "commit_fault" \in Environment)
<1>1. Init => Rest
  BY DEF Init, Rest, AtRest, Lost
<1>2. Rest => (AtRest => \/ row.status \in Final
                         \/ Lost /\ "commit_fault" \in Environment)
  BY DEF Rest
<1>3. QED
  BY <1>1, <1>2, RestNext, Invariant, PTL DEF Spec
=============================================================================
