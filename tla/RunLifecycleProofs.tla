------------------------- MODULE RunLifecycleProofs -------------------------
(***************************************************************************)
(* Safety of the run lifecycle for every set of requests, every bound and  *)
(* every environment: types, pauses and cancellations first; then what     *)
(* holds as long as a paused task is answered by one request at a time:    *)
(* the registry's event is the executor's, an answer belongs to a          *)
(* completed run, a batch is invoked once, the rows follow the protocol    *)
(* and the replies tell the truth.                                         *)
(***************************************************************************)
EXTENDS RunLifecycle, TLAPS

USE RunAssumption

----------------------------------------------------------------------------
(* Type correctness.  invoked is bounded because a resume invokes only the *)
(* saved calls it still has to do.                                         *)

Budget ==
  \A q \in Request : /\ pc[q] = "idle" => invoked[q] = 0
                     /\ invoked[q] + todo[q] <= BatchSize

TypeInv == TypeOK /\ Budget

(* The record operators return column records. *)
LEMMA BlankTypes == NoCols \in Columns /\ NewCols \in Columns
BY DEF NoCols, NewCols, Columns, Status, Reason

LEMMA FinalizedType ==
  ASSUME NEW c \in Columns, NEW status \in Status, NEW stop \in Reason,
         NEW answer \in BOOLEAN
  PROVE  Finalized(c, status, stop, answer) \in Columns
BY DEF Columns, Finalized

LEMMA PausedType ==
  ASSUME NEW c \in Columns
  PROVE  PausedForInput(c) \in Columns /\ Resumed(c) \in Columns
BY DEF Columns, PausedForInput, Resumed, Status, Reason

LEMMA MergedType ==
  ASSUME NEW c \in Columns, NEW d \in Columns, NEW e \in Columns
  PROVE  Merged(c, d, e) \in Columns
<1>1. /\ Changed(c.status, d.status, e.status) \in Status
      /\ Changed(c.stop, d.stop, e.stop) \in Reason
      /\ Changed(c.answer, d.answer, e.answer) \in BOOLEAN
      /\ Changed(c.pending, d.pending, e.pending) \in BOOLEAN
  BY DEF Columns, Changed
<1>2. QED
  BY <1>1 DEF Columns, Merged

(* A row whose columns are replaced is still a row. *)
LEMMA RowType ==
  ASSUME NEW table \in [Request -> Row], NEW r \in Request, NEW c \in Columns
  PROVE  /\ [table EXCEPT ![r].cols = c] \in [Request -> Row]
         /\ table[r].cols \in Columns
BY DEF Row

LEMMA InitType == Init => TypeInv
<1> SUFFICES ASSUME Init PROVE TypeInv
  OBVIOUS
<1>1. row \in [Request -> Row]
  <2>1. (CHOOSE t \in Task : TRUE) \in Task
    OBVIOUS
  <2>2. QED
    BY <2>1, BlankTypes DEF Init, Row
<1>2. agent \in [state : {"started", "deleting", "deleted"}, mode : Mode]
  BY DEF Init, Mode
<1>3. call \in [Request -> Call]
  BY DEF Init, Call, Kind, Mode
<1>4. /\ mem \in [Request -> Columns]
      /\ outcome \in [Request -> Columns]
      /\ orphan \in [Request -> Columns]
  BY BlankTypes DEF Init
<1>5. /\ todo \in [Request -> 0 .. BatchSize]
      /\ iter \in [Request -> 0 .. MaxIterations + 1]
      /\ pauses \in [Request -> Nat]
      /\ invoked \in [Request -> 0 .. BatchSize]
  BY DEF Init
<1>6. Budget
  BY DEF Init, Budget
<1>7. QED
  BY <1>1, <1>2, <1>3, <1>4, <1>5, <1>6 DEF Init, TypeInv, TypeOK, PC, Reply

(* The steps many actions share. *)
LEMMA GotoType ==
  ASSUME TypeInv, NEW q \in Request, NEW label \in PC, label # "idle",
         pc[q] # "idle", Goto(q, label), iter' \in [Request -> 0 .. MaxIterations + 1]
  PROVE  TypeInv'
BY DEF TypeInv, TypeOK, Budget, Goto, rowVars, memVars, histVars

LEMMA DecideType ==
  ASSUME TypeInv, NEW q \in Request, NEW c \in Columns, pc[q] # "idle", Decide(q, c)
  PROVE  TypeInv'
BY DEF TypeInv, TypeOK, Budget, Decide, rowVars, memVars, histVars, PC

LEMMA OutcomeType ==
  ASSUME TypeInv, NEW q \in Request, pc[q] # "idle", Fail(q) \/ Complete(q) \/ Pause(q)
  PROVE  TypeInv'
<1>1. mem[q] \in Columns
  BY DEF TypeInv, TypeOK
<1>2. /\ Finalized(mem[q], "failed", "error", FALSE) \in Columns
      /\ Finalized(mem[q], "completed", "none", TRUE) \in Columns
      /\ PausedForInput(mem[q]) \in Columns
  BY <1>1, FinalizedType, PausedType DEF Status, Reason
<1>3. QED
  BY <1>2, DecideType DEF Fail, Complete, Pause

LEMMA FlushType ==
  ASSUME TypeInv, NEW q \in Request, NEW c \in Columns, pc[q] # "idle", Flush(q, c)
  PROVE  /\ row' \in [Request -> Row]
         /\ mem' \in [Request -> Columns]
<1>1. mem[q] \in Columns /\ Run(q) \in Request /\ row \in [Request -> Row]
  BY DEF TypeInv, TypeOK, Run
<1>2. Merged(mem[q], c, row[Run(q)].cols) \in Columns
  BY <1>1, MergedType, RowType, BlankTypes
<1>3. row' \in [Request -> Row]
  BY <1>1, <1>2, RowType DEF Flush
<1>4. mem' \in [Request -> Columns]
  BY DEF TypeInv, TypeOK, Flush
<1>5. QED
  BY <1>3, <1>4

LEMMA LeaveType ==
  ASSUME TypeInv, NEW q \in Request, pc[q] # "idle", NEW told \in Reply, Leave(q, told)
  PROVE  /\ pc' \in [Request -> PC]
         /\ \A p \in Request : pc'[p] # "idle" => pc[p] # "idle"
         /\ \A p \in Request : pc'[p] = "idle" => pc[p] = "idle"
         /\ todo' \in [Request -> 0 .. BatchSize]
         /\ \A p \in Request : todo'[p] <= todo[p]
         /\ iter' \in [Request -> 0 .. MaxIterations + 1]
         /\ mem' \in [Request -> Columns]
         /\ outcome' \in [Request -> Columns]
         /\ reply' \in [Request -> Reply]
BY BlankTypes DEF TypeInv, TypeOK, Leave, PC

----------------------------------------------------------------------------
(* Type correctness, action by action. *)

LEMMA PrepareFreshType ==
  ASSUME TypeInv, NEW q \in Request, PrepareFresh(q)
  PROVE  TypeInv'
<1>1. PICK t \in Task, k \in Kind : PrepareFresh(q)!(t, k)
  BY DEF PrepareFresh
<1>2. row' \in [Request -> Row]
  BY <1>1, BlankTypes DEF TypeInv, TypeOK, Row
<1>3. call' \in [Request -> Call]
  BY <1>1 DEF TypeInv, TypeOK, Call
<1>4. mem' \in [Request -> Columns]
  BY <1>1, BlankTypes DEF TypeInv, TypeOK
<1>5. QED
  BY <1>1, <1>2, <1>3, <1>4 DEF TypeInv, TypeOK, Budget, memVars, histVars, PC

LEMMA PrepareResumeType ==
  ASSUME TypeInv, NEW q \in Request, PrepareResume(q)
  PROVE  TypeInv'
<1>1. PICK r \in Request, k \in Kind, yes \in BOOLEAN : PrepareResume(q)!(r, k, yes)
  BY DEF PrepareResume
<1>2. call' \in [Request -> Call]
  BY <1>1 DEF TypeInv, TypeOK, Call
<1>3. mem' \in [Request -> Columns]
  BY <1>1, RowType DEF TypeInv, TypeOK
<1>4. /\ todo' \in [Request -> 0 .. BatchSize]
      /\ todo'[q] \in 0 .. BatchSize
      /\ \A p \in Request \ {q} : todo'[p] = todo[p]
  BY <1>1 DEF TypeInv, TypeOK
<1>5. QED
  BY <1>1, <1>2, <1>3, <1>4 DEF TypeInv, TypeOK, Budget, memVars, histVars, PC

LEMMA ServeType ==
  ASSUME TypeInv, NEW q \in Request, Serve(q)
  PROVE  TypeInv'
<1>1. CASE RegisterRun(q)
  BY <1>1 DEF RegisterRun, Register, Run, TypeInv, TypeOK, Budget, rowVars, histVars, PC
<1>2. CASE BeginExecutor(q)
  BY <1>2 DEF BeginExecutor, TypeInv, TypeOK, Budget, rowVars, memVars, histVars, PC, Reply
<1>3. CASE AppendUserMessage(q)
  <2>1. UNCHANGED iter => iter' \in [Request -> 0 .. MaxIterations + 1]
    BY DEF TypeInv, TypeOK
  <2>2. QED
    BY <1>3, <2>1, GotoType, OutcomeType DEF AppendUserMessage, PC
<1>4. CASE ResumeCall(q)
  BY <1>4 DEF ResumeCall, TypeInv, TypeOK, Budget, rowVars, memVars
<1>5. CASE ResumeRun(q)
  <2>1. Resumed(mem[q]) \in Columns
    BY PausedType DEF TypeInv, TypeOK
  <2>2. row' \in [Request -> Row] /\ mem' \in [Request -> Columns]
    BY <1>5, <2>1, FlushType DEF ResumeRun
  <2>3. QED
    BY <1>5, <2>2 DEF ResumeRun, TypeInv, TypeOK, Budget, memVars, histVars, PC
<1>6. CASE StartTurn(q) \/ ExceedGuardrail(q) \/ TurnCallsTools(q) \/ ToolsDone(q)
  <2>1. CASE StartTurn(q)
    <3>1. iter' \in [Request -> 0 .. MaxIterations + 1]
      BY <2>1 DEF StartTurn, TypeInv, TypeOK
    <3>2. QED
      BY <2>1, <3>1, GotoType DEF StartTurn, PC
  <2>2. UNCHANGED iter \/ iter' = [iter EXCEPT ![q] = MaxIterations + 1]
          => iter' \in [Request -> 0 .. MaxIterations + 1]
    BY DEF TypeInv, TypeOK
  <2>3. CASE ExceedGuardrail(q)
    BY <2>2, <2>3, GotoType, OutcomeType DEF ExceedGuardrail, PC
  <2>4. CASE TurnCallsTools(q)
    BY <2>2, <2>4, GotoType DEF TurnCallsTools, MayUseAnswer, PC
  <2>5. CASE ToolsDone(q)
    BY <2>2, <2>5, GotoType, OutcomeType DEF ToolsDone, PC
  <2>6. QED
    BY <1>6, <2>1, <2>3, <2>4, <2>5
<1>7. CASE TurnFails(q) \/ TurnAnswers(q) \/ TurnPauses(q)
  BY <1>7, OutcomeType DEF TurnFails, TurnAnswers, TurnPauses, MayUseAnswer
<1>8. CASE BreakOnCancel(q)
  <2>1. /\ Finalized(NewCols, "cancelled", "cancelled", FALSE) \in Columns
        /\ Finalized(mem[q], "cancelled", "cancelled", FALSE) \in Columns
        /\ pc[q] # "idle"
    BY <1>8, BlankTypes, FinalizedType
      DEF BreakOnCancel, SeesCancel, TypeInv, TypeOK, Status, Reason
  <2>2. CASE Confirms(q)
    <3>1. /\ orphan' = [orphan EXCEPT ![q] =
                          Finalized(NewCols, "cancelled", "cancelled", FALSE)]
          /\ reply' = [reply EXCEPT ![q] = "canceled"]
          /\ pc' = [pc EXCEPT ![q] = "ending"]
          /\ UNCHANGED <<rowVars, memVars, call, todo, iter, mem, outcome, histVars>>
      BY <1>8, <2>2 DEF BreakOnCancel
    <3>2. orphan' \in [Request -> Columns]
      BY <2>1, <3>1 DEF TypeInv, TypeOK
    <3>3. reply' \in [Request -> Reply]
      BY <3>1 DEF TypeInv, TypeOK, Reply
    <3>4. QED
      BY <2>1, <3>1, <3>2, <3>3
        DEF TypeInv, TypeOK, Budget, rowVars, memVars, histVars, PC
  <2>3. CASE ~Confirms(q)
    BY <1>8, <2>1, <2>3, DecideType DEF BreakOnCancel
  <2>4. QED
    BY <2>2, <2>3
<1>9. CASE CommitOutcome(q)
  <2>1. row' \in [Request -> Row] /\ mem' \in [Request -> Columns]
    BY <1>9, FlushType DEF CommitOutcome, TypeInv, TypeOK
  <2>2. StateSent(outcome[q].status) \in Reply
    BY DEF StateSent, Reply
  <2>3. pauses' \in [Request -> Nat]
    <3>1. pauses \in [Request -> Nat] /\ Run(q) \in Request
      BY <1>9 DEF CommitOutcome, TypeInv, TypeOK, Run
    <3>2. [pauses EXCEPT ![Run(q)] = @ + 1] \in [Request -> Nat]
      BY <3>1
    <3>3. QED
      BY <1>9, <3>1, <3>2 DEF CommitOutcome
  <2>4. QED
    BY <1>9, <2>1, <2>2, <2>3, BlankTypes
      DEF CommitOutcome, TypeInv, TypeOK, Budget, memVars, PC
<1>10. CASE EndRequest(q)
  <2>1. SendReply(q) \in Reply /\ reply[q] \in Reply
    BY DEF SendReply, Reply, TypeInv, TypeOK
  <2>2. \E told \in Reply : Leave(q, told)
    BY <1>10, <2>1 DEF EndRequest
  <2>3. registry' \in [Request -> Request \cup {NoRequest}]
    BY <1>10 DEF EndRequest, Unregister, TypeInv, TypeOK
  <2>4. QED
    BY <1>10, <2>2, <2>3, LeaveType
      DEF EndRequest, TypeInv, TypeOK, Budget, rowVars, histVars
<1>11. QED
  BY <1>1, <1>2, <1>3, <1>4, <1>5, <1>6, <1>7, <1>8, <1>9, <1>10 DEF Serve

LEMMA LeavingType ==
  ASSUME TypeInv, NEW q \in Request, RejectKey(q) \/ Interrupt(q)
  PROVE  TypeInv'
<1>1. CASE RejectKey(q)
  <2>1. Unregister(q) /\ \E told \in Reply : Leave(q, told)
    BY <1>1 DEF RejectKey, Reply
  <2>2. registry' \in [Request -> Request \cup {NoRequest}]
    BY <2>1 DEF Unregister, TypeInv, TypeOK
  <2>3. QED
    BY <1>1, <2>1, <2>2, LeaveType
      DEF RejectKey, TypeInv, TypeOK, Budget, rowVars, histVars
<1>2. ASSUME NEW cause \in {"disconnect", "raise"}, InterruptGuarded(q, cause)
      PROVE  TypeInv'
  <2>1. Unregister(q) /\ pc[q] # "idle" /\ \E told \in Reply : Leave(q, told)
    BY <1>2 DEF InterruptGuarded, Guarded, Reply
  <2>2. registry' \in [Request -> Request \cup {NoRequest}]
    BY <2>1 DEF Unregister, TypeInv, TypeOK
  <2>3. Triage(q, cause) \in Columns
    BY BlankTypes, FinalizedType DEF Triage, Status, Reason
  <2>4. orphan' \in [Request -> Columns]
    BY <1>2, <2>3 DEF InterruptGuarded, TypeInv, TypeOK
  <2>5. QED
    BY <1>2, <2>1, <2>2, <2>4, LeaveType
      DEF InterruptGuarded, TypeInv, TypeOK, Budget, rowVars, histVars
<1>3. ASSUME NEW cause \in {"disconnect", "raise"}, InterruptUnguarded(q, cause)
      PROVE  TypeInv'
  <2>1. pc[q] # "idle" /\ \E told \in Reply : Leave(q, told)
    BY <1>3 DEF InterruptUnguarded, Unguarded, Reply
  <2>2. registry' \in [Request -> Request \cup {NoRequest}]
    BY <1>3 DEF InterruptUnguarded, Unregister, TypeInv, TypeOK
  <2>3. QED
    BY <1>3, <2>1, <2>2, LeaveType
      DEF InterruptUnguarded, TypeInv, TypeOK, Budget, rowVars, histVars
<1>4. QED
  BY <1>1, <1>2, <1>3 DEF Interrupt

LEMMA OtherType ==
  ASSUME TypeInv, NEW q \in Request,
         RunOrphan(q) \/ CancelTask(q) \/ Age(q)
  PROVE  TypeInv'
<1>1. CASE RunOrphan(q)
  <2>1. row' \in [Request -> Row]
    <3>1. orphan[q] \in Columns /\ row \in [Request -> Row]
      BY DEF TypeInv, TypeOK
    <3>2. CASE Run(q) \in Request
      <4>1. Finalized(row[Run(q)].cols, orphan[q].status, orphan[q].stop, orphan[q].answer)
              \in Columns
        BY <3>1, <3>2, RowType, BlankTypes, FinalizedType DEF Columns
      <4>2. QED
        BY <1>1, <3>1, <3>2, <4>1, RowType DEF RunOrphan
    <3>3. CASE Run(q) \notin Request
      BY <1>1, <3>1, <3>3 DEF RunOrphan
    <3>4. QED
      BY <3>2, <3>3
  <2>2. orphan' \in [Request -> Columns]
    BY <1>1, BlankTypes DEF RunOrphan, TypeInv, TypeOK
  <2>3. QED
    BY <1>1, <2>1, <2>2 DEF RunOrphan, TypeInv, TypeOK, Budget, memVars, histVars
<1>2. CASE CancelTask(q)
  BY <1>2 DEF CancelTask, Signal, TypeInv, TypeOK, Budget, rowVars, reqVars
<1>3. CASE Age(q)
  BY <1>3 DEF Age, TypeInv, TypeOK, Budget, memVars, reqVars, histVars
<1>4. QED
  BY <1>1, <1>2, <1>3

(* reap_abandoned_runs *)
LEMMA ReapType ==
  ASSUME TypeInv, Reap
  PROVE  row' \in [Request -> Row]
<1>1. ASSUME NEW r \in Request
      PROVE  [row[r] EXCEPT !.cols = Abandoned(@)] \in Row
  <2>1. row[r] \in Row
    BY DEF TypeInv, TypeOK
  <2>2. Abandoned(row[r].cols) \in Columns
    BY <2>1 DEF Abandoned, Row, Columns, Status, Reason
  <2>3. QED
    BY <2>1, <2>2 DEF Row
<1>2. QED
  BY <1>1 DEF Reap, TypeInv, TypeOK

LEMMA SystemType ==
  ASSUME TypeInv,
         DeleteSignal \/ DeleteAgent \/ EditAgent \/ Restart \/ SecondWorkerBoots
  PROVE  TypeInv'
<1>1. CASE DeleteSignal
  BY <1>1 DEF DeleteSignal, Signal, Running, TypeInv, TypeOK, Budget, reqVars
<1>2. CASE DeleteAgent
  <2>1. \A r \in Request : [row[r] EXCEPT !.cols = NoCols] \in Row
    BY BlankTypes DEF TypeInv, TypeOK, Row
  <2>2. QED
    BY <1>2, <2>1 DEF DeleteAgent, TypeInv, TypeOK, Budget, memVars, reqVars, histVars
<1>3. CASE EditAgent
  <2>1. PICK m \in Modes : agent' = [agent EXCEPT !.mode = m]
    BY <1>3 DEF EditAgent
  <2>2. m \in Mode
    BY DEF Mode
  <2>3. agent' \in [state : {"started", "deleting", "deleted"}, mode : Mode]
    BY <2>1, <2>2 DEF TypeInv, TypeOK
  <2>4. QED
    BY <1>3, <2>3 DEF EditAgent, TypeInv, TypeOK, Budget, memVars, reqVars, histVars
<1>4. CASE Restart
  <2>1. row' \in [Request -> Row]
    BY <1>4, ReapType DEF Restart
  <2>2. pc' \in [Request -> PC] /\ reply' \in [Request -> Reply]
    BY <1>4 DEF Restart, TypeInv, TypeOK, PC, Reply
  <2>3. QED
    BY <1>4, <2>1, <2>2, BlankTypes
      DEF Restart, TypeInv, TypeOK, Budget, histVars, Active, Executing
<1>5. CASE SecondWorkerBoots
  BY <1>5, ReapType
    DEF SecondWorkerBoots, TypeInv, TypeOK, Budget, memVars, reqVars, histVars
<1>6. QED
  BY <1>1, <1>2, <1>3, <1>4, <1>5

LEMMA NextType ==
  ASSUME TypeInv, [Next]_vars
  PROVE  TypeInv'
<1>1. CASE UNCHANGED vars
  BY <1>1 DEF vars, runVars, rowVars, memVars, reqVars, histVars, TypeInv, TypeOK, Budget
<1>2. CASE Next
  BY <1>2, PrepareFreshType, PrepareResumeType, ServeType, LeavingType, OtherType,
     SystemType DEF Next
<1>3. QED
  BY <1>1, <1>2

(* Every variable keeps its type in every behaviour: counters stay within  *)
(* their bounds and a request that was received has a run.                 *)
THEOREM TypeCorrect == Spec => []TypeOK
<1>1. Spec => []TypeInv
  BY InitType, NextType, PTL DEF Spec
<1>2. TypeInv => TypeOK
  BY DEF TypeInv
<1>3. QED
  BY <1>1, <1>2, PTL

----------------------------------------------------------------------------
(* What the safety theorems rest on: how a request's session relates to    *)
(* the row it will write.                                                  *)

(* The run's columns are still to be written by this request. *)
Writing(q) == pc[q] \in {"prepared", "initial", "start", "loop", "llm", "tools", "commit"}

(* A confirming resume that has not written resume_run yet. *)
Waits(q) == pc[q] \in {"prepared", "initial", "start"} /\ Resuming(q)

(* The session of a request always has something to change: it loaded the  *)
(* run as running or paused, so that a final status, or the pending calls  *)
(* of a pause, differ from what it knows and are flushed.                  *)
SessionInv ==
  \A q \in Request : Writing(q) =>
    /\ mem[q].status \in {"running", "paused"}
    /\ Waits(q) => mem[q].status = "paused" /\ mem[q].pending
    /\ (Confirms(q) /\ ~Waits(q) /\ pc[q] # "commit")
         => mem[q].status = "running" /\ ~mem[q].pending
    /\ pc[q] = "commit" =>
         \/ outcome[q].status \in Terminal
         \/ /\ outcome[q].status = "paused" /\ outcome[q].pending
            /\ mem[q].status = "running" /\ ~mem[q].pending

(* A detached finalize never completes a run. *)
OrphanInv ==
  \A q \in Request :
    orphan[q].status \in {"absent", "cancelled", "failed"} /\ ~orphan[q].answer

PauseInv == TypeInv /\ SessionInv /\ OrphanInv /\ PausedHasPending

LEMMA PauseInit == Init => PauseInv
BY InitType DEF Init, PauseInv, SessionInv, OrphanInv, PausedHasPending, Writing, NoCols

(* What the record operators leave in a column. *)
LEMMA MergedFields ==
  ASSUME NEW was, NEW now, NEW stored
  PROVE  /\ Merged(was, now, stored).status = Changed(was.status, now.status, stored.status)
         /\ Merged(was, now, stored).answer = Changed(was.answer, now.answer, stored.answer)
         /\ Merged(was, now, stored).pending = Changed(was.pending, now.pending, stored.pending)
BY DEF Merged

LEMMA FinalizedFields ==
  ASSUME NEW c \in Columns, NEW status \in Status, NEW stop \in Reason,
         NEW answer \in BOOLEAN
  PROVE  /\ Finalized(c, status, stop, answer).status = status
         /\ Finalized(c, status, stop, answer).answer = answer
         /\ Finalized(c, status, stop, answer).pending = c.pending
BY DEF Finalized, Columns

LEMMA PausedFields ==
  ASSUME NEW c \in Columns
  PROVE  /\ PausedForInput(c).status = "paused" /\ PausedForInput(c).pending
         /\ PausedForInput(c).answer = c.answer
         /\ Resumed(c).status = "running" /\ ~Resumed(c).pending
         /\ Resumed(c).answer = c.answer
BY DEF PausedForInput, Resumed, Columns

(* The columns of a row after a flush; the other rows are not touched. *)
LEMMA FlushRow ==
  ASSUME TypeInv, NEW q \in Request, Run(q) \in Request, NEW c \in Columns, Flush(q, c)
  PROVE  /\ \A r \in Request \ {Run(q)} : row'[r] = row[r]
         /\ Exists(Run(q)) =>
              row'[Run(q)].cols = Merged(mem[q], c, row[Run(q)].cols)
         /\ ~Exists(Run(q)) => row' = row
         /\ \A p \in Request \ {q} : mem'[p] = mem[p]
         /\ mem'[q] = c
BY DEF Flush, TypeInv, TypeOK, Row

(* The handler of q decides how the run ends, or only moves on. *)
LEMMA GotoPause ==
  ASSUME PauseInv, NEW q \in Request, NEW label \in {"loop", "llm", "tools"},
         Writing(q), ~Waits(q), pc[q] # "commit", Goto(q, label)
  PROVE  SessionInv' /\ OrphanInv' /\ PausedHasPending'
BY DEF PauseInv, TypeInv, TypeOK, SessionInv, OrphanInv, PausedHasPending, Goto, Writing,
       Waits, Resuming, Confirms, rowVars, PC

LEMMA DecidePause ==
  ASSUME PauseInv, NEW q \in Request, Writing(q), NEW c, Decide(q, c),
         \/ c.status \in Terminal
         \/ /\ c.status = "paused" /\ c.pending
            /\ mem[q].status = "running" /\ ~mem[q].pending
  PROVE  SessionInv' /\ OrphanInv' /\ PausedHasPending'
BY DEF PauseInv, TypeInv, TypeOK, SessionInv, OrphanInv, PausedHasPending, Decide, Writing,
       Waits, Resuming, Confirms, rowVars, PC

LEMMA FailPause ==
  ASSUME PauseInv, NEW q \in Request, Writing(q), Fail(q) \/ Complete(q)
  PROVE  SessionInv' /\ OrphanInv' /\ PausedHasPending'
<1>1. mem[q] \in Columns
  BY DEF PauseInv, TypeInv, TypeOK
<1>2. /\ Finalized(mem[q], "failed", "error", FALSE).status \in Terminal
      /\ Finalized(mem[q], "completed", "none", TRUE).status \in Terminal
  BY <1>1 DEF Finalized, Columns, Terminal
<1>3. QED
  BY <1>2, DecidePause DEF Fail, Complete

(* A request whose handler is over has nothing left to write. *)
LEMMA LeavePause ==
  ASSUME PauseInv, NEW q \in Request, NEW told, Leave(q, told),
         UNCHANGED <<rowVars, call>>, OrphanInv'
  PROVE  SessionInv' /\ PausedHasPending'
BY DEF PauseInv, TypeInv, TypeOK, SessionInv, PausedHasPending, Leave, Writing, Waits,
       Resuming, Confirms, rowVars, PC

LEMMA PausePrepare ==
  ASSUME PauseInv, NEW q \in Request, PrepareFresh(q) \/ PrepareResume(q)
  PROVE  SessionInv' /\ OrphanInv' /\ PausedHasPending'
<1>1. CASE PrepareFresh(q)
  <2>1. PICK t \in Task, k \in Kind : PrepareFresh(q)!(t, k)
    BY <1>1 DEF PrepareFresh
  <2>2. SessionInv'
    BY <2>1 DEF PauseInv, TypeInv, TypeOK, SessionInv, Writing, Waits, Resuming, Confirms,
       NewCols, NoCols, PC
  <2>3. PausedHasPending'
    BY <2>1 DEF PauseInv, TypeInv, TypeOK, PausedHasPending, NewCols, NoCols
  <2>4. OrphanInv'
    BY <2>1 DEF PauseInv, OrphanInv
  <2>5. QED
    BY <2>2, <2>3, <2>4
<1>2. CASE PrepareResume(q)
  <2>1. PICK r \in Request, k \in Kind, yes \in BOOLEAN : PrepareResume(q)!(r, k, yes)
    BY <1>2 DEF PrepareResume
  <2>2. row[r].cols.status = "paused" /\ row[r].cols.pending
    BY <2>1 DEF Paused, PauseInv, PausedHasPending
  <2>3. SessionInv'
    BY <2>1, <2>2 DEF PauseInv, TypeInv, TypeOK, SessionInv, Writing, Waits, Resuming,
       Confirms, PC
  <2>4. PausedHasPending' /\ OrphanInv'
    BY <2>1 DEF PauseInv, PausedHasPending, OrphanInv
  <2>5. QED
    BY <2>3, <2>4
<1>3. QED
  BY <1>1, <1>2

LEMMA PauseServe ==
  ASSUME PauseInv, NEW q \in Request, Serve(q)
  PROVE  SessionInv' /\ OrphanInv' /\ PausedHasPending'
<1>1. CASE RegisterRun(q) \/ BeginExecutor(q)
  BY <1>1 DEF RegisterRun, BeginExecutor, PauseInv, TypeInv, TypeOK, SessionInv, OrphanInv,
     PausedHasPending, Writing, Waits, Resuming, Confirms, rowVars, PC
<1>2. CASE AppendUserMessage(q)
  BY <1>2, GotoPause, FailPause DEF AppendUserMessage, Writing, Waits
<1>3. CASE ResumeCall(q)
  BY <1>3 DEF ResumeCall, PauseInv, SessionInv, OrphanInv, PausedHasPending, Writing, Waits,
     Resuming, Confirms, rowVars
<1>4. CASE ResumeRun(q)
  <2>1. /\ mem[q] \in Columns /\ Run(q) \in Request
        /\ mem[q].status = "paused"
    BY <1>4 DEF ResumeRun, PauseInv, TypeInv, TypeOK, SessionInv, Writing, Waits, Run
  <2>2. /\ Resumed(mem[q]) \in Columns
        /\ Resumed(mem[q]).status = "running"
        /\ ~Resumed(mem[q]).pending
    BY <2>1, PausedType, PausedFields
  <2>3. /\ \A r \in Request \ {Run(q)} : row'[r] = row[r]
        /\ row' = row \/ row'[Run(q)].cols.status = "running"
        /\ \A p \in Request \ {q} : mem'[p] = mem[p]
        /\ mem'[q] = Resumed(mem[q])
    BY <1>4, <2>1, <2>2, FlushRow, MergedFields DEF ResumeRun, PauseInv, Changed
  <2>4. PausedHasPending'
    BY <2>3 DEF PauseInv, PausedHasPending
  <2>5. SessionInv' /\ OrphanInv'
    BY <1>4, <2>2, <2>3 DEF ResumeRun, PauseInv, TypeInv, TypeOK, SessionInv, OrphanInv,
       Writing, Waits, Resuming, Confirms, PC
  <2>6. QED
    BY <2>4, <2>5
<1>5. CASE StartTurn(q) \/ ExceedGuardrail(q) \/ TurnCallsTools(q) \/ ToolsDone(q)
  BY <1>5, GotoPause, FailPause
    DEF StartTurn, ExceedGuardrail, TurnCallsTools, ToolsDone, MayUseAnswer, Writing, Waits
<1>6. CASE TurnFails(q) \/ TurnAnswers(q)
  BY <1>6, FailPause DEF TurnFails, TurnAnswers, MayUseAnswer, Writing
<1>7. CASE TurnPauses(q)
  <2>1. /\ mem[q] \in Columns /\ Writing(q)
        /\ mem[q].status = "running" /\ ~mem[q].pending
    BY <1>7 DEF TurnPauses, MayUseAnswer, PauseInv, TypeInv, TypeOK, SessionInv, Writing,
       Waits
  <2>2. PausedForInput(mem[q]).status = "paused" /\ PausedForInput(mem[q]).pending
    BY <2>1, PausedFields
  <2>3. QED
    BY <1>7, <2>1, <2>2, DecidePause DEF TurnPauses, Pause
<1>8. CASE BreakOnCancel(q)
  <2>1. /\ mem[q] \in Columns /\ Writing(q)
        /\ Finalized(mem[q], "cancelled", "cancelled", FALSE).status \in Terminal
    <3>1. mem[q] \in Columns /\ Writing(q)
      BY <1>8 DEF BreakOnCancel, SeesCancel, Writing, PauseInv, TypeInv, TypeOK
    <3>2. QED
      BY <3>1 DEF Finalized, Columns, Terminal
  <2>2. CASE ~Confirms(q)
    BY <1>8, <2>1, <2>2, DecidePause DEF BreakOnCancel
  <2>3. CASE Confirms(q)
    <3>1. OrphanInv'
      <4>1. /\ Finalized(NewCols, "cancelled", "cancelled", FALSE).status = "cancelled"
            /\ ~Finalized(NewCols, "cancelled", "cancelled", FALSE).answer
        BY DEF Finalized, NewCols, NoCols
      <4>2. QED
        BY <1>8, <2>3, <4>1 DEF BreakOnCancel, PauseInv, TypeInv, TypeOK, OrphanInv
    <3>2. SessionInv' /\ PausedHasPending'
      BY <1>8, <2>3 DEF BreakOnCancel, PauseInv, TypeInv, TypeOK, SessionInv,
         PausedHasPending, Writing, Waits, Resuming, Confirms, rowVars, PC
    <3>3. QED
      BY <3>1, <3>2
  <2>4. QED
    BY <2>2, <2>3
<1>9. CASE CommitOutcome(q)
  <2>1. /\ mem[q] \in Columns /\ outcome[q] \in Columns /\ Run(q) \in Request
        /\ mem[q].status \in {"running", "paused"}
        /\ \/ outcome[q].status \in Terminal
           \/ /\ outcome[q].status = "paused" /\ outcome[q].pending
              /\ mem[q].status = "running" /\ ~mem[q].pending
    BY <1>9 DEF CommitOutcome, PauseInv, TypeInv, TypeOK, SessionInv, Writing, Run
  <2>2. /\ \A r \in Request \ {Run(q)} : row'[r] = row[r]
        /\ \/ row' = row
           \/ row'[Run(q)].cols.status \in Terminal
           \/ row'[Run(q)].cols.pending
        /\ \A p \in Request \ {q} : mem'[p] = mem[p]
    <3>1. Flush(q, outcome[q])
      BY <1>9 DEF CommitOutcome
    <3>2. QED
      BY <2>1, <3>1, FlushRow, MergedFields DEF PauseInv, Changed, Terminal
  <2>3. PausedHasPending'
    BY <2>2 DEF PauseInv, PausedHasPending, Terminal
  <2>4. SessionInv' /\ OrphanInv'
    BY <1>9, <2>2 DEF CommitOutcome, PauseInv, TypeInv, TypeOK, SessionInv, OrphanInv,
       Writing, Waits, Resuming, Confirms, PC
  <2>5. QED
    BY <2>3, <2>4
<1>10. CASE EndRequest(q)
  BY <1>10, LeavePause DEF EndRequest, PauseInv, OrphanInv, rowVars
<1>11. QED
  BY <1>1, <1>2, <1>3, <1>4, <1>5, <1>6, <1>7, <1>8, <1>9, <1>10 DEF Serve

LEMMA PauseLeaving ==
  ASSUME PauseInv, NEW q \in Request, RejectKey(q) \/ Interrupt(q)
  PROVE  SessionInv' /\ OrphanInv' /\ PausedHasPending'
<1>1. CASE RejectKey(q)
  BY <1>1, LeavePause DEF RejectKey, PauseInv, OrphanInv, rowVars
<1>2. ASSUME NEW cause \in {"disconnect", "raise"}, InterruptGuarded(q, cause)
      PROVE  SessionInv' /\ OrphanInv' /\ PausedHasPending'
  <2>1. Triage(q, cause).status \in {"cancelled", "failed"} /\ ~Triage(q, cause).answer
    BY DEF Triage, Finalized, NewCols, NoCols
  <2>2. OrphanInv'
    BY <1>2, <2>1 DEF InterruptGuarded, PauseInv, TypeInv, TypeOK, OrphanInv
  <2>3. QED
    BY <1>2, <2>2, LeavePause DEF InterruptGuarded
<1>3. ASSUME NEW cause \in {"disconnect", "raise"}, InterruptUnguarded(q, cause)
      PROVE  SessionInv' /\ OrphanInv' /\ PausedHasPending'
  BY <1>3, LeavePause DEF InterruptUnguarded, PauseInv, OrphanInv, rowVars
<1>4. QED
  BY <1>1, <1>2, <1>3 DEF Interrupt

(* A step that writes no row and moves no handler. *)
LEMMA PauseQuiet ==
  ASSUME PauseInv, UNCHANGED <<row, call, pc, mem, outcome, orphan>>
  PROVE  SessionInv' /\ OrphanInv' /\ PausedHasPending'
BY DEF PauseInv, SessionInv, OrphanInv, PausedHasPending, Writing, Waits, Resuming, Confirms

LEMMA PauseOther ==
  ASSUME PauseInv, NEW q \in Request,
         RunOrphan(q) \/ CancelTask(q) \/ Age(q)
  PROVE  SessionInv' /\ OrphanInv' /\ PausedHasPending'
<1>1. CASE CancelTask(q) \/ Age(q)
  BY <1>1, PauseQuiet DEF CancelTask, Age, rowVars, reqVars
<1>2. CASE RunOrphan(q)
  <2>1. OrphanInv'
    BY <1>2 DEF RunOrphan, PauseInv, TypeInv, TypeOK, OrphanInv, NoCols
  <2>2. SessionInv'
    BY <1>2 DEF RunOrphan, PauseInv, SessionInv, Writing, Waits, Resuming, Confirms
  <2>3. PausedHasPending'
    <3>1. orphan[q] \in Columns /\ orphan[q].status \in {"cancelled", "failed"}
      BY <1>2 DEF RunOrphan, PauseInv, TypeInv, TypeOK, OrphanInv
    <3>2. CASE Run(q) \in Request
      <4>1. row[Run(q)].cols \in Columns
        BY <3>2, RowType, BlankTypes DEF PauseInv, TypeInv, TypeOK
      <4>2. Finalized(row[Run(q)].cols, orphan[q].status, orphan[q].stop,
                      orphan[q].answer).status = orphan[q].status
        BY <4>1 DEF Finalized, Columns
      <4>3. row' = row \/ row'[Run(q)].cols.status = orphan[q].status
        BY <1>2, <3>2, <4>2 DEF RunOrphan, PauseInv, TypeInv, TypeOK, Row
      <4>4. \A r \in Request \ {Run(q)} : row'[r] = row[r]
        BY <1>2, <3>2 DEF RunOrphan, PauseInv, TypeInv, TypeOK
      <4>5. QED
        BY <3>1, <4>3, <4>4 DEF PauseInv, PausedHasPending
    <3>3. CASE Run(q) \notin Request
      BY <1>2, <3>3 DEF RunOrphan, PauseInv, TypeInv, TypeOK, PausedHasPending
    <3>4. QED
      BY <3>2, <3>3
  <2>4. QED
    BY <2>1, <2>2, <2>3
<1>3. QED
  BY <1>1, <1>2

LEMMA PauseReap ==
  ASSUME PauseInv, Reap
  PROVE  PausedHasPending'
<1>1. SUFFICES ASSUME NEW r \in Request, row'[r].cols.status = "paused"
               PROVE  row'[r].cols.pending
  BY DEF PausedHasPending
<1>2. row[r] \in Row /\ row[r].cols \in Columns
  BY RowType, BlankTypes DEF PauseInv, TypeInv, TypeOK
<1>3. Abandoned(row[r].cols).status = "failed"
  BY <1>2 DEF Abandoned, Columns
<1>4. row'[r] = row[r] \/ row'[r].cols = Abandoned(row[r].cols)
  BY <1>2 DEF Reap, Row
<1>5. QED
  BY <1>1, <1>3, <1>4 DEF PauseInv, PausedHasPending

LEMMA PauseSystem ==
  ASSUME PauseInv,
         DeleteSignal \/ DeleteAgent \/ EditAgent \/ Restart \/ SecondWorkerBoots
  PROVE  SessionInv' /\ OrphanInv' /\ PausedHasPending'
<1>1. CASE DeleteSignal \/ EditAgent
  BY <1>1, PauseQuiet DEF DeleteSignal, EditAgent, reqVars
<1>2. CASE DeleteAgent
  <2>1. \A r \in Request : row'[r].cols.status = "absent"
    BY <1>2 DEF DeleteAgent, PauseInv, TypeInv, TypeOK, Row, NoCols
  <2>2. SessionInv' /\ OrphanInv'
    BY <1>2 DEF DeleteAgent, PauseInv, SessionInv, OrphanInv, reqVars, Writing, Waits,
       Resuming, Confirms
  <2>3. QED
    BY <2>1, <2>2 DEF PausedHasPending
<1>3. CASE Restart
  <2>1. \A q \in Request : ~Writing(q)'
    BY <1>3 DEF Restart, Writing, Active, Executing
  <2>2. OrphanInv'
    BY <1>3 DEF Restart, OrphanInv, NoCols
  <2>3. QED
    BY <1>3, <2>1, <2>2, PauseReap DEF Restart, SessionInv
<1>4. CASE SecondWorkerBoots
  <2>1. SessionInv' /\ OrphanInv'
    BY <1>4 DEF SecondWorkerBoots, PauseInv, SessionInv, OrphanInv, reqVars, Writing, Waits,
       Resuming, Confirms
  <2>2. QED
    BY <1>4, <2>1, PauseReap DEF SecondWorkerBoots
<1>5. QED
  BY <1>1, <1>2, <1>3, <1>4

LEMMA PauseNext ==
  ASSUME PauseInv, [Next]_vars
  PROVE  PauseInv'
<1>1. TypeInv'
  BY NextType DEF PauseInv
<1>2. CASE UNCHANGED vars
  BY <1>1, <1>2, PauseQuiet DEF vars, runVars, rowVars, reqVars, PauseInv
<1>3. CASE Next
  BY <1>1, <1>3, PausePrepare, PauseServe, PauseLeaving, PauseOther, PauseSystem
    DEF Next, PauseInv
<1>4. QED
  BY <1>2, <1>3

(* In every environment, with any number of sessions flushing their own    *)
(* view of a run, a paused row still carries its pending calls.            *)
THEOREM PausedRowsKeepTheirCalls == Spec => []PausedHasPending
<1>1. Spec => []PauseInv
  BY PauseInit, PauseNext, PTL DEF Spec
<1>2. PauseInv => PausedHasPending
  BY DEF PauseInv
<1>3. QED
  BY <1>1, <1>2, PTL

----------------------------------------------------------------------------
(* How the actions move a handler. *)

Inside == {"start", "loop", "llm", "tools", "commit", "ending"}

(* Every step of a handler but its first and its last stays inside and     *)
(* leaves the registry alone.                                              *)
LEMMA ServeMoves ==
  ASSUME TypeInv, NEW q \in Request, Serve(q), ~RegisterRun(q), ~EndRequest(q)
  PROVE  /\ UNCHANGED <<call, registry>>
         /\ pc[q] \in {"initial"} \cup Inside
         /\ \E label \in Inside : pc' = [pc EXCEPT ![q] = label]
<1>1. CASE ResumeCall(q)
  BY <1>1 DEF ResumeCall, TypeInv, TypeOK, memVars, Inside
<1>2. CASE BeginExecutor(q) \/ ResumeRun(q) \/ CommitOutcome(q)
  BY <1>2 DEF BeginExecutor, ResumeRun, CommitOutcome, memVars, Inside
<1>3. CASE BreakOnCancel(q)
  BY <1>3 DEF BreakOnCancel, SeesCancel, Decide, memVars, Inside
<1>4. CASE AppendUserMessage(q) \/ StartTurn(q) \/ ExceedGuardrail(q)
  BY <1>4 DEF AppendUserMessage, StartTurn, ExceedGuardrail, Goto, Fail, Decide, memVars,
     Inside
<1>5. CASE TurnFails(q) \/ TurnAnswers(q) \/ TurnPauses(q)
  BY <1>5 DEF TurnFails, TurnAnswers, TurnPauses, MayUseAnswer, Fail, Complete, Pause,
     Decide, memVars, Inside
<1>6. CASE TurnCallsTools(q) \/ ToolsDone(q)
  BY <1>6 DEF TurnCallsTools, ToolsDone, MayUseAnswer, Goto, Fail, Decide, memVars, Inside
<1>7. QED
  BY <1>1, <1>2, <1>3, <1>4, <1>5, <1>6 DEF Serve

(* The last step of a handler: it is done and, unless it was left before   *)
(* the executor was entered, its event is unregistered.                    *)
LEMMA LeavingMoves ==
  ASSUME TypeInv, NEW q \in Request, EndRequest(q) \/ RejectKey(q) \/ Interrupt(q)
  PROVE  /\ UNCHANGED call
         /\ Active(q) /\ pc' = [pc EXCEPT ![q] = "done"]
         /\ Unregister(q) \/ ("early" \in env /\ UNCHANGED registry)
<1>1. CASE EndRequest(q) \/ RejectKey(q)
  BY <1>1 DEF EndRequest, RejectKey, Leave, Active
<1>2. ASSUME NEW cause \in {"disconnect", "raise"},
             InterruptGuarded(q, cause) \/ InterruptUnguarded(q, cause)
      PROVE  /\ UNCHANGED call
             /\ Active(q) /\ pc' = [pc EXCEPT ![q] = "done"]
             /\ Unregister(q) \/ ("early" \in env /\ UNCHANGED registry)
  BY <1>2 DEF InterruptGuarded, InterruptUnguarded, Guarded, Unguarded, Leave, Active,
     Executing
<1>3. QED
  BY <1>1, <1>2 DEF Interrupt

(* Preparing takes an idle request and touches no other. *)
LEMMA PrepareMoves ==
  ASSUME TypeInv, NEW q \in Request, PrepareFresh(q) \/ PrepareResume(q)
  PROVE  /\ pc[q] = "idle" /\ pc' = [pc EXCEPT ![q] = "prepared"]
         /\ UNCHANGED registry
         /\ \A p \in Request \ {q} : call'[p] = call[p]
         /\ \/ Run(q)' = q
            \/ /\ Run(q)' \in Request /\ Exists(Run(q)')
               /\ \/ "concurrent_resume" \in env
                  \/ \A p \in Request : Active(p) => Run(p) # Run(q)'
<1>1. CASE PrepareFresh(q)
  BY <1>1 DEF PrepareFresh, memVars, TypeInv, TypeOK, Run
<1>2. CASE PrepareResume(q)
  <2>1. PICK r \in Request, k \in Kind, yes \in BOOLEAN : PrepareResume(q)!(r, k, yes)
    BY <1>2 DEF PrepareResume
  <2>2. Exists(r)
    BY <2>1 DEF Paused, Rows
  <2>3. call'[q].target = r
    BY <2>1 DEF TypeInv, TypeOK
  <2>4. QED
    BY <2>1, <2>2, <2>3 DEF memVars, TypeInv, TypeOK, Run
<1>3. QED
  BY <1>1, <1>2

LEMMA OtherMoves ==
  ASSUME TypeInv,
         \/ \E q \in Request : RunOrphan(q) \/ CancelTask(q) \/ Age(q)
         \/ DeleteSignal \/ DeleteAgent \/ EditAgent \/ SecondWorkerBoots
         \/ UNCHANGED vars
  PROVE  UNCHANGED <<call, pc, registry>>
BY DEF RunOrphan, CancelTask, Age, DeleteSignal, DeleteAgent, EditAgent,
   SecondWorkerBoots, vars, runVars, rowVars, memVars, reqVars

----------------------------------------------------------------------------
(* Which actions write a row, and what they write. *)

(* The steps of a handler that write no row change no row and no history   *)
(* of pauses.                                                              *)
LEMMA ServeKeepsRows ==
  ASSUME NEW q \in Request, Serve(q), ~ResumeRun(q), ~CommitOutcome(q)
  PROVE  UNCHANGED <<rowVars, asked, pauses>>
BY DEF Serve, RegisterRun, BeginExecutor, AppendUserMessage, ResumeCall, StartTurn,
   ExceedGuardrail, TurnFails, TurnAnswers, TurnPauses, TurnCallsTools, ToolsDone,
   MayUseAnswer, BreakOnCancel, EndRequest, Goto, Fail, Complete, Pause, Decide, rowVars,
   histVars

(* What a flush of q writes. *)
Written(q) == IF pc[q] = "commit" THEN outcome[q] ELSE Resumed(mem[q])

(* A flush always reaches the status: the session knew another one.        *)
LEMMA FlushWrites ==
  ASSUME PauseInv, NEW q \in Request, ResumeRun(q) \/ CommitOutcome(q)
  PROVE  /\ Run(q) \in Request /\ Writing(q) /\ Written(q) \in Columns
         /\ \A r \in Request \ {Run(q)} : row'[r] = row[r]
         /\ ~Exists(Run(q)) => row' = row
         /\ Exists(Run(q)) =>
              /\ row'[Run(q)].cols.status = Written(q).status
              /\ row'[Run(q)].cols.stop \in {Written(q).stop, row[Run(q)].cols.stop}
              /\ row'[Run(q)].cols.answer =
                   Changed(mem[q].answer, Written(q).answer, row[Run(q)].cols.answer)
         /\ Written(q).status \in {"running", "paused"} \cup Terminal
         /\ Written(q).status = "running" <=> pc[q] # "commit"
<1>1. /\ mem[q] \in Columns /\ outcome[q] \in Columns /\ Run(q) \in Request /\ Writing(q)
      /\ pc[q] \in {"start", "commit"}
      /\ pc[q] = "start" => ResumeRun(q) /\ mem[q].status = "paused"
      /\ pc[q] = "commit" => CommitOutcome(q) /\ mem[q].status \in {"running", "paused"}
           /\ \/ outcome[q].status \in Terminal
              \/ outcome[q].status = "paused" /\ mem[q].status = "running"
  BY DEF ResumeRun, CommitOutcome, PauseInv, TypeInv, TypeOK, SessionInv, Writing, Waits, Run
<1>2. /\ Written(q) \in Columns
      /\ Written(q).status # mem[q].status
      /\ Written(q).status \in {"running", "paused"} \cup Terminal
      /\ Written(q).status = "running" <=> pc[q] # "commit"
  BY <1>1, PausedType, PausedFields DEF Written, Terminal
<1>3. Flush(q, Written(q))
  BY <1>1 DEF Written, ResumeRun, CommitOutcome
<1>4. Merged(mem[q], Written(q), row[Run(q)].cols).stop
        \in {Written(q).stop, row[Run(q)].cols.stop}
  BY DEF Merged, Changed
<1>5. QED
  BY <1>1, <1>2, <1>3, <1>4, FlushRow, MergedFields DEF PauseInv, Changed

(* The detached finalize overwrites status, stop and answer of its run.    *)
LEMMA OrphanWrites ==
  ASSUME PauseInv, NEW q \in Request, RunOrphan(q)
  PROVE  /\ \A r \in Request : Run(q) # r => row'[r] = row[r]
         /\ \A r \in Request : ~Exists(r) => row'[r] = row[r]
         /\ Run(q) \in Request /\ Exists(Run(q)) =>
              /\ row'[Run(q)].cols.status = orphan[q].status
              /\ row'[Run(q)].cols.stop = orphan[q].stop
              /\ row'[Run(q)].cols.answer = orphan[q].answer
         /\ orphan[q].status \in {"cancelled", "failed"} /\ ~orphan[q].answer
         /\ \A p \in Request : orphan'[p] = IF p = q THEN NoCols ELSE orphan[p]
<1>1. /\ orphan[q] \in Columns
      /\ orphan[q].status \in {"cancelled", "failed"} /\ ~orphan[q].answer
      /\ row \in [Request -> Row]
      /\ \A p \in Request : orphan'[p] = IF p = q THEN NoCols ELSE orphan[p]
  BY DEF RunOrphan, PauseInv, TypeInv, TypeOK, OrphanInv
<1>2. CASE Run(q) \in Request /\ Exists(Run(q))
  <2>1. row[Run(q)].cols \in Columns
    BY <1>1, <1>2, RowType, BlankTypes
  <2>2. row' = [row EXCEPT ![Run(q)].cols =
                  Finalized(@, orphan[q].status, orphan[q].stop, orphan[q].answer)]
    BY <1>2 DEF RunOrphan
  <2>3. /\ row'[Run(q)].cols =
             Finalized(row[Run(q)].cols, orphan[q].status, orphan[q].stop, orphan[q].answer)
        /\ \A r \in Request : Run(q) # r => row'[r] = row[r]
    BY <1>1, <1>2, <2>2 DEF Row
  <2>4. QED
    BY <1>1, <1>2, <2>1, <2>3 DEF Finalized, Columns
<1>3. CASE ~(Run(q) \in Request /\ Exists(Run(q)))
  <2>1. \A r \in Request : row'[r] = row[r]
    BY <1>1, <1>3 DEF RunOrphan
  <2>2. QED
    BY <1>1, <1>3, <2>1
<1>4. QED
  BY <1>2, <1>3

(* The reaper fails running and paused rows, and nothing else. *)
LEMMA ReapWrites ==
  ASSUME TypeInv, Reap, NEW r \in Request
  PROVE  \/ row'[r] = row[r]
         \/ /\ row[r].cols.status \in {"running", "paused"}
            /\ row'[r].cols.status = "failed" /\ row'[r].cols.stop = "abandoned"
            /\ row'[r].cols.answer = row[r].cols.answer
<1>1. row[r] \in Row /\ row[r].cols \in Columns
  BY RowType, BlankTypes DEF TypeInv, TypeOK
<1>2. /\ Abandoned(row[r].cols).status = "failed"
      /\ Abandoned(row[r].cols).stop = "abandoned"
      /\ Abandoned(row[r].cols).answer = row[r].cols.answer
  BY <1>1 DEF Abandoned, Columns
<1>3. \/ row'[r] = row[r]
      \/ /\ row[r].cols.status \in {"running", "paused"}
         /\ row'[r].cols = Abandoned(row[r].cols)
  BY <1>1 DEF Reap, Row
<1>4. QED
  BY <1>2, <1>3

----------------------------------------------------------------------------
(* Cancelled by request means that somebody asked. *)

(* An event belongs to the run it is registered for, and is set only after *)
(* a request to cancel that run; only then is "cancelled" decided.         *)
Signalled ==
  /\ \A q \in Request : pc[q] = "idle" => Run(q) = NoRequest
  /\ \A r, q \in Request : registry[r] = q => Run(q) = r
  /\ \A q \in Request : event[q] => Run(q) \in asked
  /\ \A q \in Request :
       (outcome[q].stop = "cancelled" \/ orphan[q].stop = "cancelled") => Run(q) \in asked

StopAsked == \A r \in Request : row[r].cols.stop = "cancelled" => r \in asked

AskedInv == PauseInv /\ Signalled /\ StopAsked

(* The steps of a handler that write no row. *)
LEMMA AskedServe ==
  ASSUME AskedInv, NEW q \in Request, Serve(q), ~ResumeRun(q), ~CommitOutcome(q)
  PROVE  Signalled' /\ StopAsked'
<1>1. StopAsked'
  BY ServeKeepsRows DEF AskedInv, StopAsked, rowVars
<1>2. ASSUME UNCHANGED <<call, registry, event, asked>>,
             \A p \in Request : pc'[p] = "idle" => pc[p] = "idle",
             \A p \in Request :
               /\ outcome'[p].stop = "cancelled" => \/ outcome[p].stop = "cancelled"
                                                    \/ event[p]
               /\ orphan'[p].stop = "cancelled" => \/ orphan[p].stop = "cancelled"
                                                   \/ event[p]
      PROVE  Signalled'
  BY <1>2 DEF AskedInv, Signalled, Run
<1>3. mem[q] \in Columns
  BY DEF AskedInv, PauseInv, TypeInv, TypeOK
<1>4. /\ Finalized(mem[q], "failed", "error", FALSE).stop = "error"
      /\ Finalized(mem[q], "completed", "none", TRUE).stop = "none"
      /\ PausedForInput(mem[q]).stop = "input_required"
  BY <1>3 DEF Finalized, PausedForInput, Columns
<1>5. CASE RegisterRun(q)
  <2>1. /\ UNCHANGED <<call, outcome, orphan, asked>> /\ Run(q) \in Request
        /\ \A p \in Request : pc'[p] = "idle" => pc[p] = "idle"
        /\ \A p \in Request : event'[p] => event[p]
        /\ \A r \in Request : registry'[r] = IF r = Run(q) THEN q ELSE registry[r]
    BY <1>5 DEF RegisterRun, Register, AskedInv, PauseInv, TypeInv, TypeOK, Run, histVars
  <2>2. QED
    BY <1>1, <2>1 DEF AskedInv, Signalled, Run
<1>6. CASE BeginExecutor(q) \/ ResumeCall(q)
  BY <1>1, <1>2, <1>6
    DEF BeginExecutor, ResumeCall, memVars, histVars, AskedInv, PauseInv, TypeInv, TypeOK
<1>7. ASSUME NEW label \in PC, label # "idle", Goto(q, label)
      PROVE  Signalled'
  BY <1>2, <1>7 DEF Goto, memVars, histVars, AskedInv, PauseInv, TypeInv, TypeOK
<1>8. ASSUME NEW c, Decide(q, c), c.stop = "cancelled" => event[q]
      PROVE  Signalled'
  BY <1>2, <1>8 DEF Decide, memVars, histVars, AskedInv, PauseInv, TypeInv, TypeOK
<1>9. Fail(q) \/ Complete(q) \/ Pause(q) => Signalled'
  BY <1>4, <1>8 DEF Fail, Complete, Pause
<1>10. CASE \/ AppendUserMessage(q) \/ StartTurn(q) \/ ExceedGuardrail(q) \/ TurnFails(q)
            \/ TurnAnswers(q) \/ TurnPauses(q) \/ TurnCallsTools(q) \/ ToolsDone(q)
  BY <1>1, <1>7, <1>9, <1>10
    DEF AppendUserMessage, StartTurn, ExceedGuardrail, TurnFails, TurnAnswers, TurnPauses,
        TurnCallsTools, ToolsDone, PC
<1>11. CASE BreakOnCancel(q)
  <2>1. CASE Confirms(q)
    BY <1>1, <1>2, <1>11, <2>1
      DEF BreakOnCancel, SeesCancel, memVars, histVars, AskedInv, PauseInv, TypeInv, TypeOK
  <2>2. CASE ~Confirms(q)
    BY <1>1, <1>8, <1>11, <2>2 DEF BreakOnCancel, SeesCancel
  <2>3. QED
    BY <2>1, <2>2
<1>12. CASE EndRequest(q)
  <2>1. /\ UNCHANGED <<call, event, orphan, asked>>
        /\ \A p \in Request : pc'[p] = "idle" => pc[p] = "idle"
        /\ \A p \in Request : outcome'[p] \in {outcome[p], NoCols}
        /\ \A r \in Request : registry'[r] \in {registry[r], NoRequest}
    BY <1>12 DEF EndRequest, Unregister, Leave, histVars, AskedInv, PauseInv, TypeInv, TypeOK
  <2>2. QED
    BY <1>1, <2>1 DEF AskedInv, Signalled, Run, NoCols
<1>13. QED
  BY <1>1, <1>5, <1>6, <1>10, <1>11, <1>12 DEF Serve

LEMMA AskedFlush ==
  ASSUME AskedInv, NEW q \in Request, ResumeRun(q) \/ CommitOutcome(q)
  PROVE  Signalled' /\ StopAsked'
<1>1. /\ UNCHANGED <<call, registry, event, orphan, asked>>
      /\ \A p \in Request : pc'[p] = "idle" => pc[p] = "idle"
      /\ \A p \in Request : outcome'[p] \in {outcome[p], NoCols}
  BY DEF ResumeRun, CommitOutcome, memVars, histVars, AskedInv, PauseInv, TypeInv, TypeOK
<1>2. Written(q).stop = "cancelled" => Run(q) \in asked
  BY DEF Written, Resumed, AskedInv, PauseInv, TypeInv, TypeOK, Columns, Signalled
<1>3. \A r \in Request :
        row'[r].cols.stop = "cancelled" => r \in asked
  BY <1>2, FlushWrites DEF AskedInv, StopAsked
<1>4. QED
  BY <1>1, <1>3 DEF AskedInv, Signalled, StopAsked, Run, NoCols

LEMMA AskedPrepare ==
  ASSUME AskedInv, NEW q \in Request, PrepareFresh(q) \/ PrepareResume(q)
  PROVE  Signalled' /\ StopAsked'
<1>1. /\ pc[q] = "idle" /\ \A p \in Request : pc'[p] = IF p = q THEN "prepared" ELSE pc[p]
      /\ \A p \in Request \ {q} : Run(p)' = Run(p)
      /\ UNCHANGED <<registry, event, outcome, orphan, asked>>
  BY PrepareMoves DEF PrepareFresh, PrepareResume, AskedInv, PauseInv, TypeInv, TypeOK, Run,
     memVars, histVars
<1>2. Signalled'
  BY <1>1 DEF AskedInv, PauseInv, TypeInv, TypeOK, Signalled
<1>3. \A r \in Request : row'[r] = row[r] \/ row'[r].cols = NewCols
  BY DEF PrepareFresh, PrepareResume, AskedInv, PauseInv, TypeInv, TypeOK
<1>4. StopAsked'
  BY <1>1, <1>3 DEF AskedInv, StopAsked, NewCols, NoCols
<1>5. QED
  BY <1>2, <1>4

LEMMA AskedLeaving ==
  ASSUME AskedInv, NEW q \in Request, RejectKey(q) \/ Interrupt(q)
  PROVE  Signalled' /\ StopAsked'
<1>1. /\ UNCHANGED <<call, event, asked, row>>
      /\ \A p \in Request : pc'[p] = "idle" => pc[p] = "idle"
      /\ \A p \in Request : outcome'[p] \in {outcome[p], NoCols}
      /\ \A r \in Request : registry'[r] \in {registry[r], NoRequest}
  BY DEF RejectKey, Interrupt, InterruptGuarded, InterruptUnguarded, Unregister, Leave,
     rowVars, histVars, AskedInv, PauseInv, TypeInv, TypeOK
<1>2. \A p \in Request : orphan'[p] = orphan[p] \/ (orphan'[p].stop = "cancelled" => event[p])
  <2>1. \A cause \in {"disconnect", "raise"} : Triage(q, cause).stop = "cancelled" => event[q]
    BY DEF Triage, Finalized, NewCols, NoCols
  <2>2. QED
    BY <2>1 DEF RejectKey, Interrupt, InterruptGuarded, InterruptUnguarded, AskedInv,
       PauseInv, TypeInv, TypeOK
<1>3. QED
  BY <1>1, <1>2 DEF AskedInv, Signalled, StopAsked, Run, NoCols

LEMMA AskedOther ==
  ASSUME AskedInv,
         \/ \E q \in Request : RunOrphan(q) \/ CancelTask(q) \/ Age(q)
         \/ DeleteSignal \/ DeleteAgent \/ EditAgent \/ Restart \/ SecondWorkerBoots
         \/ UNCHANGED vars
  PROVE  Signalled' /\ StopAsked'
<1>1. ASSUME UNCHANGED <<call, pc, registry, event, outcome, orphan, asked>>
      PROVE  Signalled'
  BY <1>1 DEF AskedInv, Signalled, Run
<1>2. ASSUME NEW q \in Request, RunOrphan(q)
      PROVE  Signalled' /\ StopAsked'
  <2>1. UNCHANGED <<call, pc, registry, event, outcome, asked>>
    BY <1>2 DEF RunOrphan, memVars, histVars
  <2>2. QED
    BY <1>2, <2>1, OrphanWrites DEF AskedInv, Signalled, StopAsked, Run, NoCols, Exists
<1>3. ASSUME NEW runs \in SUBSET Request, Signal(runs), asked' = asked \cup runs,
             UNCHANGED <<call, pc, registry, outcome, orphan, row>>
      PROVE  Signalled' /\ StopAsked'
  BY <1>3 DEF Signal, AskedInv, Signalled, StopAsked, Run
<1>4. (\E q \in Request : CancelTask(q)) \/ DeleteSignal => Signalled' /\ StopAsked'
  BY <1>3 DEF CancelTask, DeleteSignal, Running, rowVars, reqVars
<1>5. CASE \/ \E q \in Request : Age(q)
           \/ EditAgent \/ UNCHANGED vars
  BY <1>1, <1>5 DEF Age, EditAgent, vars, runVars, rowVars, memVars, reqVars, histVars,
     AskedInv, StopAsked
<1>6. CASE DeleteAgent
  <2>1. \A r \in Request : row'[r].cols.stop = "none"
    BY <1>6 DEF DeleteAgent, AskedInv, PauseInv, TypeInv, TypeOK, Row, NoCols
  <2>2. QED
    BY <1>1, <1>6, <2>1 DEF DeleteAgent, memVars, reqVars, histVars, StopAsked
<1>7. Reap /\ UNCHANGED asked => StopAsked'
  BY ReapWrites DEF AskedInv, PauseInv, StopAsked
<1>8. CASE SecondWorkerBoots
  BY <1>1, <1>7, <1>8 DEF SecondWorkerBoots, memVars, reqVars, histVars
<1>9. CASE Restart
  <2>1. /\ UNCHANGED <<call, asked>>
        /\ \A p \in Request : /\ pc'[p] = "idle" => pc[p] = "idle"
                              /\ ~event'[p] /\ outcome'[p] = NoCols /\ orphan'[p] = NoCols
                              /\ registry'[p] = NoRequest
    BY <1>9 DEF Restart, histVars
  <2>2. Signalled'
    BY <2>1 DEF AskedInv, Signalled, Run, NoCols
  <2>3. QED
    BY <1>7, <1>9, <2>1, <2>2 DEF Restart
<1>10. QED
  BY <1>2, <1>4, <1>5, <1>6, <1>8, <1>9

LEMMA AskedInit == Init => AskedInv
BY PauseInit DEF Init, AskedInv, Signalled, StopAsked, NoCols, Run

LEMMA AskedNext ==
  ASSUME AskedInv, [Next]_vars
  PROVE  AskedInv'
<1>1. PauseInv'
  BY PauseNext DEF AskedInv
<1>2. QED
  BY <1>1, AskedServe, AskedFlush, AskedPrepare, AskedLeaving, AskedOther
    DEF Next, AskedInv

(* Whatever happens around the server, no row says "cancelled" on request  *)
(* of somebody who did not ask.                                            *)
THEOREM CancelledOnlyWhenAsked == Spec => []CancelledMeansAsked
<1>1. AskedInv /\ [Next]_vars => AskedInv'
  BY AskedNext
<1>2. AskedInv => CancelledMeansAsked
  BY DEF AskedInv, StopAsked, CancelledMeansAsked
<1>3. QED
  BY <1>1, <1>2, AskedInit, PTL DEF Spec

----------------------------------------------------------------------------
(* No event is left behind. *)

LeakInv == TypeInv /\ NoLeakedEvent

(* The environment of a behaviour is fixed. *)
LEMMA EnvironmentFixed == [Next]_vars => UNCHANGED env
BY DEF Next, vars

LEMMA LeakNext ==
  ASSUME LeakInv, [Next]_vars
  PROVE  LeakInv'
<1>1. TypeInv'
  BY NextType DEF LeakInv
<1>2. ASSUME UNCHANGED registry,
             \A p \in Request : Active(p) => Active(p)' /\ call'[p] = call[p]
      PROVE  NoLeakedEvent'
  BY <1>2, EnvironmentFixed DEF LeakInv, TypeInv, TypeOK, NoLeakedEvent, Run
<1>3. ASSUME NEW q \in Request, PrepareFresh(q) \/ PrepareResume(q)
      PROVE  NoLeakedEvent'
  BY <1>2, <1>3, PrepareMoves DEF LeakInv, TypeInv, TypeOK, Active, Executing
<1>4. ASSUME NEW q \in Request, RegisterRun(q)
      PROVE  NoLeakedEvent'
  BY <1>4, EnvironmentFixed DEF RegisterRun, Register, LeakInv, TypeInv, TypeOK, NoLeakedEvent, Run, Active,
     Executing
<1>5. ASSUME NEW q \in Request, Serve(q), ~RegisterRun(q), ~EndRequest(q)
      PROVE  NoLeakedEvent'
  BY <1>2, <1>5, ServeMoves DEF LeakInv, TypeInv, TypeOK, Active, Executing, Inside
<1>6. ASSUME NEW q \in Request, EndRequest(q) \/ RejectKey(q) \/ Interrupt(q)
      PROVE  NoLeakedEvent'
  BY <1>6, EnvironmentFixed, LeavingMoves DEF LeakInv, TypeInv, TypeOK, NoLeakedEvent, Unregister, Run, Active,
     Executing
<1>7. ASSUME UNCHANGED <<call, pc, registry>>
      PROVE  NoLeakedEvent'
  BY <1>2, <1>7 DEF Active, Executing
<1>8. CASE Restart
  <2>1. \A r \in Request : registry'[r] = NoRequest
    BY <1>8 DEF Restart
  <2>2. QED
    BY <1>1, <2>1 DEF LeakInv, NoLeakedEvent
<1>9. QED
  BY <1>1, <1>3, <1>4, <1>5, <1>6, <1>7, <1>8, OtherMoves DEF Next, LeakInv, Serve

(* As long as nothing strikes outside the executors' try blocks, the       *)
(* registry holds no event of a request that is over.                      *)
THEOREM NoEventLeaks == Spec => []NoLeakedEvent
<1>1. Init => LeakInv
  BY InitType DEF Init, LeakInv, NoLeakedEvent
<1>2. LeakInv /\ [Next]_vars => LeakInv'
  BY LeakNext
<1>3. LeakInv => NoLeakedEvent
  BY DEF LeakInv
<1>4. QED
  BY <1>1, <1>2, <1>3, PTL DEF Spec

----------------------------------------------------------------------------
(* A cancel reaches the executor. *)

(* A row, and a run somebody works on, belongs to a request that was       *)
(* received.                                                               *)
Received ==
  /\ \A r \in Request : Exists(r) => pc[r] # "idle"
  /\ \A q \in Request : Run(q) \in Request => pc[q] # "idle" /\ pc[Run(q)] # "idle"

(* At most one request works on a run, and from RegisterRun on its event   *)
(* is the registered one.                                                  *)
Exclusive ==
  \A q, p \in Request : (Active(q) /\ Active(p) /\ Run(q) = Run(p)) => q = p

Registered ==
  \A q \in Request : (Active(q) /\ pc[q] # "prepared") => registry[Run(q)] = q

ReachInv == TypeInv /\ Received /\ Exclusive /\ Registered

(* Only PrepareFresh inserts a row. *)
LEMMA RowsInserted ==
  ASSUME TypeInv, [Next]_vars, NEW r \in Request, ~Exists(r), Exists(r)'
  PROVE  PrepareFresh(r)
<1> USE DEF Exists
<1>1. row \in [Request -> Row]
  BY DEF TypeInv, TypeOK
<1>2. ASSUME NEW q \in Request, NEW c, Flush(q, c)
      PROVE  row'[r] = row[r]
  BY <1>1, <1>2 DEF Flush
<1>3. row' # row
  OBVIOUS
<1>4. \A q \in Request : ~ResumeRun(q) /\ ~CommitOutcome(q)
  BY <1>2 DEF ResumeRun, CommitOutcome
<1>5. \A q \in Request : ~Serve(q)
  BY <1>3, <1>4 DEF Serve, RegisterRun, BeginExecutor, AppendUserMessage, ResumeCall,
     StartTurn, ExceedGuardrail, TurnFails, TurnAnswers, TurnPauses, TurnCallsTools,
     ToolsDone, BreakOnCancel, EndRequest, Goto, Fail, Complete, Pause, Decide, rowVars
<1>6. \A q \in Request : ~RejectKey(q) /\ ~Interrupt(q)
  BY <1>3 DEF RejectKey, Interrupt, InterruptGuarded, InterruptUnguarded, rowVars
<1>7. \A q \in Request :
        ~PrepareResume(q) /\ ~RunOrphan(q) /\ ~CancelTask(q) /\ ~Age(q)
  BY <1>1, <1>3 DEF PrepareResume, RunOrphan, CancelTask, Age, rowVars
<1>8. ~DeleteSignal /\ ~DeleteAgent /\ ~EditAgent
  BY <1>1, <1>3 DEF DeleteSignal, DeleteAgent, EditAgent, Row, NoCols
<1>9. ~Reap
  BY <1>1 DEF Reap
<1>10. ~UNCHANGED vars
  BY <1>3 DEF vars, runVars, rowVars
<1>11. PICK q \in Request : PrepareFresh(q)
  BY <1>5, <1>6, <1>7, <1>8, <1>9, <1>10 DEF Next, Restart, SecondWorkerBoots
<1>12. q = r
  BY <1>1, <1>11 DEF PrepareFresh
<1>13. QED
  BY <1>11, <1>12

LEMMA ReceivedNext ==
  ASSUME TypeInv, Received, [Next]_vars,
         \A q \in Request : pc'[q] = "idle" => pc[q] = "idle",
         \A q \in Request : \/ call'[q] = call[q]
                            \/ /\ pc'[q] # "idle"
                               /\ Run(q)' = q \/ Exists(Run(q)')
  PROVE  Received'
<1>1. \A r \in Request : Exists(r)' => pc'[r] # "idle"
  <2>1. SUFFICES ASSUME NEW r \in Request, Exists(r)', pc'[r] = "idle"
                 PROVE  FALSE
    OBVIOUS
  <2>2. ~Exists(r)
    BY <2>1 DEF Received
  <2>3. PrepareFresh(r)
    BY <2>1, <2>2, RowsInserted
  <2>4. pc'[r] = "prepared"
    BY <2>3 DEF PrepareFresh, TypeInv, TypeOK
  <2>5. QED
    BY <2>1, <2>4
<1>2. \A q \in Request : Run(q)' \in Request => pc'[q] # "idle" /\ pc'[Run(q)'] # "idle"
  BY DEF Received, Run
<1>3. QED
  BY <1>1, <1>2 DEF Received

LEMMA ReachNext ==
  ASSUME ReachInv, [Next]_vars, "concurrent_resume" \notin env
  PROVE  ReachInv'
<1>1. TypeInv'
  BY NextType DEF ReachInv
<1>2. ASSUME NEW q \in Request, PrepareFresh(q) \/ PrepareResume(q)
      PROVE  Received' /\ Exclusive' /\ Registered'
  <2>1. /\ pc[q] = "idle" /\ pc' = [pc EXCEPT ![q] = "prepared"]
        /\ UNCHANGED registry
        /\ \A p \in Request \ {q} : call'[p] = call[p]
        /\ \/ Run(q)' = q
           \/ /\ Run(q)' \in Request /\ Exists(Run(q)')
              /\ \A p \in Request : Active(p) => Run(p) # Run(q)'
    BY <1>2, PrepareMoves DEF ReachInv
  <2>2. \A p \in Request : pc'[p] = IF p = q THEN "prepared" ELSE pc[p]
    BY <2>1 DEF ReachInv, TypeInv, TypeOK
  <2>3. Received'
    BY <2>1, <2>2, ReceivedNext DEF ReachInv
  <2>4. \A p \in Request \ {q} : Active(p) => Run(p) # Run(q)'
    <3>1. SUFFICES ASSUME NEW p \in Request \ {q}, Active(p), Run(p) = Run(q)', Run(q)' = q
                   PROVE  FALSE
      BY <2>1
    <3>2. QED
      BY <2>1, <3>1 DEF ReachInv, Received
  <2>5. \A p \in Request \ {q} : (Active(p)' <=> Active(p)) /\ Run(p)' = Run(p)
    BY <2>1, <2>2 DEF Active, Executing, Run
  <2>6. Exclusive'
    BY <2>4, <2>5 DEF ReachInv, Exclusive
  <2>7. Registered'
    BY <2>1, <2>2, <2>5 DEF ReachInv, Registered
  <2>8. QED
    BY <2>3, <2>6, <2>7
<1>3. ASSUME UNCHANGED call,
             \A p \in Request : pc'[p] = "idle" => pc[p] = "idle",
             \A p \in Request : Active(p)' => Active(p)
      PROVE  Received' /\ Exclusive'
  BY <1>3, ReceivedNext DEF ReachInv, Exclusive, Run
<1>4. ASSUME NEW q \in Request, RegisterRun(q)
      PROVE  Received' /\ Exclusive' /\ Registered'
  <2>1. /\ UNCHANGED call /\ pc[q] = "prepared" /\ Run(q) \in Request
        /\ \A p \in Request : pc'[p] = IF p = q THEN "initial" ELSE pc[p]
        /\ \A r \in Request : registry'[r] = IF r = Run(q) THEN q ELSE registry[r]
    BY <1>4 DEF RegisterRun, Register, ReachInv, TypeInv, TypeOK, Run
  <2>2. \A p \in Request : Active(p)' <=> Active(p)
    BY <2>1 DEF Active, Executing
  <2>3. \A p \in Request : Active(p) => Run(p) \in Request
    BY DEF ReachInv, TypeInv, TypeOK, Active, Executing, Run
  <2>4. Registered'
    BY <2>1, <2>2, <2>3 DEF ReachInv, Registered, Exclusive, Run, Active
  <2>5. QED
    BY <1>3, <2>1, <2>2, <2>4
<1>5. ASSUME NEW q \in Request, Serve(q), ~RegisterRun(q), ~EndRequest(q)
      PROVE  Received' /\ Exclusive' /\ Registered'
  <2>1. /\ UNCHANGED <<call, registry>>
        /\ pc[q] \in {"initial"} \cup Inside
        /\ \A p \in Request : IF p = q THEN pc'[p] \in Inside ELSE pc'[p] = pc[p]
    BY <1>5, ServeMoves DEF ReachInv, TypeInv, TypeOK
  <2>2. \A p \in Request : Active(p)' <=> Active(p)
    BY <2>1 DEF Active, Executing, Inside
  <2>3. Registered'
    BY <2>1, <2>2 DEF ReachInv, Registered, Run, Inside
  <2>4. QED
    BY <1>3, <2>1, <2>2, <2>3 DEF Inside
<1>6. ASSUME NEW q \in Request, EndRequest(q) \/ RejectKey(q) \/ Interrupt(q)
      PROVE  Received' /\ Exclusive' /\ Registered'
  <2>1. /\ UNCHANGED call /\ Active(q)
        /\ \A p \in Request : pc'[p] = IF p = q THEN "done" ELSE pc[p]
        /\ \A r \in Request \ {Run(q)} : registry'[r] = registry[r]
    BY <1>6, LeavingMoves DEF ReachInv, TypeInv, TypeOK, Unregister
  <2>2. \A p \in Request : Active(p)' <=> (Active(p) /\ p # q)
    BY <2>1 DEF Active, Executing
  <2>3. \A p \in Request : Active(p) => Run(p) \in Request
    BY DEF ReachInv, TypeInv, TypeOK, Active, Executing, Run
  <2>4. Registered'
    <3>1. SUFFICES ASSUME NEW p \in Request, Active(p)', pc'[p] # "prepared"
                   PROVE  registry'[Run(p)'] = p
      BY DEF Registered
    <3>2. Active(p) /\ p # q /\ Run(p)' = Run(p) /\ pc'[p] = pc[p]
      BY <2>1, <2>2, <3>1 DEF Run
    <3>3. Run(p) # Run(q)
      BY <2>1, <3>2 DEF ReachInv, Exclusive
    <3>4. QED
      BY <2>1, <2>3, <3>1, <3>2, <3>3 DEF ReachInv, Registered
  <2>5. QED
    BY <1>3, <2>1, <2>2, <2>4
<1>7. ASSUME UNCHANGED <<call, pc, registry>>
      PROVE  Received' /\ Exclusive' /\ Registered'
  BY <1>3, <1>7 DEF ReachInv, Registered, Active, Executing, Run
<1>8. CASE Restart
  <2>1. /\ UNCHANGED call
        /\ \A p \in Request : ~Active(p)' /\ (pc'[p] = "idle" => pc[p] = "idle")
    BY <1>8 DEF Restart, Active, Executing
  <2>2. QED
    BY <1>1, <1>3, <2>1 DEF ReachInv, Registered
<1>9. QED
  BY <1>1, <1>2, <1>4, <1>5, <1>6, <1>7, <1>8, OtherMoves DEF Next, ReachInv, Serve

LEMMA ReachInit == Init => ReachInv
<1>1. SUFFICES ASSUME Init PROVE ReachInv
  OBVIOUS
<1>2. /\ \A r \in Request : ~Exists(r) /\ ~Active(r) /\ Run(r) = NoRequest
      /\ TypeInv
  BY <1>1, InitType DEF Init, Exists, NoCols, Run, Active, Executing
<1>3. QED
  BY <1>2 DEF ReachInv, Received, Exclusive, Registered

(* With one answer at a time to a paused task, the event registered for a  *)
(* run is the one its executor looks at, whatever else happens.            *)
THEOREM CancelAlwaysReaches == Spec => []CancelReaches
<1>1. Init => ReachInv
  BY ReachInit
<1> DEFINE AloneInv == "concurrent_resume" \notin env => ReachInv
<1>2. AloneInv /\ [Next]_vars => AloneInv'
  BY EnvironmentFixed, ReachNext
<1>3. AloneInv => CancelReaches
  BY DEF ReachInv, Registered, CancelReaches, Active, Executing
<1>4. Init => AloneInv
  BY <1>1
<1> HIDE DEF AloneInv
<1>5. QED
  BY <1>2, <1>3, <1>4, PTL DEF Spec

----------------------------------------------------------------------------
(* An answer is stored exactly for a completed run. *)

(* Nobody works on a run that has an answer, so that a session that knows  *)
(* none never leaves a stored one behind.                                  *)
Answerless ==
  \A q \in Request : Writing(q) =>
    /\ ~row[Run(q)].cols.answer /\ ~mem[q].answer
    /\ pc[q] = "commit" => (outcome[q].answer <=> outcome[q].status = "completed")

AnswersComplete ==
  \A r \in Request : row[r].cols.answer <=> row[r].cols.status = "completed"

AnswerInv == PauseInv /\ ReachInv /\ Answerless /\ AnswersComplete

(* A step that writes no row and decides nothing. *)
LEMMA AnswerQuiet ==
  ASSUME AnswerInv, UNCHANGED row,
         \A p \in Request : Writing(p)' =>
           /\ Writing(p) /\ Run(p)' = Run(p) /\ mem'[p] = mem[p]
           /\ pc'[p] = "commit" => pc[p] = "commit" /\ outcome'[p] = outcome[p]
  PROVE  Answerless' /\ AnswersComplete'
BY DEF AnswerInv, Answerless, AnswersComplete

LEMMA AnswerServe ==
  ASSUME AnswerInv, NEW q \in Request, Serve(q), ~ResumeRun(q), ~CommitOutcome(q)
  PROVE  Answerless' /\ AnswersComplete'
<1>1. UNCHANGED row /\ mem[q] \in Columns
  BY ServeKeepsRows DEF rowVars, AnswerInv, PauseInv, TypeInv, TypeOK
<1>2. CASE RegisterRun(q) \/ BeginExecutor(q) \/ ResumeCall(q)
  BY <1>1, <1>2, AnswerQuiet
    DEF RegisterRun, BeginExecutor, ResumeCall, Writing, Run, AnswerInv, PauseInv, TypeInv,
        TypeOK
<1>3. ASSUME NEW label \in {"loop", "llm", "tools"}, Writing(q), Goto(q, label)
      PROVE  Answerless' /\ AnswersComplete'
  BY <1>1, <1>3, AnswerQuiet DEF Goto, Writing, Run, AnswerInv, PauseInv, TypeInv, TypeOK
<1>4. ASSUME NEW c, Writing(q), Decide(q, c), c.answer <=> c.status = "completed"
      PROVE  Answerless' /\ AnswersComplete'
  BY <1>1, <1>4 DEF Decide, Writing, Run, AnswerInv, PauseInv, TypeInv, TypeOK, Answerless,
     AnswersComplete
<1>5. ASSUME Writing(q)
      PROVE  /\ LET c == Finalized(mem[q], "failed", "error", FALSE)
                IN  c.answer <=> c.status = "completed"
             /\ LET c == Finalized(mem[q], "completed", "none", TRUE)
                IN  c.answer <=> c.status = "completed"
             /\ LET c == Finalized(mem[q], "cancelled", "cancelled", FALSE)
                IN  c.answer <=> c.status = "completed"
             /\ LET c == PausedForInput(mem[q])
                IN  c.answer <=> c.status = "completed"
  BY <1>1, <1>5 DEF Finalized, PausedForInput, Columns, AnswerInv, Answerless
<1>6. Writing(q) /\ (Fail(q) \/ Complete(q) \/ Pause(q)) => Answerless' /\ AnswersComplete'
  BY <1>4, <1>5 DEF Fail, Complete, Pause
<1>7. CASE \/ AppendUserMessage(q) \/ StartTurn(q) \/ ExceedGuardrail(q) \/ TurnFails(q)
           \/ TurnAnswers(q) \/ TurnPauses(q) \/ TurnCallsTools(q) \/ ToolsDone(q)
  BY <1>3, <1>6, <1>7
    DEF AppendUserMessage, StartTurn, ExceedGuardrail, TurnFails, TurnAnswers, TurnPauses,
        TurnCallsTools, ToolsDone, MayUseAnswer, Writing
<1>8. CASE BreakOnCancel(q)
  <2>1. Writing(q)
    BY <1>8 DEF BreakOnCancel, SeesCancel, Writing
  <2>2. CASE ~Confirms(q)
    BY <1>4, <1>5, <1>8, <2>1, <2>2 DEF BreakOnCancel
  <2>3. CASE Confirms(q)
    BY <1>1, <1>8, <2>3, AnswerQuiet
      DEF BreakOnCancel, Writing, Run, AnswerInv, PauseInv, TypeInv, TypeOK
  <2>4. QED
    BY <2>2, <2>3
<1>9. CASE EndRequest(q)
  BY <1>1, <1>9, AnswerQuiet
    DEF EndRequest, Leave, Writing, Run, AnswerInv, PauseInv, TypeInv, TypeOK
<1>10. QED
  BY <1>2, <1>7, <1>8, <1>9 DEF Serve

LEMMA AnswerFlush ==
  ASSUME AnswerInv, NEW q \in Request, ResumeRun(q) \/ CommitOutcome(q)
  PROVE  Answerless' /\ AnswersComplete'
<1>1. /\ UNCHANGED call /\ Run(q) \in Request /\ Writing(q)
      /\ \A p \in Request \ {q} : /\ pc'[p] = pc[p] /\ mem'[p] = mem[p]
                                  /\ outcome'[p] = outcome[p]
      /\ pc'[q] = IF pc[q] = "commit" THEN "ending" ELSE "loop"
      /\ mem'[q] = Written(q) /\ mem[q] \in Columns
  BY FlushWrites DEF ResumeRun, CommitOutcome, Flush, Written, AnswerInv, PauseInv, TypeInv,
     TypeOK
<1>2. /\ Written(q).answer <=> Written(q).status = "completed"
      /\ pc[q] # "commit" => ~Written(q).answer
  BY <1>1, PausedFields DEF Written, AnswerInv, Answerless
<1>3. ASSUME Exists(Run(q))
      PROVE  /\ row'[Run(q)].cols.answer <=> row'[Run(q)].cols.status = "completed"
             /\ pc[q] # "commit" => ~row'[Run(q)].cols.answer
  BY <1>1, <1>2, <1>3, FlushWrites DEF AnswerInv, Answerless, Changed
<1>4. AnswersComplete'
  BY <1>1, <1>3, FlushWrites DEF AnswerInv, AnswersComplete
<1>5. ASSUME NEW p \in Request \ {q}, Writing(p)'
      PROVE  Writing(p) /\ Run(p)' = Run(p) /\ row'[Run(p)] = row[Run(p)]
  <2>1. Writing(p) /\ Run(p)' = Run(p)
    BY <1>1, <1>5 DEF Writing, Run
  <2>2. Active(p) /\ Active(q) /\ Run(p) \in Request
    BY <1>1, <2>1 DEF Writing, Active, Executing, AnswerInv, PauseInv, TypeInv, TypeOK, Run
  <2>3. Run(p) # Run(q)
    BY <2>2 DEF AnswerInv, ReachInv, Exclusive
  <2>4. QED
    BY <2>1, <2>2, <2>3, FlushWrites DEF AnswerInv
<1>6. Writing(q)' => ~row'[Run(q)].cols.answer /\ ~mem'[q].answer
  BY <1>1, <1>2, <1>3, FlushWrites DEF AnswerInv, Answerless, Writing
<1>7. Answerless'
  <2>1. \A p \in Request \ {q} : Writing(p)' =>
          /\ ~row'[Run(p)'].cols.answer /\ ~mem'[p].answer
          /\ pc'[p] = "commit" => (outcome'[p].answer <=> outcome'[p].status = "completed")
    BY <1>1, <1>5 DEF AnswerInv, Answerless
  <2>2. Writing(q)' => pc'[q] # "commit" /\ Run(q)' = Run(q)
    BY <1>1 DEF Run
  <2>3. QED
    BY <1>6, <2>1, <2>2 DEF Answerless
<1>8. QED
  BY <1>4, <1>7

LEMMA AnswerPrepare ==
  ASSUME AnswerInv, NEW q \in Request, PrepareFresh(q) \/ PrepareResume(q)
  PROVE  Answerless' /\ AnswersComplete'
<1>1. /\ pc[q] = "idle" /\ \A p \in Request : pc'[p] = IF p = q THEN "prepared" ELSE pc[p]
      /\ \A p \in Request \ {q} :
           /\ Run(p)' = Run(p) /\ mem'[p] = mem[p]
           /\ Writing(p)' => Writing(p) /\ Run(p) # q
      /\ UNCHANGED outcome
  BY PrepareMoves DEF PrepareFresh, PrepareResume, AnswerInv, PauseInv, TypeInv, TypeOK, Run,
     Writing, ReachInv, Received
<1>2. CASE PrepareFresh(q)
  <2>1. /\ \A r \in Request \ {q} : row'[r] = row[r]
        /\ row'[q].cols = NewCols /\ mem'[q] = NewCols /\ Run(q)' = q
    BY <1>2 DEF PrepareFresh, AnswerInv, PauseInv, TypeInv, TypeOK, Run
  <2>2. \A p \in Request \ {q} : Writing(p)' => Run(p) \in Request \ {q}
    BY <1>1 DEF AnswerInv, PauseInv, TypeInv, TypeOK, Writing, Run
  <2>3. QED
    BY <1>1, <2>1, <2>2 DEF AnswerInv, Answerless, AnswersComplete, NewCols, NoCols
<1>3. CASE PrepareResume(q)
  <2>1. PICK r \in Request, k \in Kind, yes \in BOOLEAN : PrepareResume(q)!(r, k, yes)
    BY <1>3 DEF PrepareResume
  <2>2. /\ UNCHANGED row /\ row[r].cols.status = "paused"
        /\ Run(q)' = r /\ mem'[q] = row[r].cols
    BY <2>1 DEF Paused, AnswerInv, PauseInv, TypeInv, TypeOK, Run
  <2>3. QED
    BY <1>1, <2>2 DEF AnswerInv, Answerless, AnswersComplete
<1>4. QED
  BY <1>2, <1>3

LEMMA AnswerLeaving ==
  ASSUME AnswerInv, NEW q \in Request, RejectKey(q) \/ Interrupt(q)
  PROVE  Answerless' /\ AnswersComplete'
<1>1. /\ UNCHANGED <<call, row>>
      /\ \A p \in Request : /\ pc'[p] = IF p = q THEN "done" ELSE pc[p]
                            /\ p # q => mem'[p] = mem[p] /\ outcome'[p] = outcome[p]
  BY DEF RejectKey, Interrupt, InterruptGuarded, InterruptUnguarded, Leave, rowVars,
     AnswerInv, PauseInv, TypeInv, TypeOK
<1>2. QED
  BY <1>1, AnswerQuiet DEF Writing, Run

LEMMA AnswerOther ==
  ASSUME AnswerInv,
         \/ \E q \in Request : RunOrphan(q) \/ CancelTask(q) \/ Age(q)
         \/ DeleteSignal \/ DeleteAgent \/ EditAgent \/ Restart \/ SecondWorkerBoots
         \/ UNCHANGED vars
  PROVE  Answerless' /\ AnswersComplete'
<1>1. ASSUME UNCHANGED <<row, call, pc, mem, outcome>>
      PROVE  Answerless' /\ AnswersComplete'
  BY <1>1, AnswerQuiet DEF Writing, Run
<1>2. CASE \/ \E q \in Request : CancelTask(q) \/ Age(q)
           \/ DeleteSignal \/ EditAgent \/ UNCHANGED vars
  BY <1>1, <1>2 DEF CancelTask, Age, DeleteSignal, EditAgent, vars, runVars, rowVars, reqVars
<1>3. ASSUME UNCHANGED <<call, pc, mem, outcome>>,
             \A r \in Request : \/ row'[r] = row[r]
                                \/ ~row'[r].cols.answer /\ row'[r].cols.status # "completed"
      PROVE  Answerless' /\ AnswersComplete'
  BY <1>3 DEF AnswerInv, PauseInv, TypeInv, TypeOK, Answerless, AnswersComplete, Writing, Run
<1>4. ASSUME NEW q \in Request, RunOrphan(q)
      PROVE  Answerless' /\ AnswersComplete'
  <2>1. UNCHANGED <<call, pc, mem, outcome>>
    BY <1>4 DEF RunOrphan
  <2>2. QED
    BY <1>3, <1>4, <2>1, OrphanWrites DEF AnswerInv
<1>5. CASE DeleteAgent
  <2>1. \A r \in Request : row'[r].cols = NoCols
    BY <1>5 DEF DeleteAgent, AnswerInv, PauseInv, TypeInv, TypeOK, Row
  <2>2. ~NoCols.answer /\ NoCols.status # "completed"
    BY DEF NoCols
  <2>3. UNCHANGED <<call, pc, mem, outcome>>
    BY <1>5 DEF DeleteAgent, reqVars
  <2>4. QED
    BY <1>3, <2>1, <2>2, <2>3
<1>6. Reap => \A r \in Request :
        \/ row'[r] = row[r]
        \/ ~row'[r].cols.answer /\ row'[r].cols.status # "completed"
  BY ReapWrites DEF AnswerInv, PauseInv, AnswersComplete
<1>7. CASE SecondWorkerBoots
  BY <1>3, <1>6, <1>7 DEF SecondWorkerBoots, reqVars
<1>8. CASE Restart
  <2>1. \A q \in Request : ~Writing(q)'
    BY <1>8 DEF Restart, Writing, Active, Executing
  <2>2. QED
    BY <1>6, <1>8, <2>1 DEF Restart, AnswerInv, Answerless, AnswersComplete
<1>9. QED
  BY <1>2, <1>4, <1>5, <1>7, <1>8

(* With one answer at a time to a paused task, a final row has an answer   *)
(* exactly when it completed, whichever session or reaper wrote it.        *)
THEOREM AnswersOfCompleted == Spec => []AnswerIffCompleted
<1>1. Init => AnswerInv
  <2>1. Init => ReachInv
    BY ReachInit
  <2>2. QED
    BY <2>1, PauseInit DEF Init, AnswerInv, Answerless, AnswersComplete, NoCols, Writing
<1>2. ASSUME AnswerInv, [Next]_vars, "concurrent_resume" \notin env
      PROVE  AnswerInv'
  <2>1. PauseInv' /\ ReachInv'
    BY <1>2, PauseNext, ReachNext DEF AnswerInv
  <2>2. QED
    BY <1>2, <2>1, AnswerServe, AnswerFlush, AnswerPrepare, AnswerLeaving, AnswerOther
      DEF Next, AnswerInv
<1> DEFINE AloneInv == "concurrent_resume" \notin env => AnswerInv
<1>3. AloneInv /\ [Next]_vars => AloneInv'
  BY <1>2, EnvironmentFixed
<1>4. AloneInv => AnswerIffCompleted
  BY DEF AnswerInv, AnswersComplete, AnswerIffCompleted
<1>5. Init => AloneInv
  BY <1>1
<1> HIDE DEF AloneInv
<1>6. QED
  BY <1>3, <1>4, <1>5, PTL DEF Spec

----------------------------------------------------------------------------
(* An approved batch is invoked by one request. *)

(* A resume that waits has the batch of the last pause, later than all     *)
(* that were invoked; one that invoked calls left a row that is not paused *)
(* until the next pause.                                                   *)
BatchesFollow ==
  /\ \A q \in Request : pc[q] # "idle" => call[q].batch <= pauses[Run(q)]
  /\ \A q \in Request : invoked[q] > 0 => pc[q] # "idle" /\ Resuming(q)
  /\ \A q \in Request : Waits(q) =>
       /\ call[q].batch = pauses[Run(q)]
       /\ \A p \in Request \ {q} :
            (Run(p) = Run(q) /\ invoked[p] > 0) => call[p].batch < call[q].batch
  /\ \A q \in Request : (invoked[q] > 0 /\ ~Waits(q)) =>
       row[Run(q)].cols.status # "paused" \/ call[q].batch < pauses[Run(q)]

BatchInv == PauseInv /\ ReachInv /\ BatchesFollow /\ CallsInvokedOnce

Orderly == env \cap {"concurrent_resume", "early", "restart"} = {}

(* No row becomes paused, and a resume stops waiting only when its row is  *)
(* not paused.                                                             *)
LEMMA BatchQuiet ==
  ASSUME BatchInv, UNCHANGED <<call, pauses, invoked>>,
         \A p \in Request : /\ pc'[p] = "idle" <=> pc[p] = "idle"
                            /\ Waits(p)' => Waits(p)
                            /\ Waits(p) /\ ~Waits(p)' => row'[Run(p)].cols.status # "paused",
         \A r \in Request : row'[r].cols.status = "paused" => row[r].cols.status = "paused"
  PROVE  BatchesFollow' /\ CallsInvokedOnce'
<1>1. \A p \in Request : pc[p] # "idle" => Run(p) \in Request /\ Run(p)' = Run(p)
  BY DEF BatchInv, PauseInv, TypeInv, TypeOK, Run
<1>2. CallsInvokedOnce'
  BY DEF BatchInv, CallsInvokedOnce, Run
<1>3. \A p \in Request : Resuming(p)' <=> Resuming(p)
  BY DEF Resuming, Confirms
<1>4. \A p \in Request : Run(p)' = Run(p)
  BY DEF Run
<1>5. BatchesFollow'
  BY <1>1, <1>3, <1>4 DEF BatchInv, BatchesFollow
<1>6. QED
  BY <1>2, <1>5

LEMMA BatchServe ==
  ASSUME BatchInv, NEW q \in Request, Serve(q), ~ResumeRun(q), ~CommitOutcome(q)
  PROVE  BatchesFollow' /\ CallsInvokedOnce'
<1>1. UNCHANGED <<row, pauses>>
  BY ServeKeepsRows DEF rowVars
<1>2. CASE RegisterRun(q) \/ BeginExecutor(q)
  BY <1>1, <1>2, BatchQuiet
    DEF RegisterRun, BeginExecutor, histVars, Waits, Resuming, Confirms, BatchInv, PauseInv,
        TypeInv, TypeOK
<1>3. CASE ResumeCall(q)
  <2>1. /\ UNCHANGED <<call, pc>> /\ Waits(q) /\ Active(q)
        /\ \A p \in Request \ {q} : invoked'[p] = invoked[p]
    BY <1>3 DEF ResumeCall, Waits, Active, Executing, BatchInv, PauseInv, TypeInv, TypeOK
  <2>2. \A p \in Request : Waits(p)' <=> Waits(p)
    BY <2>1 DEF Waits, Resuming, Confirms
  <2>3. \A p \in Request \ {q} : Waits(p) => Run(p) # Run(q)
    BY <2>1 DEF BatchInv, ReachInv, Exclusive, Waits, Active, Executing
  <2>4. BatchesFollow'
    BY <1>1, <2>1, <2>2, <2>3 DEF BatchInv, BatchesFollow, Run, Resuming, Confirms, Waits
  <2>5. \A p \in Request \ {q} :
          (Run(p) = Run(q) /\ invoked[p] > 0) => call[p].batch < call[q].batch
    BY <2>1 DEF BatchInv, BatchesFollow
  <2>6. \A p \in Request : pc[p] # "idle" => call[p].batch \in Nat
    BY DEF BatchInv, PauseInv, TypeInv, TypeOK, Call
  <2>7. \A p \in Request : invoked[p] \in Nat /\ (invoked[p] > 0 => pc[p] # "idle")
    BY DEF BatchInv, BatchesFollow, PauseInv, TypeInv, TypeOK
  <2>8. \A p \in Request \ {q} :
          (Run(p) = Run(q) /\ call[p].batch = call[q].batch) => invoked[p] = 0
    BY <2>5, <2>6, <2>7
  <2>9. CallsInvokedOnce'
    BY <2>1, <2>8 DEF BatchInv, CallsInvokedOnce, Run
  <2>10. QED
    BY <2>4, <2>9
<1>4. ASSUME UNCHANGED <<call, invoked>>, ~Waits(q),
             NEW label \in {"loop", "llm", "tools", "commit", "ending", "done"},
             pc[q] # "idle", pc' = [pc EXCEPT ![q] = label]
      PROVE  BatchesFollow' /\ CallsInvokedOnce'
  BY <1>1, <1>4, BatchQuiet
    DEF Waits, Resuming, Confirms, BatchInv, PauseInv, TypeInv, TypeOK
<1>5. CASE \/ AppendUserMessage(q) \/ StartTurn(q) \/ ExceedGuardrail(q) \/ TurnFails(q)
           \/ TurnAnswers(q) \/ TurnPauses(q) \/ TurnCallsTools(q) \/ ToolsDone(q)
  <2>1. pc[q] # "idle" /\ ~Waits(q)
    BY <1>5 DEF AppendUserMessage, StartTurn, ExceedGuardrail, TurnFails, TurnAnswers,
       TurnPauses, TurnCallsTools, ToolsDone, MayUseAnswer, Waits
  <2>2. UNCHANGED <<call, invoked>>
    BY <1>5 DEF AppendUserMessage, StartTurn, ExceedGuardrail, TurnFails, TurnAnswers,
       TurnPauses, TurnCallsTools, ToolsDone, Goto, Fail, Complete, Pause, Decide, histVars
  <2>3. \E label \in {"loop", "llm", "tools", "commit"} : pc' = [pc EXCEPT ![q] = label]
    BY <1>5 DEF AppendUserMessage, StartTurn, ExceedGuardrail, TurnFails, TurnAnswers,
       TurnPauses, TurnCallsTools, ToolsDone, Goto, Fail, Complete, Pause, Decide
  <2>4. QED
    BY <1>4, <2>1, <2>2, <2>3
<1>6. CASE BreakOnCancel(q) \/ EndRequest(q)
  BY <1>4, <1>6
    DEF BreakOnCancel, SeesCancel, EndRequest, Leave, Decide, Waits, histVars
<1>7. QED
  BY <1>2, <1>3, <1>5, <1>6 DEF Serve

LEMMA BatchFlush ==
  ASSUME BatchInv, NEW q \in Request, ResumeRun(q) \/ CommitOutcome(q)
  PROVE  BatchesFollow' /\ CallsInvokedOnce'
<1>1. /\ UNCHANGED <<call, invoked>> /\ Run(q) \in Request /\ Active(q)
      /\ \A p \in Request : pc'[p] = IF p # q THEN pc[p]
                                     ELSE IF pc[q] = "commit" THEN "ending" ELSE "loop"
      /\ \A r \in Request \ {Run(q)} : row'[r] = row[r]
      /\ ~Waits(q)' /\ pc[q] # "idle"
  BY FlushWrites DEF ResumeRun, CommitOutcome, BatchInv, PauseInv, TypeInv, TypeOK, Waits,
     Active, Executing, histVars
<1>2. \A p \in Request \ {q} : Waits(p)' <=> Waits(p)
  BY <1>1 DEF Waits, Resuming, Confirms
<1>3. CASE UNCHANGED pauses /\ row'[Run(q)].cols.status # "paused"
  BY <1>1, <1>2, <1>3, BatchQuiet
<1>4. CASE CommitOutcome(q) /\ outcome[q].status = "paused"
  <2>1. /\ pauses \in [Request -> Nat]
        /\ \A r \in Request : pauses'[r] = IF r = Run(q) THEN pauses[r] + 1 ELSE pauses[r]
        /\ ~Waits(q)
    BY <1>1, <1>4 DEF CommitOutcome, BatchInv, PauseInv, TypeInv, TypeOK, Waits
  <2>2. \A p \in Request : pc[p] # "idle" =>
          /\ Run(p) \in Request /\ Run(p)' = Run(p)
          /\ call[p].batch \in Nat
    BY <1>1 DEF BatchInv, PauseInv, TypeInv, TypeOK, Call, Run
  <2>3. \A p \in Request \ {q} : Waits(p) => Run(p) # Run(q) /\ pc[p] # "idle"
    BY <1>1 DEF BatchInv, ReachInv, Exclusive, Waits, Active, Executing
  <2>4. \A p \in Request : (invoked[p] > 0 => pc[p] # "idle") /\ Run(p)' = Run(p)
                           /\ (Resuming(p)' <=> Resuming(p))
    BY <1>1 DEF BatchInv, BatchesFollow, Run, Resuming, Confirms
  <2>5. \A p \in Request : pc[p] # "idle" => call'[p].batch <= pauses'[Run(p)']
    BY <1>1, <2>1, <2>2 DEF BatchInv, BatchesFollow
  <2>6. \A p \in Request : Waits(p)' =>
          /\ Waits(p) /\ p # q /\ pauses'[Run(p)'] = pauses[Run(p)]
    BY <1>1, <1>2, <2>1, <2>2, <2>3
  <2>7. ASSUME NEW p \in Request, invoked[p] > 0, ~Waits(p)'
        PROVE  row'[Run(p)].cols.status # "paused" \/ call[p].batch < pauses'[Run(p)]
    <3>1. ~Waits(p) /\ pc[p] # "idle" /\ Run(p) \in Request
      BY <1>2, <2>1, <2>2, <2>4, <2>7
    <3>2. CASE Run(p) = Run(q)
      BY <2>1, <2>2, <3>1, <3>2 DEF BatchInv, BatchesFollow
    <3>3. CASE Run(p) # Run(q)
      BY <1>1, <2>1, <2>7, <3>1, <3>3 DEF BatchInv, BatchesFollow
    <3>4. QED
      BY <3>2, <3>3
  <2>8. BatchesFollow'
    <3>1. \A p \in Request : pc'[p] # "idle" => pc[p] # "idle"
      BY <1>1
    <3>2. \A p \in Request : invoked'[p] > 0 => pc'[p] # "idle" /\ Resuming(p)'
      BY <1>1, <2>4 DEF BatchInv, BatchesFollow
    <3>3. \A p \in Request : Waits(p)' =>
            /\ call'[p].batch = pauses'[Run(p)']
            /\ \A o \in Request \ {p} :
                 (Run(o)' = Run(p)' /\ invoked'[o] > 0) => call'[o].batch < call'[p].batch
      BY <1>1, <2>4, <2>6 DEF BatchInv, BatchesFollow
    <3>4. \A p \in Request : (invoked'[p] > 0 /\ ~Waits(p)') =>
            row'[Run(p)'].cols.status # "paused" \/ call'[p].batch < pauses'[Run(p)']
      BY <1>1, <2>4, <2>7
    <3>5. QED
      BY <1>1, <2>5, <3>1, <3>2, <3>3, <3>4 DEF BatchesFollow
  <2>9. CallsInvokedOnce'
    BY <1>1, <2>4 DEF BatchInv, CallsInvokedOnce
  <2>10. QED
    BY <2>8, <2>9
<1>5. \/ UNCHANGED pauses /\ row'[Run(q)].cols.status # "paused"
      \/ CommitOutcome(q) /\ outcome[q].status = "paused"
  BY FlushWrites DEF ResumeRun, CommitOutcome, Written, Exists, histVars, BatchInv
<1>6. QED
  BY <1>3, <1>4, <1>5

LEMMA BatchPrepare ==
  ASSUME BatchInv, NEW q \in Request, PrepareFresh(q) \/ PrepareResume(q),
         "concurrent_resume" \notin env
  PROVE  BatchesFollow' /\ CallsInvokedOnce'
<1>1. /\ pc[q] = "idle" /\ \A p \in Request : pc'[p] = IF p = q THEN "prepared" ELSE pc[p]
      /\ \A p \in Request \ {q} : call'[p] = call[p]
      /\ UNCHANGED <<pauses, invoked>> /\ pauses \in [Request -> Nat]
      /\ \A p \in Request : invoked[p] \in Nat
      /\ invoked[q] = 0
  BY PrepareMoves DEF PrepareFresh, PrepareResume, BatchInv, PauseInv, TypeInv, TypeOK,
     Budget, histVars
<1>2. \A p \in Request \ {q} : (Waits(p)' <=> Waits(p)) /\ Run(p)' = Run(p)
                               /\ (Resuming(p)' <=> Resuming(p))
  BY <1>1 DEF Waits, Resuming, Confirms, Run
<1>3. CallsInvokedOnce'
  BY <1>1, <1>2 DEF BatchInv, CallsInvokedOnce, Run
<1>4. \A p \in Request \ {q} : pc[p] # "idle" => Run(p) \in Request \ {q}
  BY <1>1 DEF BatchInv, ReachInv, Received, PauseInv, TypeInv, TypeOK, Run
<1>5. \A p \in Request : invoked[p] > 0 => pc[p] # "idle" /\ p # q
  BY <1>1 DEF BatchInv, BatchesFollow
<1>6. CASE PrepareFresh(q)
  <2>1. /\ \A r \in Request \ {q} : row'[r] = row[r]
        /\ call'[q].batch = 0 /\ Run(q)' = q /\ ~Waits(q)'
    BY <1>6 DEF PrepareFresh, BatchInv, PauseInv, TypeInv, TypeOK, Run, Waits, Resuming
  <2>2. QED
    BY <1>1, <1>2, <1>3, <1>4, <1>5, <2>1 DEF BatchInv, BatchesFollow, Waits
<1>7. CASE PrepareResume(q)
  <2>1. PICK r \in Request, k \in Kind, yes \in BOOLEAN : PrepareResume(q)!(r, k, yes)
    BY <1>7 DEF PrepareResume
  <2>2. /\ UNCHANGED row /\ row[r].cols.status = "paused"
        /\ Run(q)' = r /\ call'[q].batch = pauses[r]
        /\ \A p \in Request : Active(p) => Run(p) # r
    BY <2>1 DEF Paused, BatchInv, PauseInv, TypeInv, TypeOK, Run
  <2>3. ASSUME NEW p \in Request \ {q}, Run(p) = r, invoked[p] > 0
        PROVE  call[p].batch < pauses[r]
    <3>1. ~Waits(p)
      BY <2>2, <2>3 DEF Waits, Active, Executing
    <3>2. QED
      BY <2>2, <2>3, <3>1 DEF BatchInv, BatchesFollow
  <2>4. BatchesFollow'
    BY <1>1, <1>2, <1>4, <1>5, <2>2, <2>3 DEF BatchInv, BatchesFollow, Waits
  <2>5. QED
    BY <1>3, <2>4
<1>8. QED
  BY <1>6, <1>7

LEMMA BatchLeaving ==
  ASSUME BatchInv, Orderly, NEW q \in Request, RejectKey(q) \/ Interrupt(q)
  PROVE  BatchesFollow' /\ CallsInvokedOnce'
<1>1. /\ UNCHANGED <<call, row, pauses, invoked>>
      /\ \A p \in Request : pc'[p] = IF p = q THEN "done" ELSE pc[p]
      /\ pc[q] # "idle"
      /\ Waits(q) => ~Exists(Run(q))
  BY DEF RejectKey, Interrupt, InterruptGuarded, InterruptUnguarded, Guarded, Unguarded,
     Leave, rowVars, histVars, Orderly, Waits, Resuming, BatchInv, PauseInv, TypeInv, TypeOK
<1>2. QED
  BY <1>1, BatchQuiet DEF Waits, Resuming, Confirms, Exists

LEMMA BatchOther ==
  ASSUME BatchInv,
         \/ \E q \in Request : RunOrphan(q) \/ CancelTask(q) \/ Age(q)
         \/ DeleteSignal \/ DeleteAgent \/ EditAgent \/ SecondWorkerBoots
         \/ UNCHANGED vars
  PROVE  BatchesFollow' /\ CallsInvokedOnce'
<1>1. UNCHANGED <<call, pc, pauses, invoked>>
  BY DEF RunOrphan, CancelTask, Age, DeleteSignal, DeleteAgent, EditAgent,
     SecondWorkerBoots, vars, runVars, rowVars, memVars, reqVars, histVars
<1>2. \A r \in Request : row'[r].cols.status = "paused" => row[r].cols.status = "paused"
  <2>1. CASE \E q \in Request : RunOrphan(q)
    BY <2>1, OrphanWrites DEF BatchInv
  <2>2. CASE DeleteAgent
    BY <2>2 DEF DeleteAgent, BatchInv, PauseInv, TypeInv, TypeOK, Row, NoCols
  <2>3. CASE SecondWorkerBoots
    BY <2>3, ReapWrites DEF SecondWorkerBoots, BatchInv, PauseInv
  <2>4. CASE \/ \E q \in Request : CancelTask(q) \/ Age(q)
             \/ DeleteSignal \/ EditAgent \/ UNCHANGED vars
    BY <2>4 DEF CancelTask, Age, DeleteSignal, EditAgent, vars, runVars, rowVars
  <2>5. QED
    BY <2>1, <2>2, <2>3, <2>4
<1>3. QED
  BY <1>1, <1>2, BatchQuiet DEF Waits, Resuming, Confirms

(* With one answer at a time, no client leaving before the executor's try  *)
(* and no crash between invoking and recording, the calls the user         *)
(* approved once are invoked by one request, over any number of pauses,    *)
(* disconnects, cancels, edits, deletions and second workers.              *)
THEOREM BatchesInvokedOnce == Spec => []BatchInvokedOnce
<1>1. Init => BatchInv
  BY PauseInit, ReachInit DEF Init, BatchInv, BatchesFollow, CallsInvokedOnce, Waits
<1>2. ASSUME BatchInv, [Next]_vars, Orderly
      PROVE  BatchInv'
  <2>1. PauseInv' /\ ReachInv' /\ ~Restart
    BY <1>2, PauseNext, ReachNext DEF BatchInv, Orderly, Restart
  <2>2. QED
    BY <1>2, <2>1, BatchServe, BatchFlush, BatchPrepare, BatchLeaving, BatchOther
      DEF Next, BatchInv, Orderly
<1> DEFINE OrderlyInv == Orderly => BatchInv
<1>3. OrderlyInv /\ [Next]_vars => OrderlyInv'
  BY <1>2, EnvironmentFixed DEF Orderly
<1>4. OrderlyInv => BatchInvokedOnce
  BY DEF BatchInv, Orderly, BatchInvokedOnce
<1>5. Init => OrderlyInv
  BY <1>1
<1> HIDE DEF OrderlyInv
<1>6. QED
  BY <1>3, <1>4, <1>5, PTL DEF Spec

----------------------------------------------------------------------------
(* The rows follow the task protocol. *)

(* Without edits every run has the agent's mode, and only a Simple run is  *)
(* paused: so a resume waits, without a try, as long as the row is paused, *)
(* and a detached finalize is only owed to a run that is running.          *)
Steady == env \cap {"edit", "concurrent_resume", "second_worker"} = {}

Owes(q) == orphan[q].status # "absent"

Settled ==
  /\ \A q \in Request : pc[q] # "idle" => call[q].mode = agent.mode
  /\ \A r \in Request : row[r].cols.status = "paused" => agent.mode = "simple"
  /\ \A r \in Request : Exists(r) => Run(r) = r
  /\ \A q \in Request : (pc[q] = "commit" /\ outcome[q].status = "paused") => Confirms(q)
  /\ \A q \in Request : Waits(q) => row[Run(q)].cols.status \in {"paused", "absent"}
  /\ \A q \in Request : ((Writing(q) /\ ~Waits(q)) \/ Owes(q)) =>
       row[Run(q)].cols.status \in {"running", "absent"}
  /\ \A q \in Request : Owes(q) => pc[q] # "idle" /\ ~Writing(q)
  /\ \A q, p \in Request :
       (Owes(q) /\ (Writing(p) \/ Owes(p)) /\ Run(q) = Run(p)) => p = q

ProtoInv == PauseInv /\ ReachInv /\ Settled

(* Nobody else works on the run of a request that writes. *)
LEMMA WritesAlone ==
  ASSUME ProtoInv, NEW q \in Request, Writing(q) \/ Owes(q)
  PROVE  /\ Run(q) \in Request
         /\ \A p \in Request \ {q} : (Writing(p) \/ Owes(p)) => Run(p) # Run(q)
<1>1. Run(q) \in Request
  BY DEF ProtoInv, Settled, PauseInv, TypeInv, TypeOK, Writing, Run
<1>2. \A p, o \in Request : (Writing(p) /\ Writing(o) /\ Run(p) = Run(o)) => p = o
  BY DEF ProtoInv, ReachInv, Exclusive, Active, Executing, Writing
<1>3. QED
  BY <1>1, <1>2 DEF ProtoInv, Settled

(* A step that writes no row and decides no pause: a handler may stop      *)
(* writing, and one that does not wait may leave a finalize behind.        *)
LEMMA SettledQuiet ==
  ASSUME ProtoInv, UNCHANGED <<row, call, agent>>,
         \A p \in Request :
           /\ pc'[p] = "idle" <=> pc[p] = "idle"
           /\ Writing(p)' => Writing(p) /\ (Waits(p)' <=> Waits(p))
           /\ Waits(p)' => Waits(p)
           /\ Owes(p)' => ~Writing(p)' /\ (Owes(p) \/ (Writing(p) /\ ~Waits(p)))
           /\ (pc'[p] = "commit" /\ outcome'[p].status = "paused") => Confirms(p)
  PROVE  Settled'
<1>1. \A p \in Request : Run(p)' = Run(p) /\ (Confirms(p)' <=> Confirms(p))
  BY DEF Run, Confirms
<1>2. \A r \in Request : Exists(r)' <=> Exists(r)
  BY DEF Exists
<1>3. \A q, p \in Request :
        (Owes(q)' /\ (Writing(p)' \/ Owes(p)') /\ Run(q) = Run(p)) => p = q
  BY WritesAlone
<1>4. /\ \A q \in Request : pc'[q] # "idle" => call'[q].mode = agent'.mode
      /\ \A r \in Request : row'[r].cols.status = "paused" => agent'.mode = "simple"
      /\ \A r \in Request : Exists(r)' => Run(r)' = r
      /\ \A q \in Request :
           (pc'[q] = "commit" /\ outcome'[q].status = "paused") => Confirms(q)'
  BY <1>1, <1>2 DEF ProtoInv, Settled
<1>5. /\ \A q \in Request : Waits(q)' => row'[Run(q)'].cols.status \in {"paused", "absent"}
      /\ \A q \in Request : ((Writing(q)' /\ ~Waits(q)') \/ Owes(q)') =>
           row'[Run(q)'].cols.status \in {"running", "absent"}
      /\ \A q \in Request : Owes(q)' => pc'[q] # "idle" /\ ~Writing(q)'
  BY <1>1 DEF ProtoInv, Settled, Writing
<1>6. QED
  BY <1>1, <1>3, <1>4, <1>5 DEF Settled

LEMMA SettledServe ==
  ASSUME ProtoInv, NEW q \in Request, Serve(q), ~ResumeRun(q), ~CommitOutcome(q)
  PROVE  Settled'
<1>1. UNCHANGED <<row, agent>>
  BY ServeKeepsRows DEF rowVars
<1>2. /\ pc \in [Request -> PC] /\ outcome \in [Request -> Columns]
      /\ orphan \in [Request -> Columns] /\ mem[q] \in Columns
  BY DEF ProtoInv, PauseInv, TypeInv, TypeOK
<1>3. CASE RegisterRun(q) \/ BeginExecutor(q) \/ ResumeCall(q)
  BY <1>1, <1>2, <1>3, SettledQuiet
    DEF RegisterRun, BeginExecutor, ResumeCall, Writing, Waits, Resuming, Confirms, Owes,
        ProtoInv, Settled
<1>4. ASSUME NEW label \in {"loop", "llm", "tools"}, Writing(q), ~Waits(q), Goto(q, label)
      PROVE  Settled'
  BY <1>1, <1>2, <1>4, SettledQuiet
    DEF Goto, Writing, Waits, Resuming, Confirms, Owes, ProtoInv, Settled
<1>5. ASSUME NEW c, Writing(q), ~Waits(q), Decide(q, c), c.status = "paused" => Confirms(q)
      PROVE  Settled'
  BY <1>1, <1>2, <1>5, SettledQuiet
    DEF Decide, Writing, Waits, Resuming, Confirms, Owes, ProtoInv, Settled
<1>6. ASSUME Writing(q), ~Waits(q), Fail(q) \/ Complete(q) \/ (Pause(q) /\ Confirms(q))
      PROVE  Settled'
  <2>1. /\ Finalized(mem[q], "failed", "error", FALSE).status = "failed"
        /\ Finalized(mem[q], "completed", "none", TRUE).status = "completed"
    BY <1>2 DEF Finalized, Columns
  <2>2. QED
    BY <1>5, <1>6, <2>1 DEF Fail, Complete, Pause
<1>7. CASE \/ AppendUserMessage(q) \/ StartTurn(q) \/ ExceedGuardrail(q) \/ TurnFails(q)
           \/ TurnAnswers(q) \/ TurnPauses(q) \/ TurnCallsTools(q) \/ ToolsDone(q)
  BY <1>4, <1>6, <1>7
    DEF AppendUserMessage, StartTurn, ExceedGuardrail, TurnFails, TurnAnswers, TurnPauses,
        TurnCallsTools, ToolsDone, MayUseAnswer, Writing, Waits
<1>8. CASE BreakOnCancel(q)
  <2>1. Writing(q) /\ ~Waits(q)
    BY <1>8 DEF BreakOnCancel, SeesCancel, Writing, Waits
  <2>2. CASE ~Confirms(q)
    <3>1. Finalized(mem[q], "cancelled", "cancelled", FALSE).status = "cancelled"
      BY <1>2 DEF Finalized, Columns
    <3>2. QED
      BY <1>5, <1>8, <2>1, <2>2, <3>1 DEF BreakOnCancel
  <2>3. CASE Confirms(q)
    <3>1. /\ UNCHANGED <<call, outcome>>
          /\ \A p \in Request : pc'[p] = IF p = q THEN "ending" ELSE pc[p]
          /\ \A p \in Request \ {q} : orphan'[p] = orphan[p]
      BY <1>2, <1>8, <2>3 DEF BreakOnCancel
    <3>2. QED
      BY <1>1, <2>1, <3>1, SettledQuiet
        DEF Writing, Waits, Resuming, Confirms, Owes, ProtoInv, Settled
  <2>4. QED
    BY <2>2, <2>3
<1>9. CASE EndRequest(q)
  BY <1>1, <1>2, <1>9, SettledQuiet
    DEF EndRequest, Leave, Writing, Waits, Resuming, Confirms, Owes, ProtoInv, Settled
<1>10. QED
  BY <1>3, <1>7, <1>8, <1>9 DEF Serve

LEMMA SettledFlush ==
  ASSUME ProtoInv, NEW q \in Request, ResumeRun(q) \/ CommitOutcome(q)
  PROVE  Settled'
<1>1. /\ UNCHANGED <<call, orphan>> /\ agent' = agent
      /\ \A p \in Request : pc'[p] = IF p # q THEN pc[p]
                                     ELSE IF pc[q] = "commit" THEN "ending" ELSE "loop"
      /\ \A p \in Request \ {q} : outcome'[p] = outcome[p]
      /\ Writing(q) /\ pc[q] # "idle"
  BY FlushWrites DEF ResumeRun, CommitOutcome, ProtoInv, PauseInv, TypeInv, TypeOK, Writing
<1>2. /\ Run(q) \in Request
      /\ \A p \in Request \ {q} : (Writing(p) \/ Owes(p)) => Run(p) # Run(q)
      /\ ~Owes(q)
  BY <1>1, WritesAlone DEF ProtoInv, Settled
<1>3. \A p \in Request : /\ Run(p)' = Run(p) /\ (Confirms(p)' <=> Confirms(p))
                         /\ Owes(p)' <=> Owes(p)
  BY <1>1 DEF Run, Confirms, Owes
<1>4. \A p \in Request \ {q} : /\ Writing(p)' <=> Writing(p)
                               /\ Waits(p)' <=> Waits(p)
  BY <1>1 DEF Writing, Waits, Resuming, Confirms
<1>5. /\ ~Waits(q)' /\ (Writing(q)' <=> pc[q] # "commit")
  BY <1>1, FlushWrites DEF Writing, Waits, ResumeRun, CommitOutcome
<1>6. /\ \A r \in Request \ {Run(q)} : row'[r] = row[r]
      /\ row'[Run(q)].cols.status \in {Written(q).status, "absent"}
      /\ ~Exists(Run(q)) => row' = row
      /\ Written(q).status = "running" <=> pc[q] # "commit"
  BY FlushWrites DEF ProtoInv, Exists
<1>7. row'[Run(q)].cols.status = "paused" => Confirms(q)
  BY <1>6 DEF Written, ProtoInv, Settled
<1>8. \A r \in Request : row'[r].cols.status = "paused" => agent'.mode = "simple"
  BY <1>1, <1>6, <1>7 DEF ProtoInv, Settled, Confirms
<1>9. \A r \in Request : Exists(r)' => Run(r)' = r
  BY <1>3, <1>6 DEF ProtoInv, Settled, Exists
<1>10. /\ \A p \in Request : Waits(p)' => row'[Run(p)'].cols.status \in {"paused", "absent"}
       /\ \A p \in Request : ((Writing(p)' /\ ~Waits(p)') \/ Owes(p)') =>
            row'[Run(p)'].cols.status \in {"running", "absent"}
  <2>1. ASSUME NEW p \in Request \ {q}, Writing(p) \/ Owes(p)
        PROVE  row'[Run(p)] = row[Run(p)]
    BY <1>2, <1>6, <2>1, WritesAlone
  <2>2. \A p \in Request : Waits(p) => Writing(p)
    BY DEF Waits, Writing
  <2>3. QED
    BY <1>2, <1>3, <1>4, <1>5, <1>6, <2>1, <2>2 DEF ProtoInv, Settled
<1>11. /\ \A p \in Request : pc'[p] # "idle" => call'[p].mode = agent'.mode
       /\ \A p \in Request : (pc'[p] = "commit" /\ outcome'[p].status = "paused")
            => Confirms(p)'
       /\ \A p \in Request : Owes(p)' => pc'[p] # "idle" /\ ~Writing(p)'
  BY <1>1, <1>2, <1>3, <1>4 DEF ProtoInv, Settled
<1>12. \A p, o \in Request :
         (Owes(p)' /\ (Writing(o)' \/ Owes(o)') /\ Run(p)' = Run(o)') => o = p
  BY <1>1, <1>2, <1>3, <1>4 DEF ProtoInv, Settled
<1>13. QED
  BY <1>8, <1>9, <1>10, <1>11, <1>12 DEF Settled

LEMMA SettledPrepare ==
  ASSUME ProtoInv, NEW q \in Request, PrepareFresh(q) \/ PrepareResume(q)
  PROVE  Settled'
<1>1. /\ pc[q] = "idle" /\ \A p \in Request : pc'[p] = IF p = q THEN "prepared" ELSE pc[p]
      /\ \A p \in Request \ {q} : call'[p] = call[p]
      /\ agent' = agent /\ UNCHANGED <<outcome, orphan>>
      /\ call'[q].mode = agent.mode
      /\ ~Owes(q)
  BY PrepareMoves DEF PrepareFresh, PrepareResume, ProtoInv, PauseInv, TypeInv, TypeOK,
     Settled
<1>2. \A p \in Request \ {q} : /\ Run(p)' = Run(p) /\ (Confirms(p)' <=> Confirms(p))
                               /\ Writing(p)' <=> Writing(p)
                               /\ Waits(p)' <=> Waits(p)
  BY <1>1 DEF Waits, Resuming, Confirms, Run, Writing
<1>3. \A p \in Request : Owes(p)' <=> Owes(p)
  BY <1>1 DEF Owes
<1>4. \A p \in Request \ {q} :
        (Writing(p) \/ Owes(p)) => Run(p) \in Request \ {q}
  BY <1>1 DEF ProtoInv, ReachInv, Received, Settled, PauseInv, TypeInv, TypeOK, Writing, Run
<1>5. \A p \in Request : Waits(p) => Writing(p)
  BY DEF Waits, Writing
<1>6. \A p \in Request : pc'[p] # "idle" => call'[p].mode = agent'.mode
  BY <1>1 DEF ProtoInv, Settled
<1>7. /\ \A p \in Request :
           (pc'[p] = "commit" /\ outcome'[p].status = "paused") => Confirms(p)'
      /\ \A p \in Request : Owes(p)' => pc'[p] # "idle" /\ ~Writing(p)'
  BY <1>1, <1>2, <1>3 DEF ProtoInv, Settled
<1>8. CASE PrepareFresh(q)
  <2>1. /\ \A r \in Request \ {q} : row'[r] = row[r]
        /\ row'[q].cols.status = "running" /\ Run(q)' = q /\ ~Waits(q)'
    BY <1>8 DEF PrepareFresh, ProtoInv, PauseInv, TypeInv, TypeOK, Run, Waits, Resuming,
       NewCols, NoCols
  <2>2. /\ \A r \in Request : row'[r].cols.status = "paused" => agent'.mode = "simple"
        /\ \A r \in Request : Exists(r)' => Run(r)' = r
    BY <1>1, <1>2, <2>1 DEF ProtoInv, Settled, Exists
  <2>3. /\ \A p \in Request : Waits(p)' => row'[Run(p)'].cols.status \in {"paused", "absent"}
        /\ \A p \in Request : ((Writing(p)' /\ ~Waits(p)') \/ Owes(p)') =>
             row'[Run(p)'].cols.status \in {"running", "absent"}
    BY <1>1, <1>2, <1>3, <1>4, <1>5, <2>1 DEF ProtoInv, Settled
  <2>4. \A p, o \in Request :
          (Owes(p)' /\ (Writing(o)' \/ Owes(o)') /\ Run(p)' = Run(o)') => o = p
    BY <1>1, <1>2, <1>3, <1>4, <2>1 DEF ProtoInv, Settled
  <2>5. QED
    BY <1>6, <1>7, <2>2, <2>3, <2>4 DEF Settled
<1>9. CASE PrepareResume(q)
  <2>1. PICK r \in Request, k \in Kind, yes \in BOOLEAN : PrepareResume(q)!(r, k, yes)
    BY <1>9 DEF PrepareResume
  <2>2. /\ UNCHANGED row /\ row[r].cols.status = "paused" /\ Run(q)' = r
        /\ agent.mode = "simple" /\ Waits(q)'
    BY <1>1, <2>1 DEF Paused, ProtoInv, Settled, PauseInv, TypeInv, TypeOK, Run, Waits,
       Resuming, Confirms
  <2>3. ~Exists(q)
    BY <1>1 DEF ProtoInv, ReachInv, Received
  <2>4. /\ \A o \in Request : row'[o].cols.status = "paused" => agent'.mode = "simple"
        /\ \A o \in Request : Exists(o)' => Run(o)' = o
    BY <1>1, <1>2, <2>2, <2>3 DEF ProtoInv, Settled, Exists
  <2>5. /\ \A p \in Request : Waits(p)' => row'[Run(p)'].cols.status \in {"paused", "absent"}
        /\ \A p \in Request : ((Writing(p)' /\ ~Waits(p)') \/ Owes(p)') =>
             row'[Run(p)'].cols.status \in {"running", "absent"}
    BY <1>1, <1>2, <1>3, <2>2 DEF ProtoInv, Settled
  <2>6. \A p \in Request : Owes(p) => Run(p) # r
    BY <2>2 DEF ProtoInv, Settled
  <2>7. \A p, o \in Request :
          (Owes(p)' /\ (Writing(o)' \/ Owes(o)') /\ Run(p)' = Run(o)') => o = p
    BY <1>1, <1>2, <1>3, <2>2, <2>6 DEF ProtoInv, Settled
  <2>8. QED
    BY <1>6, <1>7, <2>4, <2>5, <2>7 DEF Settled
<1>10. QED
  BY <1>8, <1>9

LEMMA SettledLeaving ==
  ASSUME ProtoInv, NEW q \in Request, RejectKey(q) \/ Interrupt(q)
  PROVE  Settled'
<1>1. /\ UNCHANGED <<call, row, agent>>
      /\ \A p \in Request : pc'[p] = IF p = q THEN "done" ELSE pc[p]
      /\ \A p \in Request \ {q} : outcome'[p] = outcome[p] /\ orphan'[p] = orphan[p]
      /\ pc[q] # "idle" /\ Writing(q)
      /\ orphan'[q] = orphan[q] \/ ~Waits(q)
  BY DEF RejectKey, Interrupt, InterruptGuarded, InterruptUnguarded, Guarded, Unguarded,
     Leave, rowVars, Writing, Waits, Resuming, ProtoInv, PauseInv, TypeInv, TypeOK
<1>2. QED
  BY <1>1, SettledQuiet DEF Writing, Waits, Resuming, Confirms, Owes, ProtoInv, Settled

LEMMA SettledOther ==
  ASSUME ProtoInv, Steady,
         \/ \E q \in Request : RunOrphan(q) \/ CancelTask(q) \/ Age(q)
         \/ DeleteSignal \/ DeleteAgent \/ EditAgent \/ Restart \/ SecondWorkerBoots
         \/ UNCHANGED vars
  PROVE  Settled'
<1>1. ~EditAgent /\ ~SecondWorkerBoots
  BY DEF Steady, EditAgent, SecondWorkerBoots
<1>2. ASSUME UNCHANGED <<call, pc, outcome>>, agent'.mode = agent.mode,
             \A p \in Request : Owes(p)' => Owes(p),
             \A r \in Request :
               \/ row'[r].cols.status = row[r].cols.status
               \/ row'[r].cols.status = "absent"
               \/ /\ row'[r].cols.status \in Terminal /\ Exists(r)
                  /\ \A p \in Request : (Writing(p) \/ Owes(p)') => Run(p) # r
      PROVE  Settled'
  <2>1. \A p \in Request : /\ Run(p)' = Run(p) /\ (Confirms(p)' <=> Confirms(p))
                           /\ (Writing(p)' <=> Writing(p)) /\ (Waits(p)' <=> Waits(p))
    BY <1>2 DEF Run, Confirms, Writing, Waits, Resuming
  <2>2. \A p \in Request : (Writing(p) \/ Owes(p)') => Run(p) \in Request
    BY <1>2, WritesAlone
  <2>3. /\ \A r \in Request : row'[r].cols.status = "paused" => agent'.mode = "simple"
        /\ \A r \in Request : Exists(r)' => Run(r)' = r
    BY <1>2, <2>1 DEF ProtoInv, Settled, Exists, Terminal
  <2>4. /\ \A p \in Request : Waits(p)' => row'[Run(p)'].cols.status \in {"paused", "absent"}
        /\ \A p \in Request : ((Writing(p)' /\ ~Waits(p)') \/ Owes(p)') =>
             row'[Run(p)'].cols.status \in {"running", "absent"}
    <3>1. \A p \in Request : Waits(p) => Writing(p)
      BY DEF Waits, Writing
    <3>2. QED
      BY <1>2, <2>1, <2>2, <3>1 DEF ProtoInv, Settled
  <2>5. /\ \A p \in Request : pc'[p] # "idle" => call'[p].mode = agent'.mode
        /\ \A p \in Request : (pc'[p] = "commit" /\ outcome'[p].status = "paused")
             => Confirms(p)'
        /\ \A p \in Request : Owes(p)' => pc'[p] # "idle" /\ ~Writing(p)'
        /\ \A p, o \in Request :
             (Owes(p)' /\ (Writing(o)' \/ Owes(o)') /\ Run(p)' = Run(o)') => o = p
    BY <1>2, <2>1 DEF ProtoInv, Settled
  <2>6. QED
    BY <2>3, <2>4, <2>5 DEF Settled
<1>3. CASE \/ \E q \in Request : CancelTask(q) \/ Age(q)
           \/ DeleteSignal \/ UNCHANGED vars
  <2>1. /\ UNCHANGED <<call, pc, outcome, orphan, row>> /\ agent'.mode = agent.mode
    BY <1>3 DEF CancelTask, Age, DeleteSignal, vars, runVars, rowVars, reqVars, ProtoInv,
       PauseInv, TypeInv, TypeOK
  <2>2. QED
    BY <1>2, <2>1 DEF Owes
<1>4. ASSUME NEW q \in Request, RunOrphan(q)
      PROVE  Settled'
  <2>1. UNCHANGED <<call, pc, outcome>> /\ agent'.mode = agent.mode /\ Owes(q)
    BY <1>4 DEF RunOrphan, Owes
  <2>2. \A p \in Request : Owes(p)' <=> (Owes(p) /\ p # q)
    BY <1>4, OrphanWrites DEF Owes, NoCols, ProtoInv
  <2>3. \A p \in Request : (Writing(p) \/ Owes(p)') => Run(p) # Run(q)
    BY <2>1, <2>2, WritesAlone DEF ProtoInv, Settled
  <2>4. QED
    BY <1>2, <1>4, <2>1, <2>2, <2>3, OrphanWrites DEF ProtoInv, Terminal
<1>5. CASE DeleteAgent
  <2>1. /\ UNCHANGED <<call, pc, outcome, orphan>> /\ agent'.mode = agent.mode
        /\ \A r \in Request : row'[r].cols.status = "absent"
    BY <1>5 DEF DeleteAgent, reqVars, ProtoInv, PauseInv, TypeInv, TypeOK, Row, NoCols
  <2>2. QED
    BY <1>2, <2>1 DEF Owes
<1>6. CASE Restart
  <2>1. /\ UNCHANGED <<call, agent>>
        /\ \A p \in Request : /\ ~Writing(p)' /\ ~Waits(p)' /\ ~Owes(p)'
                              /\ pc'[p] # "commit"
                              /\ pc'[p] = "idle" => pc[p] = "idle"
                              /\ pc'[p] # "idle" => pc[p] # "idle"
    BY <1>6 DEF Restart, Writing, Waits, Owes, NoCols, Active, Executing
  <2>2. \A r \in Request : \/ row'[r] = row[r]
                           \/ Exists(r) /\ row'[r].cols.status = "failed"
    BY <1>6, ReapWrites DEF Restart, ProtoInv, PauseInv, Exists
  <2>3. QED
    BY <2>1, <2>2 DEF ProtoInv, Settled, Exists, Run
<1>7. QED
  BY <1>1, <1>3, <1>4, <1>5, <1>6

LEMMA ProtoNext ==
  ASSUME ProtoInv, Steady, [Next]_vars
  PROVE  ProtoInv'
<1>1. PauseInv' /\ ReachInv'
  BY PauseNext, ReachNext DEF ProtoInv, Steady
<1>2. QED
  BY <1>1, SettledServe, SettledFlush, SettledPrepare, SettledLeaving, SettledOther
    DEF Next, ProtoInv

(* What one step may do to the status of a row. *)
LEMMA RowSteps ==
  ASSUME ProtoInv, Steady, [Next]_vars, NEW r \in Request
  PROVE  \/ /\ row'[r].cols.status = row[r].cols.status
            /\ (Run(r)' = r) <=> (Run(r) = r)
         \/ ~Exists(r) /\ Run(r) # r /\ row'[r].cols.status = "running"
         \/ row[r].cols.status \in {"running", "paused"} /\ Exists(r)' 
         \/ row'[r].cols.status = "absent" /\ Exists(r) /\ Run(r)' = r
<1>1. ASSUME UNCHANGED <<call, row>>
      PROVE  /\ row'[r].cols.status = row[r].cols.status
             /\ (Run(r)' = r) <=> (Run(r) = r)
  BY <1>1 DEF Run
<1>2. ASSUME NEW q \in Request, Serve(q)
      PROVE  UNCHANGED call
  BY <1>2, ServeMoves DEF RegisterRun, EndRequest, ProtoInv, PauseInv
<1>3. ASSUME NEW q \in Request, Serve(q), ~ResumeRun(q), ~CommitOutcome(q)
      PROVE  UNCHANGED <<call, row>>
  BY <1>2, <1>3, ServeKeepsRows DEF rowVars
<1>4. ASSUME NEW q \in Request, ResumeRun(q) \/ CommitOutcome(q)
      PROVE  \/ row'[r] = row[r] /\ UNCHANGED call
             \/ row[r].cols.status \in {"running", "paused"} /\ Exists(r)'
  <2>1. UNCHANGED call
    BY <1>4 DEF ResumeRun, CommitOutcome
  <2>2. row[Run(q)].cols.status \in {"running", "paused", "absent"}
    BY <1>4, FlushWrites DEF ProtoInv, Settled
  <2>3. QED
    BY <1>4, <2>1, <2>2, FlushWrites DEF ProtoInv, Exists, Terminal
<1>5. ASSUME NEW q \in Request, PrepareFresh(q)
      PROVE  IF r = q THEN ~Exists(r) /\ Run(r) # r /\ row'[r].cols.status = "running"
             ELSE row'[r] = row[r] /\ call'[r] = call[r]
  BY <1>5 DEF PrepareFresh, ProtoInv, PauseInv, TypeInv, TypeOK, ReachInv, Received, NewCols,
     NoCols
<1>6. ASSUME NEW q \in Request, PrepareResume(q)
      PROVE  /\ row'[r] = row[r]
             /\ (Run(r)' = r) <=> (Run(r) = r)
  <2>1. PICK o \in Request, k \in Kind, yes \in BOOLEAN : PrepareResume(q)!(o, k, yes)
    BY <1>6 DEF PrepareResume
  <2>2. /\ UNCHANGED row /\ pc[q] = "idle" /\ Exists(o) /\ Run(q)' = o
        /\ \A p \in Request \ {q} : call'[p] = call[p]
    BY <2>1 DEF Paused, Rows, ProtoInv, PauseInv, TypeInv, TypeOK, Run
  <2>3. o # q /\ Run(q) # q
    BY <2>2 DEF ProtoInv, ReachInv, Received
  <2>4. QED
    BY <2>2, <2>3 DEF Run
<1>7. ASSUME NEW q \in Request, RejectKey(q) \/ Interrupt(q)
      PROVE  UNCHANGED <<call, row>>
  BY <1>7 DEF RejectKey, Interrupt, InterruptGuarded, InterruptUnguarded, rowVars
<1>8. ASSUME NEW q \in Request, RunOrphan(q)
      PROVE  \/ row'[r] = row[r] /\ UNCHANGED call
             \/ row[r].cols.status \in {"running", "paused"} /\ Exists(r)'
  <2>1. UNCHANGED call /\ Owes(q)
    BY <1>8 DEF RunOrphan, Owes
  <2>2. row[Run(q)].cols.status \in {"running", "absent"}
    BY <2>1 DEF ProtoInv, Settled
  <2>3. QED
    BY <1>8, <2>1, <2>2, OrphanWrites DEF ProtoInv, Exists
<1>9. ASSUME \/ \E q \in Request : CancelTask(q) \/ Age(q)
             \/ DeleteSignal \/ EditAgent \/ UNCHANGED vars
      PROVE  UNCHANGED <<call, row>>
  BY <1>9 DEF CancelTask, Age, DeleteSignal, EditAgent, vars, runVars, rowVars, reqVars
<1>10. CASE DeleteAgent
  <2>1. row'[r].cols.status = "absent" /\ Run(r)' = Run(r)
    BY <1>10 DEF DeleteAgent, reqVars, Run, ProtoInv, PauseInv, TypeInv, TypeOK, Row, NoCols
  <2>2. QED
    BY <2>1 DEF ProtoInv, Settled, Exists
<1>11. CASE Restart \/ SecondWorkerBoots
  <2>1. Run(r)' = Run(r)
    BY <1>11 DEF Restart, SecondWorkerBoots, reqVars, Run
  <2>2. QED
    BY <1>11, <2>1, ReapWrites DEF Restart, SecondWorkerBoots, ProtoInv, PauseInv, Exists
<1>12. QED
  BY <1>1, <1>3, <1>4, <1>5, <1>6, <1>7, <1>8, <1>9, <1>10, <1>11 DEF Next, Run

(* Every step of the system is a step of the client's view of the tasks.   *)
LEMMA ProtocolStep ==
  ASSUME ProtoInv, Steady, [Next]_vars
  PROVE  Protocol!TaskNext
<1>1. ASSUME NEW r \in Request
      PROVE  TaskState(r)' \in Protocol!Successors(TaskState(r))
  <2>1. "second_worker" \notin env /\ "second_worker" \notin env'
    BY EnvironmentFixed DEF Steady
  <2>2. row[r].cols.status \in Status /\ row'[r].cols.status \in Status
    <3>1. TypeInv /\ TypeInv'
      BY ProtoNext DEF ProtoInv, PauseInv
    <3>2. QED
      BY <3>1 DEF TypeInv, TypeOK, Row, Columns
  <2>3. Exists(r) => Run(r) = r
    BY DEF ProtoInv, Settled
  <2>4. QED
    BY <2>1, <2>2, <2>3, RowSteps
      DEF TaskState, Status, Exists, Protocol!Successors, Protocol!Open, Protocol!Final
<1>2. QED
  BY <1>1 DEF Protocol!TaskNext

(* In an environment without edits, overlapping answers and second workers *)
(* the rows follow the protocol clients rely on: a final state is never    *)
(* left, whatever disconnects, exceptions, cancels, deletions and restarts *)
(* happen, and whenever the detached finalizes run.                        *)
THEOREM RunsFollowProtocol == Spec /\ Steady => FollowsTaskProtocol
<1>1. Init => ProtoInv
  BY PauseInit, ReachInit
    DEF Init, ProtoInv, Settled, NoCols, Exists, Owes, Writing, Waits
<1>2. Init /\ Steady => Protocol!TaskInit
  BY DEF Init, Steady, TaskState, Protocol!TaskInit, NoCols, Run
<1>3. Steady /\ [Next]_vars => Steady'
  BY EnvironmentFixed DEF Steady
<1>4. ProtoInv /\ Steady /\ [Next]_vars => ProtoInv'
  BY ProtoNext
<1>5. ProtoInv /\ Steady /\ [Next]_vars
        => [Protocol!TaskNext]_([r \in Request |-> TaskState(r)])
  BY ProtocolStep
<1>6. QED
  BY <1>1, <1>2, <1>3, <1>4, <1>5, PTL DEF Spec, FollowsTaskProtocol, Protocol!TaskSpec

----------------------------------------------------------------------------
(* What a client was told is what the row says. *)

(* RepliesTellTruth of one request. *)
Claim(q) ==
  LET status == row[Run(q)].cols.status IN
    /\ reply[q] = "completed" => status \in {"completed", "absent"}
    /\ reply[q] = "canceled"  => \/ status \in {"cancelled", "absent"}
                                 \/ orphan[q].status = "cancelled"
    /\ (reply[q] = "failed" /\ call[q].kind = "stream") =>
         status \in {"failed", "absent"}

Claims(q) == pc[q] = "done" \/ (pc[q] = "ending" /\ call[q].kind = "stream")

(* A handler that is over, or at its last step, got there by one of these. *)
LEMMA ReplyFrame ==
  ASSUME TypeInv, [Next]_vars, ~Restart, NEW p \in Request, pc'[p] \in {"ending", "done"}
  PROVE  \/ /\ pc'[p] = pc[p] /\ reply'[p] = reply[p]
            /\ call'[p] = call[p] /\ orphan'[p] = orphan[p]
         \/ CommitOutcome(p) \/ BreakOnCancel(p) \/ EndRequest(p)
         \/ RejectKey(p) \/ Interrupt(p) \/ RunOrphan(p)
<1> DEFINE Same == /\ pc'[p] = pc[p] /\ reply'[p] = reply[p]
                   /\ call'[p] = call[p] /\ orphan'[p] = orphan[p]
<1>1. UNCHANGED <<pc, reply, call, orphan>> => Same
  OBVIOUS
<1>2. ASSUME NEW q \in Request, CommitOutcome(q) \/ BreakOnCancel(q), q # p
      PROVE  Same
  BY <1>2 DEF CommitOutcome, BreakOnCancel, Decide, TypeInv, TypeOK
<1>3. ASSUME NEW q \in Request, EndRequest(q) \/ RejectKey(q) \/ Interrupt(q), q # p
      PROVE  Same
  BY <1>3 DEF EndRequest, RejectKey, Interrupt, InterruptGuarded, InterruptUnguarded, Leave,
     TypeInv, TypeOK
<1>4. ASSUME NEW q \in Request, RunOrphan(q), q # p
      PROVE  Same
  BY <1>4 DEF RunOrphan, TypeInv, TypeOK
<1>5. ASSUME NEW q \in Request, Serve(q), ~CommitOutcome(q), ~BreakOnCancel(q), ~EndRequest(q)
      PROVE  Same
  <2>1. CASE RegisterRun(q) \/ BeginExecutor(q) \/ ResumeCall(q) \/ ResumeRun(q)
    BY <2>1 DEF RegisterRun, BeginExecutor, ResumeCall, ResumeRun, TypeInv, TypeOK
  <2>2. ASSUME NEW label, Goto(q, label), label \notin {"ending", "done"}
        PROVE  Same
    BY <2>2 DEF Goto, TypeInv, TypeOK
  <2>3. ASSUME NEW c, Decide(q, c)
        PROVE  Same
    BY <2>3 DEF Decide, TypeInv, TypeOK
  <2>4. CASE \/ AppendUserMessage(q) \/ StartTurn(q) \/ ExceedGuardrail(q) \/ TurnFails(q)
             \/ TurnAnswers(q) \/ TurnPauses(q) \/ TurnCallsTools(q) \/ ToolsDone(q)
    <3> HIDE DEF Same
    <3>1. QED
      BY <2>2, <2>3, <2>4
        DEF AppendUserMessage, StartTurn, ExceedGuardrail, TurnFails, TurnAnswers,
            TurnPauses, TurnCallsTools, ToolsDone, Fail, Complete, Pause
  <2>5. QED
    BY <1>5, <2>1, <2>4 DEF Serve
<1>6. ASSUME NEW q \in Request, PrepareFresh(q) \/ PrepareResume(q)
      PROVE  Same
  BY <1>6 DEF PrepareFresh, PrepareResume, TypeInv, TypeOK
<1>7. ASSUME \/ \E q \in Request : CancelTask(q) \/ Age(q)
             \/ DeleteSignal \/ DeleteAgent \/ EditAgent \/ SecondWorkerBoots
             \/ UNCHANGED vars
      PROVE  Same
  BY <1>1, <1>7 DEF CancelTask, Age, DeleteSignal, DeleteAgent, EditAgent,
     SecondWorkerBoots, vars, runVars, reqVars
<1> HIDE DEF Same
<1>8. Same \/ CommitOutcome(p) \/ BreakOnCancel(p) \/ EndRequest(p)
      \/ RejectKey(p) \/ Interrupt(p) \/ RunOrphan(p)
  BY <1>2, <1>3, <1>4, <1>5, <1>6, <1>7 DEF Next
<1>9. QED
  BY <1>8 DEF Same

(* A final row keeps its status or is deleted, and a deleted one stays so. *)
LEMMA FinalKept ==
  ASSUME ProtoInv, Steady, [Next]_vars, NEW p \in Request, pc[p] # "idle"
  PROVE  /\ Run(p) \in Request
         /\ row[Run(p)].cols.status \in Terminal \cup {"absent"} =>
              row'[Run(p)].cols.status \in {row[Run(p)].cols.status, "absent"}
<1>1. Run(p) \in Request /\ pc[Run(p)] # "idle"
  BY DEF ProtoInv, PauseInv, TypeInv, TypeOK, ReachInv, Received, Run
<1>2. ASSUME NEW r \in Request, pc[r] # "idle"
      PROVE  row[r].cols.status \in Terminal \cup {"absent"} =>
               row'[r].cols.status \in {row[r].cols.status, "absent"}
  <2>1. ~Exists(r) => ~Exists(r)'
    <3>1. SUFFICES ASSUME ~Exists(r), Exists(r)' PROVE FALSE
      OBVIOUS
    <3>2. PrepareFresh(r)
      BY <3>1, RowsInserted DEF ProtoInv, PauseInv
    <3>3. QED
      BY <1>2, <3>2 DEF PrepareFresh
  <2>2. QED
    BY <2>1, RowSteps DEF Exists, Terminal
<1>3. QED
  BY <1>1, <1>2

LEMMA ClaimKept ==
  ASSUME ProtoInv, Steady, [Next]_vars, NEW p \in Request, pc[p] # "idle", Claim(p),
         reply'[p] = reply[p], call'[p] = call[p],
         \/ orphan'[p] = orphan[p]
         \/ row'[Run(p)].cols.status \in {orphan[p].status, "absent"}
  PROVE  Claim(p)'
<1>1. Run(p)' = Run(p)
  BY DEF Run
<1>2. QED
  BY <1>1, FinalKept DEF Claim, Terminal

LEMMA ClaimsNext ==
  ASSUME ProtoInv, Steady, "restart" \notin env, [Next]_vars,
         \A q \in Request : Claims(q) => Claim(q),
         NEW p \in Request, Claims(p)'
  PROVE  Claim(p)'
<1>1. /\ pc'[p] \in {"ending", "done"} /\ ~Restart
      /\ TypeInv
  BY DEF Claims, Restart, ProtoInv, PauseInv
<1>2. CASE /\ pc'[p] = pc[p] /\ reply'[p] = reply[p]
           /\ call'[p] = call[p] /\ orphan'[p] = orphan[p]
  BY <1>1, <1>2, ClaimKept DEF Claims
<1>3. CASE CommitOutcome(p)
  <2>1. /\ reply'[p] = StateSent(Written(p).status) /\ Run(p)' = Run(p)
        /\ pc[p] = "commit"
    BY <1>1, <1>3 DEF CommitOutcome, Written, Run, TypeInv, TypeOK
  <2>2. /\ row'[Run(p)].cols.status \in {Written(p).status, "absent"}
        /\ Written(p).status \in {"paused"} \cup Terminal
    BY <1>3, <2>1, FlushWrites DEF ProtoInv, Exists
  <2>3. QED
    BY <2>1, <2>2 DEF Claim, StateSent, Terminal
<1>4. CASE BreakOnCancel(p)
  <2>1. /\ Confirms(p)
        /\ orphan'[p] = Finalized(NewCols, "cancelled", "cancelled", FALSE)
        /\ reply'[p] = "canceled"
    BY <1>1, <1>4 DEF BreakOnCancel, Decide, TypeInv, TypeOK
  <2>2. QED
    BY <2>1 DEF Claim, Finalized, NewCols, NoCols
<1>5. CASE EndRequest(p)
  <2>1. /\ pc[p] = "ending" /\ UNCHANGED <<row, call, orphan>>
        /\ reply'[p] = IF call[p].kind = "send" THEN SendReply(p) ELSE reply[p]
        /\ call[p].kind \in {"stream", "send"}
    BY <1>1, <1>5 DEF EndRequest, Leave, rowVars, TypeInv, TypeOK, Call, Kind
  <2>2. CASE call[p].kind = "stream"
    BY <2>1, <2>2, ClaimKept DEF Claims
  <2>3. CASE call[p].kind = "send"
    BY <2>1, <2>3 DEF Claim, SendReply, Exists, Run
  <2>4. QED
    BY <2>1, <2>2, <2>3
<1>6. CASE RejectKey(p) \/ Interrupt(p)
  <2>1. reply'[p] = "error"
    BY <1>1, <1>6 DEF RejectKey, Interrupt, InterruptGuarded, InterruptUnguarded, Leave,
       TypeInv, TypeOK
  <2>2. QED
    BY <2>1 DEF Claim
<1>7. CASE RunOrphan(p)
  <2>1. /\ UNCHANGED <<pc, reply, call>> /\ Owes(p)
    BY <1>7 DEF RunOrphan, Owes
  <2>2. row'[Run(p)].cols.status \in {orphan[p].status, "absent"}
    <3>1. Run(p) \in Request
      BY <2>1, WritesAlone
    <3>2. QED
      BY <1>7, <3>1, OrphanWrites DEF ProtoInv, Exists
  <2>3. Claim(p)
    BY <2>1 DEF Claims
  <2>4. QED
    BY <1>1, <2>1, <2>2, <2>3, ClaimKept
<1>8. QED
  BY <1>1, <1>2, <1>3, <1>4, <1>5, <1>6, <1>7, ReplyFrame

(* In the same environments, and without a crash, what a client was told   *)
(* of the end of its run is and stays what the row says, or what the       *)
(* scheduled finalize is going to write.                                   *)
THEOREM RepliesAreTrue ==
  Spec => [](Steady /\ "restart" \notin env => RepliesTellTruth)
<1> DEFINE Told == \A q \in Request : Claims(q) => Claim(q)
           Undisturbed == Steady /\ "restart" \notin env
           TruthInv == Undisturbed => ProtoInv /\ Told
<1>1. Init => TruthInv
  BY PauseInit, ReachInit
    DEF Init, ProtoInv, Settled, NoCols, Exists, Owes, Writing, Waits, Claims
<1>2. TruthInv /\ [Next]_vars => TruthInv'
  <2>1. SUFFICES ASSUME TruthInv, [Next]_vars, Undisturbed' PROVE ProtoInv' /\ Told'
    OBVIOUS
  <2>2. Undisturbed /\ ProtoInv /\ Told
    BY <2>1, EnvironmentFixed DEF Steady
  <2>3. ProtoInv'
    BY <2>1, <2>2, ProtoNext
  <2>4. Told'
    BY <2>1, <2>2, ClaimsNext
  <2>5. QED
    BY <2>3, <2>4
<1>3. TruthInv => (Undisturbed => RepliesTellTruth)
  BY DEF Claims, Claim, RepliesTellTruth
<1> HIDE DEF TruthInv
<1>4. QED
  BY <1>1, <1>2, <1>3, PTL DEF Spec
----------------------------------------------------------------------------
(* The skeleton of the executors keeps the contract of its details.        *)

(* Nobody but its own request works on a driven run. *)
Sole(q) == \A p \in Request : Run(p) = q => p = q

(* Its row is running until the one transaction that settles it, in the    *)
(* handler or in the detached finalize of a handler that was left.         *)
Driven(q) ==
  LET status == row[q].cols.status
      settled == status \in Terminal /\ ~Owes(q) /\ reply[q] = StateSent(status) IN
    /\ Writing(q) => /\ status = "running" /\ ~Owes(q)
                     /\ reply[q] \in {"none", "working"}
    /\ pc[q] = "commit" => outcome[q].status \in Terminal
    /\ pc[q] = "ending" => settled
    /\ pc[q] = "done" => \/ settled
                         \/ /\ reply[q] = "error"
                            /\ status \in {"running"} \cup Terminal
                            /\ Owes(q) => status = "running"

(* A request nobody received owes nothing and was told nothing. *)
Unborn == \A q \in Request : pc[q] = "idle" => ~Owes(q) /\ reply[q] = "none"

Undeleted == "delete" \notin env => agent.state = "started"

DriveInv ==
  /\ PauseInv /\ Received /\ Unborn /\ Undeleted
  /\ \A q \in Request : Drives(q) => Sole(q) /\ Driven(q)

(* What Driven looks at does not move. *)
Same(q) ==
  /\ row'[q].cols = row[q].cols /\ pc'[q] = pc[q] /\ orphan'[q] = orphan[q]
  /\ reply'[q] = reply[q] /\ outcome'[q] = outcome[q]

LEMMA DriveInit == Init => DriveInv
BY PauseInit
  DEF Init, DriveInv, Received, Unborn, Undeleted, Drives, Run, Exists, Owes, NoCols

(* Only a request that is being prepared changes what it fixed. *)
LEMMA CallFixed ==
  ASSUME TypeInv, [Next]_vars, NEW q \in Request
  PROVE  call'[q] = call[q] \/ PrepareFresh(q) \/ PrepareResume(q)
<1>1. ASSUME NEW p \in Request, Serve(p)
      PROVE  UNCHANGED call
  BY <1>1, ServeMoves DEF RegisterRun, EndRequest
<1>2. ASSUME NEW p \in Request, RejectKey(p) \/ Interrupt(p)
      PROVE  UNCHANGED call
  BY <1>2, LeavingMoves
<1>3. ASSUME NEW p \in Request, PrepareFresh(p) \/ PrepareResume(p), p # q
      PROVE  call'[q] = call[q]
  BY <1>3, PrepareMoves
<1>4. CASE \/ \E p \in Request : RunOrphan(p) \/ CancelTask(p) \/ Age(p)
           \/ DeleteSignal \/ DeleteAgent \/ EditAgent \/ SecondWorkerBoots
           \/ UNCHANGED vars
  BY <1>4, OtherMoves
<1>5. CASE Restart
  BY <1>5 DEF Restart
<1>6. QED
  BY <1>1, <1>2, <1>3, <1>4, <1>5 DEF Next

(* A request starts to drive a run by inserting it, and no other way. *)
LEMMA DrivesFixed ==
  ASSUME DriveInv, [Next]_vars, NEW q \in Request, ~PrepareFresh(q)
  PROVE  Drives(q)' <=> Drives(q)
<1>1. env' = env
  BY EnvironmentFixed
<1>2. CASE call'[q] = call[q]
  BY <1>1, <1>2 DEF Drives, Run, Confirms
<1>3. CASE PrepareResume(q)
  <2>1. PICK r \in Request, k \in Kind, yes \in BOOLEAN : PrepareResume(q)!(r, k, yes)
    BY <1>3 DEF PrepareResume
  <2>2. Exists(r) /\ pc[q] = "idle" /\ Run(q)' = r
    BY <2>1 DEF Paused, Rows, Run, DriveInv, PauseInv, TypeInv, TypeOK
  <2>3. r # q /\ Run(q) # q
    BY <2>2 DEF DriveInv, Received
  <2>4. QED
    BY <2>2, <2>3 DEF Drives
<1>4. QED
  BY <1>2, <1>3, CallFixed DEF DriveInv, PauseInv

(* The other requests leave a driven run alone. *)
LEMMA OthersKeep ==
  ASSUME DriveInv, NEW q \in Request, Drives(q), NEW p \in Request \ {q},
         \/ Serve(p) \/ RejectKey(p) \/ Interrupt(p) \/ RunOrphan(p)
         \/ PrepareFresh(p) \/ PrepareResume(p)
  PROVE  Same(q)
<1> USE DEF Same
<1>1. TypeInv /\ Run(p) # q
  BY DEF DriveInv, Sole, PauseInv
<1>2. CASE ResumeRun(p) \/ CommitOutcome(p)
  BY <1>1, <1>2, FlushWrites DEF DriveInv, TypeInv, TypeOK, ResumeRun, CommitOutcome
<1>3. CASE Serve(p) /\ ~ResumeRun(p) /\ ~CommitOutcome(p)
  <2>1. UNCHANGED row
    BY <1>3, ServeKeepsRows DEF rowVars
  <2>2. CASE RegisterRun(p) \/ BeginExecutor(p) \/ ResumeCall(p) \/ EndRequest(p)
    BY <1>1, <2>1, <2>2
      DEF RegisterRun, BeginExecutor, ResumeCall, EndRequest, Leave, TypeInv, TypeOK
  <2>3. ASSUME NEW label, Goto(p, label) PROVE Same(q)
    BY <1>1, <2>1, <2>3 DEF Goto, TypeInv, TypeOK
  <2>4. ASSUME NEW c, Decide(p, c) PROVE Same(q)
    BY <1>1, <2>1, <2>4 DEF Decide, TypeInv, TypeOK
  <2>5. CASE \/ AppendUserMessage(p) \/ StartTurn(p) \/ ExceedGuardrail(p) \/ TurnFails(p)
             \/ TurnAnswers(p) \/ TurnPauses(p) \/ TurnCallsTools(p) \/ ToolsDone(p)
    BY <2>3, <2>4, <2>5
      DEF AppendUserMessage, StartTurn, ExceedGuardrail, TurnFails, TurnAnswers, TurnPauses,
          TurnCallsTools, ToolsDone, Fail, Complete, Pause
  <2>6. CASE BreakOnCancel(p)
    BY <1>1, <2>1, <2>4, <2>6 DEF BreakOnCancel, TypeInv, TypeOK
  <2>7. QED
    BY <1>3, <2>2, <2>5, <2>6 DEF Serve
<1>4. CASE RejectKey(p) \/ Interrupt(p)
  BY <1>1, <1>4 DEF RejectKey, Interrupt, InterruptGuarded, InterruptUnguarded, Leave,
     rowVars, TypeInv, TypeOK
<1>5. CASE RunOrphan(p)
  BY <1>1, <1>5, OrphanWrites DEF DriveInv, RunOrphan
<1>6. CASE PrepareFresh(p) \/ PrepareResume(p)
  BY <1>1, <1>6 DEF PrepareFresh, PrepareResume, TypeInv, TypeOK
<1>7. QED
  BY <1>2, <1>3, <1>4, <1>5, <1>6

(* So do the other clients, where the row can be neither deleted nor       *)
(* reaped.                                                                 *)
LEMMA SystemKeeps ==
  ASSUME DriveInv, NEW q \in Request, Drives(q),
         \/ \E r \in Request : CancelTask(r) \/ Age(r)
         \/ DeleteSignal \/ DeleteAgent \/ EditAgent \/ Restart \/ SecondWorkerBoots
         \/ UNCHANGED vars
  PROVE  Same(q)
<1>1. ~DeleteAgent /\ ~Restart /\ ~SecondWorkerBoots
  BY DEF DriveInv, Undeleted, Drives, DeleteAgent, Restart, SecondWorkerBoots
<1>2. QED
  BY <1>1 DEF Same, CancelTask, Age, DeleteSignal, EditAgent, vars, runVars, rowVars, reqVars

(* What nobody moves keeps the contract. *)
LEMMA SameDriven ==
  ASSUME NEW q \in Request, Drives(q), Drives(q)', Driven(q), Same(q)
  PROVE  Driven(q)' /\ ContractOf(q)!ContractStep
<1>1. Driven(q)'
  BY DEF Driven, Same, Writing, Owes
<1>2. UNCHANGED <<StatusOf(q), LeftBy(q), ToldBy(q)>>
  BY DEF StatusOf, LeftBy, ToldBy, Same
<1>3. QED
  BY <1>1, <1>2 DEF ContractOf!ContractStep, ContractOf!contractVars

(* A step inside the handler, towards an outcome. *)
LEMMA MoveDriven ==
  ASSUME TypeInv, NEW q \in Request, Drives(q), Drives(q)', Driven(q), Writing(q),
         row'[q].cols = row[q].cols, orphan'[q] = orphan[q], Writing(q)',
         reply'[q] \in {reply[q], "working"},
         pc'[q] = "commit" => outcome'[q].status \in Terminal
  PROVE  Driven(q)' /\ ContractOf(q)!ContractStep
<1>1. /\ row[q].cols.status = "running" /\ orphan[q].status = "absent"
      /\ reply[q] \in {"none", "working"} /\ reply'[q] \in {"none", "working"}
      /\ pc[q] \notin {"ending", "done"} /\ pc'[q] \notin {"ending", "done"}
  BY DEF Driven, Owes, Writing
<1>2. Driven(q)'
  BY <1>1 DEF Driven, Owes
<1>3. UNCHANGED <<StatusOf(q), LeftBy(q), ToldBy(q)>>
  BY <1>1 DEF StatusOf, LeftBy, ToldBy
<1>4. QED
  BY <1>2, <1>3 DEF ContractOf!ContractStep, ContractOf!contractVars

(* The handler's own steps: settle in the commit, tell in the end. *)
LEMMA ServeDriven ==
  ASSUME DriveInv, NEW q \in Request, Drives(q), Drives(q)', Serve(q)
  PROVE  Driven(q)' /\ ContractOf(q)!ContractStep
<1>1. /\ TypeInv /\ Driven(q) /\ Run(q) = q /\ ~Confirms(q)
      /\ pc \in [Request -> PC] /\ outcome \in [Request -> Columns]
      /\ reply \in [Request -> Reply] /\ mem[q] \in Columns
  BY DEF DriveInv, PauseInv, TypeInv, TypeOK, Drives
<1>2. CASE RegisterRun(q) \/ BeginExecutor(q)
  BY <1>1, <1>2, MoveDriven DEF RegisterRun, BeginExecutor, rowVars, Writing
<1>3. ASSUME NEW label \in {"loop", "llm", "tools"}, Writing(q), Goto(q, label)
      PROVE  Driven(q)' /\ ContractOf(q)!ContractStep
  BY <1>1, <1>3, MoveDriven DEF Goto, rowVars, Writing
<1>4. ASSUME NEW status \in Terminal, NEW stop, NEW answer, Writing(q),
             Decide(q, Finalized(mem[q], status, stop, answer))
      PROVE  Driven(q)' /\ ContractOf(q)!ContractStep
  <2>1. Finalized(mem[q], status, stop, answer).status = status
    BY <1>1 DEF Finalized, Columns
  <2>2. QED
    BY <1>1, <1>4, <2>1, MoveDriven DEF Decide, rowVars, Writing
<1>5. CASE \/ AppendUserMessage(q) \/ StartTurn(q) \/ ExceedGuardrail(q) \/ TurnFails(q)
           \/ TurnAnswers(q) \/ TurnPauses(q) \/ TurnCallsTools(q) \/ ToolsDone(q)
  <2>1. Writing(q) /\ ~TurnPauses(q)
    BY <1>1, <1>5
      DEF AppendUserMessage, StartTurn, ExceedGuardrail, TurnFails, TurnAnswers, TurnPauses,
          TurnCallsTools, ToolsDone, MayUseAnswer, Writing
  <2>2. Fail(q) \/ Complete(q) => Driven(q)' /\ ContractOf(q)!ContractStep
    BY <1>4, <2>1 DEF Fail, Complete, Terminal
  <2>3. QED
    BY <1>3, <1>5, <2>1, <2>2
      DEF AppendUserMessage, StartTurn, ExceedGuardrail, TurnFails, TurnAnswers,
          TurnCallsTools, ToolsDone
<1>6. CASE BreakOnCancel(q)
  <2>1. Writing(q) /\ Decide(q, Finalized(mem[q], "cancelled", "cancelled", FALSE))
    BY <1>1, <1>6 DEF BreakOnCancel, SeesCancel, Writing
  <2>2. QED
    BY <1>4, <2>1 DEF Terminal
<1>7. CASE CommitOutcome(q)
  <2>1. /\ Writing(q) /\ pc[q] = "commit" /\ pc'[q] = "ending" /\ orphan'[q] = orphan[q]
        /\ reply'[q] = StateSent(outcome[q].status) /\ Written(q) = outcome[q]
    BY <1>1, <1>7 DEF CommitOutcome, Writing, Written
  <2>2. /\ row[q].cols.status = "running" /\ orphan[q].status = "absent"
        /\ outcome[q].status \in Terminal /\ reply[q] # "error"
    BY <1>1, <2>1 DEF Driven, Owes
  <2>3. row'[q].cols.status = outcome[q].status
    BY <1>1, <1>7, <2>1, <2>2, FlushWrites DEF DriveInv, Exists
  <2>4. Driven(q)'
    BY <2>1, <2>2, <2>3 DEF Driven, Owes, Writing
  <2>5. ContractOf(q)!Settle
    BY <2>1, <2>2, <2>3
      DEF ContractOf!Settle, ContractOf!Final, StatusOf, LeftBy, ToldBy, Terminal, StateSent
  <2>6. QED
    BY <2>4, <2>5 DEF ContractOf!ContractStep, ContractOf!ContractNext
<1>8. CASE EndRequest(q)
  <2>1. /\ pc[q] = "ending" /\ pc'[q] = "done" /\ UNCHANGED <<row, orphan>>
        /\ reply'[q] = IF call[q].kind = "send" THEN SendReply(q) ELSE reply[q]
    BY <1>1, <1>8 DEF EndRequest, Leave, rowVars
  <2>2. /\ row[q].cols.status \in Terminal /\ orphan[q].status = "absent"
        /\ reply[q] = StateSent(row[q].cols.status)
    BY <1>1, <2>1 DEF Driven, Owes
  <2>3. SendReply(q) = StateSent(row[q].cols.status)
    BY <1>1, <2>2 DEF SendReply, StateSent, Exists, Terminal
  <2>4. Driven(q)'
    BY <2>1, <2>2, <2>3 DEF Driven, Owes, Writing
  <2>5. ContractOf(q)!Tell
    BY <2>1, <2>2, <2>3
      DEF ContractOf!Tell, ContractOf!Final, StatusOf, LeftBy, ToldBy, Terminal, StateSent
  <2>6. QED
    BY <2>4, <2>5 DEF ContractOf!ContractStep, ContractOf!ContractNext
<1>9. ~ResumeCall(q) /\ ~ResumeRun(q)
  BY <1>1 DEF ResumeCall, ResumeRun, Resuming
<1>10. QED
  BY <1>2, <1>5, <1>6, <1>7, <1>8, <1>9 DEF Serve

(* A handler that is left abandons the run to its detached finalize, or    *)
(* leaves it running; the finalize settles it.                             *)
LEMMA LeavingDriven ==
  ASSUME DriveInv, NEW q \in Request, Drives(q), Drives(q)',
         RejectKey(q) \/ Interrupt(q) \/ RunOrphan(q)
  PROVE  Driven(q)' /\ ContractOf(q)!ContractStep
<1>1. /\ TypeInv /\ Driven(q) /\ Run(q) = q /\ ~Confirms(q)
      /\ pc \in [Request -> PC] /\ reply \in [Request -> Reply]
      /\ orphan \in [Request -> Columns]
  BY DEF DriveInv, PauseInv, TypeInv, TypeOK, Drives
<1>2. ASSUME NEW cause \in {"disconnect", "raise"},
             RejectKey(q) \/ InterruptUnguarded(q, cause)
      PROVE  Driven(q)' /\ ContractOf(q)!ContractStep
  <2>1. /\ Writing(q) /\ pc'[q] = "done" /\ reply'[q] = "error" /\ UNCHANGED <<row, orphan>>
    BY <1>1, <1>2 DEF RejectKey, InterruptUnguarded, Unguarded, Leave, rowVars, Writing
  <2>2. /\ row[q].cols.status = "running" /\ orphan[q].status = "absent"
        /\ reply[q] \in {"none", "working"} /\ pc[q] # "done"
    BY <1>1, <2>1 DEF Driven, Owes, Writing
  <2>3. Driven(q)'
    BY <2>1, <2>2 DEF Driven, Owes, Writing
  <2>4. UNCHANGED <<StatusOf(q), LeftBy(q), ToldBy(q)>>
    BY <2>1, <2>2 DEF StatusOf, LeftBy, ToldBy, Terminal
  <2>5. QED
    BY <2>3, <2>4 DEF ContractOf!ContractStep, ContractOf!contractVars
<1>3. ASSUME NEW cause \in {"disconnect", "raise"}, InterruptGuarded(q, cause)
      PROVE  Driven(q)' /\ ContractOf(q)!ContractStep
  <2>1. /\ Writing(q) /\ pc'[q] = "done" /\ reply'[q] = "error" /\ UNCHANGED row
        /\ orphan'[q] = Triage(q, cause)
    BY <1>1, <1>3 DEF InterruptGuarded, Guarded, Leave, rowVars, Writing
  <2>2. /\ row[q].cols.status = "running" /\ orphan[q].status = "absent"
        /\ reply[q] \in {"none", "working"} /\ pc[q] # "done"
    BY <1>1, <2>1 DEF Driven, Owes, Writing
  <2>3. orphan'[q].status \in {"cancelled", "failed"}
    BY <2>1, BlankTypes, FinalizedFields DEF Triage, Finalized, NewCols, NoCols
  <2>4. Driven(q)'
    BY <2>1, <2>2, <2>3 DEF Driven, Owes, Writing
  <2>5. ContractOf(q)!Abandon
    BY <2>1, <2>2, <2>3 DEF ContractOf!Abandon, ContractOf!Final, StatusOf, LeftBy, ToldBy
  <2>6. QED
    BY <2>4, <2>5 DEF ContractOf!ContractStep, ContractOf!ContractNext
<1>4. CASE RunOrphan(q)
  <2>1. Owes(q) /\ UNCHANGED <<pc, reply>> /\ pc[q] # "idle"
    BY <1>4 DEF RunOrphan, Owes, DriveInv, Unborn
  <2>2. pc[q] = "done" /\ row[q].cols.status = "running" /\ reply[q] = "error"
    BY <1>1, <2>1 DEF Driven, Writing, PC
  <2>3. /\ row'[q].cols.status = orphan[q].status
        /\ orphan[q].status \in {"cancelled", "failed"} /\ orphan'[q] = NoCols
    BY <1>1, <1>4, <2>2, OrphanWrites DEF DriveInv, Exists
  <2>4. Driven(q)'
    BY <2>1, <2>2, <2>3 DEF Driven, Owes, Writing, Terminal, NoCols
  <2>5. ContractOf(q)!SettleDetached
    BY <2>1, <2>2, <2>3
      DEF ContractOf!SettleDetached, ContractOf!Final, StatusOf, LeftBy, ToldBy, Terminal,
          NoCols
  <2>6. QED
    BY <2>4, <2>5 DEF ContractOf!ContractStep, ContractOf!ContractNext
<1>5. QED
  BY <1>2, <1>3, <1>4 DEF Interrupt

(* A run is driven from its insertion: running, with nothing left or told. *)
LEMMA InsertDriven ==
  ASSUME DriveInv, NEW q \in Request, PrepareFresh(q)
  PROVE  Driven(q)' /\ ContractOf(q)!ContractStep
<1>1. /\ pc[q] = "idle" /\ pc'[q] = "prepared" /\ UNCHANGED <<orphan, reply>>
      /\ row'[q].cols = NewCols
  BY DEF PrepareFresh, DriveInv, PauseInv, TypeInv, TypeOK
<1>2. /\ orphan[q].status = "absent" /\ reply[q] = "none" /\ ~Drives(q)
  BY <1>1 DEF DriveInv, Unborn, Received, Owes, Drives
<1>3. Driven(q)'
  BY <1>1, <1>2 DEF Driven, Owes, Writing, NewCols, NoCols
<1>4. UNCHANGED <<StatusOf(q), LeftBy(q), ToldBy(q)>>
  BY <1>1, <1>2 DEF StatusOf, LeftBy, ToldBy, NewCols, NoCols, Terminal
<1>5. QED
  BY <1>3, <1>4 DEF ContractOf!ContractStep, ContractOf!contractVars

(* Nobody targets a driven run: it is never paused, and its name was idle. *)
LEMMA SoleNext ==
  ASSUME DriveInv, [Next]_vars, NEW q \in Request, Drives(q)'
  PROVE  Sole(q)'
<1>1. SUFFICES ASSUME NEW p \in Request, p # q, Run(p)' = q PROVE FALSE
  BY DEF Sole
<1>2. ~PrepareFresh(p)
  BY <1>1 DEF PrepareFresh, Run, DriveInv, PauseInv, TypeInv, TypeOK
<1>3. CASE PrepareFresh(q)
  <2>1. pc[q] = "idle" /\ Run(p) = q
    BY <1>1, <1>3 DEF PrepareFresh, Run, DriveInv, PauseInv, TypeInv, TypeOK
  <2>2. QED
    BY <2>1 DEF DriveInv, Received
<1>4. CASE ~PrepareFresh(q)
  <2>1. Drives(q) /\ Driven(q) /\ Run(p) # q
    BY <1>1, <1>4, DrivesFixed DEF DriveInv, Sole
  <2>2. PrepareResume(p)
    BY <1>1, <1>2, <2>1, CallFixed DEF Run, DriveInv, PauseInv
  <2>3. row[q].cols.status = "paused"
    BY <1>1, <2>2 DEF PrepareResume, Paused, Run, DriveInv, PauseInv, TypeInv, TypeOK
  <2>4. pc[q] # "idle" /\ pc[q] \in PC
    BY <2>1 DEF Drives, DriveInv, Received, PauseInv, TypeInv, TypeOK
  <2>5. QED
    BY <2>1, <2>3, <2>4 DEF Driven, Writing, Terminal, PC
<1>5. QED
  BY <1>3, <1>4

(* Who is idle was idle, and nothing was done for it. *)
LEMMA IdleKept ==
  ASSUME TypeInv, [Next]_vars, NEW q \in Request, pc'[q] = "idle"
  PROVE  /\ pc[q] = "idle" /\ reply'[q] = reply[q]
         /\ orphan[q].status = "absent" => orphan'[q].status = "absent"
<1> DEFINE Kept == /\ pc[q] = "idle" /\ reply'[q] = reply[q]
                   /\ orphan[q].status = "absent" => orphan'[q].status = "absent"
<1>1. ASSUME NEW p \in Request, Serve(p) PROVE Kept
  <2>1. CASE \/ RegisterRun(p) \/ BeginExecutor(p) \/ ResumeCall(p) \/ ResumeRun(p)
             \/ CommitOutcome(p) \/ EndRequest(p)
    BY <2>1 DEF RegisterRun, BeginExecutor, ResumeCall, ResumeRun, CommitOutcome, EndRequest,
       Leave, TypeInv, TypeOK
  <2>2. ASSUME NEW label, label # "idle", Goto(p, label) PROVE Kept
    BY <2>2 DEF Goto, TypeInv, TypeOK
  <2>3. ASSUME NEW c, Decide(p, c) PROVE Kept
    BY <2>3 DEF Decide, TypeInv, TypeOK
  <2>4. CASE BreakOnCancel(p)
    <3>1. CASE Confirms(p)
      BY <2>4, <3>1 DEF BreakOnCancel, TypeInv, TypeOK
    <3>2. CASE ~Confirms(p)
      BY <2>3, <2>4, <3>2 DEF BreakOnCancel
    <3>3. QED
      BY <3>1, <3>2
  <2> HIDE DEF Kept
  <2>5. CASE \/ AppendUserMessage(p) \/ StartTurn(p) \/ ExceedGuardrail(p) \/ TurnFails(p)
             \/ TurnAnswers(p) \/ TurnPauses(p) \/ TurnCallsTools(p) \/ ToolsDone(p)
    BY <2>2, <2>3, <2>5
      DEF AppendUserMessage, StartTurn, ExceedGuardrail, TurnFails, TurnAnswers, TurnPauses,
          TurnCallsTools, ToolsDone, Fail, Complete, Pause
  <2>6. QED
    BY <1>1, <2>1, <2>4, <2>5 DEF Serve
<1>2. ASSUME NEW p \in Request, RejectKey(p) \/ Interrupt(p) PROVE Kept
  BY <1>2 DEF RejectKey, Interrupt, InterruptGuarded, InterruptUnguarded, Leave, TypeInv,
     TypeOK
<1>3. ASSUME NEW p \in Request, PrepareFresh(p) \/ PrepareResume(p) PROVE Kept
  BY <1>3 DEF PrepareFresh, PrepareResume, TypeInv, TypeOK
<1>4. ASSUME NEW p \in Request, RunOrphan(p) PROVE Kept
  BY <1>4 DEF RunOrphan, TypeInv, TypeOK
<1>5. ASSUME Restart PROVE Kept
  BY <1>5 DEF Restart, Active, Executing, TypeInv, TypeOK, NoCols
<1>6. ASSUME \/ \E p \in Request : CancelTask(p) \/ Age(p)
             \/ DeleteSignal \/ DeleteAgent \/ EditAgent \/ SecondWorkerBoots
             \/ UNCHANGED vars
      PROVE  Kept
  BY <1>6 DEF CancelTask, Age, DeleteSignal, DeleteAgent, EditAgent, SecondWorkerBoots,
     vars, runVars, reqVars
<1> HIDE DEF Kept
<1>7. Kept
  BY <1>1, <1>2, <1>3, <1>4, <1>5, <1>6 DEF Next
<1>8. QED
  BY <1>7 DEF Kept

LEMMA DriveNext ==
  ASSUME DriveInv, [Next]_vars
  PROVE  DriveInv' /\ \A q \in Request : ContractOf(q)!ContractStep
<1>1. PauseInv' /\ TypeInv
  BY PauseNext DEF DriveInv, PauseInv
<1>2. \A q \in Request : \/ call'[q] = call[q]
                         \/ /\ pc'[q] # "idle"
                            /\ Run(q)' = q \/ Exists(Run(q)')
  BY CallFixed, PrepareMoves DEF DriveInv, PauseInv, TypeInv, TypeOK
<1>3. Received' /\ Unborn'
  BY <1>1, <1>2, IdleKept, ReceivedNext DEF DriveInv, Unborn, Owes
<1>4. Undeleted'
  <2>1. CASE EditAgent \/ DeleteSignal \/ DeleteAgent
    BY <2>1, EnvironmentFixed
      DEF DriveInv, PauseInv, TypeInv, TypeOK, Undeleted, EditAgent, DeleteSignal, DeleteAgent
  <2>2. CASE UNCHANGED agent
    BY <2>2, EnvironmentFixed DEF DriveInv, Undeleted
  <2>3. ASSUME NEW q \in Request, Serve(q) PROVE UNCHANGED agent
    BY <2>3, ServeKeepsRows DEF ResumeRun, CommitOutcome, rowVars
  <2>4. QED
    BY <2>1, <2>2, <2>3
      DEF Next, PrepareFresh, PrepareResume, RejectKey, Interrupt, InterruptGuarded,
          InterruptUnguarded, RunOrphan, CancelTask, Age, Restart, SecondWorkerBoots, vars,
          runVars, rowVars
<1>5. ASSUME NEW q \in Request
      PROVE  /\ Drives(q)' => Sole(q)' /\ Driven(q)'
             /\ ContractOf(q)!ContractStep
  <2>1. CASE PrepareFresh(q)
    BY <2>1, InsertDriven, SoleNext
  <2>2. CASE ~PrepareFresh(q) /\ ~Drives(q)
    <3>1. ~Drives(q)'
      BY <2>2, DrivesFixed
    <3>2. UNCHANGED <<StatusOf(q), LeftBy(q), ToldBy(q)>>
      BY <2>2, <3>1 DEF StatusOf, LeftBy, ToldBy
    <3>3. QED
      BY <3>1, <3>2 DEF ContractOf!ContractStep, ContractOf!contractVars
  <2>3. CASE ~PrepareFresh(q) /\ Drives(q)
    <3>1. Drives(q)' /\ Driven(q) /\ ~PrepareResume(q)
      BY <2>3, DrivesFixed DEF DriveInv, Received, Drives, PrepareResume
    <3>2. Driven(q)' /\ ContractOf(q)!ContractStep
      BY <2>3, <3>1, OthersKeep, SystemKeeps, SameDriven, ServeDriven, LeavingDriven DEF Next
    <3>3. QED
      BY <3>1, <3>2, SoleNext
  <2>4. QED
    BY <2>1, <2>2, <2>3
<1>6. QED
  BY <1>1, <1>3, <1>4, <1>5 DEF DriveInv

(* In every environment in which its row is neither deleted nor reaped, a  *)
(* ReAct or Plan-Execute run keeps, behind its handler, the contract its   *)
(* executor keeps in detail: it settles once, and the client is told at    *)
(* most one end, the row's own, however answers to other tasks overlap.    *)
THEOREM DrivenRunsKeepTheirContract == Spec => DrivenRunsKeepContract
<1>1. Init => \A q \in Request : ContractOf(q)!ContractInit
  BY DEF ContractOf!ContractInit, Init, StatusOf, LeftBy, ToldBy, Drives, Run, Confirms
<1>2. DriveInv /\ [Next]_vars => [\A q \in Request : ContractOf(q)!ContractStep]_vars
  BY DriveNext
<1>3. QED
  BY <1>1, <1>2, DriveInit, DriveNext, PTL DEF Spec, DrivenRunsKeepContract

----------------------------------------------------------------------------
(* What can be proved of RunsSettle: a request takes a bounded number of   *)
(* steps, and nobody gives it more.                                        *)

(* The steps that work for one request. *)
Own(q) == \/ PrepareFresh(q) \/ PrepareResume(q) \/ Serve(q) \/ RejectKey(q)
          \/ Interrupt(q) \/ RunOrphan(q)

(* What counts: where the handler stands, its turns and saved calls, and   *)
(* the detached finalize.                                                  *)
Stands(q) == UNCHANGED <<pc[q], iter[q], todo[q], orphan[q]>>

(* The ways through a handler. *)
Passes(q) ==
  \/ /\ pc[q] = "idle" /\ pc'[q] = "prepared"
     /\ UNCHANGED <<iter[q], orphan[q]>> /\ todo'[q] \in 0 .. BatchSize
  \/ /\ <<pc[q], pc'[q]>> \in {<<"prepared", "initial">>, <<"initial", "start">>}
     /\ UNCHANGED <<iter[q], todo[q], orphan[q]>>
  \/ /\ pc[q] = "start" /\ pc'[q] = "start" /\ todo[q] > 0 /\ todo'[q] = todo[q] - 1
     /\ UNCHANGED <<iter[q], orphan[q]>>
  \/ /\ pc[q] \in {"start", "tools"} /\ pc'[q] = "loop"
     /\ UNCHANGED <<iter[q], todo[q], orphan[q]>>
  \/ /\ pc[q] = "loop" /\ pc'[q] = "llm"
     /\ iter[q] <= MaxIterations /\ iter'[q] = iter[q] + 1
     /\ UNCHANGED <<todo[q], orphan[q]>>
  \/ /\ pc[q] = "llm" /\ pc'[q] = "tools" /\ iter[q] <= MaxIterations
     /\ UNCHANGED <<iter[q], todo[q], orphan[q]>>
  \/ /\ pc[q] = "tools" /\ pc'[q] = "llm" /\ iter'[q] = MaxIterations + 1
     /\ UNCHANGED <<todo[q], orphan[q]>>
  \/ /\ pc[q] \in {"start", "loop", "llm", "tools"} /\ pc'[q] = "commit"
     /\ UNCHANGED orphan[q]
  \/ pc[q] \in {"loop", "llm", "tools"} /\ pc'[q] = "ending"
  \/ pc[q] = "commit" /\ pc'[q] = "ending" /\ UNCHANGED orphan[q]
  \/ /\ Active(q) /\ pc'[q] = "done"
     /\ pc[q] \in {"start", "loop", "llm", "tools"} \/ UNCHANGED orphan[q]
  \/ UNCHANGED <<pc[q], iter[q], todo[q]>> /\ Owes(q) /\ ~Owes(q)'

LEMMA OwnPasses ==
  ASSUME TypeInv, NEW q \in Request, Own(q)
  PROVE  Passes(q)
<1> USE DEF TypeInv, TypeOK
<1>1. CASE PrepareFresh(q) \/ PrepareResume(q)
  BY <1>1 DEF PrepareFresh, PrepareResume, Passes
<1>2. CASE RegisterRun(q) \/ BeginExecutor(q)
  BY <1>2 DEF RegisterRun, BeginExecutor, Passes
<1>3. CASE ResumeCall(q) \/ ResumeRun(q)
  BY <1>3 DEF ResumeCall, ResumeRun, Passes
<1>4. ASSUME NEW label, Goto(q, label)
      PROVE  pc'[q] = label /\ UNCHANGED <<todo[q], orphan[q]>>
  BY <1>4 DEF Goto
<1>5. ASSUME NEW c, Decide(q, c), pc[q] \in {"start", "loop", "llm", "tools"}
      PROVE  Passes(q)
  BY <1>5 DEF Decide, Passes
<1>6. CASE AppendUserMessage(q) \/ StartTurn(q) \/ ExceedGuardrail(q)
  <2>1. CASE AppendUserMessage(q)
    BY <1>4, <1>5, <2>1 DEF AppendUserMessage, Fail, Passes
  <2>2. CASE StartTurn(q)
    BY <1>4, <2>2 DEF StartTurn, Passes
  <2>3. CASE ExceedGuardrail(q) /\ ~Fail(q)
    BY <1>4, <2>3 DEF ExceedGuardrail, Passes
  <2>4. CASE ExceedGuardrail(q) /\ Fail(q)
    BY <1>5, <2>4 DEF ExceedGuardrail, Fail
  <2>5. QED
    BY <1>6, <2>1, <2>2, <2>3, <2>4
<1>7. CASE TurnFails(q) \/ TurnAnswers(q) \/ TurnPauses(q)
  BY <1>5, <1>7 DEF TurnFails, TurnAnswers, TurnPauses, MayUseAnswer, Fail, Complete, Pause
<1>8. CASE TurnCallsTools(q) \/ ToolsDone(q)
  BY <1>4, <1>5, <1>8 DEF TurnCallsTools, ToolsDone, MayUseAnswer, Fail, Passes
<1>9. CASE BreakOnCancel(q)
  BY <1>5, <1>9 DEF BreakOnCancel, SeesCancel, Passes
<1>10. CASE CommitOutcome(q)
  BY <1>10 DEF CommitOutcome, Passes
<1>11. CASE EndRequest(q) \/ RejectKey(q)
  BY <1>11 DEF EndRequest, RejectKey, Leave, Active, Passes
<1>12. ASSUME NEW cause, InterruptGuarded(q, cause) PROVE Passes(q)
  BY <1>12 DEF InterruptGuarded, Guarded, Leave, Active, Executing, Passes
<1>13. ASSUME NEW cause, InterruptUnguarded(q, cause) PROVE Passes(q)
  BY <1>13 DEF InterruptUnguarded, Unguarded, Leave, Active, Executing, Passes
<1>14. CASE RunOrphan(q)
  BY <1>14 DEF RunOrphan, Owes, NoCols, Passes
<1>15. QED
  BY <1>1, <1>2, <1>3, <1>6, <1>7, <1>8, <1>9, <1>10, <1>11, <1>12, <1>13, <1>14
    DEF Own, Serve, Interrupt

(* Nobody else moves a request, except the restart that ends it. *)
LEMMA OthersStand ==
  ASSUME TypeInv, [Next]_vars, NEW q \in Request, ~Own(q), ~Restart
  PROVE  Stands(q)
<1> USE DEF TypeInv, TypeOK, Stands
<1>1. ASSUME NEW p \in Request \ {q}, Own(p) PROVE Stands(q)
  <2>1. CASE \/ RegisterRun(p) \/ BeginExecutor(p) \/ ResumeCall(p) \/ ResumeRun(p)
             \/ CommitOutcome(p) \/ EndRequest(p)
    BY <2>1 DEF RegisterRun, BeginExecutor, ResumeCall, ResumeRun, CommitOutcome,
       EndRequest, Leave
  <2>2. ASSUME NEW label, Goto(p, label)
        PROVE  UNCHANGED <<pc[q], todo[q], orphan[q]>>
    BY <2>2 DEF Goto
  <2>3. ASSUME NEW c, Decide(p, c) PROVE Stands(q)
    BY <2>3 DEF Decide
  <2>4. CASE \/ AppendUserMessage(p) \/ StartTurn(p) \/ ExceedGuardrail(p)
             \/ TurnCallsTools(p) \/ ToolsDone(p)
    BY <2>2, <2>3, <2>4 DEF AppendUserMessage, StartTurn, ExceedGuardrail, TurnCallsTools,
       ToolsDone, Fail
  <2>5. CASE TurnFails(p) \/ TurnAnswers(p) \/ TurnPauses(p)
    BY <2>3, <2>5 DEF TurnFails, TurnAnswers, TurnPauses, Fail, Complete, Pause
  <2>6. CASE BreakOnCancel(p)
    BY <2>3, <2>6 DEF BreakOnCancel
  <2>7. CASE RejectKey(p) \/ Interrupt(p)
    BY <2>7 DEF RejectKey, Interrupt, InterruptGuarded, InterruptUnguarded, Leave
  <2>8. CASE RunOrphan(p) \/ PrepareFresh(p) \/ PrepareResume(p)
    BY <2>8 DEF RunOrphan, PrepareFresh, PrepareResume
  <2>9. QED
    BY <1>1, <2>1, <2>4, <2>5, <2>6, <2>7, <2>8 DEF Own, Serve
<1>2. CASE \/ \E p \in Request : CancelTask(p) \/ Age(p)
           \/ DeleteSignal \/ DeleteAgent \/ EditAgent \/ SecondWorkerBoots
           \/ UNCHANGED vars
  BY <1>2 DEF CancelTask, Age, DeleteSignal, DeleteAgent, EditAgent, SecondWorkerBoots,
     vars, runVars, reqVars
<1>3. QED
  BY <1>1, <1>2 DEF Next, Own

(* A handler is at the top of its loop, or at its tools, only with a turn  *)
(* to spare for the synthesis.                                             *)
TurnsInv == \A q \in Request : pc[q] \in {"loop", "tools"} => iter[q] <= MaxIterations
NotBegun == \A q \in Request :
              pc[q] \in {"idle", "prepared", "initial", "start"} => iter[q] = 0

BoundInv == TypeInv /\ TurnsInv /\ NotBegun

LEMMA BoundNext ==
  ASSUME BoundInv, [Next]_vars
  PROVE  BoundInv'
<1>1. TypeInv'
  BY NextType DEF BoundInv
<1>2. ASSUME NEW q \in Request
      PROVE  /\ pc'[q] \in {"loop", "tools"} => iter'[q] <= MaxIterations
             /\ pc'[q] \in {"idle", "prepared", "initial", "start"} => iter'[q] = 0
  <2>1. /\ pc[q] \in {"loop", "tools"} => iter[q] <= MaxIterations
        /\ pc[q] \in {"idle", "prepared", "initial", "start"} => iter[q] = 0
    BY DEF BoundInv, TurnsInv, NotBegun
  <2>2. CASE Own(q)
    BY <2>1, <2>2, OwnPasses DEF BoundInv, Passes
  <2>3. CASE Restart
    BY <2>3 DEF Restart
  <2>4. CASE ~Own(q) /\ ~Restart
    BY <2>1, <2>4, OthersStand DEF BoundInv, Stands
  <2>5. QED
    BY <2>2, <2>3, <2>4
<1>3. QED
  BY <1>1, <1>2 DEF BoundInv, TurnsInv, NotBegun

(* A turn is an answer, its tools, and the top of the loop. *)
TurnsLeft(n) == 3 * (MaxIterations + 1 - n)

(* The steps the handler of q may still take. *)
HandlerLeft(q) ==
  CASE pc[q] = "idle"     -> TurnsLeft(0) + BatchSize + 7
    [] pc[q] = "prepared" -> TurnsLeft(iter[q]) + todo[q] + 6
    [] pc[q] = "initial"  -> TurnsLeft(iter[q]) + todo[q] + 5
    [] pc[q] = "start"    -> TurnsLeft(iter[q]) + todo[q] + 4
    [] pc[q] = "loop"     -> TurnsLeft(iter[q]) + 3
    [] pc[q] = "llm"      -> TurnsLeft(iter[q]) + 5
    [] pc[q] = "tools"    -> TurnsLeft(iter[q]) + 4
    [] pc[q] = "commit"   -> 2
    [] pc[q] = "ending"   -> 1
    [] OTHER              -> 0

FinalizeLeft(q) == IF Owes(q) THEN 1 ELSE 0

StepsLeft(q) == HandlerLeft(q) + FinalizeLeft(q)

MostSteps == TurnsLeft(0) + BatchSize + 7

Counted(q) ==
  /\ HandlerLeft(q) \in Nat /\ FinalizeLeft(q) \in 0 .. 1
  /\ StepsLeft(q) = HandlerLeft(q) + FinalizeLeft(q)

LEMMA StepsTyped == TypeInv => \A q \in Request : Counted(q)
<1>1. ASSUME TypeInv, NEW q \in Request PROVE Counted(q)
  <2>1. /\ iter[q] \in 0 .. MaxIterations + 1 /\ todo[q] \in 0 .. BatchSize
        /\ pc[q] \in PC
    BY <1>1 DEF TypeInv, TypeOK
  <2>2. TurnsLeft(iter[q]) \in Nat /\ TurnsLeft(0) \in Nat
    BY <2>1 DEF TurnsLeft
  <2>3. HandlerLeft(q) \in Nat
    BY <2>1, <2>2 DEF HandlerLeft
  <2>4. QED
    BY <2>3 DEF FinalizeLeft, StepsLeft, Counted
<1>2. QED
  BY <1>1, Zenon

LEMMA StepsTypedNext == TypeInv' => (\A q \in Request : Counted(q))'
BY StepsTyped, PTL

(* Each way through a handler shortens what is left of it. *)
LEMMA PassCounts ==
  ASSUME BoundInv, BoundInv', NEW q \in Request, Passes(q)
  PROVE  \/ HandlerLeft(q)' < HandlerLeft(q) /\ UNCHANGED orphan[q]
         \/ HandlerLeft(q)' + 1 < HandlerLeft(q)
         \/ HandlerLeft(q)' = HandlerLeft(q) /\ Owes(q) /\ ~Owes(q)'
<1>1. /\ iter[q] \in 0 .. MaxIterations + 1 /\ iter'[q] \in 0 .. MaxIterations + 1
      /\ todo[q] \in 0 .. BatchSize /\ todo'[q] \in 0 .. BatchSize
      /\ MaxIterations \in Nat /\ BatchSize \in Nat /\ pc[q] \in PC
      /\ pc[q] \in {"loop", "tools"} => iter[q] <= MaxIterations
      /\ pc[q] \in {"idle", "prepared", "initial", "start"} => iter[q] = 0
  BY DEF BoundInv, TypeInv, TypeOK, TurnsInv, NotBegun
<1>2. CASE UNCHANGED <<pc[q], iter[q], todo[q]>> /\ Owes(q) /\ ~Owes(q)'
  BY <1>2 DEF HandlerLeft, TurnsLeft
<1>3. CASE pc[q] \in {"idle", "prepared", "initial"} /\ pc'[q] # "done"
  BY <1>1, <1>2, <1>3 DEF Passes, HandlerLeft, TurnsLeft, Active
<1>4. CASE pc[q] = "start" /\ pc'[q] \in {"start", "loop"}
  BY <1>1, <1>2, <1>4 DEF Passes, HandlerLeft, TurnsLeft, Active
<1>5. CASE pc[q] = "loop" /\ pc'[q] = "llm"
  BY <1>1, <1>2, <1>5 DEF Passes, HandlerLeft, TurnsLeft, Active
<1>6. CASE pc[q] \in {"llm", "tools"} /\ pc'[q] \in {"tools", "loop", "llm"}
  BY <1>1, <1>2, <1>6 DEF Passes, HandlerLeft, TurnsLeft, Active
<1>7. CASE pc'[q] \in {"commit", "ending", "done"}
  BY <1>1, <1>2, <1>7 DEF Passes, HandlerLeft, TurnsLeft, Active, Executing
<1>8. QED
  BY <1>1, <1>2, <1>3, <1>4, <1>5, <1>6, <1>7 DEF Passes, Active, Executing, PC

LEMMA StepCounts ==
  ASSUME BoundInv, [Next]_vars, NEW q \in Request
  PROVE  /\ StepsLeft(q) \in Nat /\ StepsLeft(q)' \in Nat
         /\ StepsLeft(q)' <= StepsLeft(q)
         /\ Own(q) => StepsLeft(q)' < StepsLeft(q)
<1>1. BoundInv' /\ TypeInv /\ TypeInv'
  BY BoundNext DEF BoundInv
<1>2. /\ HandlerLeft(q) \in Nat /\ FinalizeLeft(q) \in 0 .. 1
      /\ HandlerLeft(q)' \in Nat /\ FinalizeLeft(q)' \in 0 .. 1
      /\ StepsLeft(q) = HandlerLeft(q) + FinalizeLeft(q)
      /\ StepsLeft(q)' = HandlerLeft(q)' + FinalizeLeft(q)'
  BY <1>1, StepsTyped, StepsTypedNext DEF Counted
<1>3. CASE Own(q)
  <2>1. \/ HandlerLeft(q)' < HandlerLeft(q) /\ FinalizeLeft(q)' = FinalizeLeft(q)
        \/ HandlerLeft(q)' + 1 < HandlerLeft(q)
        \/ /\ HandlerLeft(q)' = HandlerLeft(q)
           /\ FinalizeLeft(q) = 1 /\ FinalizeLeft(q)' = 0
    BY <1>1, <1>3, OwnPasses, PassCounts DEF FinalizeLeft, Owes
  <2>2. QED
    BY <1>2, <2>1
<1>4. CASE Restart /\ ~Own(q)
  <2>1. FinalizeLeft(q)' = 0
    BY <1>4 DEF Restart, FinalizeLeft, Owes, NoCols
  <2>2. pc'[q] = "done" \/ (pc[q] = "idle" /\ pc'[q] = "idle")
    BY <1>1, <1>4 DEF Restart, Active, Executing, TypeInv, TypeOK, PC
  <2>3. HandlerLeft(q)' <= HandlerLeft(q)
    BY <1>2, <2>2 DEF HandlerLeft, TurnsLeft
  <2>4. QED
    BY <1>2, <1>4, <2>1, <2>3
<1>5. CASE ~Own(q) /\ ~Restart
  <2>1. UNCHANGED <<pc[q], iter[q], todo[q], orphan[q]>>
    BY <1>1, <1>5, OthersStand DEF Stands
  <2>2. HandlerLeft(q)' = HandlerLeft(q) /\ FinalizeLeft(q)' = FinalizeLeft(q)
    BY <2>1 DEF HandlerLeft, TurnsLeft, FinalizeLeft, Owes
  <2>3. QED
    BY <1>2, <1>5, <2>2
<1>6. QED
  BY <1>3, <1>4, <1>5

Within(q) == StepsLeft(q) \in 0 .. MostSteps

(* In every environment a request is served in at most MostSteps steps,    *)
(* whatever the model answers and whoever cancels, disconnects, deletes,   *)
(* edits or boots: each step that works for it, its failures and its       *)
(* detached finalize included, leaves it fewer, and no step of another     *)
(* request, client or worker leaves it more.  So a run that stays running  *)
(* is one nobody drives any more, or one whose steps are not scheduled.    *)
THEOREM RequestsWindDown ==
  Spec => /\ [](\A q \in Request : Within(q))
          /\ [][\A q \in Request : /\ StepsLeft(q)' <= StepsLeft(q)
                                   /\ Own(q) => StepsLeft(q)' < StepsLeft(q)]_vars
<1> DEFINE AllWithin == \A q \in Request : Within(q)
           Counts(q) == /\ StepsLeft(q)' <= StepsLeft(q)
                        /\ Own(q) => StepsLeft(q)' < StepsLeft(q)
<1>1. MostSteps \in Nat
  BY DEF MostSteps, TurnsLeft
<1>2. ASSUME Init PROVE BoundInv /\ AllWithin
  <2>1. BoundInv
    BY <1>2, InitType DEF Init, BoundInv, TurnsInv, NotBegun
  <2>2. ASSUME NEW q \in Request PROVE Within(q)
    <3>1. HandlerLeft(q) = MostSteps /\ FinalizeLeft(q) = 0
      BY <1>2 DEF Init, HandlerLeft, MostSteps, FinalizeLeft, Owes, NoCols
    <3>2. QED
      BY <1>1, <3>1 DEF StepsLeft, Within
  <2>3. AllWithin
    BY <2>2, Zenon
  <2>4. QED
    BY <2>1, <2>3
<1>3. ASSUME BoundInv, AllWithin, [Next]_vars PROVE BoundInv' /\ AllWithin'
  <2>1. ASSUME NEW q \in Request PROVE Within(q)'
    BY <1>1, <1>3, StepCounts DEF Within
  <2>2. AllWithin'
    BY <2>1
  <2>3. QED
    BY <1>3, <2>2, BoundNext
<1>4. ASSUME BoundInv, [Next]_vars PROVE [\A q \in Request : Counts(q)]_vars
  BY <1>4, StepCounts
<1> HIDE DEF AllWithin
<1>5. Spec => []BoundInv /\ []AllWithin
  BY <1>2, <1>3, PTL DEF Spec
<1>6. QED
  BY <1>4, <1>5, PTL DEF Spec, AllWithin
----------------------------------------------------------------------------
(* The other half of what can be proved of RunsSettle: a run that stays    *)
(* running has somebody left to settle it.                                 *)

(* A handler that has still to write the row, or a detached finalize.      *)
Attends(q, r) == Run(q) = r /\ (Writing(q) \/ Owes(q))

(* Nothing strikes where no finally stands, and no process dies.           *)
Sheltered == env \cap {"early", "restart"} = {}

Attended ==
  Sheltered => \A r \in Request : row[r].cols.status = "running" =>
                 \E q \in Request : Attends(q, r)

AttendInv == AskedInv /\ Attended

(* Only an insertion and the confirmation of a pause make a row running.   *)
LEMMA StartsRunning ==
  ASSUME AskedInv, [Next]_vars, NEW r \in Request,
         row[r].cols.status # "running", row'[r].cols.status = "running"
  PROVE  PrepareFresh(r) \/ \E q \in Request : ResumeRun(q) /\ Run(q) = r
<1>1. ASSUME NEW q \in Request, PrepareFresh(q)
      PROVE  PrepareFresh(r)
  BY <1>1 DEF PrepareFresh, AskedInv, PauseInv, TypeInv, TypeOK
<1>2. ASSUME NEW q \in Request, ResumeRun(q) \/ CommitOutcome(q)
      PROVE  ResumeRun(q) /\ Run(q) = r
  <2>1. Run(q) = r /\ Exists(r)
    BY <1>2, FlushWrites DEF AskedInv
  <2>2. Written(q).status = "running"
    BY <1>2, <2>1, FlushWrites DEF AskedInv
  <2>3. pc[q] # "commit"
    BY <1>2, <2>2, FlushWrites DEF AskedInv
  <2>4. QED
    BY <1>2, <2>1, <2>3 DEF CommitOutcome
<1>3. ASSUME NEW q \in Request, Serve(q), ~ResumeRun(q), ~CommitOutcome(q)
      PROVE  FALSE
  BY <1>3, ServeKeepsRows DEF rowVars
<1>4. ASSUME NEW q \in Request, RunOrphan(q)
      PROVE  FALSE
  <2>1. CASE Run(q) = r /\ Exists(r)
    BY <1>4, <2>1, OrphanWrites DEF AskedInv
  <2>2. CASE Run(q) # r \/ ~Exists(r)
    BY <1>4, <2>2, OrphanWrites DEF AskedInv
  <2>3. QED
    BY <2>1, <2>2
<1>5. ASSUME NEW q \in Request,
             PrepareResume(q) \/ RejectKey(q) \/ Interrupt(q) \/ CancelTask(q) \/ Age(q)
      PROVE  FALSE
  BY <1>5 DEF PrepareResume, RejectKey, Interrupt, InterruptGuarded, InterruptUnguarded,
     CancelTask, Age, rowVars
<1>6. CASE DeleteSignal \/ EditAgent \/ UNCHANGED vars
  BY <1>6 DEF DeleteSignal, EditAgent, vars, runVars, rowVars
<1>7. CASE DeleteAgent
  BY <1>7 DEF DeleteAgent, AskedInv, PauseInv, TypeInv, TypeOK, Row, NoCols
<1>8. CASE Restart \/ SecondWorkerBoots
  BY <1>8, ReapWrites DEF Restart, SecondWorkerBoots, AskedInv, PauseInv
<1>9. QED
  BY <1>1, <1>2, <1>3, <1>4, <1>5, <1>6, <1>7, <1>8 DEF Next

(* Whoever attends a run goes on attending it for as long as it runs: a    *)
(* handler that is left leaves a finalize behind, and only a write of      *)
(* another status ends either.                                             *)
LEMMA AttendsOn ==
  ASSUME AskedInv, [Next]_vars, Sheltered, NEW q \in Request, NEW r \in Request,
         Attends(q, r), row'[r].cols.status = "running"
  PROVE  Attends(q, r)'
<1>1. /\ Run(q) = r /\ pc[q] # "idle"
      /\ Writing(q) \/ Owes(q)
  BY RunAssumption DEF Attends, AskedInv, Signalled
<1>2. pc \in [Request -> PC] /\ orphan \in [Request -> Columns]
  BY DEF AskedInv, PauseInv, TypeInv, TypeOK
<1>3. CASE PrepareFresh(q) \/ PrepareResume(q)
  BY <1>1, <1>3 DEF PrepareFresh, PrepareResume
<1>4. ASSUME NEW label \in {"initial", "start", "loop", "llm", "tools", "commit"},
             pc' = [pc EXCEPT ![q] = label], UNCHANGED <<call, orphan>>
      PROVE  Attends(q, r)'
  BY <1>1, <1>2, <1>4 DEF Attends, Writing, Run
<1>5. CASE Serve(q)
  <2>1. CASE RegisterRun(q) \/ BeginExecutor(q) \/ ResumeRun(q)
    BY <1>4, <2>1 DEF RegisterRun, BeginExecutor, ResumeRun
  <2>2. CASE ResumeCall(q)
    BY <1>1, <2>2 DEF ResumeCall, Attends, Writing, Owes, Run
  <2>3. ASSUME NEW label \in {"loop", "llm", "tools"}, Goto(q, label)
        PROVE  Attends(q, r)'
    BY <1>4, <2>3 DEF Goto
  <2>4. ASSUME NEW c, Decide(q, c) PROVE Attends(q, r)'
    BY <1>4, <2>4 DEF Decide
  <2>5. CASE \/ AppendUserMessage(q) \/ StartTurn(q) \/ ExceedGuardrail(q)
             \/ TurnCallsTools(q) \/ ToolsDone(q)
    BY <2>3, <2>4, <2>5 DEF AppendUserMessage, StartTurn, ExceedGuardrail, TurnCallsTools,
       ToolsDone, Fail
  <2>6. CASE TurnFails(q) \/ TurnAnswers(q) \/ TurnPauses(q)
    BY <2>4, <2>6 DEF TurnFails, TurnAnswers, TurnPauses, Fail, Complete, Pause
  <2>7. CASE BreakOnCancel(q) /\ ~Confirms(q)
    BY <2>4, <2>7 DEF BreakOnCancel
  <2>8. CASE BreakOnCancel(q) /\ Confirms(q)
    <3>1. /\ orphan' = [orphan EXCEPT ![q] =
                          Finalized(NewCols, "cancelled", "cancelled", FALSE)]
          /\ UNCHANGED call
      BY <2>8 DEF BreakOnCancel
    <3>2. Finalized(NewCols, "cancelled", "cancelled", FALSE).status = "cancelled"
      BY DEF Finalized, NewCols, NoCols
    <3>3. QED
      BY <1>1, <1>2, <3>1, <3>2 DEF Attends, Owes, Run
  <2>9. CASE CommitOutcome(q)
    <3>1. pc[q] = "commit"
      BY <2>9 DEF CommitOutcome
    <3>2. Written(q).status # "running"
      BY <2>9, <3>1, FlushWrites DEF AskedInv
    <3>3. row'[r].cols.status # "running"
      BY <1>1, <2>9, <3>2, FlushWrites DEF AskedInv, Exists
    <3>4. QED
      BY <3>3
  <2>10. CASE EndRequest(q)
    <3>1. Owes(q) /\ UNCHANGED <<call, orphan>>
      BY <1>1, <2>10 DEF EndRequest, Writing
    <3>2. QED
      BY <1>1, <3>1 DEF Attends, Owes, Run
  <2>11. QED
    BY <1>5, <2>1, <2>2, <2>5, <2>6, <2>7, <2>8, <2>9, <2>10 DEF Serve
<1>6. CASE RejectKey(q)
  BY <1>6 DEF RejectKey, Sheltered
<1>7. CASE Interrupt(q)
  <2>1. PICK cause \in {"disconnect", "raise"} :
          InterruptGuarded(q, cause) \/ InterruptUnguarded(q, cause)
    BY <1>7 DEF Interrupt
  <2>2. CASE InterruptGuarded(q, cause)
    <3>1. orphan' = [orphan EXCEPT ![q] = Triage(q, cause)] /\ UNCHANGED call
      BY <2>2 DEF InterruptGuarded
    <3>2. Triage(q, cause).status \in {"cancelled", "failed"}
      BY DEF Triage, Finalized, NewCols, NoCols
    <3>3. QED
      BY <1>1, <1>2, <3>1, <3>2 DEF Attends, Owes, Run
  <2>3. CASE InterruptUnguarded(q, cause)
    <3>1. ~Exists(r) /\ UNCHANGED row
      BY <1>1, <2>3 DEF InterruptUnguarded, Sheltered, rowVars
    <3>2. QED
      BY <3>1 DEF Exists
  <2>4. QED
    BY <2>1, <2>2, <2>3
<1>8. CASE RunOrphan(q)
  <2>1. CASE Exists(r)
    BY <1>1, <1>8, <2>1, OrphanWrites DEF AskedInv
  <2>2. CASE ~Exists(r)
    BY <1>1, <1>8, <2>2, OrphanWrites DEF AskedInv, Exists
  <2>3. QED
    BY <2>1, <2>2
<1>9. CASE ~Own(q)
  <2>1. ~Restart
    BY DEF Restart, Sheltered
  <2>2. Stands(q)
    BY <1>9, <2>1, OthersStand DEF AskedInv, PauseInv
  <2>3. call'[q] = call[q]
    BY <1>1, <1>9, CallFixed DEF AskedInv, PauseInv, Own
  <2>4. QED
    BY <1>1, <2>2, <2>3 DEF Attends, Stands, Writing, Owes, Run
<1>10. QED
  BY <1>3, <1>5, <1>6, <1>7, <1>8, <1>9 DEF Own

LEMMA AttendNext ==
  ASSUME AttendInv, [Next]_vars
  PROVE  AttendInv'
<1>1. AskedInv'
  BY AskedNext DEF AttendInv
<1>2. ASSUME Sheltered, NEW r \in Request, row'[r].cols.status = "running"
      PROVE  \E q \in Request : Attends(q, r)'
  <2>1. CASE row[r].cols.status = "running"
    <3>1. PICK q \in Request : Attends(q, r)
      BY <1>2, <2>1 DEF AttendInv, Attended
    <3>2. QED
      BY <1>2, <3>1, AttendsOn DEF AttendInv
  <2>2. CASE row[r].cols.status # "running" /\ PrepareFresh(r)
    <3>1. pc'[r] = "prepared" /\ Run(r)' = r
      BY <2>2 DEF PrepareFresh, Run, AttendInv, AskedInv, PauseInv, TypeInv, TypeOK
    <3>2. QED
      BY <3>1 DEF Attends, Writing
  <2>3. ASSUME NEW q \in Request, ResumeRun(q), Run(q) = r
        PROVE  Attends(q, r)'
    BY <2>3 DEF ResumeRun, Attends, Writing, Run, AttendInv, AskedInv, PauseInv, TypeInv,
       TypeOK
  <2>4. QED
    BY <1>2, <2>1, <2>2, <2>3, StartsRunning DEF AttendInv
<1>3. Sheltered' => Sheltered
  BY EnvironmentFixed DEF Sheltered
<1>4. QED
  BY <1>1, <1>2, <1>3 DEF AttendInv, Attended

(* Where nothing strikes outside the executors' try blocks and no process  *)
(* dies, no row is left running by itself: a handler that has still to     *)
(* write it, or a detached finalize, stands behind it, however answers     *)
(* overlap, modes are edited, agents are deleted and workers boot.  With   *)
(* RequestsWindDown, whoever stands behind it is through after MostSteps   *)
(* steps of its own; what RunsSettle adds is only that they are taken.     *)
THEOREM NoRunIsAbandoned ==
  Spec => [](Sheltered => \A r \in Request : row[r].cols.status = "running" =>
                            \E q \in Request : Run(q) = r /\ (Writing(q) \/ Owes(q)))
<1>1. Init => AttendInv
  BY AskedInit DEF Init, AttendInv, Attended, NoCols
<1>2. AttendInv /\ [Next]_vars => AttendInv'
  BY AttendNext
<1>3. AttendInv => (Sheltered => \A r \in Request : row[r].cols.status = "running" =>
                      \E q \in Request : Run(q) = r /\ (Writing(q) \/ Owes(q)))
  BY DEF AttendInv, Attended, Attends
<1>4. QED
  BY <1>1, <1>2, <1>3, PTL DEF Spec
=============================================================================
