------------------------- MODULE MissionExecutionProofs -------------------------
(***************************************************************************)
(* Theorems about MissionExecution for every number of tasks, repairs and   *)
(* concurrent operator requests, and every environment.                     *)
(***************************************************************************)
EXTENDS MissionExecution, SequenceTheorems, TLAPS

(* The loop is past its first save and has not returned.                   *)
RunningPc == {"top", "stop", "limit", "finish", "mark", "execute", "reconcile",
              "saveRepairing", "repair", "edit", "saveRepaired"}
TaskPc == {"mark", "execute", "reconcile", "saveRepairing", "repair", "edit", "saveRepaired"}

(* What the loop's local variables hold at each await.                     *)
LoopLocals ==
    /\ loop \in RunningPc \cup {"saving"} => mem \in Execution
    /\ loop \in (RunningPc \ {"finish"}) \cup {"saving"} => ~mem.done
    /\ loop = "finish" => ~Unfinished(mem)
    /\ loop \in TaskPc => hand.task \in Task
    /\ loop = "reconcile" => hand.outcome \in EditOutcome \cup {"threw"}
    /\ loop = "edit" => ~RepairExhausted(repairRec)

(* While a run is past its first save the record exists and is not          *)
(* completed: only the loop itself completes it.                           *)
RecordOfRun == loop \in RunningPc => rec \in Execution /\ ~rec.done

(* A request that loaded a completed record can only be a retry: pause and  *)
(* cancel change nothing in it and were rejected.                           *)
Requests ==
    \A c \in Control :
        /\ ctl[c].pc # "idle" => ctl[c].action \in CtlAction
        /\ ctl[c].pc = "loaded" =>
              ctl[c].snap \in Execution /\ (ctl[c].snap.done => ctl[c].action = "retry")

(* The FIFO is a mutex: a request between its load and its unlock is first. *)
HolderIsFirst ==
    \A c \in Control : ctl[c].pc \in {"loaded", "saved"} => LockHeldBy(c)

(* The inductive invariant.                                                *)
DataInv == TypeOK /\ LoopLocals /\ RecordOfRun /\ Requests /\ CompletedRecordIsTerminal
IInv == DataInv /\ HolderIsFirst

-----------------------------------------------------------------------------
(* The operators that compute an execution.                                *)

USE NumAnalysisAssumption, NumValidationAssumption, MaxRepairAssumption

(* Writing one task's state (updateTask) keeps an execution an execution.   *)
LEMMA SetStateType ==
    ASSUME NEW e \in Execution, NEW t \in Task, NEW s \in TaskState
    PROVE  SetState(e, t, s) \in Execution /\ SetState(e, t, s).done = e.done
BY DEF SetState, Execution

(* The attempt counter never passes two, the planner's largest maxAttempts. *)
LEMMA OneMoreAttemptType ==
    ASSUME NEW e \in Execution, NEW t \in Task
    PROVE  OneMoreAttempt(e, t) \in 0..2
<1>1. e.attempts[t] \in 0..2
  BY DEF Execution
<1>2. MaxAttempts(t) \in {1, 2}
  BY DEF MaxAttempts
<1> QED
  BY <1>1, <1>2 DEF OneMoreAttempt

(* Applying a task's result (applyTaskResult) or the repairing mark.        *)
LEMMA ApplyTaskResultType ==
    ASSUME NEW e \in Execution, NEW t \in Task, NEW s \in TaskState
    PROVE  ApplyTaskResult(e, t, s) \in Execution /\ ApplyTaskResult(e, t, s).done = e.done
BY OneMoreAttemptType DEF ApplyTaskResult, Execution

(* A throwing task is retried or failed.                                    *)
LEMMA ApplyExceptionType ==
    ASSUME NEW e \in Execution, NEW t \in Task
    PROVE  ApplyException(e, t) \in Execution /\ ApplyException(e, t).done = e.done
<1> DEFINE s == IF e.attempts[t] + 1 < MaxAttempts(t) THEN "ready" ELSE "failed"
<1>1. s \in TaskState
  BY DEF TaskState
<1>2. ApplyException(e, t) = ApplyTaskResult(e, t, s)
  BY DEF ApplyException, ApplyTaskResult
<1> HIDE DEF s
<1> QED
  BY <1>1, <1>2, ApplyTaskResultType

(* Rewriting every task's state keeps an execution an execution.            *)
LEMMA MapStateType ==
    ASSUME NEW e \in Execution, NEW f \in [Task -> TaskState]
    PROVE  [e EXCEPT !.state = f] \in Execution
BY DEF Execution

(* reconcileGraph interrupts what was in flight.                            *)
LEMMA ReconcileGraphType ==
    ASSUME NEW e \in Execution
    PROVE  ReconcileGraph(e) \in Execution /\ ReconcileGraph(e).done = e.done
<1> DEFINE f == [t \in Task |-> ReconcileState(e.state[t])]
<1>1. f \in [Task -> TaskState]
  BY DEF Execution, ReconcileState, TaskState
<1>2. ReconcileGraph(e) = [e EXCEPT !.state = f]
  BY DEF ReconcileGraph
<1> HIDE DEF f
<1>3. [e EXCEPT !.state = f].done = e.done
  BY DEF Execution
<1> QED
  BY <1>1, <1>2, <1>3, MapStateType

(* #stopForAbort interrupts what is unfinished and completes nothing.       *)
LEMMA StopForAbortType ==
    ASSUME NEW e \in Execution
    PROVE  StopForAbortOf(e) \in Execution /\ StopForAbortOf(e).done = e.done
<1> DEFINE f == [t \in Task |-> StopState(e.state[t])]
<1>1. f \in [Task -> TaskState]
  BY DEF Execution, StopState, TaskState
<1>2. StopForAbortOf(e) = IF e.done \/ ~Unfinished(e) THEN e ELSE [e EXCEPT !.state = f]
  BY DEF StopForAbortOf
<1> HIDE DEF f
<1>3. [e EXCEPT !.state = f].done = e.done
  BY DEF Execution
<1> QED
  BY <1>1, <1>2, <1>3, MapStateType

(* Exceeding a limit fails every unfinished task.                           *)
LEMMA FailRemainingType ==
    ASSUME NEW e \in Execution
    PROVE  FailRemaining(e) \in Execution /\ ~Unfinished(FailRemaining(e))
<1>1. \A t \in Task : FailState(e.state[t]) \in TaskState /\ FailState(e.state[t]) \in Terminal
  BY DEF Execution, FailState, TaskState, Terminal
<1>2. FailRemaining(e) \in Execution
  BY <1>1 DEF FailRemaining, Execution
<1>3. \A t \in Task : FailRemaining(e).state[t] = FailState(e.state[t])
  BY DEF FailRemaining, Execution
<1> QED
  BY <1>1, <1>2, <1>3 DEF Unfinished

(* A successful repair requeues every validation.                           *)
LEMMA ResetValidationChainType ==
    ASSUME NEW e \in Execution
    PROVE  ResetValidationChain(e) \in Execution /\ ResetValidationChain(e).done = e.done
<1> DEFINE f == [t \in Task |->
                   IF t \notin Validation THEN e.state[t]
                   ELSE IF Deps(t) \subseteq CompletedTasks(e) \ Validation
                        THEN "ready" ELSE "queued"]
<1>1. f \in [Task -> TaskState]
  BY DEF Execution, TaskState
<1>2. ResetValidationChain(e) = [e EXCEPT !.state = f]
  BY DEF ResetValidationChain
<1> HIDE DEF f
<1>3. [e EXCEPT !.state = f].done = e.done
  BY DEF Execution
<1> QED
  BY <1>1, <1>2, <1>3, MapStateType

(* What a repair leaves in memory, whatever its outcome.                    *)
LEMMA AfterRepairType ==
    ASSUME NEW e \in Execution, NEW t \in Task, NEW o \in EditOutcome
    PROVE  AfterRepair(e, t, o) \in Execution /\ AfterRepair(e, t, o).done = e.done
<1>1. o \in TaskState
  BY DEF EditOutcome, TaskState
<1> QED
  BY <1>1, ResetValidationChainType, SetStateType DEF AfterRepair

(* Control actions map task states to task states; only retry touches       *)
(* completedAt.                                                             *)
LEMMA MutatedType ==
    ASSUME NEW e \in Execution, NEW a \in CtlAction
    PROVE  /\ Mutated(e, a) \in Execution
           /\ Mutated(e, a).done = (IF a = "retry" THEN FALSE ELSE e.done)
<1>1. a \in {"pause", "cancel", "retry"}
  BY CtlActionAssumption
<1>2. \A t \in Task : e.state[t] \in TaskState
  BY DEF Execution
<1>3. \A t \in Task : ControlState(a, t, e.state[t]) \in TaskState
  BY <1>1, <1>2 DEF ControlState, RetryState, TaskState
<1> QED
  BY <1>3 DEF Mutated, Execution

(* Pause and cancel leave a graph without unfinished tasks alone.           *)
LEMMA TerminalUnchanged ==
    ASSUME NEW e \in Execution, ~Unfinished(e), NEW a \in CtlAction, a # "retry"
    PROVE  Mutated(e, a).state = e.state
<1>1. a \in {"pause", "cancel"}
  BY CtlActionAssumption
<1>2. \A t \in Task : e.state[t] \in Terminal
  BY DEF Unfinished
<1>3. \A t \in Task : ControlState(a, t, e.state[t]) = e.state[t]
  BY <1>1, <1>2 DEF ControlState, Terminal, Active, Pending
<1> QED
  BY <1>3 DEF Mutated, Execution

(* What #reconcileAfterTask writes.                                         *)
LEMMA ReconciledWithType ==
    ASSUME NEW e \in Execution, NEW t \in Task, NEW o \in EditOutcome \cup {"threw"}
    PROVE  ReconciledWith(e, t, o) \in Execution /\ ReconciledWith(e, t, o).done = e.done
<1>1. o # "threw" => o \in TaskState
  BY DEF EditOutcome, TaskState
<1> QED
  BY <1>1, ApplyExceptionType, ApplyTaskResultType DEF ReconciledWith

(* The planned graph is an execution that is not completed.                 *)
LEMMA PlannedType == PlannedExecution \in Execution /\ ~PlannedExecution.done
<1>1. \A t \in Task : InitialState(t) \in TaskState
  BY DEF InitialState, TaskState
<1> QED
  BY <1>1 DEF PlannedExecution, Execution

-----------------------------------------------------------------------------
(* The steps.  Each lemma is about one group of actions.                    *)

(* The lock's FIFO stays a sequence of requests and the loop.               *)
LEMMA QueueType ==
    ASSUME NEW q \in Seq(Control \cup {"loop"}), NEW a \in Control \cup {"loop"}
    PROVE  /\ Append(q, a) \in Seq(Control \cup {"loop"})
           /\ q # <<>> => Tail(q) \in Seq(Control \cup {"loop"})
           /\ q # <<>> => Append(Tail(q), a) \in Seq(Control \cup {"loop"})
OBVIOUS

(* Who arrives at the lock does not change who holds it.                    *)
LEMMA QueueOrder ==
    ASSUME NEW q \in Seq(Control \cup {"loop"}), NEW a \in Control \cup {"loop"}, q # <<>>
    PROVE  Append(q, a) # <<>> /\ Head(Append(q, a)) = Head(q)
OBVIOUS

(* A record without a file is not an execution.                             *)
LEMMA RecordExists ==
    ASSUME NEW e \in Execution \cup {NoExecution}, e # NoExecution
    PROVE  e \in Execution
OBVIOUS

(* The initial state: nothing on disk, nothing registered.                  *)
LEMMA InitIInv == Init => IInv
<1> SUFFICES ASSUME Init PROVE IInv
  OBVIOUS
<1>1. InitialRepairRecord \in RepairRecord
  BY DEF InitialRepairRecord, RepairRecord, RepairState
<1>2. TypeOK
  <2>1. NoHand \in [task : Task \cup {0}, outcome : Outcome]
    BY DEF NoHand, Outcome
  <2>2. IdleCtl \in [pc : CtlPc, action : CtlAction \cup {"none"},
                     snap : Execution \cup {NoExecution}]
    BY DEF IdleCtl, CtlPc
  <2>3. queue \in Seq(Control \cup {"loop"})
    BY DEF Init
  <2>4. ctl \in [Control -> [pc : CtlPc, action : CtlAction \cup {"none"},
                             snap : Execution \cup {NoExecution}]]
    BY <2>2 DEF Init
  <2>5. loop \in LoopPc /\ aborted \in BOOLEAN
    BY DEF Init, LoopPc
  <2>6. passed \subseteq Validation /\ repairEdits \in 0..(MaxRepair + 1)
    BY DEF Init
  <2> QED
    BY <1>1, <2>1, <2>3, <2>4, <2>5, <2>6 DEF Init, TypeOK
<1>3. LoopLocals /\ RecordOfRun
  BY DEF Init, LoopLocals, RecordOfRun, RunningPc, TaskPc
<1>4. Requests
  BY DEF Init, Requests, IdleCtl
<1>5. CompletedRecordIsTerminal
  BY DEF Init, CompletedRecordIsTerminal, HasExecution
<1>6. HolderIsFirst
  BY DEF Init, HolderIsFirst, IdleCtl
<1> QED
  BY <1>2, <1>3, <1>4, <1>5, <1>6 DEF IInv, DataInv

(* Entering a run, and loading or planning the graph.                       *)
LEMMA EntryStep ==
    ASSUME IInv, Start \/ Plan \/ Resume \/ LoadForResume \/ SaveInitial
    PROVE  DataInv'
<1> USE DEF LoopPc, RunningPc, TaskPc
<1>1. CASE Start
  BY <1>1 DEF Start, IInv, DataInv, TypeOK, LoopLocals, RecordOfRun, Requests,
              CompletedRecordIsTerminal, HasExecution, Unfinished
<1>2. CASE Plan
  <2>1. mem' \in Execution /\ ~mem'.done
    BY <1>2, PlannedType, ReconcileGraphType DEF Plan
  <2> QED
    BY <1>2, <2>1 DEF Plan, IInv, DataInv, TypeOK, LoopLocals, RecordOfRun, Requests,
                      CompletedRecordIsTerminal, HasExecution, Unfinished
<1>3. CASE Resume
  BY <1>3 DEF Resume, IInv, DataInv, TypeOK, LoopLocals, RecordOfRun, Requests,
              CompletedRecordIsTerminal, HasExecution, Unfinished
<1>4. CASE LoadForResume
  <2>1. mem' \in Execution \cup {NoExecution} /\ loop' \in {"exit", "saving"}
    BY <1>4, RecordExists, ReconcileGraphType DEF LoadForResume, Resumable, IInv, DataInv, TypeOK
  <2>2. loop' = "saving" => mem' \in Execution /\ ~mem'.done
    BY <1>4, RecordExists, ReconcileGraphType DEF LoadForResume, Resumable, IInv, DataInv, TypeOK
  <2> QED
    BY <1>4, <2>1, <2>2 DEF LoadForResume, IInv, DataInv, TypeOK, LoopLocals, RecordOfRun, Requests,
                            CompletedRecordIsTerminal, HasExecution, Unfinished
<1>5. CASE SaveInitial
  <2>1. rec' \in Execution /\ ~rec'.done /\ mem' = mem /\ loop' = "top"
    BY <1>5 DEF SaveInitial, SaveUnlocked, IInv, DataInv, LoopLocals
  <2> QED
    BY <1>5, <2>1 DEF SaveInitial, SaveUnlocked, NoHand, Outcome, IInv, DataInv, TypeOK, LoopLocals,
                      RecordOfRun, Requests, CompletedRecordIsTerminal, HasExecution
<1> QED
  BY <1>1, <1>2, <1>3, <1>4, <1>5

(* The top of run()'s while loop and the saves outside the lock.            *)
LEMMA TopStep ==
    ASSUME IInv,
           \/ ObserveAbort \/ ExceedLimit \/ PickTask \/ ReturnUnfinished
           \/ Complete \/ SaveCompletion \/ SaveRepairing \/ SaveRepaired
    PROVE  DataInv'
<1> USE DEF LoopPc, RunningPc, TaskPc
<1>1. CASE ObserveAbort
  BY <1>1, QueueType DEF ObserveAbort, Enqueue, IInv, DataInv, TypeOK, LoopLocals, RecordOfRun,
              Requests, CompletedRecordIsTerminal, HasExecution, Unfinished
<1>2. CASE ExceedLimit
  BY <1>2, QueueType DEF ExceedLimit, Enqueue, IInv, DataInv, TypeOK, LoopLocals, RecordOfRun,
              Requests, CompletedRecordIsTerminal, HasExecution, Unfinished
<1>3. CASE PickTask
  <2>1. hand' \in [task : Task \cup {0}, outcome : Outcome] /\ hand'.task \in Task
    BY <1>3 DEF PickTask, Outcome
  <2> QED
    BY <1>3, <2>1, QueueType DEF PickTask, Enqueue, IInv, DataInv, TypeOK, LoopLocals, RecordOfRun,
              Requests, CompletedRecordIsTerminal, HasExecution, Unfinished
<1>4. CASE ReturnUnfinished
  BY <1>4 DEF ReturnUnfinished, IInv, DataInv, TypeOK, LoopLocals, RecordOfRun,
              Requests, CompletedRecordIsTerminal, HasExecution, Unfinished
<1>5. CASE Complete
  <2>1. mem \in Execution /\ ~Unfinished(mem)
    BY <1>5 DEF Complete, IInv, DataInv, LoopLocals
  <2>2. mem' \in Execution /\ ~Unfinished(mem')
    BY <1>5, <2>1 DEF Complete, Execution, Unfinished
  <2> QED
    BY <1>5, <2>2 DEF Complete, IInv, DataInv, TypeOK, LoopLocals, RecordOfRun, Requests,
                      CompletedRecordIsTerminal, HasExecution, Unfinished
<1>6. CASE SaveCompletion
  <2>1. rec' \in Execution /\ ~Unfinished(rec') /\ loop' = "exit"
    BY <1>6 DEF SaveCompletion, SaveUnlocked, IInv, DataInv, LoopLocals
  <2> QED
    BY <1>6, <2>1 DEF SaveCompletion, SaveUnlocked, NoHand, Outcome, IInv, DataInv, TypeOK, LoopLocals,
                      RecordOfRun, Requests, CompletedRecordIsTerminal, HasExecution
<1>7. CASE SaveRepairing
  <2>1. rec' \in Execution /\ ~rec'.done /\ mem' = mem /\ loop' = "repair" /\ hand' = hand
    BY <1>7 DEF SaveRepairing, SaveUnlocked, IInv, DataInv, LoopLocals
  <2> QED
    BY <1>7, <2>1 DEF SaveRepairing, SaveUnlocked, IInv, DataInv, TypeOK, LoopLocals,
                      RecordOfRun, Requests, CompletedRecordIsTerminal, HasExecution
<1>8. CASE SaveRepaired
  <2>1. rec' \in Execution /\ ~rec'.done /\ mem' = mem /\ loop' = "top"
    BY <1>8 DEF SaveRepaired, SaveUnlocked, IInv, DataInv, LoopLocals
  <2> QED
    BY <1>8, <2>1 DEF SaveRepaired, SaveUnlocked, NoHand, Outcome, IInv, DataInv, TypeOK, LoopLocals,
                      RecordOfRun, Requests, CompletedRecordIsTerminal, HasExecution
<1> QED
  BY <1>1, <1>2, <1>3, <1>4, <1>5, <1>6, <1>7, <1>8

(* The loop's sections under the lock: what they write is an execution,     *)
(* and it is completed only by the limit, which leaves nothing unfinished.  *)
LEMMA LockedStep ==
    ASSUME IInv, StopForAbort \/ FailForLimit \/ MarkActive \/ ReconcileAfterTask
    PROVE  DataInv'
<1> USE DEF LoopPc, RunningPc, TaskPc
<1>1. rec \in Execution /\ ~rec.done /\ mem \in Execution /\ ~mem.done
  BY DEF StopForAbort, FailForLimit, MarkActive, ReconcileAfterTask, LoopLocked,
         IInv, DataInv, RecordOfRun, LoopLocals
<1>2. queue' \in Seq(Control \cup {"loop"})
  BY QueueType DEF StopForAbort, FailForLimit, MarkActive, ReconcileAfterTask, LoopLocked,
                   LockHeldBy, Unlock, IInv, DataInv, TypeOK
<1>3. CASE StopForAbort
  <2>1. rec' \in Execution /\ ~rec'.done /\ mem' = rec' /\ loop' = "exit"
    BY <1>1, <1>3, StopForAbortType DEF StopForAbort, LoopLocked
  <2> QED
    BY <1>2, <1>3, <2>1 DEF StopForAbort, LoopLocked, IInv, DataInv, TypeOK, LoopLocals, RecordOfRun,
                            Requests, CompletedRecordIsTerminal, HasExecution
<1>4. CASE FailForLimit
  <2>1. rec' \in Execution /\ ~Unfinished(rec') /\ mem' = rec' /\ loop' = "exit"
    BY <1>1, <1>4, FailRemainingType DEF FailForLimit, LoopLocked
  <2> QED
    BY <1>2, <1>4, <2>1 DEF FailForLimit, LoopLocked, IInv, DataInv, TypeOK, LoopLocals, RecordOfRun,
                            Requests, CompletedRecordIsTerminal, HasExecution
<1>5. CASE MarkActive
  <2>1. hand.task \in Task /\ ActiveState(hand.task) \in TaskState
    BY <1>5 DEF MarkActive, LoopLocked, IInv, DataInv, LoopLocals, ActiveState, TaskState
  <2>2. rec' \in Execution /\ ~rec'.done /\ mem' = rec' /\ loop' = "execute" /\ hand' = hand
    BY <1>1, <1>5, <2>1, SetStateType DEF MarkActive, LoopLocked
  <2>3. passed' \subseteq Validation
    BY <1>5 DEF MarkActive, IInv, DataInv, TypeOK
  <2> QED
    BY <1>2, <1>5, <2>1, <2>2, <2>3
       DEF MarkActive, LoopLocked, IInv, DataInv, TypeOK, LoopLocals, RecordOfRun,
           Requests, CompletedRecordIsTerminal, HasExecution
<1>6. CASE ReconcileAfterTask
  <2>1. hand.task \in Task /\ hand.outcome \in EditOutcome \cup {"threw"}
    BY <1>6 DEF ReconcileAfterTask, LoopLocked, IInv, DataInv, LoopLocals
  <2>2. rec' \in Execution /\ ~rec'.done /\ mem' = rec' /\ loop' = "top"
    BY <1>1, <1>6, <2>1, ReconciledWithType DEF ReconcileAfterTask, LoopLocked
  <2> QED
    BY <1>2, <1>6, <2>2 DEF ReconcileAfterTask, LoopLocked, NoHand, Outcome, IInv, DataInv, TypeOK,
                            LoopLocals, RecordOfRun, Requests, CompletedRecordIsTerminal,
                            HasExecution
<1> QED
  BY <1>3, <1>4, <1>5, <1>6

(* The work of a task, the validation it records and the repair it may      *)
(* need.                                                                    *)
LEMMA WorkStep ==
    ASSUME IInv,
           \/ ExecuteAnalysis
           \/ \E o \in EditOutcome \cup {"threw"} : ExecuteEdit(o)
           \/ ValidationPasses \/ ValidationThrows \/ ValidationFails
    PROVE  DataInv'
<1> USE DEF LoopPc, RunningPc, TaskPc
<1>1. loop = "execute" /\ mem \in Execution /\ ~mem.done /\ hand.task \in Task
  BY DEF ExecuteAnalysis, ExecuteEdit, ValidationPasses, ValidationThrows, ValidationFails,
         IInv, DataInv, LoopLocals
<1>2. ASSUME NEW o \in EditOutcome \cup {"threw"}, Deliver(o), repairRec' \in RepairRecord,
             passed' \subseteq Validation, UNCHANGED <<rec, aborted, ctl, repairEdits, restored>>
      PROVE  DataInv'
  <2>1. /\ hand' \in [task : Task \cup {0}, outcome : Outcome]
        /\ hand'.task = hand.task /\ hand'.outcome = o
    BY <1>2 DEF Deliver, EditOutcome, Outcome, IInv, DataInv, TypeOK
  <2> QED
    BY <1>1, <1>2, <2>1, QueueType
       DEF Deliver, Enqueue, IInv, DataInv, TypeOK, LoopLocals, RecordOfRun, Requests,
           CompletedRecordIsTerminal, HasExecution
<1>3. CASE ExecuteAnalysis
  BY <1>2, <1>3 DEF ExecuteAnalysis, EditOutcome, IInv, DataInv, TypeOK
<1>4. CASE \E o \in EditOutcome \cup {"threw"} : ExecuteEdit(o)
  BY <1>2, <1>4 DEF ExecuteEdit, IInv, DataInv, TypeOK
<1>5. CASE ValidationPasses
  <2>1. repairRec' \in RepairRecord /\ passed' \subseteq Validation
    BY <1>5 DEF ValidationPasses, RecordValidation, RepairRecord, RepairState, IInv, DataInv, TypeOK
  <2> QED
    BY <1>2, <1>5, <2>1 DEF ValidationPasses, EditOutcome
<1>6. CASE ValidationThrows
  BY <1>2, <1>6 DEF ValidationThrows, IInv, DataInv, TypeOK
<1>7. CASE ValidationFails
  <2>1. repairRec' \in RepairRecord /\ passed' \subseteq Validation
    BY <1>7 DEF ValidationFails, RecordValidation, RepairRecord, RepairState, IInv, DataInv, TypeOK
  <2> "repairing" \in TaskState
    BY DEF TaskState
  <2>2. mem' \in Execution /\ ~mem'.done
    BY <1>1, <1>7, ApplyTaskResultType DEF ValidationFails
  <2> QED
    BY <1>1, <1>7, <2>1, <2>2
       DEF ValidationFails, IInv, DataInv, TypeOK, LoopLocals, RecordOfRun, Requests,
           CompletedRecordIsTerminal, HasExecution
<1> QED
  BY <1>3, <1>4, <1>5, <1>6, <1>7

(* The bounded repair, and the end of a run.                                *)
LEMMA RepairStep ==
    ASSUME IInv,
           \/ RefuseRepair \/ BeginRepairEdit
           \/ \E o \in EditOutcome : FinishRepairEdit(o)
           \/ RepairStoreFault
    PROVE  DataInv'
<1> USE DEF LoopPc, RunningPc, TaskPc
<1>1. mem \in Execution /\ ~mem.done /\ hand.task \in Task /\ rec \in Execution /\ ~rec.done
  BY DEF RefuseRepair, BeginRepairEdit, FinishRepairEdit, RepairStoreFault,
         IInv, DataInv, LoopLocals, RecordOfRun
<1> "failed" \in TaskState
  BY DEF TaskState
<1>2. SetState(mem, hand.task, "failed") \in Execution /\ ~SetState(mem, hand.task, "failed").done
  BY <1>1, SetStateType
<1>3. CASE RefuseRepair
  <2>1. repairRec' \in RepairRecord
    BY <1>3 DEF RefuseRepair, RepairRecord, RepairState, IInv, DataInv, TypeOK
  <2> QED
    BY <1>1, <1>2, <1>3, <2>1
       DEF RefuseRepair, IInv, DataInv, TypeOK, LoopLocals, RecordOfRun, Requests,
           CompletedRecordIsTerminal, HasExecution
<1>4. CASE BeginRepairEdit
  <2>1. repairRec' \in RepairRecord /\ repairRec'.attempts = repairRec.attempts
    BY <1>4 DEF BeginRepairEdit, RepairRecord, RepairState, IInv, DataInv, TypeOK
  <2>2. repairEdits' \in 0..(MaxRepair + 1)
    BY <1>4 DEF BeginRepairEdit, IInv, DataInv, TypeOK
  <2>3. loop' = "edit" /\ ~RepairExhausted(repairRec')
    BY <1>4, <2>1 DEF BeginRepairEdit, RepairExhausted
  <2> QED
    BY <1>1, <1>4, <2>1, <2>2, <2>3
       DEF BeginRepairEdit, IInv, DataInv, TypeOK, LoopLocals, RecordOfRun, Requests,
           CompletedRecordIsTerminal, HasExecution
<1>5. CASE \E o \in EditOutcome : FinishRepairEdit(o)
  <2>1. PICK o \in EditOutcome : FinishRepairEdit(o)
    BY <1>5
  <2>2. repairRec' \in RepairRecord
    BY <2>1 DEF FinishRepairEdit, RecordRepairAttempt, RepairExhausted, RepairRecord,
                RepairState, IInv, DataInv, TypeOK, LoopLocals
  <2>3. mem' \in Execution /\ ~mem'.done
    BY <1>1, <2>1, AfterRepairType DEF FinishRepairEdit
  <2> QED
    BY <1>1, <2>1, <2>2, <2>3
       DEF FinishRepairEdit, IInv, DataInv, TypeOK, LoopLocals, RecordOfRun, Requests,
           CompletedRecordIsTerminal, HasExecution
<1>6. CASE RepairStoreFault
  BY <1>1, <1>2, <1>6
     DEF RepairStoreFault, IInv, DataInv, TypeOK, LoopLocals, RecordOfRun, Requests,
         CompletedRecordIsTerminal, HasExecution
<1> QED
  BY <1>3, <1>4, <1>5, <1>6

(* Operator requests.                                                       *)
LEMMA RequestStep ==
    ASSUME IInv, NEW c \in Control,
           \/ \E a \in CtlAction : CtlRequest(c, a)
           \/ CtlStep(c) \/ CtlStoreFault(c)
    PROVE  DataInv'
<1> DEFINE Request == [pc : CtlPc, action : CtlAction \cup {"none"},
                       snap : Execution \cup {NoExecution}]
<1>1. ctl \in [Control -> Request] /\ ctl[c] \in Request
  BY DEF IInv, DataInv, TypeOK
<1>2. ASSUME NEW r \in Request, ctl' = [ctl EXCEPT ![c] = r],
             r.pc # "idle" => r.action \in CtlAction,
             r.pc = "loaded" => r.snap \in Execution /\ (r.snap.done => r.action = "retry")
      PROVE  ctl' \in [Control -> Request] /\ Requests'
  <2> HIDE DEF Request
  <2>1. ctl' \in [Control -> Request]
    BY <1>1, <1>2
  <2>2. \A d \in Control : ctl'[d] = IF d = c THEN r ELSE ctl[d]
    BY <1>1, <1>2
  <2> QED
    BY <1>2, <2>1, <2>2 DEF IInv, DataInv, Requests
<1>3. Answered(c) \in Request /\ Answered(c).pc = "idle"
  BY <1>1 DEF Answered, IdleCtl, CtlPc
<1>4. LockHeldBy(c) /\ Unlock => queue' \in Seq(Control \cup {"loop"})
  BY QueueType DEF LockHeldBy, Unlock, IInv, DataInv, TypeOK
<1>5. CASE \E a \in CtlAction : CtlRequest(c, a)
  <2>1. PICK a \in CtlAction : CtlRequest(c, a)
    BY <1>5
  <2>2. ctl' \in [Control -> Request] /\ Requests'
    BY <2>1, <1>2 DEF CtlRequest, CtlPc
  <2> QED
    BY <2>1, <2>2, QueueType DEF CtlRequest, Enqueue, IInv, DataInv, TypeOK, LoopLocals, RecordOfRun,
                            CompletedRecordIsTerminal, HasExecution
<1>6. CASE CtlReject(c)
  <2>1. ctl' \in [Control -> Request] /\ Requests'
    BY <1>6, <1>2, <1>3 DEF CtlReject
  <2> QED
    BY <1>6, <2>1, <1>4 DEF CtlReject, IInv, DataInv, TypeOK, LoopLocals, RecordOfRun,
                            CompletedRecordIsTerminal, HasExecution
<1>7. CASE CtlLoad(c)
  <2>1. ctl[c].action \in CtlAction /\ rec \in Execution
    BY <1>7, RecordExists DEF CtlLoad, Changes, IInv, DataInv, Requests, TypeOK
  <2>2. rec.done => ctl[c].action = "retry"
    BY <1>7, <2>1, TerminalUnchanged
       DEF CtlLoad, Changes, IInv, DataInv, CompletedRecordIsTerminal, HasExecution
  <2> DEFINE r == [ctl[c] EXCEPT !.pc = "loaded", !.snap = rec]
  <2>3. /\ r \in Request /\ r.action = ctl[c].action /\ r.snap = rec
        /\ ctl' = [ctl EXCEPT ![c] = r]
    BY <1>1, <1>7, <2>1 DEF CtlLoad, CtlPc
  <2> HIDE DEF r
  <2>4. ctl' \in [Control -> Request] /\ Requests'
    BY <1>2, <2>1, <2>2, <2>3
  <2> QED
    BY <1>7, <2>4 DEF CtlLoad, IInv, DataInv, TypeOK, LoopLocals, RecordOfRun,
                      CompletedRecordIsTerminal, HasExecution
<1>8. CASE CtlSave(c)
  <2>1. /\ ctl[c].action \in CtlAction /\ ctl[c].snap \in Execution
        /\ ctl[c].snap.done => ctl[c].action = "retry"
    BY <1>8 DEF CtlSave, IInv, DataInv, Requests
  <2>2. rec' \in Execution /\ ~rec'.done
    BY <1>8, <2>1, MutatedType DEF CtlSave
  <2> DEFINE r == [ctl[c] EXCEPT !.pc = "saved", !.snap = NoExecution]
  <2>3. /\ r \in Request /\ r.action = ctl[c].action /\ r.pc = "saved"
        /\ ctl' = [ctl EXCEPT ![c] = r]
    BY <1>1, <1>8, <2>1 DEF CtlSave, CtlPc
  <2> HIDE DEF r
  <2>4. ctl' \in [Control -> Request] /\ Requests'
    BY <1>2, <2>1, <2>3
  <2> QED
    BY <1>8, <2>2, <2>4 DEF CtlSave, IInv, DataInv, TypeOK, LoopLocals, RecordOfRun,
                            CompletedRecordIsTerminal, HasExecution
<1>9. CASE CtlDone(c)
  <2>1. ctl' \in [Control -> Request] /\ Requests'
    BY <1>9, <1>2, <1>3 DEF CtlDone
  <2>2. aborted' \in BOOLEAN
    BY <1>9 DEF CtlDone, RequestAbort, IInv, DataInv, TypeOK
  <2>3. LockHeldBy(c)
    BY <1>9 DEF CtlDone, IInv, HolderIsFirst
  <2> QED
    BY <1>9, <2>1, <2>2, <2>3, <1>4 DEF CtlDone, IInv, DataInv, TypeOK, LoopLocals, RecordOfRun,
                            CompletedRecordIsTerminal, HasExecution
<1>10. CASE CtlStoreFault(c)
  <2>1. ctl' \in [Control -> Request] /\ Requests'
    BY <1>10, <1>2, <1>3 DEF CtlStoreFault
  <2> QED
    BY <1>10, <2>1, <1>4 DEF CtlStoreFault, IInv, DataInv, TypeOK, LoopLocals, RecordOfRun,
                             CompletedRecordIsTerminal, HasExecution
<1> QED
  BY <1>5, <1>6, <1>7, <1>8, <1>9, <1>10 DEF CtlStep

(* Returning, shutdown, a crash and a failing store.                        *)
LEMMA EnvironmentStep ==
    ASSUME IInv, Release \/ Shutdown \/ Crash \/ LoopStoreFault
    PROVE  DataInv'
<1> USE DEF LoopPc, RunningPc, TaskPc
<1>1. NoHand \in [task : Task \cup {0}, outcome : Outcome]
  BY DEF NoHand, Outcome
<1>2. CASE Release
  BY <1>1, <1>2 DEF Release, IInv, DataInv, TypeOK, LoopLocals, RecordOfRun, Requests,
                    CompletedRecordIsTerminal, HasExecution
<1>3. CASE Shutdown
  BY <1>3 DEF Shutdown, RequestAbort, IInv, DataInv, TypeOK, LoopLocals, RecordOfRun, Requests,
              CompletedRecordIsTerminal, HasExecution
<1>4. CASE Crash
  <2>1. ctl' \in [Control -> [pc : CtlPc, action : CtlAction \cup {"none"},
                              snap : Execution \cup {NoExecution}]]
    BY <1>4 DEF Crash, IdleCtl, CtlPc
  <2>2. Requests'
    BY <1>4 DEF Crash, IdleCtl, Requests
  <2>3. queue' \in Seq(Control \cup {"loop"})
    BY <1>4 DEF Crash
  <2> QED
    BY <1>1, <1>4, <2>1, <2>2, <2>3
       DEF Crash, IInv, DataInv, TypeOK, LoopLocals, RecordOfRun, CompletedRecordIsTerminal, HasExecution
<1>5. CASE LoopStoreFault
  <2>1. queue' \in Seq(Control \cup {"loop"})
    <3> DEFINE S == Control \cup {"loop"}
    <3>1. queue \in Seq(S) /\ "loop" \in S
      BY DEF IInv, DataInv, TypeOK
    <3>2. \/ queue' = queue
          \/ queue # <<>> /\ queue' = Tail(queue)
          \/ queue # <<>> /\ queue' = Append(Tail(queue), "loop")
      BY <1>5 DEF LoopStoreFault, LockHeldBy, Unlock
    <3> QED
      BY <3>1, <3>2, QueueType
  <2>2. CASE loop' = "exit" /\ hand' = NoHand
    BY <1>1, <1>5, <2>1, <2>2
       DEF LoopStoreFault, IInv, DataInv, TypeOK, LoopLocals, RecordOfRun, Requests,
           CompletedRecordIsTerminal, HasExecution
  <2>3. CASE loop' = loop /\ loop = "reconcile" /\ hand' = [hand EXCEPT !.outcome = "threw"]
    <3>1. /\ hand' \in [task : Task \cup {0}, outcome : Outcome]
          /\ hand'.task = hand.task /\ hand'.outcome = "threw"
      BY <2>3 DEF Outcome, IInv, DataInv, TypeOK
    <3> QED
      BY <1>5, <2>1, <2>3, <3>1
         DEF LoopStoreFault, IInv, DataInv, TypeOK, LoopLocals, RecordOfRun, Requests,
             CompletedRecordIsTerminal, HasExecution
  <2> QED
    BY <1>5, <2>2, <2>3 DEF LoopStoreFault
<1> QED
  BY <1>2, <1>3, <1>4, <1>5

(* The lock: whoever leaves it is first in the FIFO, whoever arrives goes   *)
(* behind, so a request that has loaded stays first until it unlocks.       *)
LEMMA LockStep ==
    ASSUME IInv, [Next]_vars
    PROVE  HolderIsFirst'
<1> SUFFICES ASSUME NEW c \in Control, ctl'[c].pc \in {"loaded", "saved"}
             PROVE  LockHeldBy(c)'
  BY DEF HolderIsFirst
<1>1. queue \in Seq(Control \cup {"loop"}) /\ c # "loop"
  BY LoopAssumption DEF IInv, DataInv, TypeOK
<1>2. ctl \in [Control -> [pc : CtlPc, action : CtlAction \cup {"none"},
                           snap : Execution \cup {NoExecution}]]
  BY DEF IInv, DataInv, TypeOK
<1>3. ctl[c].pc \in {"loaded", "saved"} => queue # <<>> /\ Head(queue) = c
  BY DEF IInv, HolderIsFirst, LockHeldBy
<1>4. CASE UNCHANGED <<ctl, queue>>
  BY <1>3, <1>4 DEF LockHeldBy
<1>5. CASE UNCHANGED ctl /\ Enqueue("loop")
  BY <1>1, <1>3, <1>5, QueueOrder DEF LockHeldBy, Enqueue
<1>6. CASE UNCHANGED ctl /\ LockHeldBy("loop")
  BY <1>1, <1>3, <1>6 DEF LockHeldBy
<1>7. ASSUME NEW d \in Control, NEW a \in CtlAction, CtlRequest(d, a)
      PROVE  LockHeldBy(c)'
  <2>1. ctl'[c] = ctl[c]
    BY <1>2, <1>7 DEF CtlRequest
  <2> QED
    BY <1>1, <1>3, <1>7, <2>1, QueueOrder DEF CtlRequest, LockHeldBy, Enqueue
<1>8. ASSUME NEW d \in Control, CtlStep(d) \/ CtlStoreFault(d)
      PROVE  LockHeldBy(c)'
  <2>1. LockHeldBy(d)
    BY <1>8 DEF CtlStep, CtlReject, CtlLoad, CtlSave, CtlDone, CtlStoreFault, IInv, HolderIsFirst
  <2>2. CASE d = c
    <3>1. CASE CtlLoad(c) \/ CtlSave(c)
      BY <2>1, <2>2, <3>1 DEF CtlLoad, CtlSave, LockHeldBy
    <3>2. CASE CtlReject(c) \/ CtlDone(c) \/ CtlStoreFault(c)
      <4>1. ctl[c] \in [pc : CtlPc, action : CtlAction \cup {"none"},
                        snap : Execution \cup {NoExecution}]
        BY DEF IInv, DataInv, TypeOK
      <4>2. ctl'[c].pc = "idle"
        BY <1>2, <3>2, <4>1 DEF CtlReject, CtlDone, CtlStoreFault, Answered, IdleCtl
      <4> QED
        BY <1>2, <4>2
    <3> QED
      BY <1>8, <2>2, <3>1, <3>2 DEF CtlStep
  <2>3. CASE d # c
    <3>1. ctl'[c] = ctl[c]
      BY <1>2, <1>8, <2>3
         DEF CtlStep, CtlReject, CtlLoad, CtlSave, CtlDone, CtlStoreFault
    <3> QED
      BY <1>3, <2>1, <2>3, <3>1 DEF LockHeldBy
  <2> QED
    BY <2>2, <2>3
<1>9. CASE Crash
  BY <1>9 DEF Crash, IdleCtl
<1>10. CASE LoopStep
  BY <1>4, <1>5, <1>6, <1>10
     DEF LoopStep, Plan, LoadForResume, SaveInitial, SaveUnlocked, ObserveAbort, PickTask,
         ReturnUnfinished, Complete, SaveCompletion, StopForAbort, FailForLimit, MarkActive,
         ReconcileAfterTask, LoopLocked, ExecuteAnalysis, ExecuteEdit, ValidationPasses,
         ValidationThrows, ValidationFails, Deliver, SaveRepairing, RefuseRepair,
         BeginRepairEdit, FinishRepairEdit, SaveRepaired, Release
<1>11. CASE Environment
  BY <1>4, <1>5, <1>6, <1>7, <1>8, <1>9, <1>11
     DEF Environment, Start, Resume, ExceedLimit, Shutdown, LoopStoreFault, RepairStoreFault
<1> QED
  BY <1>4, <1>8, <1>10, <1>11 DEF Next, vars

(* Every step of the mission keeps the inductive invariant.                 *)
LEMMA NextIInv == IInv /\ [Next]_vars => IInv'
<1> SUFFICES ASSUME IInv, [Next]_vars PROVE DataInv'
  BY LockStep DEF IInv
<1>1. CASE LoopStep
  BY <1>1, EntryStep, TopStep, LockedStep, WorkStep, RepairStep, EnvironmentStep DEF LoopStep
<1>2. CASE \E c \in Control : CtlStep(c)
  BY <1>2, RequestStep
<1>3. CASE Environment
  BY <1>3, EntryStep, TopStep, RequestStep, RepairStep, EnvironmentStep DEF Environment
<1>4. CASE UNCHANGED vars
  BY <1>4 DEF vars, IInv, DataInv, TypeOK, LoopLocals, RecordOfRun, Requests,
              CompletedRecordIsTerminal, HasExecution
<1> QED
  BY <1>1, <1>2, <1>3, <1>4 DEF Next

(* The inductive invariant holds of every behaviour.                        *)
LEMMA Invariance == Spec => []IInv
BY InitIInv, NextIInv, PTL DEF Spec

(* Type correctness: records, repair attempts, the lock's FIFO and every    *)
(* local variable stay in their ranges for every number of tasks, repairs   *)
(* and requests, through crashes, failing stores and restarts.              *)
THEOREM TypeCorrect == Spec => []TypeOK
<1>1. IInv => TypeOK
  BY DEF IInv, DataInv
<1> QED
  BY <1>1, Invariance, PTL

(* completedAt is never written over unfinished work: a record that says    *)
(* completed has only terminal tasks, although half of the loop's saves     *)
(* bypass the lock and operators save snapshots they took earlier.          *)
THEOREM CompletedIsTerminal == Spec => []CompletedRecordIsTerminal
<1>1. IInv => CompletedRecordIsTerminal
  BY DEF IInv, DataInv
<1> QED
  BY <1>1, Invariance, PTL

-----------------------------------------------------------------------------
(* What is in flight.                                                       *)

NoneActive(e) == \A t \in Task : e.state[t] \notin Active
OnlyActive(e, u) == \A t \in Task : e.state[t] \in Active => t = u
DependenciesMet(e, t) == \A d \in Deps(t) : e.state[d] = "completed"

BetweenPc == {"top", "stop", "limit", "finish", "mark"}
InTaskPc == {"execute", "reconcile", "saveRepairing", "repair", "edit"}
RepairPc == {"saveRepairing", "repair", "edit", "saveRepaired"}

(* Only a validation is repaired.                                          *)
RepairsValidation == loop \in RepairPc => hand.task \in Validation

(* The loop's copy: nothing in flight between tasks, the task in hand       *)
(* within one.  A repair is saved with nothing in flight.                   *)
MemoryInFlight ==
    /\ loop \in {"saving", "saveRepaired"} => NoneActive(mem)
    /\ loop \in BetweenPc => NoneActive(mem) /\ NoneActive(rec)
    /\ loop \in InTaskPc => OnlyActive(mem, hand.task)
    /\ loop \in InTaskPc \cup {"saveRepaired"} => OnlyActive(rec, hand.task)

(* The record, which requests may have changed since the loop read it: the  *)
(* task in hand is in the state the loop put it in or no longer in flight,  *)
(* and what the loop believes completed is.                                 *)
RecordInFlight ==
    /\ HasExecution => \A t, u \in Task :
          rec.state[t] \in Active /\ rec.state[u] \in Active => t = u
    /\ loop \in {"execute", "reconcile"} /\ rec.state[hand.task] \in Active =>
          rec.state[hand.task] = ActiveState(hand.task)
    /\ loop = "top" => CompletedTasks(mem) \subseteq CompletedTasks(rec)
    /\ loop \in {"mark", "execute", "saveRepairing"} => DependenciesMet(rec, hand.task)

InFlight == ~restored => MemoryInFlight /\ RecordInFlight

-----------------------------------------------------------------------------
(* What the operators that compute an execution do to each task.            *)

(* updateTask writes one task's state.                                      *)
LEMMA SetStateStates ==
    ASSUME NEW e \in Execution, NEW t \in Task, NEW s \in TaskState
    PROVE  \A u \in Task : SetState(e, t, s).state[u] = IF u = t THEN s ELSE e.state[u]
BY DEF SetState, Execution

(* So does applyTaskResult.                                                 *)
LEMMA ApplyTaskResultStates ==
    ASSUME NEW e \in Execution, NEW t \in Task, NEW s \in TaskState
    PROVE  \A u \in Task : ApplyTaskResult(e, t, s).state[u] = IF u = t THEN s ELSE e.state[u]
BY DEF ApplyTaskResult, Execution

(* After an exception the task is ready again or failed.                    *)
LEMMA ApplyExceptionStates ==
    ASSUME NEW e \in Execution, NEW t \in Task
    PROVE  /\ ApplyException(e, t).state[t] \in {"ready", "failed"}
           /\ \A u \in Task : u # t => ApplyException(e, t).state[u] = e.state[u]
<1> DEFINE s == IF e.attempts[t] + 1 < MaxAttempts(t) THEN "ready" ELSE "failed"
<1>1. s \in {"ready", "failed"} /\ s \in TaskState
  BY DEF TaskState
<1>2. ApplyException(e, t) = ApplyTaskResult(e, t, s)
  BY DEF ApplyException, ApplyTaskResult
<1> HIDE DEF s
<1> QED
  BY <1>1, <1>2, ApplyTaskResultStates

(* What a task's result does to the reloaded record: nothing when the task  *)
(* is not in flight there any more, else it settles the task.               *)
LEMMA ReconciledWithStates ==
    ASSUME NEW e \in Execution, NEW t \in Task, NEW o \in EditOutcome \cup {"threw"}
    PROVE  /\ \A u \in Task : u # t => ReconciledWith(e, t, o).state[u] = e.state[u]
           /\ e.state[t] # ActiveState(t) => ReconciledWith(e, t, o).state[t] = e.state[t]
           /\ e.state[t] = ActiveState(t) =>
                 ReconciledWith(e, t, o).state[t]
                    \in IF o = "threw" THEN {"ready", "failed"} ELSE {o}
<1>1. o # "threw" => o \in TaskState
  BY DEF EditOutcome, TaskState
<1> QED
  BY <1>1, ApplyExceptionStates, ApplyTaskResultStates DEF ReconciledWith

(* f has no task in flight that e had not in the same state, and the        *)
(* completed tasks of e.                                                    *)
Calms(e, f) ==
    \A t \in Task :
        /\ f.state[t] \in Active => f.state[t] = e.state[t]
        /\ f.state[t] = "completed" <=> e.state[t] = "completed"

(* Operator requests only calm: pause interrupts, cancel cancels, and retry *)
(* makes what failed ready or queued.                                       *)
LEMMA MutatedCalms ==
    ASSUME NEW e \in Execution, NEW a \in CtlAction
    PROVE  Calms(e, Mutated(e, a))
<1>1. a \in {"pause", "cancel", "retry"}
  BY CtlActionAssumption
<1>2. \A t \in Task : Mutated(e, a).state[t] = ControlState(a, t, e.state[t])
  BY DEF Mutated, Execution
<1>3. \A t \in Task : e.state[t] \in TaskState
  BY DEF Execution
<1> QED
  BY <1>1, <1>2, <1>3 DEF Calms, ControlState, RetryState, Active, Pending, TaskState

(* reconcileGraph leaves nothing in flight.                                 *)
LEMMA ReconcileGraphCalms ==
    ASSUME NEW e \in Execution
    PROVE  Calms(e, ReconcileGraph(e)) /\ NoneActive(ReconcileGraph(e))
<1>1. \A t \in Task : ReconcileGraph(e).state[t] = ReconcileState(e.state[t])
  BY DEF ReconcileGraph, Execution
<1> QED
  BY <1>1 DEF Calms, NoneActive, ReconcileState, Active

(* An observed abort interrupts what is unfinished.                         *)
LEMMA StopForAbortCalms ==
    ASSUME NEW e \in Execution
    PROVE  Calms(e, StopForAbortOf(e))
<1>1. \A t \in Task : StopForAbortOf(e).state[t] \in {e.state[t], StopState(e.state[t])}
  BY DEF StopForAbortOf, Execution
<1> QED
  BY <1>1 DEF Calms, StopState, Terminal, Active

(* An exceeded limit fails it.                                              *)
LEMMA FailRemainingCalms ==
    ASSUME NEW e \in Execution
    PROVE  Calms(e, FailRemaining(e))
<1>1. \A t \in Task : FailRemaining(e).state[t] = FailState(e.state[t])
  BY DEF FailRemaining, Execution
<1> QED
  BY <1>1 DEF Calms, FailState, Terminal, Active

(* What calming preserves.                                                  *)
LEMMA CalmFacts ==
    ASSUME NEW e, NEW f, Calms(e, f)
    PROVE  /\ NoneActive(e) => NoneActive(f)
           /\ \A u : OnlyActive(e, u) => OnlyActive(f, u)
           /\ CompletedTasks(f) = CompletedTasks(e)
BY DEF Calms, NoneActive, OnlyActive, CompletedTasks

(* A repair that succeeded requeues every validation, one that did not      *)
(* settles the validation it was for: nothing stays in flight.              *)
LEMMA ResetValidationChainStates ==
    ASSUME NEW e \in Execution
    PROVE  /\ \A t \in Validation : ResetValidationChain(e).state[t] \in {"ready", "queued"}
           /\ \A t \in Task \ Validation : ResetValidationChain(e).state[t] = e.state[t]
<1> DEFINE C == CompletedTasks(e) \ Validation
<1>1. ResetValidationChain(e) = [e EXCEPT !.state = [t \in Task |->
            IF t \notin Validation THEN e.state[t]
            ELSE IF Deps(t) \subseteq C THEN "ready" ELSE "queued"]]
  BY DEF ResetValidationChain
<1> HIDE DEF C
<1>2. \A t \in Task : ResetValidationChain(e).state[t] =
            IF t \notin Validation THEN e.state[t]
            ELSE IF Deps(t) \subseteq C THEN "ready" ELSE "queued"
  BY <1>1 DEF Execution
<1> QED
  BY <1>2 DEF Validation

(* ... and so does the settling of a repair.                               *)
LEMMA AfterRepairInactive ==
    ASSUME NEW e \in Execution, NEW t \in Validation, NEW o \in EditOutcome, OnlyActive(e, t)
    PROVE  NoneActive(AfterRepair(e, t, o))
<1>1. t \in Task /\ o \in TaskState /\ o \notin Active
  BY DEF Validation, EditOutcome, TaskState, Active
<1>2. o # "completed" => \A u \in Task :
           AfterRepair(e, t, o).state[u] = IF u = t THEN o ELSE e.state[u]
  BY <1>1, SetStateStates DEF AfterRepair
<1>3. o = "completed" => AfterRepair(e, t, o) = ResetValidationChain(e)
  BY DEF AfterRepair
<1> QED
  BY <1>1, <1>2, <1>3, ResetValidationChainStates DEF NoneActive, OnlyActive, Active

-----------------------------------------------------------------------------
(* The steps keep what is in flight.                                        *)

Quiet == MemoryInFlight /\ RecordInFlight

(* Entering a run.                                                          *)
LEMMA EntryInFlight ==
    ASSUME IInv, Quiet, Start \/ Plan \/ Resume \/ LoadForResume \/ SaveInitial
    PROVE  Quiet'
<1> USE DEF Quiet, BetweenPc, InTaskPc
<1>1. CASE Start \/ Resume
  BY <1>1 DEF Start, Resume, MemoryInFlight, RecordInFlight, HasExecution
<1>2. CASE Plan \/ LoadForResume
  <2>1. loop' = "saving" => NoneActive(mem')
    BY <1>2, PlannedType, RecordExists, ReconcileGraphCalms
       DEF Plan, LoadForResume, Resumable, IInv, DataInv, TypeOK
  <2> QED
    BY <1>2, <2>1 DEF Plan, LoadForResume, MemoryInFlight, RecordInFlight, HasExecution
<1>3. CASE SaveInitial
  <2>1. NoneActive(mem) /\ rec' = mem /\ mem' = mem /\ loop' = "top"
    BY <1>3 DEF SaveInitial, SaveUnlocked, MemoryInFlight
  <2>2. NoneActive(rec') /\ NoneActive(mem')
    BY <2>1
  <2>3. MemoryInFlight'
    BY <2>1, <2>2 DEF MemoryInFlight
  <2>4. RecordInFlight'
    BY <2>1, <2>2 DEF RecordInFlight, NoneActive
  <2> QED
    BY <2>3, <2>4
<1> QED
  BY <1>1, <1>2, <1>3

(* The top of the loop, and the saves outside the lock.                     *)
LEMMA TopInFlight ==
    ASSUME IInv, Quiet,
           \/ ObserveAbort \/ ExceedLimit \/ PickTask \/ ReturnUnfinished
           \/ Complete \/ SaveCompletion \/ SaveRepairing \/ SaveRepaired
    PROVE  Quiet'
<1> USE DEF Quiet, BetweenPc, InTaskPc
<1>1. CASE ObserveAbort \/ ExceedLimit \/ ReturnUnfinished
  BY <1>1 DEF ObserveAbort, ExceedLimit, ReturnUnfinished, MemoryInFlight, RecordInFlight,
              HasExecution
<1>2. CASE PickTask
  <2>1. hand'.task \in Task /\ DependenciesMet(rec, hand'.task)
    <3>1. PICK t \in Task : IsNext(mem, t) /\ hand' = [task |-> t, outcome |-> "none"]
      BY <1>2 DEF PickTask
    <3>2. Deps(t) \subseteq CompletedTasks(mem) /\ CompletedTasks(mem) \subseteq CompletedTasks(rec)
      BY <1>2, <3>1 DEF PickTask, IsNext, Runnable, RecordInFlight
    <3> QED
      BY <3>1, <3>2 DEF DependenciesMet, CompletedTasks
  <2> QED
    BY <1>2, <2>1 DEF PickTask, MemoryInFlight, RecordInFlight, DependenciesMet, HasExecution
<1>3. CASE Complete
  <2>1. mem' = [mem EXCEPT !.done = TRUE] /\ mem \in Execution /\ NoneActive(mem)
    BY <1>3 DEF Complete, MemoryInFlight, RunningPc, IInv, DataInv, LoopLocals
  <2>2. mem'.state = mem.state
    BY <2>1 DEF Execution
  <2>3. NoneActive(mem')
    BY <2>1, <2>2 DEF NoneActive
  <2> QED
    BY <1>3, <2>3 DEF Complete, MemoryInFlight, RecordInFlight, HasExecution
<1>4. CASE SaveCompletion
  <2>1. NoneActive(mem) /\ rec' = mem /\ loop' = "exit"
    BY <1>4 DEF SaveCompletion, SaveUnlocked, MemoryInFlight
  <2> QED
    BY <2>1 DEF MemoryInFlight, RecordInFlight, NoneActive
<1>5. CASE SaveRepairing
  <2>1. /\ OnlyActive(mem, hand.task) /\ rec' = mem /\ mem' = mem /\ loop' = "repair"
        /\ hand' = hand
    BY <1>5 DEF SaveRepairing, SaveUnlocked, MemoryInFlight
  <2>2. MemoryInFlight'
    BY <2>1 DEF MemoryInFlight, OnlyActive
  <2>3. RecordInFlight'
    BY <2>1 DEF RecordInFlight, OnlyActive
  <2> QED
    BY <2>2, <2>3
<1>6. CASE SaveRepaired
  <2>1. NoneActive(mem) /\ rec' = mem /\ mem' = mem /\ loop' = "top"
    BY <1>6 DEF SaveRepaired, SaveUnlocked, MemoryInFlight
  <2>2. MemoryInFlight'
    BY <2>1 DEF MemoryInFlight, NoneActive
  <2>3. RecordInFlight'
    BY <2>1 DEF RecordInFlight, NoneActive
  <2> QED
    BY <2>2, <2>3
<1> QED
  BY <1>1, <1>2, <1>3, <1>4, <1>5, <1>6

(* The sections under the lock.                                             *)
LEMMA LockedInFlight ==
    ASSUME IInv, Quiet, StopForAbort \/ FailForLimit \/ MarkActive \/ ReconcileAfterTask
    PROVE  Quiet'
<1> USE DEF Quiet, BetweenPc, InTaskPc
<1>1. rec \in Execution
  BY DEF StopForAbort, FailForLimit, MarkActive, ReconcileAfterTask, LoopLocked,
         RunningPc, IInv, DataInv, RecordOfRun
<1>2. CASE StopForAbort \/ FailForLimit
  <2>1. PICK f : Calms(rec, f) /\ rec' = f /\ loop' = "exit"
    BY <1>1, <1>2, StopForAbortCalms, FailRemainingCalms DEF StopForAbort, FailForLimit, LoopLocked
  <2>2. NoneActive(rec)
    BY <1>2 DEF StopForAbort, FailForLimit, LoopLocked, MemoryInFlight
  <2>3. NoneActive(rec')
    BY <2>1, <2>2, CalmFacts
  <2> QED
    BY <2>1, <2>3 DEF MemoryInFlight, RecordInFlight, NoneActive
<1>3. CASE MarkActive
  <2>1. PICK t \in Task : hand.task = t
    BY <1>3 DEF MarkActive, LoopLocked, TaskPc, IInv, DataInv, LoopLocals
  <2>2. /\ NoneActive(rec) /\ DependenciesMet(rec, t)
        /\ rec' = SetState(rec, t, ActiveState(t)) /\ mem' = rec' /\ loop' = "execute"
        /\ hand' = hand
    BY <1>3, <2>1 DEF MarkActive, LoopLocked, MemoryInFlight, RecordInFlight
  <2>3. ActiveState(t) \in TaskState /\ ActiveState(t) # "completed"
    BY DEF ActiveState, TaskState
  <2>4. \A u \in Task : rec'.state[u] = IF u = t THEN ActiveState(t) ELSE rec.state[u]
    BY <1>1, <2>2, <2>3, SetStateStates
  <2>5. OnlyActive(rec', t) /\ OnlyActive(mem', t)
    BY <2>2, <2>4 DEF OnlyActive, NoneActive
  <2>6. t \notin Deps(t) /\ Deps(t) \subseteq Task
    BY DEF Deps, Task, EditTask
  <2>7. DependenciesMet(rec', t)
    BY <2>2, <2>4, <2>6 DEF DependenciesMet
  <2>8. MemoryInFlight'
    BY <2>1, <2>2, <2>5 DEF MemoryInFlight
  <2>9. RecordInFlight'
    BY <2>1, <2>2, <2>4, <2>5, <2>7 DEF RecordInFlight, OnlyActive
  <2> QED
    BY <2>8, <2>9
<1>4. CASE ReconcileAfterTask
  <2>1. PICK t \in Task, o \in EditOutcome \cup {"threw"} : hand.task = t /\ hand.outcome = o
    BY <1>4 DEF ReconcileAfterTask, LoopLocked, TaskPc, IInv, DataInv, LoopLocals
  <2>2. /\ OnlyActive(rec, t)
        /\ rec.state[t] \in Active => rec.state[t] = ActiveState(t)
        /\ rec' = ReconciledWith(rec, t, o) /\ mem' = rec' /\ loop' = "top"
    BY <1>4, <2>1 DEF ReconcileAfterTask, LoopLocked, MemoryInFlight, RecordInFlight
  <2>3. /\ \A u \in Task : u # t => rec'.state[u] = rec.state[u]
        /\ rec'.state[t] \notin Active
    BY <1>1, <2>2, ReconciledWithStates DEF EditOutcome, Active
  <2>4. NoneActive(rec') /\ NoneActive(mem')
    BY <2>2, <2>3 DEF NoneActive, OnlyActive
  <2>5. MemoryInFlight'
    BY <2>2, <2>4 DEF MemoryInFlight
  <2>6. RecordInFlight'
    BY <2>2, <2>4 DEF RecordInFlight, NoneActive
  <2> QED
    BY <2>5, <2>6
<1> QED
  BY <1>2, <1>3, <1>4

(* The work of a task: the record is left alone, and a validation that      *)
(* failed is in flight in memory.                                           *)
LEMMA WorkInFlight ==
    ASSUME IInv, Quiet,
           \/ ExecuteAnalysis
           \/ \E o \in EditOutcome \cup {"threw"} : ExecuteEdit(o)
           \/ ValidationPasses \/ ValidationThrows \/ ValidationFails
    PROVE  Quiet'
<1> USE DEF Quiet, BetweenPc, InTaskPc
<1>1. CASE ~ValidationFails
  <2>1. /\ loop = "execute" /\ loop' = "reconcile" /\ rec' = rec /\ mem' = mem
        /\ hand'.task = hand.task
    BY <1>1 DEF ExecuteAnalysis, ExecuteEdit, ValidationPasses, ValidationThrows, Deliver,
                IInv, DataInv, TypeOK
  <2> QED
    BY <2>1 DEF MemoryInFlight, RecordInFlight, HasExecution
<1>2. CASE ValidationFails
  <2>1. PICK t \in Validation : hand.task = t
    BY <1>2 DEF ValidationFails
  <2>2. /\ loop = "execute" /\ loop' = "saveRepairing" /\ rec' = rec /\ hand' = hand
        /\ mem' = ApplyTaskResult(mem, t, "repairing")
    BY <1>2, <2>1 DEF ValidationFails
  <2>3. mem \in Execution /\ OnlyActive(mem, t)
    BY <2>1, <2>2 DEF MemoryInFlight, IInv, DataInv, LoopLocals, RunningPc
  <2>4. t \in Task /\ "repairing" \in TaskState
    BY DEF Validation, TaskState
  <2>5. \A u \in Task : mem'.state[u] = IF u = t THEN "repairing" ELSE mem.state[u]
    BY <2>2, <2>3, <2>4, ApplyTaskResultStates
  <2>6. OnlyActive(mem', t)
    BY <2>3, <2>5 DEF OnlyActive
  <2> QED
    BY <2>1, <2>2, <2>6 DEF MemoryInFlight, RecordInFlight, HasExecution
<1> QED
  BY <1>1, <1>2

(* A repair, however it ends, leaves nothing in flight in memory.           *)
LEMMA RepairInFlight ==
    ASSUME IInv, Quiet, RepairsValidation,
           \/ RefuseRepair \/ BeginRepairEdit
           \/ \E o \in EditOutcome : FinishRepairEdit(o)
           \/ RepairStoreFault
    PROVE  Quiet'
<1> USE DEF Quiet, BetweenPc, InTaskPc
<1>1. PICK t \in Validation : hand.task = t
  BY DEF RefuseRepair, BeginRepairEdit, FinishRepairEdit, RepairStoreFault,
         RepairsValidation, RepairPc
<1>2. mem \in Execution /\ OnlyActive(mem, t) /\ t \in Task
  BY <1>1 DEF RefuseRepair, BeginRepairEdit, FinishRepairEdit, RepairStoreFault, MemoryInFlight,
              IInv, DataInv, LoopLocals, RunningPc, Validation
<1>3. CASE BeginRepairEdit
  BY <1>3 DEF BeginRepairEdit, MemoryInFlight, RecordInFlight, HasExecution
<1>4. CASE ~BeginRepairEdit
  <2>1. /\ loop \in {"repair", "edit"} /\ loop' = "saveRepaired" /\ rec' = rec /\ hand' = hand
        /\ \/ mem' = SetState(mem, t, "failed")
           \/ \E o \in EditOutcome : mem' = AfterRepair(mem, t, o)
    BY <1>1, <1>4 DEF RefuseRepair, FinishRepairEdit, RepairStoreFault
  <2>2. "failed" \in EditOutcome /\ AfterRepair(mem, t, "failed") = SetState(mem, t, "failed")
    BY DEF EditOutcome, AfterRepair
  <2>3. NoneActive(mem')
    BY <1>2, <2>1, <2>2, AfterRepairInactive
  <2> QED
    BY <2>1, <2>3 DEF MemoryInFlight, RecordInFlight, HasExecution
<1> QED
  BY <1>3, <1>4

(* Requests: one that saves what it loaded calms the record.                *)
LEMMA RequestInFlight ==
    ASSUME IInv, Quiet, ~restored', NEW c \in Control,
           \/ \E a \in CtlAction : CtlRequest(c, a)
           \/ CtlStep(c) \/ CtlStoreFault(c)
    PROVE  Quiet'
<1> USE DEF Quiet, BetweenPc, InTaskPc
<1>1. CASE UNCHANGED <<rec, mem, loop, hand>>
  BY <1>1 DEF MemoryInFlight, RecordInFlight, HasExecution
<1>2. CASE CtlSave(c)
  <2>1. PICK a \in CtlAction : ctl[c].action = a
    BY <1>2 DEF CtlSave, IInv, DataInv, Requests
  <2>2. rec = ctl[c].snap /\ rec \in Execution
    BY <1>2 DEF CtlSave, IInv, DataInv, Requests, TypeOK
  <2>3. PICK f : Calms(rec, f) /\ rec' = f
    BY <1>2, <2>1, <2>2, MutatedCalms DEF CtlSave
  <2>4. UNCHANGED <<mem, loop, hand>> /\ HasExecution
    BY <1>2, <2>2 DEF CtlSave, HasExecution, NoExecution, Execution
  <2>5. /\ NoneActive(rec) => NoneActive(rec')
        /\ OnlyActive(rec, hand.task) => OnlyActive(rec', hand.task)
        /\ CompletedTasks(rec') = CompletedTasks(rec)
    BY <2>3, CalmFacts
  <2>6. MemoryInFlight'
    BY <2>4, <2>5 DEF MemoryInFlight
  <2>7. \A t \in Task : rec'.state[t] \in Active => rec'.state[t] = rec.state[t]
    BY <2>3 DEF Calms
  <2>8. \A t, u \in Task : rec'.state[t] \in Active /\ rec'.state[u] \in Active => t = u
    BY <2>4, <2>7 DEF RecordInFlight
  <2>9. loop \in TaskPc => hand.task \in Task
    BY DEF IInv, DataInv, LoopLocals
  <2>10. \A t \in Task : DependenciesMet(rec, t) => DependenciesMet(rec', t)
    <3>1. \A t \in Task : Deps(t) \subseteq Task
      BY DEF Deps, Task, EditTask
    <3> QED
      BY <2>3, <3>1 DEF Calms, DependenciesMet
  <2>11. RecordInFlight'
    BY <2>4, <2>5, <2>7, <2>8, <2>9, <2>10 DEF RecordInFlight, TaskPc
  <2> QED
    BY <2>6, <2>11
<1> QED
  BY <1>1, <1>2 DEF CtlRequest, CtlStep, CtlReject, CtlLoad, CtlDone, CtlStoreFault

(* Returning, shutdown, a crash and a failing store.                        *)
LEMMA EnvironmentInFlight ==
    ASSUME IInv, Quiet, Release \/ Shutdown \/ Crash \/ LoopStoreFault
    PROVE  Quiet'
<1> USE DEF Quiet, BetweenPc, InTaskPc
<1>1. CASE Release \/ Shutdown \/ Crash
  BY <1>1 DEF Release, Shutdown, Crash, MemoryInFlight, RecordInFlight, HasExecution
<1>2. CASE LoopStoreFault
  <2>1. /\ rec' = rec /\ mem' = mem
        /\ \/ loop' = "exit"
           \/ loop' = loop /\ loop = "reconcile" /\ hand'.task = hand.task
    BY <1>2 DEF LoopStoreFault, IInv, DataInv, TypeOK
  <2> QED
    BY <2>1 DEF MemoryInFlight, RecordInFlight, HasExecution
<1> QED
  BY <1>1, <1>2

(* Only a validation is repaired.                                           *)
LEMMA RepairsValidationStep ==
    ASSUME RepairsValidation, [Next]_vars
    PROVE  RepairsValidation'
BY DEF RepairsValidation, RepairPc, Next, LoopStep, CtlStep, Environment, vars,
     Start, Plan, Resume, LoadForResume, SaveInitial, SaveUnlocked, ObserveAbort, ExceedLimit,
     PickTask, ReturnUnfinished, Complete, SaveCompletion, StopForAbort, FailForLimit, MarkActive,
     ReconcileAfterTask, LoopLocked, ExecuteAnalysis, ExecuteEdit, ValidationPasses,
     ValidationThrows, ValidationFails, Deliver, SaveRepairing, RefuseRepair, BeginRepairEdit,
     FinishRepairEdit, RepairStoreFault, SaveRepaired, Release, CtlRequest, CtlReject, CtlLoad,
     CtlSave, CtlDone, Shutdown, Crash, LoopStoreFault, CtlStoreFault

(* Once a request has saved a stale copy the history says so for good.      *)
LEMMA RestoredIsKept == [Next]_vars /\ restored => restored'
BY DEF Next, LoopStep, CtlStep, Environment, vars,
     Start, Plan, Resume, LoadForResume, SaveInitial, SaveUnlocked, ObserveAbort, ExceedLimit,
     PickTask, ReturnUnfinished, Complete, SaveCompletion, StopForAbort, FailForLimit, MarkActive,
     ReconcileAfterTask, LoopLocked, ExecuteAnalysis, ExecuteEdit, ValidationPasses,
     ValidationThrows, ValidationFails, SaveRepairing, RefuseRepair, BeginRepairEdit,
     FinishRepairEdit, RepairStoreFault, SaveRepaired, Release, CtlRequest, CtlReject, CtlLoad,
     CtlSave, CtlDone, Shutdown, Crash, LoopStoreFault, CtlStoreFault

(* The second inductive invariant.                                          *)
FlightInv == IInv /\ RepairsValidation /\ InFlight

LEMMA InitFlightInv == Init => FlightInv
<1> SUFFICES ASSUME Init PROVE RepairsValidation /\ InFlight
  BY InitIInv DEF FlightInv
<1> QED
  BY DEF Init, RepairsValidation, RepairPc, InFlight, MemoryInFlight, RecordInFlight, BetweenPc,
         InTaskPc, HasExecution

LEMMA NextFlightInv == FlightInv /\ [Next]_vars => FlightInv'
<1> SUFFICES ASSUME FlightInv, [Next]_vars PROVE InFlight'
  BY NextIInv, RepairsValidationStep DEF FlightInv
<1> SUFFICES ASSUME ~restored' PROVE Quiet'
  BY DEF InFlight, Quiet
<1>1. IInv /\ Quiet /\ RepairsValidation
  BY RestoredIsKept DEF FlightInv, InFlight, Quiet
<1>2. CASE LoopStep
  BY <1>1, <1>2, EntryInFlight, TopInFlight, LockedInFlight, WorkInFlight, RepairInFlight,
     EnvironmentInFlight DEF LoopStep
<1>3. CASE \E c \in Control : CtlStep(c)
  BY <1>1, <1>3, RequestInFlight
<1>4. CASE Environment
  BY <1>1, <1>4, EntryInFlight, TopInFlight, RequestInFlight, RepairInFlight,
     EnvironmentInFlight DEF Environment
<1>5. CASE UNCHANGED vars
  BY <1>1, <1>5 DEF vars, Quiet, MemoryInFlight, RecordInFlight, HasExecution
<1> QED
  BY <1>2, <1>3, <1>4, <1>5 DEF Next

LEMMA FlightInvariance == Spec => []FlightInv
BY InitFlightInv, NextFlightInv, PTL DEF Spec

(* The executor is sequential: through crashes, failing stores, restarts    *)
(* and operators, the record never shows two tasks in flight, unless a      *)
(* request has saved a stale copy over it.                                  *)
THEOREM OneTaskInFlight == Spec => []AtMostOneActive
<1>1. FlightInv => AtMostOneActive
  BY DEF FlightInv, InFlight, RecordInFlight, AtMostOneActive
<1> QED
  BY <1>1, FlightInvariance, PTL

-----------------------------------------------------------------------------
(* What a step puts in flight.                                              *)

StartedWithDependencies(e, f) ==
    \A t \in Task : (f.state[t] \in Active /\ e.state[t] \notin Active) => DependenciesMet(e, t)

LEMMA StartStep ==
    ASSUME FlightInv, [Next]_vars, HasExecution, ~restored'
    PROVE  rec' = rec \/ StartedWithDependencies(rec, rec')
<1>1. IInv /\ MemoryInFlight /\ RecordInFlight
  BY RestoredIsKept DEF FlightInv, InFlight
<1>2. CASE UNCHANGED rec
  BY <1>2
<1>3. CASE SaveInitial \/ SaveCompletion \/ SaveRepaired
  <2>1. NoneActive(mem) /\ rec' = mem
    BY <1>1, <1>3 DEF SaveInitial, SaveCompletion, SaveRepaired, SaveUnlocked, MemoryInFlight,
                      BetweenPc
  <2> QED
    BY <2>1 DEF NoneActive, StartedWithDependencies
<1>4. CASE SaveRepairing
  <2>1. OnlyActive(mem, hand.task) /\ rec' = mem /\ DependenciesMet(rec, hand.task)
    BY <1>1, <1>4 DEF SaveRepairing, SaveUnlocked, MemoryInFlight, RecordInFlight, InTaskPc
  <2> QED
    BY <2>1 DEF OnlyActive, StartedWithDependencies
<1>5. CASE StopForAbort \/ FailForLimit
  <2>1. rec \in Execution
    BY <1>1, <1>5 DEF StopForAbort, FailForLimit, LoopLocked, RunningPc, IInv, DataInv, RecordOfRun
  <2>2. Calms(rec, rec')
    BY <1>5, <2>1, StopForAbortCalms, FailRemainingCalms DEF StopForAbort, FailForLimit, LoopLocked
  <2> QED
    BY <2>2 DEF Calms, StartedWithDependencies
<1>6. CASE MarkActive
  <2>1. PICK t \in Task : hand.task = t
    BY <1>1, <1>6 DEF MarkActive, LoopLocked, TaskPc, IInv, DataInv, LoopLocals
  <2>2. /\ rec \in Execution /\ DependenciesMet(rec, t)
        /\ rec' = SetState(rec, t, ActiveState(t))
    BY <1>1, <1>6, <2>1 DEF MarkActive, LoopLocked, RunningPc, IInv, DataInv, RecordOfRun,
                            RecordInFlight
  <2>3. ActiveState(t) \in TaskState
    BY DEF ActiveState, TaskState
  <2>4. \A u \in Task : rec'.state[u] = IF u = t THEN ActiveState(t) ELSE rec.state[u]
    BY <2>2, <2>3, SetStateStates
  <2> QED
    BY <2>2, <2>4 DEF StartedWithDependencies
<1>7. CASE ReconcileAfterTask
  <2>1. PICK t \in Task, o \in EditOutcome \cup {"threw"} : hand.task = t /\ hand.outcome = o
    BY <1>1, <1>7 DEF ReconcileAfterTask, LoopLocked, TaskPc, IInv, DataInv, LoopLocals
  <2>2. rec \in Execution /\ rec' = ReconciledWith(rec, t, o)
    BY <1>1, <1>7, <2>1 DEF ReconcileAfterTask, LoopLocked, RunningPc, IInv, DataInv, RecordOfRun
  <2>3. /\ \A u \in Task : u # t => rec'.state[u] = rec.state[u]
        /\ rec'.state[t] \in Active => rec'.state[t] = rec.state[t]
    BY <2>2, ReconciledWithStates DEF EditOutcome, Active
  <2> QED
    BY <2>3 DEF StartedWithDependencies
<1>8. ASSUME NEW c \in Control, CtlSave(c)
      PROVE  StartedWithDependencies(rec, rec')
  <2>1. PICK a \in CtlAction : ctl[c].action = a
    BY <1>1, <1>8 DEF CtlSave, IInv, DataInv, Requests
  <2>2. rec = ctl[c].snap /\ rec \in Execution
    BY <1>1, <1>8 DEF CtlSave, IInv, DataInv, Requests, TypeOK
  <2>3. Calms(rec, rec')
    BY <1>8, <2>1, <2>2, MutatedCalms DEF CtlSave
  <2> QED
    BY <2>3 DEF Calms, StartedWithDependencies
<1>9. CASE LoopStep
  BY <1>2, <1>3, <1>4, <1>5, <1>6, <1>7, <1>9
     DEF LoopStep, Plan, LoadForResume, ObserveAbort, PickTask, ReturnUnfinished, Complete,
         ExecuteAnalysis, ExecuteEdit, ValidationPasses, ValidationThrows, ValidationFails,
         RefuseRepair, BeginRepairEdit, FinishRepairEdit, Release
<1>10. CASE \E c \in Control : CtlStep(c)
  BY <1>2, <1>8, <1>10 DEF CtlStep, CtlReject, CtlLoad, CtlDone
<1>11. CASE Environment
  BY <1>2, <1>11 DEF Environment, Start, Resume, ExceedLimit, CtlRequest, Shutdown, Crash,
                     LoopStoreFault, RepairStoreFault, CtlStoreFault
<1> QED
  BY <1>2, <1>9, <1>10, <1>11 DEF Next, vars

(* A task is put in flight only on a record whose dependencies are          *)
(* completed, although it was picked on an older in-memory copy.            *)
THEOREM StartsWithDependencies == Spec => StartsAfterDependencies
<1>1. FlightInv /\ [Next]_vars =>
        [HasExecution /\ ~restored' =>
            \A t \in Task : (rec'.state[t] \in Active /\ rec.state[t] \notin Active) =>
                \A d \in Deps(t) : rec.state[d] = "completed"]_rec
  BY StartStep DEF StartedWithDependencies, DependenciesMet
<1> QED
  BY <1>1, FlightInvariance, PTL DEF Spec, StartsAfterDependencies

-----------------------------------------------------------------------------
(* Where nothing crashes and no store fails, a run returns only between     *)
(* tasks, and what it finds when it starts is what the last one left.       *)

AtRest ==
    loop \in {"off", "planning", "loading", "saving", "exit"} /\ HasExecution /\ ~restored =>
        NoneActive(rec)

LEMMA AtRestStep ==
    ASSUME FlightInv, AtRest, [Next]_vars, "crash" \notin Fault, "io" \notin Fault
    PROVE  AtRest'
<1> DEFINE Outside == {"off", "planning", "loading", "saving", "exit"}
<1> SUFFICES ASSUME ~restored', HasExecution', loop' \in Outside
             PROVE  NoneActive(rec')
  BY DEF AtRest, NoneActive
<1>1. IInv /\ MemoryInFlight /\ ~restored
  BY RestoredIsKept DEF FlightInv, InFlight
<1>2. CASE UNCHANGED rec /\ loop \in Outside
  BY <1>1, <1>2 DEF AtRest, HasExecution
<1>3. CASE ReturnUnfinished
  BY <1>1, <1>3 DEF ReturnUnfinished, MemoryInFlight, BetweenPc
<1>4. CASE SaveCompletion
  BY <1>1, <1>4 DEF SaveCompletion, SaveUnlocked, MemoryInFlight, BetweenPc
<1>5. CASE StopForAbort \/ FailForLimit
  <2>1. rec \in Execution /\ NoneActive(rec)
    BY <1>1, <1>5 DEF StopForAbort, FailForLimit, LoopLocked, RunningPc, IInv, DataInv, RecordOfRun,
                      MemoryInFlight, BetweenPc
  <2>2. Calms(rec, rec')
    BY <1>5, <2>1, StopForAbortCalms, FailRemainingCalms DEF StopForAbort, FailForLimit, LoopLocked
  <2> QED
    BY <2>1, <2>2, CalmFacts
<1>6. ASSUME NEW c \in Control, CtlSave(c)
      PROVE  NoneActive(rec')
  <2>1. PICK a \in CtlAction : ctl[c].action = a
    BY <1>1, <1>6 DEF CtlSave, IInv, DataInv, Requests
  <2>2. rec = ctl[c].snap /\ rec \in Execution /\ loop \in Outside
    BY <1>1, <1>6 DEF CtlSave, IInv, DataInv, Requests, TypeOK
  <2>3. HasExecution
    BY <2>2 DEF HasExecution, NoExecution, Execution
  <2>4. NoneActive(rec)
    BY <1>1, <2>2, <2>3 DEF AtRest
  <2>5. Calms(rec, rec')
    BY <1>6, <2>1, <2>2, MutatedCalms DEF CtlSave
  <2> QED
    BY <2>4, <2>5, CalmFacts
<1>7. CASE LoopStep
  BY <1>2, <1>3, <1>4, <1>5, <1>7
     DEF LoopStep, Plan, LoadForResume, SaveInitial, SaveUnlocked, ObserveAbort, PickTask, Complete,
         MarkActive, ReconcileAfterTask, LoopLocked, ExecuteAnalysis, ExecuteEdit,
         ValidationPasses, ValidationThrows, ValidationFails, Deliver, SaveRepairing, RefuseRepair,
         BeginRepairEdit, FinishRepairEdit, SaveRepaired, Release
<1>8. CASE \E c \in Control : CtlStep(c)
  BY <1>2, <1>6, <1>8 DEF CtlStep, CtlReject, CtlLoad, CtlDone
<1>9. CASE Environment
  BY <1>2, <1>9 DEF Environment, Start, Resume, ExceedLimit, CtlRequest, Shutdown, Crash,
                    LoopStoreFault, RepairStoreFault, CtlStoreFault
<1> QED
  BY <1>2, <1>7, <1>8, <1>9 DEF Next, vars

(* Every exit of run() leaves the record resumable: where nothing crashes   *)
(* and no store fails, a mission nobody runs has no task in flight, however *)
(* often operators paused, cancelled and retried it, unless a request saved *)
(* a stale copy.                                                           *)
THEOREM NothingOrphaned ==
    ASSUME "crash" \notin Fault, "io" \notin Fault
    PROVE  Spec => []NoOrphanedTask
<1>1. Init => AtRest
  BY DEF Init, AtRest, HasExecution
<1>2. FlightInv /\ AtRest /\ [Next]_vars => AtRest'
  BY AtRestStep
<1>3. AtRest => NoOrphanedTask
  BY DEF AtRest, NoOrphanedTask, Registered, NoneActive
<1> QED
  BY <1>1, <1>2, <1>3, FlightInvariance, PTL DEF Spec

-----------------------------------------------------------------------------
(* The repairs of a mission.                                                *)

(* Without a crash or an I/O failure the repair-loop record counts every    *)
(* repair edit, one step late.                                             *)
EditsAreCounted ==
    repairEdits = IF loop = "edit" THEN repairRec.attempts + 1 ELSE repairRec.attempts

LEMMA EditsAreCountedStep ==
    ASSUME IInv, EditsAreCounted, [Next]_vars, "crash" \notin Fault, "io" \notin Fault
    PROVE  EditsAreCounted'
<1>1. /\ repairRec \in RepairRecord /\ repairEdits \in Nat
      /\ loop = "edit" => repairRec.attempts < MaxRepair
  BY DEF IInv, DataInv, TypeOK, LoopLocals, RepairExhausted, RepairRecord
<1>2. CASE UNCHANGED <<repairEdits, repairRec>> /\ loop # "edit" /\ loop' # "edit"
  BY <1>2 DEF EditsAreCounted
<1>3. CASE UNCHANGED <<repairEdits, repairRec, loop>>
  BY <1>3 DEF EditsAreCounted
<1>4. CASE ValidationPasses \/ ValidationFails \/ RefuseRepair
  <2>1. repairRec'.attempts = repairRec.attempts
    BY <1>1, <1>4 DEF ValidationPasses, ValidationFails, RefuseRepair, RecordValidation, RepairRecord
  <2> QED
    BY <1>4, <2>1 DEF ValidationPasses, ValidationFails, RefuseRepair, Deliver, EditsAreCounted
<1>5. CASE BeginRepairEdit
  <2>1. repairRec'.attempts = repairRec.attempts /\ repairRec.attempts < MaxRepair
    BY <1>1, <1>5 DEF BeginRepairEdit, RepairExhausted, RepairRecord
  <2>2. repairEdits = repairRec.attempts /\ loop' = "edit"
    BY <1>5 DEF BeginRepairEdit, EditsAreCounted
  <2>3. repairEdits' = repairEdits + 1
    BY <1>1, <1>5, <2>1, <2>2 DEF BeginRepairEdit, RepairRecord
  <2> QED
    BY <2>1, <2>2, <2>3 DEF EditsAreCounted
<1>6. CASE \E o \in EditOutcome : FinishRepairEdit(o)
  <2>1. repairRec'.attempts = repairRec.attempts + 1 /\ loop = "edit" /\ loop' = "saveRepaired"
        /\ repairEdits' = repairEdits
    BY <1>6 DEF FinishRepairEdit, RecordRepairAttempt
  <2> QED
    BY <2>1 DEF EditsAreCounted
<1>7. CASE LoopStep
  BY <1>2, <1>4, <1>5, <1>6, <1>7
     DEF LoopStep, Plan, LoadForResume, SaveInitial, SaveUnlocked, ObserveAbort, PickTask,
         ReturnUnfinished, Complete, SaveCompletion, StopForAbort, FailForLimit, MarkActive,
         ReconcileAfterTask, LoopLocked, ExecuteAnalysis, ExecuteEdit, ValidationThrows, Deliver,
         SaveRepairing, SaveRepaired, Release
<1>8. CASE \E c \in Control : CtlStep(c)
  BY <1>3, <1>8 DEF CtlStep, CtlReject, CtlLoad, CtlSave, CtlDone
<1>9. CASE Environment
  BY <1>2, <1>3, <1>9 DEF Environment, Start, Resume, ExceedLimit, CtlRequest, Shutdown, Crash,
                    LoopStoreFault, RepairStoreFault, CtlStoreFault
<1> QED
  BY <1>3, <1>7, <1>8, <1>9 DEF Next, vars

(* A mission begins at most maxRepairAttempts repair edits over all its     *)
(* runs, resumes and retries, because the repair-loop record outlives them. *)
THEOREM RepairsAreBounded ==
    ASSUME "crash" \notin Fault, "io" \notin Fault
    PROVE  Spec => []RepairEditsBounded
<1>1. Init => EditsAreCounted
  BY DEF Init, EditsAreCounted, InitialRepairRecord
<1>2. IInv /\ EditsAreCounted /\ [Next]_vars => EditsAreCounted'
  BY EditsAreCountedStep
<1>3. IInv /\ EditsAreCounted => RepairEditsBounded
  BY DEF IInv, DataInv, TypeOK, LoopLocals, RepairExhausted, RepairRecord, EditsAreCounted,
         RepairEditsBounded
<1> QED
  BY <1>1, <1>2, <1>3, Invariance, PTL DEF Spec

-----------------------------------------------------------------------------
(* What the repair loop has validated.                                      *)

EditCompleted(e) == e # NoExecution /\ e.state[EditTask] = "completed"
ValidatedAfterEdit(e) ==
    e # NoExecution /\ (\E t \in Validation : e.state[t] = "completed") => EditCompleted(e)

(* The repair-loop record: its phases have passed, none is left while a     *)
(* repair is under way, and "completed" takes them all.                     *)
PhasesPassed ==
    /\ repairRec.phases \subseteq passed
    /\ repairRec.state = "completed" => Validation \subseteq repairRec.phases
    /\ loop \in {"saveRepairing", "repair", "edit"} => repairRec.phases = {}

(* Every copy of the execution agrees on whether the edit is completed.      *)
CopiesAgreeOnEdit ==
    /\ loop \in RunningPc \cup {"saving"} => (EditCompleted(mem) <=> EditCompleted(rec))
    /\ \A c \in Control : ctl[c].pc = "loaded" =>
          HasExecution /\ (EditCompleted(ctl[c].snap) <=> EditCompleted(rec))
    /\ loop = "planning" => rec = NoExecution

(* Validations run after the edit, and the edit runs once.                  *)
EditComesFirst ==
    /\ ValidatedAfterEdit(rec) /\ ValidatedAfterEdit(mem)
    /\ \A c \in Control : ctl[c].pc = "loaded" => ValidatedAfterEdit(ctl[c].snap)
    /\ repairRec.phases # {} => EditCompleted(rec)
    /\ loop \in TaskPc /\ hand.task \in Validation => EditCompleted(rec)
    /\ loop = "mark" /\ hand.task = EditTask => ~EditCompleted(rec)

ValidatedInv == PhasesPassed /\ CopiesAgreeOnEdit /\ EditComesFirst

(* An execution is not the missing record.                                  *)
LEMMA ExecutionExists ==
    ASSUME NEW e \in Execution
    PROVE  e # NoExecution
BY DEF Execution, NoExecution

(* Calming neither completes nor uncompletes.                               *)
LEMMA CalmEdit ==
    ASSUME NEW e \in Execution, NEW f \in Execution, Calms(e, f)
    PROVE  /\ EditCompleted(f) <=> EditCompleted(e)
           /\ ValidatedAfterEdit(e) => ValidatedAfterEdit(f)
<1>1. EditTask \in Task /\ Validation \subseteq Task
  BY DEF EditTask, Task, Validation
<1> QED
  BY <1>1, ExecutionExists DEF Calms, EditCompleted, ValidatedAfterEdit

(* Writing one task that does not become completed, other than the edit.    *)
LEMMA SettledEdit ==
    ASSUME NEW e \in Execution, NEW f \in Execution, NEW t \in Task, t # EditTask,
           \A u \in Task : u # t => f.state[u] = e.state[u]
    PROVE  /\ EditCompleted(f) <=> EditCompleted(e)
           /\ ValidatedAfterEdit(e) /\ (f.state[t] = "completed" /\ t \in Validation => EditCompleted(e))
                 => ValidatedAfterEdit(f)
<1>1. EditTask \in Task /\ Validation \subseteq Task
  BY DEF EditTask, Task, Validation
<1> QED
  BY <1>1, ExecutionExists DEF EditCompleted, ValidatedAfterEdit

(* Writing the edit, before any validation is completed.                    *)
LEMMA WrittenEdit ==
    ASSUME NEW e \in Execution, NEW f \in Execution, ValidatedAfterEdit(e), ~EditCompleted(e),
           \A u \in Task : u # EditTask => f.state[u] = e.state[u]
    PROVE  ValidatedAfterEdit(f)
<1>1. EditTask \in Task /\ Validation \subseteq Task /\ EditTask \notin Validation
  BY DEF EditTask, Task, Validation
<1> QED
  BY <1>1, ExecutionExists DEF EditCompleted, ValidatedAfterEdit

(* A repair leaves the edit alone and completes nothing.                    *)
LEMMA RepairedEdit ==
    ASSUME NEW e \in Execution, NEW t \in Validation, NEW o \in EditOutcome, ValidatedAfterEdit(e)
    PROVE  /\ EditCompleted(AfterRepair(e, t, o)) <=> EditCompleted(e)
           /\ ValidatedAfterEdit(AfterRepair(e, t, o))
<1> DEFINE f == AfterRepair(e, t, o)
<1>1. t \in Task /\ t # EditTask /\ EditTask \in Task \ Validation /\ o \in TaskState
  BY DEF EditTask, Task, Validation, EditOutcome, TaskState
<1>2. f \in Execution
  BY <1>1, AfterRepairType
<1>3. CASE o = "completed"
  <2>1. /\ \A u \in Validation : f.state[u] \in {"ready", "queued"}
        /\ \A u \in Task \ Validation : f.state[u] = e.state[u]
    BY <1>3, ResetValidationChainStates DEF AfterRepair
  <2> QED
    BY <1>1, <1>2, <2>1, ExecutionExists DEF EditCompleted, ValidatedAfterEdit
<1>4. CASE o # "completed"
  <2>1. \A u \in Task : f.state[u] = IF u = t THEN o ELSE e.state[u]
    BY <1>1, <1>4, SetStateStates DEF AfterRepair
  <2> HIDE DEF f
  <2>2. f.state[t] # "completed"
    BY <1>1, <1>4, <2>1
  <2>3. f \in Execution
    BY <1>2 DEF f
  <2>4. /\ EditCompleted(f) <=> EditCompleted(e)
        /\ ValidatedAfterEdit(f)
    BY <1>1, <2>1, <2>2, <2>3, SettledEdit
  <2> QED
    BY <2>4 DEF f
<1> QED
  BY <1>3, <1>4

(* Entering a run.                                                          *)
LEMMA EntryValidated ==
    ASSUME IInv, ValidatedInv, "restart" \notin Fault,
           Start \/ Plan \/ Resume \/ LoadForResume \/ SaveInitial
    PROVE  ValidatedInv'
<1> USE DEF ValidatedInv, PhasesPassed, CopiesAgreeOnEdit, EditComesFirst, RunningPc, TaskPc
<1>1. CASE Start \/ Resume
  BY <1>1 DEF Start, Resume, HasExecution
<1>2. CASE Plan
  <2>1. mem' \in Execution /\ Calms(PlannedExecution, mem')
    BY <1>2, PlannedType, ReconcileGraphType, ReconcileGraphCalms DEF Plan
  <2>2. \A t \in Task : PlannedExecution.state[t] # "completed"
    BY DEF PlannedExecution, InitialState
  <2>3. EditTask \in Task /\ Validation \subseteq Task
    BY DEF EditTask, Task, Validation
  <2>4. \A t \in Task : mem'.state[t] # "completed"
    BY <2>1, <2>2 DEF Calms
  <2>5. ~EditCompleted(mem') /\ ValidatedAfterEdit(mem')
    BY <2>3, <2>4 DEF EditCompleted, ValidatedAfterEdit
  <2>6. ~EditCompleted(rec)
    BY <1>2 DEF Plan, EditCompleted
  <2> QED
    BY <1>2, <2>5, <2>6 DEF Plan, HasExecution
<1>3. CASE LoadForResume
  <2>1. CASE loop' = "exit"
    BY <1>3, <2>1 DEF LoadForResume, HasExecution
  <2>2. CASE loop' = "saving"
    <3>1. rec \in Execution /\ mem' = ReconcileGraph(rec)
      BY <1>3, <2>2, RecordExists DEF LoadForResume, Resumable, IInv, DataInv, TypeOK
    <3>2. (EditCompleted(mem') <=> EditCompleted(rec)) /\ ValidatedAfterEdit(mem')
      BY <3>1, ReconcileGraphType, ReconcileGraphCalms, CalmEdit
    <3> QED
      BY <1>3, <2>2, <3>2 DEF LoadForResume, HasExecution
  <2> QED
    BY <1>3, <2>1, <2>2 DEF LoadForResume
<1>4. CASE SaveInitial
  <2>1. mem \in Execution /\ mem # NoExecution
    BY <1>4, ExecutionExists DEF SaveInitial, SaveUnlocked, IInv, DataInv, LoopLocals
  <2> QED
    BY <1>4, <2>1 DEF SaveInitial, SaveUnlocked, HasExecution, NoHand
<1> QED
  BY <1>1, <1>2, <1>3, <1>4

(* While the loop holds the lock no request is between its load and save.   *)
LEMMA NobodyLoaded ==
    ASSUME IInv, LockHeldBy("loop"), NEW c \in Control
    PROVE  ctl[c].pc # "loaded"
BY LoopAssumption DEF IInv, HolderIsFirst, LockHeldBy

(* The top of the loop, and the saves outside the lock.                     *)
LEMMA TopValidated ==
    ASSUME IInv, ValidatedInv,
           \/ ObserveAbort \/ ExceedLimit \/ PickTask \/ ReturnUnfinished
           \/ Complete \/ SaveCompletion \/ SaveRepairing \/ SaveRepaired
    PROVE  ValidatedInv'
<1> USE DEF ValidatedInv, PhasesPassed, CopiesAgreeOnEdit, EditComesFirst, RunningPc, TaskPc
<1>1. mem \in Execution
  BY DEF ObserveAbort, ExceedLimit, PickTask, ReturnUnfinished, Complete, SaveCompletion,
         SaveRepairing, SaveRepaired, SaveUnlocked, IInv, DataInv, LoopLocals
<1>2. CASE ObserveAbort \/ ExceedLimit \/ ReturnUnfinished
  BY <1>2 DEF ObserveAbort, ExceedLimit, ReturnUnfinished, HasExecution
<1>3. CASE PickTask
  <2>1. PICK t \in Task : IsNext(mem, t) /\ hand' = [task |-> t, outcome |-> "none"]
    BY <1>3 DEF PickTask
  <2>2. mem.state[t] # "completed" /\ \A d \in Deps(t) : mem.state[d] = "completed"
    BY <2>1 DEF IsNext, Runnable, CompletedTasks, Pending
  <2>3. t = EditTask => ~EditCompleted(rec)
    BY <1>3, <2>2 DEF PickTask, EditCompleted
  <2>4. t \in Validation => EditCompleted(rec)
    <3>1. t \in Validation => t - 1 \in Deps(t) /\ (t - 1 = EditTask \/ t - 1 \in Validation)
      BY DEF Validation, Task, EditTask, Deps
    <3>2. t \in Validation => EditCompleted(mem)
      BY <1>1, <2>2, <3>1, ExecutionExists DEF ValidatedAfterEdit, EditCompleted
    <3> QED
      BY <1>3, <3>2 DEF PickTask
  <2> QED
    BY <1>3, <2>1, <2>3, <2>4 DEF PickTask, HasExecution
<1>4. CASE Complete
  <2>1. /\ mem'.state = mem.state /\ mem' \in Execution /\ loop' = "finish"
        /\ UNCHANGED <<rec, repairRec, hand, ctl, passed>>
    BY <1>1, <1>4 DEF Complete, Execution
  <2>2. /\ EditCompleted(mem') <=> EditCompleted(mem)
        /\ ValidatedAfterEdit(mem')
    BY <1>1, <2>1, ExecutionExists DEF EditCompleted, ValidatedAfterEdit
  <2> QED
    BY <1>4, <2>1, <2>2 DEF Complete, HasExecution
<1>5. CASE SaveCompletion \/ SaveRepairing \/ SaveRepaired
  <2>1. /\ loop \in {"finish", "saveRepairing", "saveRepaired"} /\ rec' = mem /\ mem' = mem
        /\ loop' \in {"exit", "top", "repair"} /\ (loop' = "repair" => hand' = hand)
        /\ loop' = "repair" => loop = "saveRepairing"
        /\ UNCHANGED <<repairRec, ctl, passed>> /\ mem # NoExecution
    BY <1>1, <1>5, ExecutionExists DEF SaveCompletion, SaveRepairing, SaveRepaired, SaveUnlocked
  <2> QED
    BY <2>1 DEF HasExecution
<1> QED
  BY <1>2, <1>3, <1>4, <1>5

(* The sections under the lock.                                             *)
LEMMA LockedValidated ==
    ASSUME IInv, ValidatedInv, StopForAbort \/ FailForLimit \/ MarkActive \/ ReconcileAfterTask
    PROVE  ValidatedInv'
<1> USE DEF ValidatedInv, PhasesPassed, CopiesAgreeOnEdit, EditComesFirst, RunningPc, TaskPc
<1>1. rec \in Execution /\ rec # NoExecution
  BY ExecutionExists DEF StopForAbort, FailForLimit, MarkActive, ReconcileAfterTask, LoopLocked,
         IInv, DataInv, RecordOfRun
<1>2. \A c \in Control : ctl[c].pc # "loaded" /\ ctl'[c].pc # "loaded"
  BY NobodyLoaded DEF StopForAbort, FailForLimit, MarkActive, ReconcileAfterTask, LoopLocked
<1>3. CASE StopForAbort \/ FailForLimit
  <2>1. PICK f \in Execution : Calms(rec, f) /\ rec' = f
    BY <1>1, <1>3, StopForAbortCalms, FailRemainingCalms, StopForAbortType, FailRemainingType
       DEF StopForAbort, FailForLimit, LoopLocked
  <2>2. (EditCompleted(rec') <=> EditCompleted(rec)) /\ ValidatedAfterEdit(rec')
    BY <1>1, <2>1, CalmEdit
  <2>3. loop' = "exit" /\ mem' = rec' /\ UNCHANGED <<repairRec, ctl, passed, hand>>
    BY <1>3 DEF StopForAbort, FailForLimit, LoopLocked
  <2> QED
    BY <1>2, <2>2, <2>3
<1>4. CASE MarkActive
  <2>1. PICK t \in Task : hand.task = t
    BY <1>4 DEF MarkActive, LoopLocked, IInv, DataInv, LoopLocals
  <2>2. /\ loop = "mark" /\ loop' = "execute" /\ mem' = rec' /\ hand' = hand
        /\ rec' = SetState(rec, t, ActiveState(t))
        /\ passed' = IF t = EditTask THEN {} ELSE passed
        /\ UNCHANGED <<repairRec, ctl>>
    BY <1>4, <2>1 DEF MarkActive, LoopLocked
  <2>3. ActiveState(t) \in TaskState /\ ActiveState(t) # "completed"
    BY DEF ActiveState, TaskState
  <2>4. /\ rec' \in Execution
        /\ \A u \in Task : rec'.state[u] = IF u = t THEN ActiveState(t) ELSE rec.state[u]
    BY <1>1, <2>2, <2>3, SetStateStates, SetStateType
  <2>5. CASE t = EditTask
    <3>1. ValidatedAfterEdit(rec') /\ ~EditCompleted(rec) /\ repairRec.phases = {}
      BY <1>1, <2>1, <2>2, <2>4, <2>5, WrittenEdit
    <3>2. EditTask \notin Validation
      BY DEF Validation, EditTask
    <3> QED
      BY <1>2, <2>1, <2>2, <2>5, <3>1, <3>2
  <2>6. CASE t # EditTask
    <3>1. (EditCompleted(rec') <=> EditCompleted(rec)) /\ ValidatedAfterEdit(rec')
      BY <1>1, <2>3, <2>4, <2>6, SettledEdit
    <3> QED
      BY <1>2, <2>1, <2>2, <2>6, <3>1
  <2> QED
    BY <2>5, <2>6
<1>5. CASE ReconcileAfterTask
  <2>1. PICK t \in Task, o \in EditOutcome \cup {"threw"} : hand.task = t /\ hand.outcome = o
    BY <1>5 DEF ReconcileAfterTask, LoopLocked, IInv, DataInv, LoopLocals
  <2>2. /\ loop = "reconcile" /\ loop' = "top" /\ mem' = rec'
        /\ rec' = ReconciledWith(rec, t, o) /\ UNCHANGED <<repairRec, ctl, passed>>
    BY <1>5, <2>1 DEF ReconcileAfterTask, LoopLocked
  <2>3. /\ rec' \in Execution
        /\ \A u \in Task : u # t => rec'.state[u] = rec.state[u]
        /\ rec.state[t] # ActiveState(t) => rec'.state[t] = rec.state[t]
    <3>1. ReconciledWith(rec, t, o) \in Execution
      BY <1>1, ReconciledWithType
    <3>2. /\ \A u \in Task : u # t => ReconciledWith(rec, t, o).state[u] = rec.state[u]
          /\ rec.state[t] # ActiveState(t) => ReconciledWith(rec, t, o).state[t] = rec.state[t]
      <4> HIDE DEF ValidatedInv
      <4> QED
        BY <1>1, ReconciledWithStates
    <3> QED
      BY <2>2, <3>1, <3>2
  <2>4. CASE t = EditTask
    <3>1. CASE EditCompleted(rec)
      <4>1. rec.state[t] # ActiveState(t)
        BY <2>4, <3>1 DEF EditCompleted, ActiveState
      <4>2. \A u \in Task : rec'.state[u] = rec.state[u]
        BY <2>3, <4>1
      <4>3. Calms(rec, rec')
        BY <4>2 DEF Calms
      <4>4. (EditCompleted(rec') <=> EditCompleted(rec)) /\ ValidatedAfterEdit(rec')
        BY <1>1, <2>3, <4>3, CalmEdit
      <4> QED
        BY <1>2, <2>2, <4>4
    <3>2. CASE ~EditCompleted(rec)
      <4>1. ValidatedAfterEdit(rec')
        BY <1>1, <2>3, <2>4, <3>2, WrittenEdit
      <4> QED
        BY <1>2, <2>2, <3>2, <4>1
    <3> QED
      BY <3>1, <3>2
  <2>5. CASE t # EditTask
    <3>1. (EditCompleted(rec') <=> EditCompleted(rec)) /\ ValidatedAfterEdit(rec')
      BY <1>1, <2>1, <2>2, <2>3, <2>5, SettledEdit
    <3> QED
      BY <1>2, <2>2, <3>1
  <2> QED
    BY <2>4, <2>5
<1> QED
  BY <1>3, <1>4, <1>5

(* The work of a task.                                                      *)
LEMMA WorkValidated ==
    ASSUME IInv, ValidatedInv,
           \/ ExecuteAnalysis
           \/ \E o \in EditOutcome \cup {"threw"} : ExecuteEdit(o)
           \/ ValidationPasses \/ ValidationThrows \/ ValidationFails
    PROVE  ValidatedInv'
<1> USE DEF ValidatedInv, PhasesPassed, CopiesAgreeOnEdit, EditComesFirst, RunningPc, TaskPc
<1>1. repairRec \in RepairRecord
  BY DEF IInv, DataInv, TypeOK
<1>2. CASE ExecuteAnalysis \/ ValidationThrows \/ \E o \in EditOutcome \cup {"threw"} : ExecuteEdit(o)
  <2>1. /\ loop = "execute" /\ loop' = "reconcile" /\ hand'.task = hand.task
        /\ UNCHANGED <<rec, mem, repairRec, ctl, passed>>
    BY <1>2 DEF ExecuteAnalysis, ExecuteEdit, ValidationThrows, Deliver, IInv, DataInv, TypeOK
  <2> QED
    BY <2>1 DEF HasExecution
<1>3. CASE ValidationPasses
  <2>1. PICK t \in Validation : hand.task = t
    BY <1>3 DEF ValidationPasses
  <2>2. /\ loop = "execute" /\ loop' = "reconcile" /\ hand'.task = hand.task
        /\ passed' = passed \cup {t}
        /\ UNCHANGED <<rec, mem, ctl>>
    BY <1>3, <2>1 DEF ValidationPasses, Deliver, IInv, DataInv, TypeOK
  <2>3. /\ repairRec'.phases = repairRec.phases \cup {t}
        /\ repairRec'.state = "completed" => Validation \subseteq repairRec'.phases
    BY <1>1, <1>3, <2>1 DEF ValidationPasses, RecordValidation, RepairRecord
  <2> QED
    BY <2>1, <2>2, <2>3 DEF HasExecution
<1>4. CASE ValidationFails
  <2>1. PICK t \in Validation : hand.task = t
    BY <1>4 DEF ValidationFails
  <2>2. /\ loop = "execute" /\ loop' = "saveRepairing" /\ hand' = hand
        /\ mem' = ApplyTaskResult(mem, t, "repairing")
        /\ UNCHANGED <<rec, ctl>>
    BY <1>4, <2>1 DEF ValidationFails
  <2>3. repairRec'.phases = {} /\ repairRec'.state = "repairing"
    BY <1>1, <1>4, <2>1 DEF ValidationFails, RecordValidation, RepairRecord
  <2>4. mem \in Execution /\ t \in Task /\ t # EditTask /\ "repairing" \in TaskState
    BY <2>2 DEF IInv, DataInv, LoopLocals, Validation, EditTask, TaskState
  <2>5. mem' \in Execution /\ \A u \in Task : mem'.state[u] = IF u = t THEN "repairing" ELSE mem.state[u]
    BY <2>2, <2>4, ApplyTaskResultStates, ApplyTaskResultType
  <2>6. (EditCompleted(mem') <=> EditCompleted(mem)) /\ ValidatedAfterEdit(mem')
    BY <2>4, <2>5, SettledEdit
  <2> QED
    BY <2>1, <2>2, <2>3, <2>6 DEF HasExecution
<1> QED
  BY <1>2, <1>3, <1>4

(* A repair.                                                                *)
LEMMA RepairValidated ==
    ASSUME IInv, ValidatedInv, RepairsValidation,
           \/ RefuseRepair \/ BeginRepairEdit
           \/ \E o \in EditOutcome : FinishRepairEdit(o)
           \/ RepairStoreFault
    PROVE  ValidatedInv'
<1> USE DEF ValidatedInv, PhasesPassed, CopiesAgreeOnEdit, EditComesFirst, RunningPc, TaskPc
<1>1. PICK t \in Validation : hand.task = t
  BY DEF RefuseRepair, BeginRepairEdit, FinishRepairEdit, RepairStoreFault,
         RepairsValidation, RepairPc
<1>2. mem \in Execution /\ repairRec \in RepairRecord
  BY DEF RefuseRepair, BeginRepairEdit, FinishRepairEdit, RepairStoreFault, IInv, DataInv, TypeOK,
         LoopLocals
<1>3. CASE BeginRepairEdit
  <2>1. /\ loop = "repair" /\ loop' = "edit" /\ passed' = {}
        /\ UNCHANGED <<rec, mem, hand, ctl>>
    BY <1>3 DEF BeginRepairEdit
  <2>2. repairRec'.phases = repairRec.phases /\ repairRec'.state = "repairing"
    BY <1>2, <1>3 DEF BeginRepairEdit, RepairRecord
  <2> QED
    BY <2>1, <2>2 DEF HasExecution
<1>4. CASE ~BeginRepairEdit
  <2>1. PICK o \in EditOutcome : mem' = AfterRepair(mem, t, o)
    <3>1. "failed" \in EditOutcome /\ AfterRepair(mem, t, "failed") = SetState(mem, t, "failed")
      BY DEF EditOutcome, AfterRepair
    <3> QED
      BY <1>1, <1>4, <3>1 DEF RefuseRepair, FinishRepairEdit, RepairStoreFault
  <2>2. (EditCompleted(mem') <=> EditCompleted(mem)) /\ ValidatedAfterEdit(mem')
    <3>1. ValidatedAfterEdit(mem)
      OBVIOUS
    <3> QED
      BY <1>2, <2>1, <3>1, RepairedEdit
  <2>3. /\ loop \in {"repair", "edit"} /\ loop' = "saveRepaired"
        /\ UNCHANGED <<rec, hand, ctl, passed>>
    BY <1>4 DEF RefuseRepair, FinishRepairEdit, RepairStoreFault
  <2>4. /\ repairRec'.phases = {}
        /\ repairRec'.state = "completed" => repairRec' = repairRec
    BY <1>2, <1>4, <2>3 DEF RefuseRepair, FinishRepairEdit, RepairStoreFault, RecordRepairAttempt,
                            RepairRecord
  <2> QED
    BY <2>2, <2>3, <2>4 DEF HasExecution
<1> QED
  BY <1>3, <1>4

(* Requests: what they save was loaded from a record with the same edit.    *)
LEMMA RequestValidated ==
    ASSUME IInv, ValidatedInv, NEW c \in Control,
           \/ \E a \in CtlAction : CtlRequest(c, a)
           \/ CtlStep(c) \/ CtlStoreFault(c)
    PROVE  ValidatedInv'
<1> USE DEF ValidatedInv, PhasesPassed, CopiesAgreeOnEdit, EditComesFirst
<1>1. ctl \in [Control -> [pc : CtlPc, action : CtlAction \cup {"none"},
                           snap : Execution \cup {NoExecution}]]
  BY DEF IInv, DataInv, TypeOK
<1>2. CASE CtlReject(c) \/ CtlDone(c) \/ CtlStoreFault(c) \/ \E a \in CtlAction : CtlRequest(c, a)
  <2>1. UNCHANGED <<rec, repairRec, loop, mem, hand, passed>>
    BY <1>2 DEF CtlReject, CtlDone, CtlStoreFault, CtlRequest
  <2>2. \A d \in Control : ctl'[d].pc = "loaded" => ctl'[d] = ctl[d]
    <3>1. Answered(c).pc = "idle"
      BY <1>1 DEF Answered, IdleCtl
    <3> QED
      BY <1>1, <1>2, <3>1 DEF CtlReject, CtlDone, CtlStoreFault, CtlRequest
  <2> QED
    BY <2>1, <2>2 DEF HasExecution
<1>3. CASE CtlLoad(c)
  <2>1. UNCHANGED <<rec, repairRec, loop, mem, hand, passed>> /\ HasExecution
    BY <1>3 DEF CtlLoad, Changes, HasExecution
  <2>2. \A d \in Control : ctl'[d].pc = "loaded" =>
           ctl'[d] = ctl[d] \/ ctl'[d].snap = rec
    BY <1>1, <1>3 DEF CtlLoad
  <2> QED
    BY <2>1, <2>2 DEF HasExecution
<1>4. CASE CtlSave(c)
  <2>1. PICK a \in CtlAction, e \in Execution : ctl[c].action = a /\ ctl[c].snap = e
    BY <1>4 DEF CtlSave, IInv, DataInv, Requests
  <2>2. /\ ctl[c].pc = "loaded" /\ rec' = Mutated(e, a)
        /\ UNCHANGED <<repairRec, loop, mem, hand, passed>>
    BY <1>4, <2>1 DEF CtlSave
  <2>3. rec' \in Execution /\ Calms(e, rec')
    BY <2>2, MutatedCalms, MutatedType
  <2>4. ValidatedAfterEdit(e) /\ (EditCompleted(e) <=> EditCompleted(rec))
    BY <2>1, <2>2
  <2>5. (EditCompleted(rec') <=> EditCompleted(rec)) /\ ValidatedAfterEdit(rec') /\ rec' # NoExecution
    BY <2>3, <2>4, CalmEdit, ExecutionExists
  <2>6. \A d \in Control : ctl'[d].pc = "loaded" => ctl'[d] = ctl[d]
    BY <1>1, <1>4 DEF CtlSave
  <2>7. loop # "planning"
    BY <2>2 DEF HasExecution
  <2> QED
    BY <2>2, <2>5, <2>6, <2>7 DEF HasExecution
<1> QED
  BY <1>2, <1>3, <1>4 DEF CtlStep

(* Returning, shutdown, a crash and a failing store.                        *)
LEMMA EnvironmentValidated ==
    ASSUME IInv, ValidatedInv, Release \/ Shutdown \/ Crash \/ LoopStoreFault
    PROVE  ValidatedInv'
<1> USE DEF ValidatedInv, PhasesPassed, CopiesAgreeOnEdit, EditComesFirst, RunningPc, TaskPc
<1>1. CASE Release \/ Crash
  <2>1. ValidatedAfterEdit(NoExecution)
    BY DEF ValidatedAfterEdit
  <2>2. \A c \in Control : ctl'[c].pc = "loaded" => ctl'[c] = ctl[c]
    BY <1>1 DEF Release, Crash, IdleCtl
  <2> QED
    BY <1>1, <2>1, <2>2 DEF Release, Crash, HasExecution
<1>2. CASE Shutdown
  BY <1>2 DEF Shutdown, HasExecution
<1>3. CASE LoopStoreFault
  <2>1. /\ UNCHANGED <<rec, mem, repairRec, ctl, passed>>
        /\ \/ loop' = "exit"
           \/ loop' = loop /\ loop = "reconcile" /\ hand'.task = hand.task
    BY <1>3 DEF LoopStoreFault, IInv, DataInv, TypeOK
  <2> QED
    BY <2>1 DEF HasExecution
<1> QED
  BY <1>1, <1>2, <1>3

LEMMA NextValidatedInv ==
    ASSUME FlightInv, ValidatedInv, [Next]_vars, "restart" \notin Fault
    PROVE  ValidatedInv'
<1>1. IInv /\ RepairsValidation
  BY DEF FlightInv
<1>2. CASE LoopStep
  BY <1>1, <1>2, EntryValidated, TopValidated, LockedValidated, WorkValidated, RepairValidated,
     EnvironmentValidated DEF LoopStep
<1>3. CASE \E c \in Control : CtlStep(c)
  BY <1>1, <1>3, RequestValidated
<1>4. CASE Environment
  BY <1>1, <1>4, EntryValidated, TopValidated, RequestValidated, RepairValidated,
     EnvironmentValidated DEF Environment
<1>5. CASE UNCHANGED vars
  BY <1>5 DEF vars, ValidatedInv, PhasesPassed, CopiesAgreeOnEdit, EditComesFirst, HasExecution
<1> QED
  BY <1>2, <1>3, <1>4, <1>5 DEF Next

(* A repair loop that says completed has been validated: every validation   *)
(* passed since the last edit began, through crashes, failing stores,       *)
(* cancellations and retries.  A second start of a mission runs its edit    *)
(* again under the old repair-loop record, hence the hypothesis.            *)
THEOREM RepairLoopValidated ==
    ASSUME "restart" \notin Fault
    PROVE  Spec => []RepairLoopIsValidated
<1>1. Init => ValidatedInv
  BY DEF Init, ValidatedInv, PhasesPassed, CopiesAgreeOnEdit, EditComesFirst, InitialRepairRecord,
         ValidatedAfterEdit, IdleCtl, NoHand, RunningPc, TaskPc
<1>2. FlightInv /\ ValidatedInv /\ [Next]_vars => ValidatedInv'
  BY NextValidatedInv
<1>3. FlightInv /\ ValidatedInv => RepairLoopIsValidated
  BY DEF FlightInv, IInv, DataInv, TypeOK, ValidatedInv, PhasesPassed, RepairLoopIsValidated
<1> QED
  BY <1>1, <1>2, <1>3, FlightInvariance, PTL DEF Spec

-----------------------------------------------------------------------------
(* What a completed graph says about the repository, where operators do not *)
(* retry and nothing crashes or fails to be stored.                          *)

Settled == {"completed", "failed", "blocked"}
SameSettled(e, f) == \A t \in Task, s \in Settled : e.state[t] = s <=> f.state[t] = s

(* Every validation e shows completed has passed since the last edit, or    *)
(* one has failed and e is not the record of a completed mission.            *)
CoveredBy(e, p) ==
    \/ \A t \in Validation : e.state[t] = "completed" => t \in p
    \/ \E t \in Validation : e.state[t] \in {"failed", "blocked"}

(* The edit comes before the validations, in the record and in memory.      *)
ValidationsFollow ==
    /\ ValidatedAfterEdit(rec)
    /\ loop \in RunningPc \cup {"saving"} => ValidatedAfterEdit(mem)
    /\ loop \in TaskPc /\ hand.task \in Validation => EditCompleted(rec)

(* What the loop believes settled is, and the task in hand is not.          *)
MemoryAgrees ==
    /\ loop \in RunningPc \ {"saveRepaired"} => SameSettled(mem, rec)
    /\ loop = "saveRepaired" => (EditCompleted(mem) <=> EditCompleted(rec))
    /\ loop \in TaskPc => rec.state[hand.task] \notin Settled

(* Both are covered by the validations that passed, except while a repair   *)
(* edit is under way and its result is not saved.                           *)
CompletionCovered ==
    /\ HasExecution /\ loop \notin {"edit", "saveRepaired"} => CoveredBy(rec, passed)
    /\ loop \in (RunningPc \cup {"saving"}) \ {"edit"} => CoveredBy(mem, passed)
    /\ loop = "reconcile" /\ hand.outcome = "completed" /\ hand.task \in Validation =>
          hand.task \in passed

Accounted == ValidationsFollow /\ MemoryAgrees /\ CompletionCovered

(* Pause and cancel settle nothing and unsettle nothing.                    *)
LEMMA MutatedSettled ==
    ASSUME NEW e \in Execution, NEW a \in CtlAction, a # "retry"
    PROVE  SameSettled(e, Mutated(e, a))
<1>1. a \in {"pause", "cancel"}
  BY CtlActionAssumption
<1>2. \A t \in Task : Mutated(e, a).state[t] = ControlState(a, t, e.state[t])
  BY DEF Mutated, Execution
<1> QED
  BY <1>1, <1>2 DEF SameSettled, Settled, ControlState, Active, Pending

(* Neither does reconcileGraph ...                                          *)
LEMMA ReconcileGraphSettled ==
    ASSUME NEW e \in Execution
    PROVE  SameSettled(e, ReconcileGraph(e))
<1>1. \A t \in Task : ReconcileGraph(e).state[t] = ReconcileState(e.state[t])
  BY DEF ReconcileGraph, Execution
<1> QED
  BY <1>1 DEF SameSettled, Settled, ReconcileState, Active

(* ... nor an observed abort.                                               *)
LEMMA StopForAbortSettled ==
    ASSUME NEW e \in Execution
    PROVE  SameSettled(e, StopForAbortOf(e))
<1>1. \A t \in Task : StopForAbortOf(e).state[t] \in {e.state[t], StopState(e.state[t])}
  BY DEF StopForAbortOf, Execution
<1> QED
  BY <1>1 DEF SameSettled, Settled, StopState, Terminal

(* What agreement on settled tasks preserves.                               *)
LEMMA SettledFacts ==
    ASSUME NEW e \in Execution, NEW f \in Execution, SameSettled(e, f)
    PROVE  /\ EditCompleted(f) <=> EditCompleted(e)
           /\ ValidatedAfterEdit(e) => ValidatedAfterEdit(f)
           /\ \A p : CoveredBy(e, p) => CoveredBy(f, p)
           /\ SameSettled(f, e)
           /\ \A t \in Task : e.state[t] \notin Settled => f.state[t] \notin Settled
<1>1. EditTask \in Task /\ Validation \subseteq Task
  BY DEF EditTask, Task, Validation
<1>2. \A t \in Task :
         /\ e.state[t] = "completed" <=> f.state[t] = "completed"
         /\ e.state[t] = "failed" <=> f.state[t] = "failed"
         /\ e.state[t] = "blocked" <=> f.state[t] = "blocked"
  BY DEF SameSettled, Settled
<1>3. /\ EditCompleted(f) <=> EditCompleted(e)
      /\ ValidatedAfterEdit(e) => ValidatedAfterEdit(f)
  BY <1>1, <1>2, ExecutionExists DEF EditCompleted, ValidatedAfterEdit
<1>4. \A p : CoveredBy(e, p) => CoveredBy(f, p)
  BY <1>1, <1>2 DEF CoveredBy
<1>5. SameSettled(f, e)
  BY DEF SameSettled
<1>6. \A t \in Task : e.state[t] \notin Settled => f.state[t] \notin Settled
  BY <1>2 DEF Settled
<1> QED
  BY <1>3, <1>4, <1>5, <1>6

(* Agreement is transitive.                                                 *)
LEMMA SettledTransitive ==
    ASSUME NEW e, NEW f, NEW g, SameSettled(e, f), SameSettled(f, g)
    PROVE  SameSettled(e, g)
BY DEF SameSettled

(* Writing a task that is not settled, and leaving it so.                   *)
LEMMA UnsettledWritten ==
    ASSUME NEW e, NEW f, NEW t \in Task,
           e.state[t] \notin Settled, f.state[t] \notin Settled,
           \A u \in Task : u # t => f.state[u] = e.state[u]
    PROVE  SameSettled(e, f)
BY DEF SameSettled, Settled

(* A validation e does not show completed is not what e is covered by.      *)
LEMMA CoveredWithout ==
    ASSUME NEW e, NEW p, NEW t \in Task, e.state[t] \notin Settled, CoveredBy(e, p)
    PROVE  CoveredBy(e, p \ {t})
BY DEF CoveredBy, Settled

(* More validations passed cover more.                                      *)
LEMMA CoveredByMore ==
    ASSUME NEW e, NEW p, NEW q, p \subseteq q, CoveredBy(e, p)
    PROVE  CoveredBy(e, q)
BY DEF CoveredBy

(* An exceeded limit completes nothing and leaves what failed failed.       *)
LEMMA FailRemainingCovered ==
    ASSUME NEW e \in Execution, NEW p, CoveredBy(e, p)
    PROVE  CoveredBy(FailRemaining(e), p)
<1>1. \A t \in Task : FailRemaining(e).state[t] = FailState(e.state[t])
  BY DEF FailRemaining, Execution
<1>2. Validation \subseteq Task
  BY DEF Validation
<1> QED
  BY <1>1, <1>2 DEF CoveredBy, FailState, Terminal

(* A repair covers: it requeues every validation, or one has failed.        *)
LEMMA AfterRepairCovered ==
    ASSUME NEW e \in Execution, NEW t \in Validation, NEW o \in EditOutcome, NEW p
    PROVE  CoveredBy(AfterRepair(e, t, o), p)
<1>1. t \in Task /\ o \in TaskState
  BY DEF Validation, EditOutcome, TaskState
<1>2. CASE o = "completed"
  <2>1. \A u \in Validation : AfterRepair(e, t, o).state[u] \in {"ready", "queued"}
    BY <1>2, ResetValidationChainStates DEF AfterRepair
  <2> QED
    BY <2>1 DEF CoveredBy
<1>3. CASE o # "completed"
  <2>1. AfterRepair(e, t, o).state[t] = o
    BY <1>1, <1>3, SetStateStates DEF AfterRepair
  <2> QED
    BY <1>3, <2>1 DEF CoveredBy, EditOutcome
<1> QED
  BY <1>2, <1>3

(* Starting the edit again before any validation is completed.              *)
LEMMA EditUncovers ==
    ASSUME NEW e \in Execution, ValidatedAfterEdit(e), ~EditCompleted(e), NEW f,
           \A u \in Task : u # EditTask => f.state[u] = e.state[u]
    PROVE  CoveredBy(f, {})
<1>1. Validation \subseteq Task /\ EditTask \notin Validation
  BY DEF EditTask, Validation
<1> QED
  BY <1>1, ExecutionExists DEF CoveredBy, ValidatedAfterEdit

(* Entering a run.                                                          *)
LEMMA EntryAccounted ==
    ASSUME IInv, Accounted, Start \/ Plan \/ Resume \/ LoadForResume \/ SaveInitial
    PROVE  Accounted'
<1> USE DEF Accounted, ValidationsFollow, MemoryAgrees, CompletionCovered, RunningPc, TaskPc
<1>1. CASE Start \/ Resume
  BY <1>1 DEF Start, Resume, HasExecution
<1>2. CASE Plan
  <2>1. mem' \in Execution /\ Calms(PlannedExecution, mem')
    BY <1>2, PlannedType, ReconcileGraphType, ReconcileGraphCalms DEF Plan
  <2>2. \A t \in Task : PlannedExecution.state[t] # "completed"
    BY DEF PlannedExecution, InitialState
  <2>3. Validation \subseteq Task
    BY DEF Validation
  <2>4. \A t \in Task : mem'.state[t] # "completed"
    BY <2>1, <2>2 DEF Calms
  <2>5. ValidatedAfterEdit(mem') /\ CoveredBy(mem', passed)
    BY <2>3, <2>4 DEF ValidatedAfterEdit, CoveredBy
  <2>6. loop = "planning" /\ loop' = "saving" /\ UNCHANGED <<rec, passed>>
    BY <1>2 DEF Plan
  <2> QED
    BY <2>5, <2>6 DEF HasExecution
<1>3. CASE LoadForResume
  <2>1. loop = "loading" /\ UNCHANGED <<rec, passed>>
    BY <1>3 DEF LoadForResume
  <2>2. CASE loop' = "exit"
    BY <2>1, <2>2 DEF HasExecution
  <2>3. CASE loop' = "saving"
    <3>1. rec \in Execution /\ mem' = ReconcileGraph(rec) /\ HasExecution
      BY <1>3, <2>3, RecordExists DEF LoadForResume, Resumable, HasExecution, IInv, DataInv, TypeOK
    <3>2. CoveredBy(rec, passed) /\ ValidatedAfterEdit(rec)
      BY <2>1, <3>1
    <3>3. ReconcileGraph(rec) \in Execution /\ SameSettled(rec, ReconcileGraph(rec))
      BY <3>1, ReconcileGraphSettled, ReconcileGraphType
    <3>4. ValidatedAfterEdit(mem') /\ CoveredBy(mem', passed)
      BY <3>1, <3>2, <3>3, SettledFacts
    <3> QED
      BY <2>1, <2>3, <3>1, <3>4 DEF HasExecution
  <2> QED
    BY <1>3, <2>2, <2>3 DEF LoadForResume
<1>4. CASE SaveInitial
  <2>1. /\ loop = "saving" /\ rec' = mem /\ mem' = mem /\ loop' = "top"
        /\ UNCHANGED passed
    BY <1>4 DEF SaveInitial, SaveUnlocked
  <2>2. SameSettled(mem, mem)
    BY DEF SameSettled
  <2> QED
    BY <2>1, <2>2 DEF HasExecution
<1> QED
  BY <1>1, <1>2, <1>3, <1>4

(* The top of the loop, and the saves outside the lock.                     *)
LEMMA TopAccounted ==
    ASSUME IInv, Accounted,
           \/ ObserveAbort \/ ExceedLimit \/ PickTask \/ ReturnUnfinished
           \/ Complete \/ SaveCompletion \/ SaveRepairing \/ SaveRepaired
    PROVE  Accounted'
<1> USE DEF Accounted, ValidationsFollow, MemoryAgrees, CompletionCovered, RunningPc, TaskPc
<1>1. mem \in Execution /\ rec \in Execution /\ HasExecution
  <2>1. mem \in Execution /\ rec \in Execution
    BY DEF ObserveAbort, ExceedLimit, PickTask, ReturnUnfinished, Complete, SaveCompletion,
         SaveRepairing, SaveRepaired, SaveUnlocked, IInv, DataInv, LoopLocals, RecordOfRun
  <2> QED
    BY <2>1, ExecutionExists DEF HasExecution
<1>2. CASE ObserveAbort \/ ExceedLimit \/ ReturnUnfinished
  <2>1. /\ loop = "top" /\ loop' \in {"stop", "limit", "exit"}
        /\ UNCHANGED <<rec, mem, hand, passed>>
    BY <1>2 DEF ObserveAbort, ExceedLimit, ReturnUnfinished
  <2> QED
    BY <1>1, <2>1 DEF HasExecution
<1>3. CASE PickTask
  <2>1. PICK t \in Task : IsNext(mem, t) /\ hand' = [task |-> t, outcome |-> "none"]
    BY <1>3 DEF PickTask
  <2>2. loop = "top" /\ loop' = "mark" /\ UNCHANGED <<rec, mem, passed>>
    BY <1>3 DEF PickTask
  <2>3. mem.state[t] \notin Settled /\ \A d \in Deps(t) : mem.state[d] = "completed"
    BY <2>1 DEF IsNext, Runnable, CompletedTasks, Pending, Settled
  <2>4. SameSettled(mem, rec)
    BY <2>2
  <2>5. rec.state[t] \notin Settled
    BY <1>1, <2>3, <2>4, SettledFacts
  <2>6. t \in Validation => EditCompleted(rec)
    <3>1. t \in Validation => t - 1 \in Deps(t) /\ (t - 1 = EditTask \/ t - 1 \in Validation)
      BY DEF Validation, Task, EditTask, Deps
    <3>2. ValidatedAfterEdit(mem)
      BY <2>2
    <3>3. t \in Validation => EditCompleted(mem)
      BY <1>1, <2>3, <3>1, <3>2, ExecutionExists DEF ValidatedAfterEdit, EditCompleted
    <3> QED
      BY <1>1, <2>4, <3>3, SettledFacts
  <2> QED
    BY <1>1, <2>1, <2>2, <2>5, <2>6 DEF HasExecution
<1>4. CASE Complete
  <2>1. /\ mem'.state = mem.state /\ mem' \in Execution /\ loop = "top" /\ loop' = "finish"
        /\ UNCHANGED <<rec, hand, passed>>
    BY <1>1, <1>4 DEF Complete, Execution
  <2>2. SameSettled(mem, mem') /\ SameSettled(mem, rec) /\ SameSettled(mem', rec)
    BY <2>1 DEF SameSettled
  <2>3. ValidatedAfterEdit(mem) /\ CoveredBy(mem, passed)
    BY <2>1
  <2>4. ValidatedAfterEdit(mem') /\ CoveredBy(mem', passed)
    BY <1>1, <2>1, <2>2, <2>3, SettledFacts
  <2> QED
    BY <1>1, <2>1, <2>2, <2>4 DEF HasExecution
<1>5. CASE SaveCompletion \/ SaveRepairing \/ SaveRepaired
  <2>1. /\ loop \in {"finish", "saveRepairing", "saveRepaired"} /\ rec' = mem /\ mem' = mem
        /\ loop' \in {"exit", "top", "repair"} /\ UNCHANGED passed
        /\ loop' = "repair" => hand' = hand /\ loop = "saveRepairing"
    BY <1>1, <1>5 DEF SaveCompletion, SaveRepairing, SaveRepaired, SaveUnlocked
  <2>2. SameSettled(mem, mem)
    BY DEF SameSettled
  <2>3. loop' = "repair" =>
          mem.state[hand.task] \notin Settled /\ (hand.task \in Validation => EditCompleted(mem))
    <3> SUFFICES ASSUME loop' = "repair"
                 PROVE  mem.state[hand.task] \notin Settled
                        /\ (hand.task \in Validation => EditCompleted(mem))
      OBVIOUS
    <3>1. PICK t \in Task : hand.task = t
      BY <2>1 DEF IInv, DataInv, LoopLocals
    <3>2. SameSettled(mem, rec) /\ rec.state[t] \notin Settled
      BY <2>1, <3>1
    <3>3. mem.state[t] \notin Settled /\ (EditCompleted(rec) => EditCompleted(mem))
      BY <1>1, <3>2, SettledFacts
    <3> QED
      BY <2>1, <3>1, <3>3
  <2> QED
    BY <2>1, <2>2, <2>3 DEF HasExecution
<1> QED
  BY <1>2, <1>3, <1>4, <1>5

(* The sections under the lock.                                             *)
LEMMA LockedAccounted ==
    ASSUME IInv, Quiet, Accounted, StopForAbort \/ FailForLimit \/ MarkActive \/ ReconcileAfterTask
    PROVE  Accounted'
<1> USE DEF Accounted, ValidationsFollow, MemoryAgrees, CompletionCovered, RunningPc, TaskPc
<1>1. rec \in Execution /\ HasExecution
  <2>1. rec \in Execution
    BY DEF StopForAbort, FailForLimit, MarkActive, ReconcileAfterTask, LoopLocked, IInv, DataInv,
         RecordOfRun
  <2> QED
    BY <2>1, ExecutionExists DEF HasExecution
<1>2. CASE StopForAbort \/ FailForLimit
  <2>1. /\ loop \in {"stop", "limit"} /\ loop' = "exit" /\ UNCHANGED passed
        /\ rec' = StopForAbortOf(rec) \/ rec' = FailRemaining(rec)
    BY <1>2 DEF StopForAbort, FailForLimit, LoopLocked
  <2>2. ValidatedAfterEdit(rec) /\ CoveredBy(rec, passed)
    BY <1>1, <2>1
  <2>3. ValidatedAfterEdit(rec')
    BY <1>1, <2>1, <2>2, StopForAbortCalms, FailRemainingCalms, StopForAbortType,
       FailRemainingType, CalmEdit
  <2>4. CoveredBy(rec', passed)
    <3>1. StopForAbortOf(rec) \in Execution /\ SameSettled(rec, StopForAbortOf(rec))
      BY <1>1, StopForAbortSettled, StopForAbortType
    <3>2. CoveredBy(StopForAbortOf(rec), passed)
      BY <1>1, <2>2, <3>1, SettledFacts
    <3> QED
      BY <1>1, <2>1, <2>2, <3>2, FailRemainingCovered
  <2> QED
    BY <2>1, <2>3, <2>4
<1>3. CASE MarkActive
  <2>1. PICK t \in Task : hand.task = t
    BY <1>3 DEF MarkActive, LoopLocked, IInv, DataInv, LoopLocals
  <2>2. /\ loop = "mark" /\ loop' = "execute" /\ mem' = rec' /\ hand' = hand
        /\ rec' = SetState(rec, t, ActiveState(t))
        /\ passed' = IF t = EditTask THEN {} ELSE passed
    BY <1>3, <2>1 DEF MarkActive, LoopLocked
  <2>3. ActiveState(t) \in TaskState /\ ActiveState(t) \notin Settled
    BY DEF ActiveState, TaskState, Settled
  <2>4. /\ rec' \in Execution
        /\ \A u \in Task : rec'.state[u] = IF u = t THEN ActiveState(t) ELSE rec.state[u]
    BY <1>1, <2>2, <2>3, SetStateStates, SetStateType
  <2>5. rec.state[t] \notin Settled /\ ValidatedAfterEdit(rec) /\ CoveredBy(rec, passed)
    BY <1>1, <2>1, <2>2
  <2>6. SameSettled(rec, rec')
    BY <2>3, <2>4, <2>5, UnsettledWritten
  <2>7. /\ EditCompleted(rec') <=> EditCompleted(rec)
        /\ ValidatedAfterEdit(rec') /\ CoveredBy(rec', passed)
    BY <1>1, <2>4, <2>5, <2>6, SettledFacts
  <2>8. CoveredBy(rec', passed')
    <3>1. CASE t = EditTask
      <4>1. ~EditCompleted(rec)
        BY <2>5, <3>1 DEF EditCompleted, Settled
      <4>2. \A u \in Task : u # EditTask => rec'.state[u] = rec.state[u]
        BY <2>4, <3>1
      <4>3. CoveredBy(rec', {})
        BY <1>1, <2>5, <4>1, <4>2, EditUncovers
      <4> QED
        BY <2>2, <3>1, <4>3
    <3>2. CASE t # EditTask
      BY <2>2, <2>7, <3>2
    <3> QED
      BY <3>1, <3>2
  <2>9. SameSettled(rec', rec') /\ rec'.state[t] \notin Settled
    BY <2>3, <2>4 DEF SameSettled
  <2>10. hand.task \in Validation => EditCompleted(rec)
    BY <2>2
  <2> QED
    BY <2>1, <2>2, <2>7, <2>8, <2>9, <2>10
<1>4. CASE ReconcileAfterTask
  <2>1. PICK t \in Task, o \in EditOutcome \cup {"threw"} : hand.task = t /\ hand.outcome = o
    BY <1>4 DEF ReconcileAfterTask, LoopLocked, IInv, DataInv, LoopLocals
  <2>2. /\ loop = "reconcile" /\ loop' = "top" /\ mem' = rec' /\ UNCHANGED passed
        /\ rec' = ReconciledWith(rec, t, o)
    BY <1>4, <2>1 DEF ReconcileAfterTask, LoopLocked
  <2>3. /\ rec' \in Execution
        /\ \A u \in Task : u # t => rec'.state[u] = rec.state[u]
        /\ rec'.state[t] \in {rec.state[t], "ready", "failed"} \cup {o}
        /\ rec'.state[t] = "completed" => rec.state[t] = "completed" \/ o = "completed"
    <3>1. ReconciledWith(rec, t, o) \in Execution
      BY <1>1, ReconciledWithType
    <3> DEFINE r == ReconciledWith(rec, t, o)
    <3>2. /\ \A u \in Task : u # t => r.state[u] = rec.state[u]
          /\ rec.state[t] # ActiveState(t) => r.state[t] = rec.state[t]
          /\ rec.state[t] = ActiveState(t) =>
                 r.state[t] \in IF o = "threw" THEN {"ready", "failed"} ELSE {o}
      <4> HIDE DEF Accounted
      <4> QED
        BY <1>1, ReconciledWithStates
    <3> HIDE DEF r
    <3>3. r.state[t] \in {rec.state[t], "ready", "failed"} \cup {o}
      BY <3>2
    <3>4. r.state[t] = "completed" => rec.state[t] = "completed" \/ o = "completed"
      BY <3>3
    <3>5. rec' = r
      BY <2>2 DEF r
    <3>6. r \in Execution
      BY <3>1 DEF r
    <3> QED
      BY <3>2, <3>3, <3>4, <3>5, <3>6
  <2>4. /\ rec.state[t] \notin Settled /\ ValidatedAfterEdit(rec) /\ CoveredBy(rec, passed)
        /\ t \in Validation => EditCompleted(rec)
        /\ o = "completed" /\ t \in Validation => t \in passed
    BY <1>1, <2>1, <2>2
  <2>5. ValidatedAfterEdit(rec')
    <3>1. CASE t = EditTask
      BY <1>1, <2>3, <2>4, <3>1, WrittenEdit DEF EditCompleted, Settled
    <3>2. CASE t # EditTask
      BY <1>1, <2>3, <2>4, <3>2, SettledEdit
    <3> QED
      BY <3>1, <3>2
  <2>6. CoveredBy(rec', passed)
    BY <2>3, <2>4 DEF CoveredBy, Settled, Validation
  <2>7. SameSettled(rec', rec')
    BY DEF SameSettled
  <2> QED
    BY <2>2, <2>5, <2>6, <2>7
<1> QED
  BY <1>2, <1>3, <1>4

(* The work of a task.                                                      *)
LEMMA WorkAccounted ==
    ASSUME IInv, Accounted,
           \/ ExecuteAnalysis
           \/ \E o \in EditOutcome \cup {"threw"} : ExecuteEdit(o)
           \/ ValidationPasses \/ ValidationThrows \/ ValidationFails
    PROVE  Accounted'
<1> USE DEF Accounted, ValidationsFollow, MemoryAgrees, CompletionCovered, RunningPc, TaskPc
<1>1. PICK t \in Task : hand.task = t
  BY DEF ExecuteAnalysis, ExecuteEdit, ValidationPasses, ValidationThrows, ValidationFails,
         IInv, DataInv, LoopLocals
<1>2. /\ loop = "execute" /\ rec' = rec
      /\ mem \in Execution /\ rec \in Execution /\ HasExecution
  <2>1. loop = "execute" /\ rec' = rec /\ mem \in Execution /\ rec \in Execution
    BY DEF ExecuteAnalysis, ExecuteEdit, ValidationPasses, ValidationThrows, ValidationFails,
         IInv, DataInv, LoopLocals, RecordOfRun
  <2> QED
    BY <2>1, ExecutionExists DEF HasExecution
<1>3. /\ CoveredBy(rec, passed) /\ CoveredBy(mem, passed) /\ SameSettled(mem, rec)
      /\ rec.state[t] \notin Settled /\ ValidatedAfterEdit(mem) /\ ValidatedAfterEdit(rec)
      /\ t \in Validation => EditCompleted(rec)
  BY <1>1, <1>2
<1>4. CASE ExecuteAnalysis \/ ValidationThrows \/ \E o \in EditOutcome \cup {"threw"} : ExecuteEdit(o)
  <2>1. /\ loop' = "reconcile" /\ hand'.task = t
        /\ hand'.outcome = "completed" => t \notin Validation
        /\ UNCHANGED <<mem, passed>>
    <3>1. \E o \in Outcome : Deliver(o) /\ (o = "completed" => t \notin Validation)
      <4>1. {"completed", "threw"} \subseteq Outcome /\ EditOutcome \cup {"threw"} \subseteq Outcome
        BY DEF Outcome, EditOutcome
      <4>2. \A u \in Validation : u > EditTask
        BY DEF Validation
      <4>3. EditTask \in Nat /\ t \in Nat
        BY DEF EditTask, Task
      <4>4. CASE ExecuteAnalysis
        BY <1>1, <4>1, <4>2, <4>3, <4>4 DEF ExecuteAnalysis
      <4>5. CASE ValidationThrows
        BY <4>1, <4>5 DEF ValidationThrows
      <4>6. CASE \E o \in EditOutcome \cup {"threw"} : ExecuteEdit(o)
        BY <1>1, <4>1, <4>2, <4>3, <4>6 DEF ExecuteEdit
      <4> QED
        BY <1>4, <4>4, <4>5, <4>6
    <3>2. UNCHANGED passed
      BY <1>4 DEF ExecuteAnalysis, ExecuteEdit, ValidationThrows
    <3> QED
      BY <1>1, <3>1, <3>2 DEF Deliver, IInv, DataInv, TypeOK
  <2> QED
    BY <1>2, <1>3, <2>1 DEF HasExecution
<1>5. CASE ValidationPasses
  <2>1. /\ loop' = "reconcile" /\ hand'.task = t /\ passed' = passed \cup {t}
        /\ UNCHANGED mem
    BY <1>1, <1>5 DEF ValidationPasses, Deliver, IInv, DataInv, TypeOK
  <2>2. CoveredBy(rec, passed') /\ CoveredBy(mem, passed')
    BY <1>3, <2>1, CoveredByMore
  <2> QED
    BY <1>2, <1>3, <2>1, <2>2 DEF HasExecution
<1>6. CASE ValidationFails
  <2>1. /\ loop' = "saveRepairing" /\ hand' = hand /\ passed' = passed \ {t}
        /\ mem' = ApplyTaskResult(mem, t, "repairing")
    BY <1>1, <1>6 DEF ValidationFails
  <2>2. "repairing" \in TaskState \ Settled
    BY DEF TaskState, Settled
  <2>3. /\ mem' \in Execution
        /\ \A u \in Task : mem'.state[u] = IF u = t THEN "repairing" ELSE mem.state[u]
    BY <1>2, <2>1, <2>2, ApplyTaskResultStates, ApplyTaskResultType
  <2>4. mem.state[t] \notin Settled
    BY <1>2, <1>3, SettledFacts
  <2>5. SameSettled(mem, mem')
    BY <2>2, <2>3, <2>4, UnsettledWritten
  <2>6. SameSettled(mem', mem) /\ ValidatedAfterEdit(mem')
    BY <1>2, <1>3, <2>3, <2>5, SettledFacts
  <2>7. SameSettled(mem', rec)
    BY <1>3, <2>6, SettledTransitive
  <2>8. CoveredBy(rec, passed') /\ CoveredBy(mem, passed')
    BY <1>3, <2>1, <2>4, CoveredWithout
  <2>9. CoveredBy(mem', passed')
    BY <1>2, <2>3, <2>5, <2>8, SettledFacts
  <2> QED
    BY <1>1, <1>2, <1>3, <2>1, <2>6, <2>7, <2>8, <2>9 DEF HasExecution
<1> QED
  BY <1>4, <1>5, <1>6

(* A repair, where no store fails.                                          *)
LEMMA RepairAccounted ==
    ASSUME IInv, RepairsValidation, Accounted,
           RefuseRepair \/ BeginRepairEdit \/ \E o \in EditOutcome : FinishRepairEdit(o)
    PROVE  Accounted'
<1> USE DEF Accounted, ValidationsFollow, MemoryAgrees, CompletionCovered, RunningPc, TaskPc
<1>1. PICK t \in Validation : hand.task = t
  BY DEF RefuseRepair, BeginRepairEdit, FinishRepairEdit, RepairsValidation, RepairPc
<1>2. /\ loop \in {"repair", "edit"} /\ rec' = rec /\ hand' = hand
      /\ mem \in Execution /\ rec \in Execution /\ t \in Task
  BY DEF RefuseRepair, BeginRepairEdit, FinishRepairEdit, IInv, DataInv, LoopLocals, RecordOfRun,
         Validation
<1>3. /\ SameSettled(mem, rec) /\ rec.state[t] \notin Settled
      /\ ValidatedAfterEdit(mem) /\ ValidatedAfterEdit(rec) /\ EditCompleted(rec)
  BY <1>1, <1>2
<1>4. CASE BeginRepairEdit
  BY <1>1, <1>2, <1>3, <1>4 DEF BeginRepairEdit, HasExecution
<1>5. CASE ~BeginRepairEdit
  <2>1. PICK o \in EditOutcome : mem' = AfterRepair(mem, t, o)
    <3>1. "failed" \in EditOutcome /\ AfterRepair(mem, t, "failed") = SetState(mem, t, "failed")
      BY DEF EditOutcome, AfterRepair
    <3> QED
      BY <1>1, <1>5, <3>1 DEF RefuseRepair, FinishRepairEdit
  <2>2. loop' = "saveRepaired" /\ UNCHANGED passed
    BY <1>5 DEF RefuseRepair, FinishRepairEdit
  <2>3. /\ EditCompleted(mem') <=> EditCompleted(mem)
        /\ ValidatedAfterEdit(mem')
    BY <1>2, <1>3, <2>1, RepairedEdit
  <2>4. EditCompleted(mem) <=> EditCompleted(rec)
    BY <1>2, <1>3, SettledFacts
  <2>5. CoveredBy(mem', passed)
    <3>1. \A p : CoveredBy(AfterRepair(mem, t, o), p)
      BY <1>2, AfterRepairCovered
    <3> QED
      BY <2>1, <3>1
  <2> QED
    BY <1>1, <1>2, <1>3, <2>2, <2>3, <2>4, <2>5 DEF HasExecution
<1> QED
  BY <1>4, <1>5

(* Requests that pause or cancel and save what is still the record.         *)
LEMMA RequestAccounted ==
    ASSUME IInv, Accounted, ~restored', "retry" \notin CtlAction, NEW c \in Control,
           \/ \E a \in CtlAction : CtlRequest(c, a)
           \/ CtlStep(c) \/ CtlStoreFault(c)
    PROVE  Accounted'
<1> USE DEF Accounted, ValidationsFollow, MemoryAgrees, CompletionCovered
<1>1. CASE UNCHANGED <<rec, mem, loop, hand, passed>>
  BY <1>1 DEF HasExecution
<1>2. CASE CtlSave(c)
  <2>1. PICK a \in CtlAction : ctl[c].action = a
    BY <1>2 DEF CtlSave, IInv, DataInv, Requests
  <2>2. /\ rec = ctl[c].snap /\ rec \in Execution /\ rec' = Mutated(rec, a)
        /\ UNCHANGED <<mem, loop, hand, passed>>
    BY <1>2, <2>1 DEF CtlSave, IInv, DataInv, Requests, TypeOK
  <2>3. PICK f \in Execution : SameSettled(rec, f) /\ rec' = f
    <3>1. a # "retry"
      OBVIOUS
    <3>2. SameSettled(rec, Mutated(rec, a)) /\ Mutated(rec, a) \in Execution
      BY <2>2, <3>1, MutatedSettled, MutatedType
    <3> QED
      BY <2>2, <3>2
  <2>4. HasExecution
    BY <2>2, ExecutionExists DEF HasExecution
  <2>5. /\ EditCompleted(rec') <=> EditCompleted(rec)
        /\ ValidatedAfterEdit(rec') /\ (CoveredBy(rec, passed) => CoveredBy(rec', passed))
        /\ \A t \in Task : rec.state[t] \notin Settled => rec'.state[t] \notin Settled
    <3>1. ValidatedAfterEdit(rec)
      OBVIOUS
    <3> QED
      BY <2>2, <2>3, <3>1, SettledFacts
  <2>6. SameSettled(mem, rec) => SameSettled(mem, rec')
    BY <2>3, SettledTransitive
  <2>7. loop \in TaskPc => hand.task \in Task
    BY DEF IInv, DataInv, LoopLocals
  <2> QED
    BY <2>2, <2>4, <2>5, <2>6, <2>7 DEF HasExecution
<1> QED
  BY <1>1, <1>2 DEF CtlRequest, CtlStep, CtlReject, CtlLoad, CtlDone, CtlStoreFault

(* The third inductive invariant.                                           *)
CompletionInv == ~restored => Accounted

LEMMA NextCompletionInv ==
    ASSUME FlightInv, CompletionInv, [Next]_vars, "retry" \notin CtlAction,
           "crash" \notin Fault, "io" \notin Fault
    PROVE  CompletionInv'
<1> SUFFICES ASSUME ~restored' PROVE Accounted'
  BY DEF CompletionInv
<1>1. IInv /\ Quiet /\ RepairsValidation /\ Accounted
  BY RestoredIsKept DEF FlightInv, InFlight, Quiet, CompletionInv
<1>2. CASE Release \/ Shutdown
  BY <1>1, <1>2 DEF Release, Shutdown, Accounted, ValidationsFollow, MemoryAgrees,
                    CompletionCovered, RunningPc, TaskPc, HasExecution
<1>3. CASE LoopStep
  BY <1>1, <1>2, <1>3, EntryAccounted, TopAccounted, LockedAccounted, WorkAccounted,
     RepairAccounted DEF LoopStep
<1>4. CASE \E c \in Control : CtlStep(c)
  BY <1>1, <1>4, RequestAccounted
<1>5. CASE Environment
  BY <1>1, <1>2, <1>5, EntryAccounted, TopAccounted, RequestAccounted
     DEF Environment, Crash, LoopStoreFault, RepairStoreFault
<1>6. CASE UNCHANGED vars
  BY <1>1, <1>6 DEF vars, Accounted, ValidationsFollow, MemoryAgrees, CompletionCovered, HasExecution
<1> QED
  BY <1>3, <1>4, <1>5, <1>6 DEF Next

(* A completed mission is a validated one: when every task of the record is *)
(* completed, every validation has passed on the repository as the last     *)
(* edit left it, whatever was paused, cancelled, aborted, repaired, resumed *)
(* or started again.  The hypotheses are needed: a retry runs one failed    *)
(* validation alone, and a crash during a repair edit leaves the edit       *)
(* unrecorded.                                                             *)
THEOREM CompletedIsValidated ==
    ASSUME "retry" \notin CtlAction, "crash" \notin Fault, "io" \notin Fault
    PROVE  Spec => []CompletionIsValidated
<1>1. Init => CompletionInv
  BY DEF Init, CompletionInv, Accounted, ValidationsFollow, MemoryAgrees, CompletionCovered,
         ValidatedAfterEdit, HasExecution, RunningPc, TaskPc
<1>2. FlightInv /\ CompletionInv /\ [Next]_vars => CompletionInv'
  BY NextCompletionInv
<1>3. FlightInv /\ CompletionInv => CompletionIsValidated
  <2> SUFFICES ASSUME FlightInv, CompletionInv, HasExecution, CompletedTasks(rec) = Task, ~restored
               PROVE  passed = Validation
    BY DEF CompletionIsValidated
  <2>1. \A t \in Task : rec.state[t] = "completed"
    BY DEF CompletedTasks
  <2>2. loop \notin {"edit", "saveRepaired"}
    BY <2>1 DEF FlightInv, IInv, DataInv, LoopLocals, CompletionInv, Accounted, MemoryAgrees, TaskPc,
                Settled
  <2>3. CoveredBy(rec, passed)
    BY <2>2 DEF CompletionInv, Accounted, CompletionCovered
  <2>4. passed \subseteq Validation /\ Validation \subseteq Task
    BY DEF FlightInv, IInv, DataInv, TypeOK, Validation
  <2> QED
    BY <2>1, <2>3, <2>4 DEF CoveredBy
<1> QED
  BY <1>1, <1>2, <1>3, FlightInvariance, PTL DEF Spec

=============================================================================
