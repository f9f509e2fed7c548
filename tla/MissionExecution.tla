---------------------------- MODULE MissionExecution ----------------------------
(***************************************************************************)
(* One autonomous mission in one server process: the run loop              *)
(* (PersistentMissionExecutor, entered through AutonomousMissionCoordinator *)
(* start/resume), the operator's pause/cancel/retry requests               *)
(* (AutonomousMissionControl), the per-mission FIFO mutex they share        *)
(* (MissionExecutionLock), the abort signal (MissionExecutionAbortRegistry), *)
(* the bounded repair of a failed validation                               *)
(* (PersistentMissionRepairController) and the two JSON files that survive  *)
(* a crash: the execution record and the repair-loop record.               *)
(*                                                                         *)
(* The process is single threaded, so an action is the code between two     *)
(* awaits.  A save takes effect when its rename does; the lock's holder has *)
(* one action for load-modify-save when nobody else can touch the record    *)
(* meanwhile, and two (CtlLoad, CtlSave) when the run loop's unlocked saves *)
(* can fall in between.                                                    *)
(***************************************************************************)
EXTENDS Naturals, Sequences, FiniteSets

CONSTANTS
    NumAnalysis,     \* analysis tasks the planner puts before the edit (3 in the code)
    NumValidation,   \* validation commands, one task each, chained in order
    MaxRepair,       \* maxRepairAttempts of the repair loop
    Control,         \* operator requests that may be in flight at the same time
    CtlAction,       \* the control endpoints the operators use
    Fault            \* environment events of this instance, a subset of FaultKind

FaultKind == {"crash", "io", "restart"}

ASSUME NumAnalysisAssumption == NumAnalysis \in Nat
ASSUME NumValidationAssumption == NumValidation \in Nat
ASSUME MaxRepairAssumption == MaxRepair \in Nat
ASSUME CtlActionAssumption == CtlAction \subseteq {"pause", "cancel", "retry"}
ASSUME LoopAssumption == "loop" \notin Control

VARIABLES
    rec,         \* the execution record on disk (NoExecution: no file)
    repairRec,   \* the repair-loop record on disk
    loop,        \* where the run loop stands; "off" is an unregistered mission
    mem,         \* `current`: the loop's in-memory execution
    hand,        \* the task the loop has in hand and the outcome it carries
    aborted,     \* the registered AbortController has been aborted
    queue,       \* FIFO of MissionExecutionLock, the holder first
    ctl,         \* the control requests
    passed,      \* history: validations that passed since the last edit began
    repairEdits, \* history: repair edits begun for this mission, up to MaxRepair + 1
    restored     \* history: a request has saved over a save of the loop it had not loaded

vars == <<rec, repairRec, loop, mem, hand, aborted, queue, ctl, passed, repairEdits, restored>>

-----------------------------------------------------------------------------
(* The planned graph.                                                      *)

EditTask == NumAnalysis + 1
Task == 1..(NumAnalysis + 1 + NumValidation)
Validation == {t \in Task : t > EditTask}

Deps(t) ==
    IF t < EditTask THEN {}
    ELSE IF t = EditTask THEN 1..NumAnalysis
    ELSE {t - 1}

MaxAttempts(t) == IF t \in Validation THEN 2 ELSE 1

TaskState == {"queued", "blocked", "ready", "running", "validating", "repairing",
              "completed", "failed", "cancelled", "interrupted"}
Terminal == {"completed", "failed", "cancelled", "blocked"}
Active == {"running", "validating", "repairing"}
Pending == {"queued", "ready", "interrupted"}

Execution == [state : [Task -> TaskState],
              attempts : [Task -> 0..2],
              done : BOOLEAN]           \* completedAt is defined
NoExecution == [state |-> "missing"]

InitialState(t) == IF Deps(t) = {} THEN "ready" ELSE "queued"
PlannedExecution ==
    [state |-> [t \in Task |-> InitialState(t)], attempts |-> [t \in Task |-> 0],
     done |-> FALSE]

(* attempts is only ever compared with maxAttempts, so it stops there.     *)
OneMoreAttempt(e, t) ==
    IF e.attempts[t] < MaxAttempts(t) THEN e.attempts[t] + 1 ELSE e.attempts[t]

SetState(e, t, s) == [e EXCEPT !.state[t] = s]

ActiveState(t) == IF t \in Validation THEN "validating" ELSE "running"
MutReconcileState(s) == IF s \in {"validating", "repairing"} THEN "interrupted" ELSE s
ReconcileState(s) == IF s \in Active THEN "interrupted" ELSE s
ReconcileGraph(e) == [e EXCEPT !.state = [t \in Task |-> ReconcileState(e.state[t])]]

CompletedTasks(e) == {t \in Task : e.state[t] = "completed"}
Unfinished(e) == \E t \in Task : e.state[t] \notin Terminal
MutRunnable(e) == {t \in Task : e.state[t] \in Pending}
Runnable(e) == {t \in Task : e.state[t] \in Pending /\ Deps(t) \subseteq CompletedTasks(e)}
IsNext(e, t) == t \in Runnable(e) /\ \A u \in Runnable(e) : t <= u

StopState(s) == IF s \in Terminal THEN s ELSE "interrupted"
StopForAbortOf(e) ==
    IF e.done \/ ~Unfinished(e) THEN e
    ELSE [e EXCEPT !.state = [t \in Task |-> StopState(e.state[t])]]

FailState(s) == IF s \in Terminal THEN s ELSE "failed"
FailRemaining(e) ==
    [e EXCEPT !.state = [t \in Task |-> FailState(e.state[t])], !.done = TRUE]

ApplyTaskResult(e, t, s) ==
    [e EXCEPT !.state[t] = s, !.attempts[t] = OneMoreAttempt(e, t)]

(* The state after an exception: `attempts + 1 < maxAttempts` retries.     *)
ApplyException(e, t) ==
    [e EXCEPT !.state[t] = IF e.attempts[t] + 1 < MaxAttempts(t) THEN "ready" ELSE "failed",
              !.attempts[t] = OneMoreAttempt(e, t)]

MutResetValidationChain(e) ==
    [e EXCEPT !.state = [t \in Task |->
        IF t \in Validation /\ e.state[t] # "completed" THEN "queued" ELSE e.state[t]]]

ResetValidationChain(e) ==
    LET completedNonValidation == CompletedTasks(e) \ Validation
    IN  [e EXCEPT !.state = [t \in Task |->
            IF t \notin Validation THEN e.state[t]
            ELSE IF Deps(t) \subseteq completedNonValidation THEN "ready" ELSE "queued"]]

MutAfterRepair(e, t, outcome) ==
    IF outcome = "completed" THEN ResetValidationChain(e) ELSE e

AfterRepair(e, t, outcome) ==
    IF outcome = "completed" THEN ResetValidationChain(e) ELSE SetState(e, t, outcome)

RetryState(t) == IF Deps(t) = {} THEN "ready" ELSE "queued"
ControlState(a, t, s) ==
    CASE a = "pause"  -> IF s \in Active THEN "interrupted" ELSE s
      [] a = "cancel" -> IF s \in Pending \cup Active THEN "cancelled" ELSE s
      [] a = "retry"  -> IF s \in {"failed", "blocked", "cancelled"} THEN RetryState(t) ELSE s
MutMutated(e, a) ==
    [e EXCEPT !.state = [t \in Task |-> ControlState(a, t, e.state[t])]]

Mutated(e, a) ==
    [e EXCEPT !.state = [t \in Task |-> ControlState(a, t, e.state[t])],
              !.done = IF a = "retry" THEN FALSE ELSE e.done]

-----------------------------------------------------------------------------
(* The repair-loop record.                                                 *)

RepairState == {"planned", "validating", "repairing", "failed", "completed"}
RepairRecord == [state : RepairState, phases : SUBSET Validation, attempts : 0..MaxRepair]
InitialRepairRecord == [state |-> "planned", phases |-> {}, attempts |-> 0]

MutRecordValidation(r, t, ok) ==
    LET phases == IF ok THEN r.phases \cup {t} ELSE r.phases \ {t}
    IN  [r EXCEPT !.phases = phases,
                  !.state = IF ~ok THEN "repairing"
                            ELSE IF Validation \subseteq phases THEN "completed"
                            ELSE "validating"]

RecordValidation(r, t, ok) ==
    LET phases == IF ok THEN r.phases \cup {t} ELSE {}
    IN  [r EXCEPT !.phases = phases,
                  !.state = IF ~ok THEN "repairing"
                            ELSE IF Validation \subseteq phases THEN "completed"
                            ELSE "validating"]

MutRepairExhausted(r) == r.attempts > MaxRepair
RepairExhausted(r) == r.attempts >= MaxRepair

MutRecordRepairAttempt(r, outcome) ==
    [state |-> IF outcome = "completed" THEN "validating" ELSE "failed",
     phases |-> {}, attempts |-> IF outcome = "completed" THEN r.attempts ELSE r.attempts + 1]

RecordRepairAttempt(r, outcome) ==
    [state |-> IF outcome = "completed" THEN "validating" ELSE "failed",
     phases |-> {}, attempts |-> r.attempts + 1]

-----------------------------------------------------------------------------

LoopPc == {"off", "planning", "loading", "saving", "top", "stop", "limit", "finish", "mark",
           "execute", "reconcile", "saveRepairing", "repair", "edit", "saveRepaired", "exit"}
LoopQueued == {"stop", "limit", "mark", "reconcile"}
Outcome == {"none", "completed", "failed", "blocked", "threw"}
CtlPc == {"idle", "queued", "loaded", "saved"}

NoHand == [task |-> 0, outcome |-> "none"]
IdleCtl == [pc |-> "idle", action |-> "none", snap |-> NoExecution]
Answered(c) == [IdleCtl EXCEPT !.action = ctl[c].action]

TypeOK ==
    /\ rec \in Execution \cup {NoExecution}
    /\ repairRec \in RepairRecord
    /\ loop \in LoopPc
    /\ mem \in Execution \cup {NoExecution}
    /\ hand \in [task : Task \cup {0}, outcome : Outcome]
    /\ aborted \in BOOLEAN
    /\ queue \in Seq(Control \cup {"loop"})
    /\ ctl \in [Control -> [pc : CtlPc, action : CtlAction \cup {"none"},
                            snap : Execution \cup {NoExecution}]]
    /\ passed \subseteq Validation
    /\ repairEdits \in 0..(MaxRepair + 1) /\ restored \in BOOLEAN

Init ==
    /\ rec = NoExecution
    /\ repairRec = InitialRepairRecord
    /\ loop = "off"
    /\ mem = NoExecution
    /\ hand = NoHand
    /\ aborted = FALSE
    /\ queue = <<>>
    /\ ctl = [c \in Control |-> IdleCtl]
    /\ passed = {}
    /\ repairEdits = 0 /\ restored = FALSE

LockHeldBy(a) == queue # <<>> /\ Head(queue) = a
Enqueue(a) == queue' = Append(queue, a)
Unlock == queue' = Tail(queue)

-----------------------------------------------------------------------------
(* Entering a run: registerIfAbsent succeeds only for an unregistered       *)
(* mission; the controller it creates has a fresh signal.                    *)

Start ==
    /\ loop = "off"
    /\ "restart" \in Fault \/ rec = NoExecution
    /\ loop' = "planning"
    /\ UNCHANGED <<rec, repairRec, mem, hand, aborted, queue, ctl, passed, repairEdits, restored>>

Plan ==
    /\ loop = "planning"
    /\ mem' = ReconcileGraph(PlannedExecution)
    /\ loop' = "saving"
    /\ UNCHANGED <<rec, repairRec, hand, aborted, queue, ctl, passed, repairEdits, restored>>

Resume ==
    /\ loop = "off"
    /\ loop' = "loading"
    /\ UNCHANGED <<rec, repairRec, mem, hand, aborted, queue, ctl, passed, repairEdits, restored>>

Resumable == rec # NoExecution /\ ~rec.done

(* A missing record throws, a completed one is returned as it is.          *)
LoadForResume ==
    /\ loop = "loading"
    /\ \/ /\ ~Resumable
          /\ mem' = rec
          /\ loop' = "exit"
       \/ /\ Resumable
          /\ mem' = ReconcileGraph(rec)
          /\ loop' = "saving"
    /\ UNCHANGED <<rec, repairRec, hand, aborted, queue, ctl, passed, repairEdits, restored>>

(* The saves outside the lock: the first one of a run, the completion, and  *)
(* the two around a repair.                                                *)
SaveUnlocked(from, to) ==
    /\ loop = from
    /\ rec' = mem
    /\ loop' = to
    /\ hand' = IF to = "repair" THEN hand ELSE NoHand
    /\ UNCHANGED <<repairRec, mem, aborted, queue, ctl, passed, repairEdits, restored>>

SaveInitial == SaveUnlocked("saving", "top")

-----------------------------------------------------------------------------
(* The top of run()'s while loop.                                          *)

ObserveAbort ==
    /\ loop = "top" /\ aborted
    /\ loop' = "stop"
    /\ Enqueue("loop")
    /\ UNCHANGED <<rec, repairRec, mem, hand, aborted, ctl, passed, repairEdits, restored>>

(* The clock and the grant's spending are environment: the duration or the  *)
(* budget may be found exceeded at any check.                              *)
ExceedLimit ==
    /\ loop = "top" /\ ~aborted
    /\ loop' = "limit"
    /\ Enqueue("loop")
    /\ UNCHANGED <<rec, repairRec, mem, hand, aborted, ctl, passed, repairEdits, restored>>

PickTask ==
    /\ loop = "top" /\ ~aborted
    /\ \E t \in Task :
          /\ IsNext(mem, t)
          /\ hand' = [task |-> t, outcome |-> "none"]
    /\ loop' = "mark"
    /\ Enqueue("loop")
    /\ UNCHANGED <<rec, repairRec, mem, aborted, ctl, passed, repairEdits, restored>>

ReturnUnfinished ==
    /\ loop = "top" /\ ~aborted
    /\ Runnable(mem) = {} /\ Unfinished(mem)
    /\ loop' = "exit"
    /\ UNCHANGED <<rec, repairRec, mem, hand, aborted, queue, ctl, passed, repairEdits, restored>>

Complete ==
    /\ loop = "top" /\ ~aborted
    /\ Runnable(mem) = {} /\ ~Unfinished(mem)
    /\ mem' = [mem EXCEPT !.done = TRUE]
    /\ loop' = "finish"
    /\ UNCHANGED <<rec, repairRec, hand, aborted, queue, ctl, passed, repairEdits, restored>>

SaveCompletion == SaveUnlocked("finish", "exit")

-----------------------------------------------------------------------------
(* The loop's sections under the lock: reload the record, change it, save.  *)

LoopLocked(pc, to, e) ==
    /\ loop = pc
    /\ LockHeldBy("loop")
    /\ rec' = e
    /\ mem' = e
    /\ loop' = to
    /\ Unlock
    /\ UNCHANGED <<repairRec, aborted, ctl, repairEdits, restored>>

StopForAbort ==
    /\ LoopLocked("stop", "exit", StopForAbortOf(rec))
    /\ UNCHANGED <<hand, passed>>

FailForLimit ==
    /\ LoopLocked("limit", "exit", FailRemaining(rec))
    /\ UNCHANGED <<hand, passed>>

(* #executeTask marks the task active in the reloaded record whatever state *)
(* it is in there.                                                         *)
MarkActive ==
    /\ LoopLocked("mark", "execute", SetState(rec, hand.task, ActiveState(hand.task)))
    /\ passed' = IF hand.task = EditTask THEN {} ELSE passed
    /\ UNCHANGED hand

ReconciledWith(e, t, outcome) ==
    IF e.state[t] # ActiveState(t) THEN e
    ELSE IF outcome = "threw" THEN ApplyException(e, t)
    ELSE ApplyTaskResult(e, t, outcome)

ReconcileAfterTask ==
    /\ LoopLocked("reconcile", "top", ReconciledWith(rec, hand.task, hand.outcome))
    /\ hand' = NoHand
    /\ UNCHANGED passed

-----------------------------------------------------------------------------
(* The work of a task.  Analysis always completes; the edit executor may    *)
(* complete, fail, be blocked or throw; a validation passes, fails or       *)
(* throws, and is recorded in the repair loop.                              *)

Deliver(outcome) ==
    /\ hand' = [hand EXCEPT !.outcome = outcome]
    /\ loop' = "reconcile"
    /\ Enqueue("loop")
    /\ UNCHANGED mem

ExecuteAnalysis ==
    /\ loop = "execute" /\ hand.task < EditTask
    /\ Deliver("completed")
    /\ UNCHANGED <<rec, repairRec, aborted, ctl, passed, repairEdits, restored>>

ExecuteEdit(outcome) ==
    /\ loop = "execute" /\ hand.task = EditTask
    /\ Deliver(outcome)
    /\ UNCHANGED <<rec, repairRec, aborted, ctl, passed, repairEdits, restored>>

ValidationPasses ==
    /\ loop = "execute" /\ hand.task \in Validation
    /\ repairRec' = RecordValidation(repairRec, hand.task, TRUE)
    /\ passed' = passed \cup {hand.task}
    /\ Deliver("completed")
    /\ UNCHANGED <<rec, aborted, ctl, repairEdits, restored>>

ValidationThrows ==
    /\ loop = "execute" /\ hand.task \in Validation
    /\ Deliver("threw")
    /\ UNCHANGED <<rec, repairRec, aborted, ctl, passed, repairEdits, restored>>

(* #repairValidationFailure starts from the execution captured when the     *)
(* task was marked, not from the record.                                   *)
ValidationFails ==
    /\ loop = "execute" /\ hand.task \in Validation
    /\ repairRec' = RecordValidation(repairRec, hand.task, FALSE)
    /\ passed' = passed \ {hand.task}
    /\ mem' = ApplyTaskResult(mem, hand.task, "repairing")
    /\ loop' = "saveRepairing"
    /\ UNCHANGED <<rec, hand, aborted, queue, ctl, repairEdits, restored>>

SaveRepairing == SaveUnlocked("saveRepairing", "repair")

RefuseRepair ==
    /\ loop = "repair" /\ RepairExhausted(repairRec)
    /\ repairRec' = [repairRec EXCEPT !.state = "failed"]
    /\ mem' = SetState(mem, hand.task, "failed")
    /\ loop' = "saveRepaired"
    /\ UNCHANGED <<rec, hand, aborted, queue, ctl, passed, repairEdits, restored>>

BeginRepairEdit ==
    /\ loop = "repair" /\ ~RepairExhausted(repairRec)
    /\ repairRec' = [repairRec EXCEPT !.state = "repairing"]
    /\ passed' = {}
    /\ repairEdits' = IF repairEdits > MaxRepair THEN repairEdits ELSE repairEdits + 1
    /\ loop' = "edit"
    /\ UNCHANGED <<rec, mem, hand, aborted, queue, ctl, restored>>

FinishRepairEdit(outcome) ==
    /\ loop = "edit"
    /\ repairRec' = RecordRepairAttempt(repairRec, outcome)
    /\ mem' = AfterRepair(mem, hand.task, outcome)
    /\ loop' = "saveRepaired"
    /\ UNCHANGED <<rec, hand, aborted, queue, ctl, passed, repairEdits, restored>>

(* Any rejection inside repair() is caught by the executor and counts as a  *)
(* failed repair, with no attempt recorded.                                *)
RepairStoreFault ==
    /\ "io" \in Fault
    /\ loop \in {"repair", "edit"}
    /\ mem' = SetState(mem, hand.task, "failed")
    /\ loop' = "saveRepaired"
    /\ UNCHANGED <<rec, repairRec, hand, aborted, queue, ctl, passed, repairEdits, restored>>

SaveRepaired == SaveUnlocked("saveRepaired", "top")

(* The coordinator's finally: release(missionId).                          *)
Release ==
    /\ loop = "exit"
    /\ loop' = "off"
    /\ mem' = NoExecution
    /\ hand' = NoHand
    /\ aborted' = FALSE
    /\ UNCHANGED <<rec, repairRec, queue, ctl, passed, repairEdits, restored>>

-----------------------------------------------------------------------------
(* Operator requests.                                                      *)

CtlRequest(c, a) ==
    /\ ctl[c].pc = "idle"
    /\ ctl' = [ctl EXCEPT ![c] = [pc |-> "queued", action |-> a, snap |-> NoExecution]]
    /\ Enqueue(c)
    /\ UNCHANGED <<rec, repairRec, loop, mem, hand, aborted, passed, repairEdits, restored>>

Changes(a) == rec # NoExecution /\ Mutated(rec, a).state # rec.state

(* A missing record, or one the action does not change, throws: the lock's  *)
(* chain continues after a rejection.                                      *)
MutCtlReject(c) ==
    /\ ctl[c].pc = "queued" /\ LockHeldBy(c)
    /\ ~Changes(ctl[c].action)
    /\ UNCHANGED vars

CtlReject(c) ==
    /\ ctl[c].pc = "queued" /\ LockHeldBy(c)
    /\ ~Changes(ctl[c].action)
    /\ ctl' = [ctl EXCEPT ![c] = Answered(c)]
    /\ Unlock
    /\ UNCHANGED <<rec, repairRec, loop, mem, hand, aborted, passed, repairEdits, restored>>

CtlLoad(c) ==
    /\ ctl[c].pc = "queued" /\ LockHeldBy(c)
    /\ Changes(ctl[c].action)
    /\ ctl' = [ctl EXCEPT ![c].pc = "loaded", ![c].snap = rec]
    /\ UNCHANGED <<rec, repairRec, loop, mem, hand, aborted, queue, passed, repairEdits, restored>>

CtlSave(c) ==
    /\ ctl[c].pc = "loaded"
    /\ rec' = Mutated(ctl[c].snap, ctl[c].action)
    /\ ctl' = [ctl EXCEPT ![c].pc = "saved", ![c].snap = NoExecution]
    /\ restored' = (restored \/ rec # ctl[c].snap)
    /\ UNCHANGED <<repairRec, loop, mem, hand, aborted, queue, passed, repairEdits>>

Registered == loop # "off"
RequestAbort == aborted' = (aborted \/ Registered)

(* The lock is released and, in the microtasks that follow, the abort is    *)
(* requested: no I/O of the loop completes in between.                     *)
CtlDone(c) ==
    /\ ctl[c].pc = "saved"
    /\ IF ctl[c].action = "retry" THEN UNCHANGED aborted ELSE RequestAbort
    /\ ctl' = [ctl EXCEPT ![c] = Answered(c)]
    /\ Unlock
    /\ UNCHANGED <<rec, repairRec, loop, mem, hand, passed, repairEdits, restored>>

-----------------------------------------------------------------------------
(* Environment.                                                            *)

Shutdown ==
    /\ Registered /\ ~aborted
    /\ RequestAbort
    /\ UNCHANGED <<rec, repairRec, loop, mem, hand, queue, ctl, passed, repairEdits, restored>>

Crash ==
    /\ "crash" \in Fault
    /\ Registered \/ queue # <<>>
    /\ loop' = "off"
    /\ mem' = NoExecution
    /\ hand' = NoHand
    /\ aborted' = FALSE
    /\ queue' = <<>>
    /\ ctl' = [c \in Control |-> IdleCtl]
    /\ UNCHANGED <<rec, repairRec, passed, repairEdits, restored>>

(* A load or save of the loop rejects.  A rejected save of a task's result  *)
(* lands in #executeTask's catch, which reconciles once more as a failure;  *)
(* every other rejection leaves run() and reaches the coordinator.          *)
LoopStoreFault ==
    /\ "io" \in Fault
    /\ \/ /\ loop \in {"planning", "loading", "saving", "finish", "saveRepairing", "saveRepaired"}
          /\ loop' = "exit"
          /\ hand' = NoHand
          /\ UNCHANGED queue
       \/ /\ loop \in LoopQueued /\ LockHeldBy("loop")
          /\ ~(loop = "reconcile" /\ hand.outcome # "threw")
          /\ loop' = "exit"
          /\ hand' = NoHand
          /\ Unlock
       \/ /\ loop = "reconcile" /\ LockHeldBy("loop") /\ hand.outcome # "threw"
          /\ hand' = [hand EXCEPT !.outcome = "threw"]
          /\ queue' = Append(Tail(queue), "loop")
          /\ UNCHANGED loop
    /\ UNCHANGED <<rec, repairRec, mem, aborted, ctl, passed, repairEdits, restored>>

(* A request's load or save rejects; or, when the record is saved, the      *)
(* event of it cannot be appended: #mutate throws all the same, and no      *)
(* abort is requested.                                                     *)
CtlStoreFault(c) ==
    /\ "io" \in Fault
    /\ ctl[c].pc \in {"queued", "loaded", "saved"} /\ LockHeldBy(c)
    /\ ctl' = [ctl EXCEPT ![c] = Answered(c)]
    /\ Unlock
    /\ UNCHANGED <<rec, repairRec, loop, mem, hand, aborted, passed, repairEdits, restored>>

-----------------------------------------------------------------------------

EditOutcome == {"completed", "failed", "blocked"}

LoopStep ==
    \/ Plan \/ LoadForResume \/ SaveInitial
    \/ ObserveAbort \/ PickTask \/ ReturnUnfinished \/ Complete \/ SaveCompletion
    \/ StopForAbort \/ FailForLimit \/ MarkActive \/ ReconcileAfterTask
    \/ ExecuteAnalysis
    \/ \E o \in EditOutcome \cup {"threw"} : ExecuteEdit(o)
    \/ ValidationPasses \/ ValidationThrows \/ ValidationFails
    \/ SaveRepairing \/ RefuseRepair \/ BeginRepairEdit
    \/ \E o \in EditOutcome : FinishRepairEdit(o)
    \/ SaveRepaired \/ Release

CtlStep(c) == CtlReject(c) \/ CtlLoad(c) \/ CtlSave(c) \/ CtlDone(c)

Environment ==
    \/ Start \/ Resume
    \/ ExceedLimit
    \/ \E c \in Control, a \in CtlAction : CtlRequest(c, a)
    \/ Shutdown \/ Crash \/ LoopStoreFault \/ RepairStoreFault
    \/ \E c \in Control : CtlStoreFault(c)

Next ==
    \/ LoopStep
    \/ \E c \in Control : CtlStep(c)
    \/ Environment

Spec == Init /\ [][Next]_vars

(* A promise that can settle does: task work is bounded by its own timeout, *)
(* and the lock's chain runs every callback queued on it.                  *)
Fairness == WF_vars(LoopStep) /\ \A c \in Control : WF_vars(CtlStep(c))
FairSpec == Spec /\ Fairness

-----------------------------------------------------------------------------
(* Properties.                                                             *)

HasExecution == rec # NoExecution

(* completedAt is a claim about the whole graph: no interleaving of the     *)
(* loop's saves, operator requests, crashes and I/O failures leaves a       *)
(* record that says completed and holds unfinished tasks (resume would      *)
(* return it without running them).                                        *)
CompletedRecordIsTerminal ==
    HasExecution /\ rec.done => ~Unfinished(rec)

(* The executor is sequential: the record never shows two tasks in flight.  *)
(* A retry may: with three validations, one that loads the record while a   *)
(* repair is saved puts back the repaired validation, in flight, behind a   *)
(* chain the repair has requeued from its start.  This and the next three   *)
(* are therefore about records no request has saved a stale copy over.      *)
AtMostOneActive ==
    HasExecution /\ ~restored => \A t, u \in Task :
        rec.state[t] \in Active /\ rec.state[u] \in Active => t = u

(* A task is put in flight only when the record it is written to says that  *)
(* all its dependencies are completed, although findNextTask decided it on  *)
(* an older in-memory copy.                                                *)
StartsAfterDependencies ==
    [][HasExecution /\ ~restored' =>
        \A t \in Task : (rec'.state[t] \in Active /\ rec.state[t] \notin Active) =>
            \A d \in Deps(t) : rec.state[d] = "completed"]_rec

(* Without a crash or an I/O failure, a mission nobody runs has no task in  *)
(* flight: every exit of run() leaves the record resumable.                 *)
NoOrphanedTask ==
    HasExecution /\ ~Registered /\ ~restored => \A t \in Task : rec.state[t] \notin Active

(* Completion means validated: when every task of the record is completed,  *)
(* every validation command has passed on the repository as the last edit   *)
(* (the mission's or a repair's) left it.  It holds where nobody retries: a *)
(* retry of a validation whose repair failed runs that validation alone.    *)
CompletionIsValidated ==
    HasExecution /\ CompletedTasks(rec) = Task /\ ~restored => passed = Validation

(* The repair loop says "completed" only when every validation has passed   *)
(* since the last edit, through crashes, cancellations and retries.         *)
RepairLoopIsValidated ==
    repairRec.state = "completed" => passed = Validation

(* A mission never begins more repair edits than its limit allows.         *)
RepairEditsBounded == repairEdits <= MaxRepair

(* Cancelled tasks leave that state only when an operator retries them or   *)
(* the mission is planned again (both make them ready or queued).           *)
CancellationWins ==
    [][HasExecution =>
        \A t \in Task : rec.state[t] = "cancelled" =>
            rec'.state[t] \in {"cancelled", "ready", "queued"}]_rec

(* Every run ends, aborted or not: repairs are bounded, retries of a task are bounded, and  *)
(* the lock starves nobody.                                                *)
RunEnds == Registered ~> ~Registered

(* Every operator request is answered.                                     *)
RequestAnswered == \A c \in Control : ctl[c].pc # "idle" ~> ctl[c].pc = "idle"
=============================================================================
