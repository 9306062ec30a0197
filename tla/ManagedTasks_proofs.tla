------------------------- MODULE ManagedTasks_proofs -------------------------
(***************************************************************************)
(* Proofs about the managed-task controller, for any number of tasks, runs *)
(* and actions and for any retry budgets.  CheckpointCoversUnsettled is    *)
(* inductive by itself; the bounds of the budgets are not: that a recorded *)
(* failure stays within its budget rests on the claim, made many steps     *)
(* before, of a task that was not stalled (BudgetInv).                     *)
(***************************************************************************)
EXTENDS ManagedTasks, TLAPS

\* The worker's program counter agrees with the run and the action it holds.
WorkerInv ==
    /\ worker = None <=> wpc = "idle"
    /\ worker # None => runTask[worker] \in Tasks
    /\ wpc = "acting" => acting \in Actions

WithinBudgets(t) == noProgress[t] < MaxNoProgress /\ transient[t] < MaxTransient

\* The task being worked on, and every active task that is not stalled, has
\* budget left; a stalled one has spent one of its budgets and has nothing
\* pending, so no later scan takes it for one that waits for the owner.
BudgetInv ==
    /\ worker # None =>
          controller[runTask[worker]] # "stalled" /\ WithinBudgets(runTask[worker])
    /\ \A t \in Tasks :
          /\ status[t] = "none" => WithinBudgets(t)
          /\ status[t] = "active" /\ controller[t] # "stalled" => WithinBudgets(t)
          /\ controller[t] = "stalled" =>
                pending[t] = {} /\ ~WithinBudgets(t)
          /\ stalled[t] <=> controller[t] = "stalled"

TaskInv == TypeOK /\ WorkerInv /\ BudgetInv

----------------------------------------------------------------------------
(* Facts about single steps.                                               *)

\* The disjuncts of Next, one case per operation.
LEMMA NextCases ==
    ASSUME Next
    PROVE  \/ \E t \in Tasks : CreateTask(t)
           \/ \E t \in Tasks : Wake(t)
           \/ \E t \in Tasks : ResumeTask(t)
           \/ \E t \in Tasks : CancelTask(t)
           \/ \E t \in Tasks, r \in Runs, locked \in SUBSET Tasks,
                 superseded \in SUBSET Actions : Claim(t, r, locked, superseded)
           \/ StartTurn
           \/ \E a \in Actions, s \in {"prepared", "executing"} : CallTool(a, s)
           \/ \E s \in {"succeeded", "failed", "uncertain"} : FinishTool(s)
           \/ ReadCheckpoint
           \/ RecordEvidence
           \/ DeltaRead
           \/ \E d \in {"none", "active", "complete"}, accept, material \in BOOLEAN :
                  DeltaMerge(d, accept, material)
           \/ FinishTurn
           \/ \E k \in {"transient", "execution"} : FailTurn(k)
           \/ RecordOutcome
           \/ WorkerCrash
           \/ \E r \in Runs : FenceRun(r)
           \/ \E r \in Runs : RecoverRun(r)
           \/ \E r \in Runs : CleanupRun(r)
           \/ \E a \in Actions : ReconcileStale(a)
           \/ \E a \in Actions : OwnerStep(a)
           \/ \E a \in Actions : CleanupAction(a)
           \/ CleanupCrash
<1>1. CASE WorkerStep
  BY <1>1 DEF WorkerStep
<1>2. CASE \E t \in Tasks : ClaimStep(t)
  <2>1. PICK t \in Tasks : ClaimStep(t)
    BY <1>2
  <2>2. PICK r \in Runs, locked \in SUBSET (Tasks \ {t}), superseded \in SUBSET Actions :
            Claim(t, r, locked, superseded)
    BY <2>1 DEF ClaimStep
  <2>3. locked \in SUBSET Tasks
    OBVIOUS
  <2> QED
    BY <2>2, <2>3
<1> QED
  BY <1>1, <1>2 DEF Next

\* The order of the scan stays a relation between tasks.
LEMMA OlderStep ==
    ASSUME TypeOK, Next
    PROVE  older' \in [Tasks -> SUBSET Tasks]
<1>0. \A t : AppendTurn(t) => older' \in [Tasks -> SUBSET Tasks]
  BY DEF AppendTurn, Created, TypeOK
<1>1. UNCHANGED older => older' \in [Tasks -> SUBSET Tasks]
  BY DEF TypeOK
<1>2. \A r : Interrupted(r) => older' \in [Tasks -> SUBSET Tasks]
  BY <1>0, <1>1 DEF Interrupted
<1>3. CASE \E t \in Tasks : CreateTask(t)
  BY <1>3 DEF CreateTask, Created, TypeOK
<1>4. CASE \/ \E t \in Tasks : Wake(t) \/ ResumeTask(t) \/ CancelTask(t)
           \/ \E t \in Tasks, r \in Runs, locked \in SUBSET Tasks,
                 superseded \in SUBSET Actions : Claim(t, r, locked, superseded)
  BY <1>1, <1>4 DEF Wake, ResumeTask, CancelTask, Claim
<1>5. CASE \/ StartTurn \/ ReadCheckpoint \/ DeltaRead \/ RecordOutcome \/ WorkerCrash
           \/ CleanupCrash \/ \E r \in Runs : FenceRun(r)
           \/ \E a \in Actions : CleanupAction(a)
  BY <1>1, <1>5 DEF StartTurn, ReadCheckpoint, DeltaRead, RecordOutcome, WorkerCrash,
                    CleanupCrash, FenceRun, CleanupAction
<1>6. CASE \/ \E a \in Actions, s \in {"prepared", "executing"} : CallTool(a, s)
           \/ \E s \in {"succeeded", "failed", "uncertain"} : FinishTool(s)
           \/ \E d \in {"none", "active", "complete"}, accept, material \in BOOLEAN :
                  DeltaMerge(d, accept, material)
           \/ RecordEvidence \/ FinishTurn
  BY <1>0, <1>1, <1>6 DEF CallTool, FinishTool, DeltaMerge, RecordEvidence, FinishTurn
<1>7. CASE \/ \E k \in {"transient", "execution"} : FailTurn(k)
           \/ \E r \in Runs : RecoverRun(r) \/ CleanupRun(r)
  BY <1>1, <1>2, <1>7 DEF FailTurn, RecoverRun, CleanupRun
<1>8. CASE \E a \in Actions : ReconcileStale(a) \/ OwnerStep(a)
  BY <1>0, <1>1, <1>8 DEF ReconcileStale, OwnerStep, Decide
<1> QED
  BY NextCases, <1>3, <1>4, <1>5, <1>6, <1>7, <1>8

----------------------------------------------------------------------------
(* Types and budgets.                                                      *)

\* A typed state stays typed and its worker and budgets stay coherent.
LEMMA TaskInvStep ==
    ASSUME TaskInv, Next
    PROVE  TaskInv'
<1>0. older' \in [Tasks -> SUBSET Tasks]
  BY OlderStep DEF TaskInv
<1> USE TasksAssumption, <1>0 DEF TaskInv
<1>1. CASE \E t \in Tasks : CreateTask(t)
  <2>1. PICK t \in Tasks : CreateTask(t)
    BY <1>1
  <2>2. TypeOK'
    BY <2>1 DEF CreateTask, TypeOK, workerVars, cancelVars, Controller
  <2>3. WorkerInv'
    BY <2>1 DEF CreateTask, WorkerInv, workerVars
  <2>4. BudgetInv'
    BY <2>1 DEF CreateTask, BudgetInv, WithinBudgets, WorkerInv, TypeOK, workerVars
  <2> QED
    BY <2>2, <2>3, <2>4
<1>2. CASE \E t \in Tasks : Wake(t)
  <2>1. PICK t \in Tasks : Wake(t)
    BY <1>2
  <2>2. TypeOK'
    BY <2>1 DEF Wake, TypeOK, workerVars, cancelVars
  <2>3. WorkerInv'
    BY <2>1 DEF Wake, WorkerInv, workerVars
  <2>4. BudgetInv'
    BY <2>1 DEF Wake, BudgetInv, WithinBudgets, workerVars
  <2> QED
    BY <2>2, <2>3, <2>4
<1>3. CASE \E t \in Tasks : ResumeTask(t)
  <2>1. PICK t \in Tasks : ResumeTask(t)
    BY <1>3
  <2>2. TypeOK'
    BY <2>1 DEF ResumeTask, TypeOK, workerVars, cancelVars, Controller
  <2>3. WorkerInv'
    BY <2>1 DEF ResumeTask, WorkerInv, workerVars
  <2>4. BudgetInv'
    BY <2>1 DEF ResumeTask, BudgetInv, WithinBudgets, WorkerInv, TypeOK, workerVars
  <2> QED
    BY <2>2, <2>3, <2>4
<1>4. CASE \E t \in Tasks : CancelTask(t)
  <2>1. PICK t \in Tasks : CancelTask(t)
    BY <1>4
  <2>2. TypeOK'
    BY <2>1 DEF CancelTask, TypeOK, workerVars, Controller, ActionsOf
  <2>3. WorkerInv'
    BY <2>1 DEF CancelTask, WorkerInv, workerVars
  <2>4. BudgetInv'
    BY <2>1 DEF CancelTask, BudgetInv, WithinBudgets, WorkerInv, TypeOK, workerVars
  <2> QED
    BY <2>2, <2>3, <2>4
<1>5. CASE \E t \in Tasks, r \in Runs, locked \in SUBSET Tasks,
              superseded \in SUBSET Actions : Claim(t, r, locked, superseded)
  <2>1. PICK t \in Tasks, r \in Runs, locked \in SUBSET Tasks,
             superseded \in SUBSET Actions : Claim(t, r, locked, superseded)
    BY <1>5
  <2>2. TypeOK'
    BY <2>1 DEF Claim, TypeOK, cancelVars, Controller, ActionState, Open
  <2>3. WorkerInv'
    BY <2>1 DEF Claim, WorkerInv, TypeOK
  <2>4. BudgetInv'
    <3>1. ASSUME NEW s \in Tasks, controller[s] = "stalled"
          PROVE  controller'[s] = "stalled" /\ pending'[s] = {}
      BY <2>1, <3>1 DEF Claim, Claimable, BudgetInv, Open
    <3>2. ASSUME NEW s \in Tasks, controller'[s] = "stalled"
          PROVE  controller[s] = "stalled"
      BY <2>1, <3>2 DEF Claim
    <3>3. WithinBudgets(t)
      BY <2>1 DEF Claim, Claimable, BudgetInv
    <3>4. worker' = r /\ runTask'[r] = t /\ controller'[t] # "stalled"
      BY <2>1 DEF Claim, TypeOK
    <3> QED
      BY <2>1, <3>1, <3>2, <3>3, <3>4 DEF Claim, BudgetInv, WithinBudgets
  <2> QED
    BY <2>2, <2>3, <2>4
<1>6. CASE StartTurn
  <2>2. TypeOK'
    BY <1>6 DEF StartTurn, TypeOK, taskVars, cancelVars, WorkerInv, Outcome
  <2>3. WorkerInv' /\ BudgetInv'
    BY <1>6 DEF StartTurn, WorkerInv, BudgetInv, WithinBudgets, taskVars
  <2> QED
    BY <2>2, <2>3
<1>7. CASE \E a \in Actions, s \in {"prepared", "executing"} : CallTool(a, s)
  <2>1. PICK a \in Actions, s \in {"prepared", "executing"} : CallTool(a, s)
    BY <1>7
  <2>2. worker \in Runs /\ runTask[worker] \in Tasks
    BY <2>1 DEF CallTool, WorkerInv, TypeOK
  <2>3. TypeOK'
    BY <2>1, <2>2 DEF CallTool, TypeOK, cancelVars, ActionState
  <2>4. WorkerInv'
    BY <2>1 DEF CallTool, WorkerInv
  <2>5. BudgetInv'
    BY <2>1, <2>2 DEF CallTool, BudgetInv, WithinBudgets, TypeOK
  <2> QED
    BY <2>3, <2>4, <2>5
<1>8. CASE \E s \in {"succeeded", "failed", "uncertain"} : FinishTool(s)
  <2>1. PICK s \in {"succeeded", "failed", "uncertain"} : FinishTool(s)
    BY <1>8
  <2>2. worker \in Runs /\ runTask[worker] \in Tasks /\ acting \in Actions
    BY <2>1 DEF FinishTool, WorkerInv, TypeOK
  <2>3. TypeOK'
    BY <2>1, <2>2 DEF FinishTool, TypeOK, cancelVars, ActionState, EntriesAfter
  <2>4. WorkerInv'
    BY <2>1 DEF FinishTool, WorkerInv
  <2>5. BudgetInv'
    BY <2>1, <2>2 DEF FinishTool, BudgetInv, WithinBudgets, TypeOK
  <2> QED
    BY <2>3, <2>4, <2>5
<1>9. CASE ReadCheckpoint
  <2>2. worker \in Runs /\ runTask[worker] \in Tasks
    BY <1>9 DEF ReadCheckpoint, WorkerInv, TypeOK
  <2>3. TypeOK'
    BY <1>9, <2>2 DEF ReadCheckpoint, TypeOK, cancelVars, workerVars, StillPending, Open
  <2>4. WorkerInv'
    BY <1>9 DEF ReadCheckpoint, WorkerInv, workerVars
  <2>5. BudgetInv'
    BY <1>9, <2>2 DEF ReadCheckpoint, BudgetInv, WithinBudgets, TypeOK, workerVars
  <2> QED
    BY <2>3, <2>4, <2>5
<1>9a. CASE RecordEvidence
  BY <1>9a DEF RecordEvidence, TypeOK, taskVars, workerVars, cancelVars, WorkerInv,
               BudgetInv, WithinBudgets
<1>10. CASE DeltaRead
  BY <1>10 DEF DeltaRead, TypeOK, taskVars, cancelVars, WorkerInv, BudgetInv, WithinBudgets
<1>11. CASE \E d \in {"none", "active", "complete"}, accept, material \in BOOLEAN :
               DeltaMerge(d, accept, material)
  <2>1. PICK d \in {"none", "active", "complete"}, accept \in BOOLEAN,
             material \in BOOLEAN : DeltaMerge(d, accept, material)
    BY <1>11
  <2>2. worker \in Runs /\ runTask[worker] \in Tasks
    BY <2>1 DEF DeltaMerge, WorkerInv, TypeOK
  <2>3. TypeOK'
    BY <2>1, <2>2 DEF DeltaMerge, TypeOK, cancelVars, MergedStatus
  <2>4. WorkerInv'
    BY <2>1 DEF DeltaMerge, WorkerInv
  <2>5. BudgetInv'
    BY <2>1, <2>2 DEF DeltaMerge, BudgetInv, WithinBudgets, TypeOK
  <2> QED
    BY <2>3, <2>4, <2>5
<1>12. CASE FinishTurn
  BY <1>12 DEF FinishTurn, TypeOK, taskVars, cancelVars, WorkerInv, BudgetInv,
               WithinBudgets, Outcome
<1>13. CASE \E k \in {"transient", "execution"} : FailTurn(k)
  <2>1. PICK k \in {"transient", "execution"} : FailTurn(k)
    BY <1>13
  <2>2. TypeOK'
    BY <2>1 DEF FailTurn, Interrupted, TypeOK, taskVars, cancelVars, Outcome, ActionState
  <2>3. WorkerInv' /\ BudgetInv'
    BY <2>1 DEF FailTurn, WorkerInv, BudgetInv, WithinBudgets, taskVars
  <2> QED
    BY <2>2, <2>3
<1>14. CASE RecordOutcome
  <2>1. worker \in Runs /\ runTask[worker] \in Tasks
    BY <1>14 DEF RecordOutcome, WorkerInv, TypeOK
  <2> DEFINE t == runTask[worker]
  <2>2. /\ noProgress[t] \in Nat /\ noProgress[t] < MaxNoProgress
        /\ transient[t] \in Nat /\ transient[t] < MaxTransient
        /\ ~stalled[t]
    BY <2>1 DEF TypeOK, BudgetInv, WithinBudgets
  <2> DEFINE Recorded(c, isDue, n, f, notice) ==
          /\ controller' = [controller EXCEPT ![t] = c]
          /\ due' = [due EXCEPT ![t] = isDue]
          /\ noProgress' = [noProgress EXCEPT ![t] = n]
          /\ transient' = [transient EXCEPT ![t] = f]
          /\ stalled' = [stalled EXCEPT ![t] = @ \/ notice]
  <2> DEFINE np == IF progressed /\ outcome = "succeeded" THEN 0 ELSE noProgress[t] + 1
  <2> DEFINE Budgeted(c, n, f, notice) ==
          /\ notice <=> c = "stalled"
          /\ c = "stalled" <=> n = MaxNoProgress \/ f = MaxTransient
          /\ c = "stalled" => pending[t] = {}
  <2>3. /\ np \in 0..MaxNoProgress /\ noProgress[t] \in 0..MaxNoProgress
        /\ transient[t] + 1 \in 0..MaxTransient
        /\ 0 \in 0..MaxNoProgress /\ 0 \in 0..MaxTransient
    BY <2>2
  <2>4. \E c \in Controller, isDue \in BOOLEAN, n \in 0..MaxNoProgress,
            f \in 0..MaxTransient, notice \in BOOLEAN :
          Recorded(c, isDue, n, f, notice) /\ Budgeted(c, n, f, notice)
    <3>1. CASE status[t] # "active"
      <4>1. Recorded(status[t], TRUE, 0, 0, FALSE)
        BY <1>14, <3>1 DEF RecordOutcome
      <4>2. status[t] \in Controller /\ Budgeted(status[t], 0, 0, FALSE)
        BY <2>1, <3>1 DEF TypeOK, Controller
      <4> HIDE DEF Recorded, Budgeted
      <4> QED
        BY <2>3, <4>1, <4>2
    <3>2. CASE status[t] = "active" /\ pending[t] # {}
      <4>1. Recorded("waiting_for_owner", TRUE, 0, 0, FALSE)
        BY <1>14, <3>2 DEF RecordOutcome
      <4>2. Budgeted("waiting_for_owner", 0, 0, FALSE)
        OBVIOUS
      <4> HIDE DEF Recorded, Budgeted
      <4> QED
        BY <2>3, <4>1, <4>2 DEF Controller
    <3>3. CASE status[t] = "active" /\ pending[t] = {} /\ outcome = "transient"
      <4>1. CASE transient[t] + 1 >= MaxTransient
        <5>1. Recorded("stalled", TRUE, noProgress[t], transient[t] + 1, TRUE)
          BY <1>14, <3>3, <4>1 DEF RecordOutcome
        <5>2. Budgeted("stalled", noProgress[t], transient[t] + 1, TRUE)
          BY <2>2, <3>3, <4>1
        <5> HIDE DEF Recorded, Budgeted, np
        <5> HIDE DEF Recorded, Budgeted, np
        <5> QED
          BY <2>3, <5>1, <5>2 DEF Controller
      <4>2. CASE ~(transient[t] + 1 >= MaxTransient)
        <5>1. Recorded("retrying", FALSE, noProgress[t], transient[t] + 1, FALSE)
          BY <1>14, <3>3, <4>2 DEF RecordOutcome
        <5>2. Budgeted("retrying", noProgress[t], transient[t] + 1, FALSE)
          BY <2>2, <4>2
        <5> HIDE DEF Recorded, Budgeted, np
        <5> HIDE DEF Recorded, Budgeted, np
        <5> QED
          BY <2>3, <5>1, <5>2 DEF Controller
      <4> QED
        BY <4>1, <4>2
    <3>4. CASE status[t] = "active" /\ pending[t] = {} /\ outcome # "transient"
      <4>1. CASE np >= MaxNoProgress
        <5>1. Recorded("stalled", TRUE, np, 0, TRUE)
          BY <1>14, <3>4, <4>1 DEF RecordOutcome
        <5>2. Budgeted("stalled", np, 0, TRUE)
          BY <2>3, <3>4, <4>1
        <5> HIDE DEF Recorded, Budgeted, np
        <5> QED
          BY <2>3, <5>1, <5>2 DEF Controller
      <4>2. CASE ~(np >= MaxNoProgress)
        <5>1. Recorded("ready", FALSE, np, 0, FALSE)
          BY <1>14, <3>4, <4>2 DEF RecordOutcome
        <5>2. Budgeted("ready", np, 0, FALSE)
          BY <2>3, <4>2
        <5> HIDE DEF Recorded, Budgeted, np
        <5> QED
          BY <2>3, <5>1, <5>2 DEF Controller
      <4> QED
        BY <4>1, <4>2
    <3> QED
      BY <3>1, <3>2, <3>3, <3>4
  <2>5. PICK c \in Controller, isDue \in BOOLEAN, n \in 0..MaxNoProgress,
             f \in 0..MaxTransient, notice \in BOOLEAN :
          Recorded(c, isDue, n, f, notice) /\ Budgeted(c, n, f, notice)
    BY <2>4
  <2>6. TypeOK'
    BY <1>14, <2>1, <2>5 DEF RecordOutcome, Idle, TypeOK, cancelVars, Outcome
  <2>7. WorkerInv'
    BY <1>14 DEF RecordOutcome, Idle, WorkerInv
  <2>8. BudgetInv'
    BY <1>14, <2>1, <2>2, <2>5 DEF RecordOutcome, Idle, BudgetInv, WithinBudgets, TypeOK
  <2> QED
    BY <2>6, <2>7, <2>8
<1>15. CASE WorkerCrash
  BY <1>15 DEF WorkerCrash, Idle, TypeOK, taskVars, cancelVars, WorkerInv, BudgetInv,
               WithinBudgets, Outcome
<1>16. CASE \E r \in Runs : FenceRun(r)
  BY <1>16 DEF FenceRun, TypeOK, taskVars, workerVars, cancelVars, WorkerInv, BudgetInv,
               WithinBudgets
<1>17. CASE \E r \in Runs : RecoverRun(r)
  BY <1>17 DEF RecoverRun, Interrupted, TypeOK, taskVars, workerVars, cancelVars,
               WorkerInv, BudgetInv, WithinBudgets, ActionState
<1>18. CASE \E r \in Runs : CleanupRun(r)
  BY <1>18 DEF CleanupRun, Interrupted, TypeOK, taskVars, workerVars, WorkerInv,
               BudgetInv, WithinBudgets, ActionState
<1>19. CASE \E a \in Actions : ReconcileStale(a)
  BY <1>19 DEF ReconcileStale, TypeOK, taskVars, workerVars, cancelVars, WorkerInv,
               BudgetInv, WithinBudgets, ActionState
<1>20. CASE \E a \in Actions : OwnerStep(a)
  BY <1>20 DEF OwnerStep, Decide, TypeOK, taskVars, workerVars, cancelVars, WorkerInv,
               BudgetInv, WithinBudgets, ActionState
<1>21. CASE \E a \in Actions : CleanupAction(a)
  BY <1>21 DEF CleanupAction, TypeOK, taskVars, workerVars, WorkerInv, BudgetInv,
               WithinBudgets, ActionState
<1>22. CASE CleanupCrash
  BY <1>22 DEF CleanupCrash, TypeOK, taskVars, workerVars, WorkerInv, BudgetInv,
               WithinBudgets
<1> QED
  BY NextCases, <1>1, <1>2, <1>3, <1>4, <1>5, <1>6, <1>7, <1>8, <1>9, <1>9a, <1>10, <1>11,
     <1>12, <1>13, <1>14, <1>15, <1>16, <1>17, <1>18, <1>19, <1>20, <1>21, <1>22

\* The initial state satisfies the invariant.
LEMMA TaskInvInit == Init => TaskInv
<1> SUFFICES ASSUME Init PROVE TaskInv
  OBVIOUS
<1>1. TypeOK
  <2>1. /\ noProgress \in [Tasks -> 0..MaxNoProgress]
        /\ transient \in [Tasks -> 0..MaxTransient]
    BY TasksAssumption DEF Init
  <2>2. /\ due \in [Tasks -> BOOLEAN] /\ accepted \in [Tasks -> BOOLEAN]
        /\ stalled \in [Tasks -> BOOLEAN] /\ progressed \in BOOLEAN
    BY Zenon DEF Init
  <2>3. toCancel \subseteq Actions /\ toInterrupt \subseteq Runs /\ everCancelled \subseteq Tasks
    BY DEF Init
  <2>4. /\ status \in [Tasks -> {"none", "active", "complete", "cancelled"}]
        /\ controller \in [Tasks -> Controller]
        /\ pending \in [Tasks -> SUBSET Actions] /\ older \in [Tasks -> SUBSET Tasks]
        /\ run \in [Runs -> {"none", "live", "fenced", "ended"}]
        /\ runTask \in [Runs -> Tasks \cup {None}]
        /\ action \in [Actions -> ActionState]
        /\ actRun \in [Actions -> Runs \cup {None}]
        /\ worker \in Runs \cup {None}
        /\ wpc \in {"idle", "claimed", "turn", "acting", "delta", "record"}
        /\ acting \in Actions \cup {None} /\ outcome \in Outcome
    BY DEF Init, Controller, ActionState, Outcome
  <2> QED
    BY <2>1, <2>2, <2>3, <2>4 DEF TypeOK
<1>2. WorkerInv
  BY DEF Init, WorkerInv
<1>3. BudgetInv
  BY TasksAssumption DEF Init, BudgetInv, WithinBudgets
<1> QED
  BY <1>1, <1>2, <1>3 DEF TaskInv

\* TaskInv holds in every reachable state.
LEMMA TaskInvariant == Spec => []TaskInv
<1>1. TaskInv /\ UNCHANGED vars => TaskInv'
  BY DEF vars, taskVars, workerVars, cancelVars, TaskInv, TypeOK, WorkerInv, BudgetInv,
         WithinBudgets
<1>2. TaskInv /\ [Next]_vars => TaskInv'
  BY <1>1, TaskInvStep
<1> QED
  BY TaskInvInit, <1>2, PTL DEF Spec

\* Every column stays in its domain; in particular neither retry budget is ever
\* exceeded, whatever a task was cancelled, resumed or interrupted with.
THEOREM TypeCorrect == Spec => []TypeOK
<1>1. TaskInv => TypeOK
  BY DEF TaskInv
<1> QED
  BY <1>1, TaskInvariant, PTL

\* A stalled task is shown to the owner, and only a stalled one is.
THEOREM StallsAreShown == Spec => []StallIsShown
<1>1. TaskInv => StallIsShown
  BY TasksAssumption DEF TaskInv, TypeOK, BudgetInv, WithinBudgets, StallIsShown
<1> QED
  BY <1>1, TaskInvariant, PTL

----------------------------------------------------------------------------
(* The checkpoint.                                                         *)

\* An effect of a task becomes unsettled only by a tool call of an active task,
\* which enters it in the checkpoint of that task in the same transaction.
LEMMA EffectStep ==
    ASSUME TaskInv, Next, NEW t \in Tasks, NEW a \in UnsettledOf(t)'
    PROVE  a \in UnsettledOf(t) \/ (status[t] = "active" /\ a \in pending'[t])
<1> USE TasksAssumption DEF TaskInv, UnsettledOf, ActionsOf, Unsettled
<1>2. CASE \E u \in Tasks, r \in Runs, locked \in SUBSET Tasks,
              superseded \in SUBSET Actions : Claim(u, r, locked, superseded)
  BY <1>2 DEF Claim, TypeOK
<1>3. CASE \E b \in Actions, s \in {"prepared", "executing"} : CallTool(b, s)
  <2>1. PICK b \in Actions, s \in {"prepared", "executing"} : CallTool(b, s)
    BY <1>3
  <2>2. CASE a = b
    BY <2>1, <2>2 DEF CallTool, TypeOK
  <2>3. CASE a # b
    BY <2>1, <2>3 DEF CallTool, TypeOK
  <2> QED
    BY <2>2, <2>3
<1>4. CASE \E s \in {"succeeded", "failed", "uncertain"} : FinishTool(s)
  BY <1>4 DEF FinishTool, TypeOK
<1>5. CASE \E k \in {"transient", "execution"} : FailTurn(k)
  BY <1>5 DEF FailTurn, Interrupted, TypeOK
<1>6. CASE \E r \in Runs : RecoverRun(r) \/ CleanupRun(r)
  BY <1>6 DEF RecoverRun, CleanupRun, Interrupted, TypeOK
<1>7. CASE \E b \in Actions : ReconcileStale(b) \/ OwnerStep(b) \/ CleanupAction(b)
  BY <1>7 DEF ReconcileStale, OwnerStep, Decide, CleanupAction, TypeOK
<1>8. CASE UNCHANGED <<runTask, action, actRun>>
  BY <1>8
<1>10. CASE (\E u \in Tasks : CreateTask(u) \/ Wake(u) \/ ResumeTask(u) \/ CancelTask(u))
            \/ CleanupCrash \/ WorkerCrash \/ \E r \in Runs : FenceRun(r)
  BY <1>8, <1>10 DEF CreateTask, Wake, ResumeTask, CancelTask, CleanupCrash,
                     WorkerCrash, FenceRun
<1>11. CASE StartTurn \/ ReadCheckpoint \/ DeltaRead \/ FinishTurn \/ RecordOutcome
            \/ RecordEvidence
  BY <1>8, <1>11 DEF StartTurn, ReadCheckpoint, DeltaRead, FinishTurn, RecordOutcome,
                     RecordEvidence
<1>12. CASE \E d \in {"none", "active", "complete"}, accept, material \in BOOLEAN :
               DeltaMerge(d, accept, material)
  BY <1>8, <1>12 DEF DeltaMerge
<1> QED
  BY NextCases, <1>2, <1>3, <1>4, <1>5, <1>6, <1>7, <1>10, <1>11, <1>12

\* Except by a cancellation, an entry leaves a checkpoint only when its effect
\* is settled.
LEMMA PendingStep ==
    ASSUME TaskInv, Next, NEW t \in Tasks \ everCancelled', NEW a \in pending[t],
           action'[a] \in Unsettled
    PROVE  a \in pending'[t]
<1> USE TasksAssumption DEF TaskInv, Unsettled
<1>1. a \in Actions
  BY DEF TypeOK
<1>2. CASE UNCHANGED pending
  BY <1>2
<1>3. CASE \E u \in Tasks : CancelTask(u)
  BY <1>3 DEF CancelTask, TypeOK
<1>4. CASE \E u \in Tasks, r \in Runs, locked \in SUBSET Tasks,
              superseded \in SUBSET Actions : Claim(u, r, locked, superseded)
  BY <1>1, <1>4 DEF Claim, Open, TypeOK
<1>5. CASE \E b \in Actions, s \in {"prepared", "executing"} : CallTool(b, s)
  BY <1>5 DEF CallTool, TypeOK
<1>6. CASE \E s \in {"succeeded", "failed", "uncertain"} : FinishTool(s)
  BY <1>1, <1>6 DEF FinishTool, EntriesAfter, TypeOK
<1>7. CASE ReadCheckpoint
  BY <1>1, <1>7 DEF ReadCheckpoint, StillPending, Open, TypeOK
<1>8. CASE StartTurn \/ DeltaRead \/ FinishTurn \/ RecordOutcome \/ WorkerCrash
           \/ CleanupCrash \/ RecordEvidence
  BY <1>2, <1>8 DEF RecordEvidence, StartTurn, DeltaRead, FinishTurn, RecordOutcome, WorkerCrash,
                    CleanupCrash, taskVars
<1>9. CASE (\E u \in Tasks : CreateTask(u) \/ Wake(u) \/ ResumeTask(u))
           \/ (\E r \in Runs : FenceRun(r) \/ RecoverRun(r) \/ CleanupRun(r))
           \/ (\E b \in Actions : ReconcileStale(b) \/ OwnerStep(b) \/ CleanupAction(b))
  BY <1>2, <1>9 DEF CreateTask, Wake, ResumeTask, FenceRun, RecoverRun, CleanupRun,
                    ReconcileStale, OwnerStep, Decide, CleanupAction, taskVars
<1>10. CASE \/ \E d \in {"none", "active", "complete"}, accept, material \in BOOLEAN :
                   DeltaMerge(d, accept, material)
            \/ \E k \in {"transient", "execution"} : FailTurn(k)
  BY <1>2, <1>10 DEF DeltaMerge, FailTurn, taskVars
<1> QED
  BY NextCases, <1>3, <1>4, <1>5, <1>6, <1>7, <1>8, <1>9, <1>10

\* A task becomes complete only by a delta that finds its checkpoint empty.
LEMMA CompletionStep ==
    ASSUME TaskInv, Next, NEW t \in Tasks, status'[t] = "complete"
    PROVE  status[t] = "complete" \/ (pending[t] = {} /\ UNCHANGED <<runTask, action, actRun>>)
<1> USE TasksAssumption DEF TaskInv
<1>1. CASE UNCHANGED status
  BY <1>1
<1>2. CASE \E u \in Tasks : CreateTask(u) \/ CancelTask(u)
  BY <1>2 DEF CreateTask, CancelTask, TypeOK
<1>3. CASE \E d \in {"none", "active", "complete"}, accept, material \in BOOLEAN :
              DeltaMerge(d, accept, material)
  BY <1>3 DEF DeltaMerge, MergedStatus, TypeOK
<1>4. CASE \E u \in Tasks, r \in Runs, locked \in SUBSET Tasks,
              superseded \in SUBSET Actions : Claim(u, r, locked, superseded)
  BY <1>1, <1>4 DEF Claim
<1>5. CASE \/ \E b \in Actions, s \in {"prepared", "executing"} : CallTool(b, s)
           \/ \E s \in {"succeeded", "failed", "uncertain"} : FinishTool(s)
           \/ \E k \in {"transient", "execution"} : FailTurn(k)
  BY <1>1, <1>5 DEF CallTool, FinishTool, FailTurn, taskVars
<1>6. CASE StartTurn \/ ReadCheckpoint \/ DeltaRead \/ FinishTurn \/ RecordOutcome
           \/ WorkerCrash \/ CleanupCrash \/ RecordEvidence
  BY <1>1, <1>6 DEF RecordEvidence, StartTurn, ReadCheckpoint, DeltaRead, FinishTurn, RecordOutcome,
                    WorkerCrash, CleanupCrash, taskVars
<1>7. CASE (\E u \in Tasks : Wake(u) \/ ResumeTask(u))
           \/ (\E r \in Runs : FenceRun(r) \/ RecoverRun(r) \/ CleanupRun(r))
           \/ (\E b \in Actions : ReconcileStale(b) \/ OwnerStep(b) \/ CleanupAction(b))
  BY <1>1, <1>7 DEF Wake, ResumeTask, FenceRun, RecoverRun, CleanupRun,
                    ReconcileStale, OwnerStep, Decide, CleanupAction, taskVars
<1> QED
  BY NextCases, <1>2, <1>3, <1>4, <1>5, <1>6, <1>7

\* A cancellation is never forgotten.
LEMMA CancelledStep ==
    ASSUME [Next]_vars
    PROVE  everCancelled \subseteq everCancelled'
  BY DEF Next, vars, cancelVars, WorkerStep, RecordEvidence, ClaimStep, OwnerStep, CreateTask, Wake,
         ResumeTask, CancelTask, Claim, StartTurn, CallTool, FinishTool, ReadCheckpoint,
         DeltaRead, DeltaMerge, FinishTurn, FailTurn, RecordOutcome, WorkerCrash,
         FenceRun, RecoverRun, CleanupRun, ReconcileStale, Decide, CleanupAction,
         CleanupCrash

\* The checkpoint keeps covering the unsettled effects.
LEMMA CoverStep ==
    ASSUME TaskInv, CheckpointCoversUnsettled, [Next]_vars
    PROVE  CheckpointCoversUnsettled'
<1> SUFFICES ASSUME NEW t \in Tasks \ everCancelled', NEW a \in UnsettledOf(t)'
             PROVE  a \in pending'[t]
  BY DEF CheckpointCoversUnsettled
<1>1. CASE UNCHANGED vars
  BY <1>1 DEF vars, taskVars, cancelVars, CheckpointCoversUnsettled, UnsettledOf, ActionsOf
<1>2. CASE Next
  <2>1. t \in Tasks \ everCancelled
    BY CancelledStep
  <2>2. a \in UnsettledOf(t) => a \in pending[t]
    BY <2>1 DEF CheckpointCoversUnsettled
  <2>3. action'[a] \in Unsettled
    BY DEF UnsettledOf
  <2> QED
    BY <1>2, <2>2, <2>3, EffectStep, PendingStep
<1> QED
  BY <1>1, <1>2

\* The checkpoint of a task that was not cancelled has every effect of it that is
\* undecided, in flight or uncertain: create_task to finish_action, over any
\* number of crashes, recoveries and owner decisions.
THEOREM CheckpointIsComplete == Spec => []CheckpointCoversUnsettled
<1>1. Init => CheckpointCoversUnsettled
  BY DEF Init, CheckpointCoversUnsettled, UnsettledOf, ActionsOf
<1> QED
  BY <1>1, TaskInvariant, CoverStep, PTL DEF Spec

\* A complete task has no open effect.
THEOREM CompletedTasksAreSettled == Spec => []CompletionIsSettled
<1>1. Init => CompletionIsSettled
  BY DEF Init, CompletionIsSettled
<1>2. ASSUME TaskInv, CheckpointCoversUnsettled, CompletionIsSettled, [Next]_vars
      PROVE  CompletionIsSettled'
  <2> SUFFICES ASSUME NEW t \in Tasks \ everCancelled', status'[t] = "complete",
                      NEW a \in UnsettledOf(t)'
               PROVE  FALSE
    BY DEF CompletionIsSettled
  <2>1. t \in Tasks \ everCancelled
    BY <1>2, CancelledStep
  <2>2. UnsettledOf(t) \subseteq pending[t]
    BY <1>2, <2>1 DEF CheckpointCoversUnsettled
  <2>3. status[t] = "complete" => UnsettledOf(t) = {}
    BY <1>2, <2>1 DEF CompletionIsSettled
  <2>4. CASE UNCHANGED vars
    BY <2>3, <2>4 DEF vars, taskVars, UnsettledOf, ActionsOf
  <2>5. CASE Next /\ status[t] = "complete"
    BY <1>2, <2>3, <2>5, EffectStep
  <2>6. CASE Next /\ status[t] # "complete"
    <3>1. pending[t] = {} /\ UNCHANGED <<runTask, action, actRun>>
      BY <1>2, <2>6, CompletionStep
    <3> QED
      BY <2>2, <3>1 DEF UnsettledOf, ActionsOf
  <2> QED
    BY <1>2, <2>4, <2>5, <2>6
<1> QED
  BY <1>1, <1>2, TaskInvariant, CheckpointIsComplete, PTL DEF Spec

----------------------------------------------------------------------------
(* No replay.                                                              *)

\* Only a claim makes a run live, and it finds nothing pending.
LEMMA ClaimStarts ==
    ASSUME TaskInv, Next, NEW r \in Runs, run[r] # "live", run'[r] = "live"
    PROVE  /\ runTask'[r] \in Tasks /\ pending'[runTask'[r]] = {}
           /\ everCancelled' = everCancelled
<1> USE DEF TaskInv
<1>1. CASE \E t \in Tasks, q \in Runs, locked \in SUBSET Tasks,
              superseded \in SUBSET Actions : Claim(t, q, locked, superseded)
  BY <1>1 DEF Claim, TypeOK, cancelVars
<1>2. CASE UNCHANGED run
  BY <1>2
<1>3. CASE StartTurn \/ FinishTurn \/ \E k \in {"transient", "execution"} : FailTurn(k)
  BY <1>3 DEF StartTurn, FinishTurn, FailTurn, Interrupted, TypeOK
<1>4. CASE \E q \in Runs : FenceRun(q) \/ RecoverRun(q) \/ CleanupRun(q)
  BY <1>4 DEF FenceRun, RecoverRun, CleanupRun, Interrupted, TypeOK
<1>5. CASE \/ \E b \in Actions, s \in {"prepared", "executing"} : CallTool(b, s)
           \/ \E s \in {"succeeded", "failed", "uncertain"} : FinishTool(s)
           \/ \E d \in {"none", "active", "complete"}, accept, material \in BOOLEAN :
                  DeltaMerge(d, accept, material)
  BY <1>2, <1>5 DEF CallTool, FinishTool, DeltaMerge
<1>6. CASE \/ ReadCheckpoint \/ DeltaRead \/ RecordOutcome \/ WorkerCrash
           \/ CleanupCrash \/ RecordEvidence
  BY <1>2, <1>6 DEF RecordEvidence, ReadCheckpoint, DeltaRead, RecordOutcome, WorkerCrash, CleanupCrash
<1>7. CASE (\E t \in Tasks : CreateTask(t) \/ Wake(t) \/ ResumeTask(t) \/ CancelTask(t))
           \/ (\E b \in Actions : ReconcileStale(b) \/ OwnerStep(b) \/ CleanupAction(b))
  BY <1>2, <1>7 DEF CreateTask, Wake, ResumeTask, CancelTask, ReconcileStale, OwnerStep,
                    Decide, CleanupAction
<1> QED
  BY NextCases, <1>1, <1>3, <1>4, <1>5, <1>6, <1>7

\* docs/28: "already-dispatched effects are never blindly replayed".  When
\* _claim_one starts an iteration, no effect of an earlier one is unsettled.
THEOREM EffectsAreNotReplayed == Spec => NoReplay
<1>1. ASSUME TaskInv, CheckpointCoversUnsettled', Next,
             NEW r \in Runs, NEW t \in Tasks \ everCancelled,
             run[r] # "live", run'[r] = "live", runTask'[r] = t
      PROVE  UnsettledOf(t)' = {}
  BY <1>1, ClaimStarts DEF CheckpointCoversUnsettled
<1>2. TaskInv /\ CheckpointCoversUnsettled' /\ [Next]_vars =>
        [\A r \in Runs, t \in Tasks \ everCancelled :
            (run[r] # "live" /\ run'[r] = "live" /\ runTask'[r] = t)
                => UnsettledOf(t)' = {}]_vars
  BY <1>1
<1> QED
  BY <1>2, TaskInvariant, CheckpointIsComplete, PTL DEF Spec, NoReplay

=============================================================================
