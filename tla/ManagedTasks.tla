---------------------------- MODULE ManagedTasks ----------------------------
(***************************************************************************)
(* The managed-task controller: the worker that claims one background run  *)
(* per active task, the turn it executes, the checkpoint it keeps in the   *)
(* task's transcript row, the two retry budgets, and the owner's cancel    *)
(* and resume.  The ledger of actions appears with the detail the          *)
(* controller can tell apart; ActionAuthority has the rest.                *)
(*                                                                         *)
(* One action is one transaction, except task_state_handler: it reads the  *)
(* task without a lock and locks it later, so its transaction is split     *)
(* into DeltaRead and DeltaMerge.  In between it holds the row of its run. *)
(***************************************************************************)
EXTENDS Naturals, FiniteSets

CONSTANTS
    Tasks, Runs, Actions, None,
    MaxNoProgress,   \* ATLAS_MANAGED_TASK_MAX_NO_PROGRESS
    MaxTransient,    \* ATLAS_MANAGED_TASK_MAX_TRANSIENT_FAILURES
    ScanLimit        \* how many rows one scan of _claim_one reads

ASSUME TasksAssumption ==
    /\ MaxNoProgress \in Nat \ {0} /\ MaxTransient \in Nat \ {0}
    /\ ScanLimit \in Nat \ {0}
    /\ None \notin Tasks \cup Runs \cup Actions

VARIABLES
    \* active_task_state of each managed transcript
    status, controller,
    due,          \* next_wake_at is null or has passed
    noProgress, transient,
    pending,      \* runtime.pending_actions: the unresolved actions it knows of
    accepted,     \* every acceptance criterion passed with known evidence
    stalled,      \* an open managed_task_stalled attention item
    older,        \* the transcripts with an earlier updated_at
    \* runs: "fenced" is inference_active false, inference_status still running
    run, runTask,
    \* actions
    action, actRun,
    \* the worker service: the run it executes and where it stands
    worker, wpc, acting, outcome,
    progressed,   \* the material state changed since the turn began
    \* cancel_task between its transactions
    toCancel, toInterrupt,
    everCancelled \* history: tasks whose cancellation was committed

taskVars   == <<status, controller, due, noProgress, transient, pending, accepted, stalled>>
workerVars == <<worker, wpc, acting, outcome, progressed>>
cancelVars == <<toCancel, toInterrupt, everCancelled>>
vars == <<taskVars, older, run, runTask, action, actRun, workerVars, cancelVars>>

\* "executing" was begun by the worker, "approved" by an owner decision (both
\* are status executing in the table); "acknowledged" is uncertain and seen.
ActionState == {"none", "prepared", "executing", "approved", "succeeded", "failed",
                "cancelled", "uncertain", "acknowledged"}
Unsettled == {"prepared", "executing", "approved", "uncertain"}
Outcome == {"none", "succeeded", "transient", "execution"}
Controller == {"none", "ready", "running", "waiting_for_owner", "retrying", "stalled",
               "complete", "cancelled"}

----------------------------------------------------------------------------
ActionsOf(t) == {a \in Actions : actRun[a] # None /\ runTask[actRun[a]] = t}
UnsettledOf(t) == {a \in ActionsOf(t) : action[a] \in Unsettled}

\* task_state_handler holds the row lock of its run between its two steps.
Unlocked(r) == ~(worker = r /\ wpc = "delta")

\* Identities are used again once nothing refers to them.
FreeRun(r) ==
    /\ run[r] \in {"none", "ended"} /\ worker # r /\ r \notin toInterrupt
    /\ \A a \in Actions : actRun[a] = r => action[a] \notin Unsettled
FreeAction(a) ==
    /\ action[a] \notin Unsettled
    /\ a \notin toCancel /\ \A t \in Tasks : a \notin pending[t]

\* append_turn is all that writes updated_at: t becomes the latest transcript.
\* The controller's own writes (mutate_active_task_state) leave it alone.
Created == {t \in Tasks : status[t] # "none"}
AppendTurn(t) ==
    older' = [s \in Tasks |-> IF s = t THEN Created \ {t} ELSE older[s] \ {t}]

\* require_live_run.
LiveRun(r) == run[r] = "live" /\ status[runTask[r]] # "cancelled"

\* Mutant: an uncertain effect counts as finished.
OpenButCertain(entries, state) == {a \in entries : state[a] \in Unsettled \ {"uncertain"}}

\* _reconcile_pending: an entry stays while its action waits for something.
Open(entries, state) == {a \in entries : state[a] \in Unsettled}
StillPending(t) == Open(pending[t], action)

----------------------------------------------------------------------------
Init ==
    /\ status = [t \in Tasks |-> "none"]
    /\ controller = [t \in Tasks |-> "none"]
    /\ due = [t \in Tasks |-> FALSE]
    /\ noProgress = [t \in Tasks |-> 0]
    /\ transient = [t \in Tasks |-> 0]
    /\ pending = [t \in Tasks |-> {}]
    /\ accepted = [t \in Tasks |-> FALSE]
    /\ stalled = [t \in Tasks |-> FALSE]
    /\ older = [t \in Tasks |-> {}]
    /\ run = [r \in Runs |-> "none"]
    /\ runTask = [r \in Runs |-> None]
    /\ action = [a \in Actions |-> "none"]
    /\ actRun = [a \in Actions |-> None]
    /\ worker = None /\ wpc = "idle" /\ acting = None /\ outcome = "none"
    /\ progressed = FALSE
    /\ toCancel = {} /\ toInterrupt = {} /\ everCancelled = {}

\* create_task.
CreateTask(t) ==
    /\ status[t] = "none"
    /\ status' = [status EXCEPT ![t] = "active"]
    /\ controller' = [controller EXCEPT ![t] = "ready"]
    /\ due' = [due EXCEPT ![t] = TRUE]
    /\ older' = [older EXCEPT ![t] = Created]
    /\ UNCHANGED <<noProgress, transient, pending, accepted, stalled, run, runTask,
                   action, actRun, workerVars, cancelVars>>

\* next_wake_at passes.
Wake(t) ==
    /\ status[t] # "none" /\ ~due[t]
    /\ due' = [due EXCEPT ![t] = TRUE]
    /\ UNCHANGED <<status, controller, noProgress, transient, pending, accepted,
                   stalled, older, run, runTask, action, actRun, workerVars, cancelVars>>

----------------------------------------------------------------------------
(* _claim_one.                                                             *)

\* Mutant: a stalled task is claimed when it is due.
ClaimableStalled(t) ==
    /\ status[t] = "active" /\ due[t]
    /\ \A q \in Runs : runTask[q] = t => run[q] # "live"

\* The conditions of _claim_one on a task, apart from its pending actions.
Claimable(t) ==
    /\ status[t] = "active" /\ controller[t] # "stalled" /\ due[t]
    /\ \A q \in Runs : runTask[q] = t => run[q] # "live"

\* The rows a scan reads: managed tasks whatever their status, the least
\* recently updated first, without those another transaction holds.
Window(locked) ==
    {t \in Created \ locked : Cardinality(older[t] \ locked) < ScanLimit}

\* One pass of the worker: the active rows of the window that come before t
\* were scanned and could not be claimed, and what was written for them is
\* committed with the claim (a pass that claims nothing is rolled back).
\* "superseded" are proposals for coding operations that current policy runs
\* without asking; they are cancelled.
Claim(t, r, locked, superseded) ==
    LET scanned == {s \in Window(locked) : status[s] = "active" /\ s \in older[t]} \cup {t}
        act1 == [a \in Actions |-> IF a \in superseded THEN "cancelled" ELSE action[a]]
        left(s) == Open(pending[s], act1)
    IN
    /\ worker = None
    /\ t \in Window(locked)
    /\ \A a \in superseded : action[a] = "prepared" /\ \E s \in scanned : a \in pending[s]
    /\ Claimable(t) /\ left(t) = {}
    /\ \A s \in scanned \ {t} : ~(Claimable(s) /\ left(s) = {})
    /\ FreeRun(r)
    /\ run' = [run EXCEPT ![r] = "live"]
    /\ runTask' = [runTask EXCEPT ![r] = t]
    /\ action' = act1
    /\ actRun' = [a \in Actions |-> IF actRun[a] = r THEN None ELSE actRun[a]]
    /\ pending' = [s \in Tasks |-> IF s \in scanned THEN left(s) ELSE pending[s]]
    /\ controller' = [s \in Tasks |->
           IF s = t THEN "running"
           ELSE IF s \in scanned /\ left(s) # {} THEN "waiting_for_owner"
           ELSE controller[s]]
    /\ due' = [s \in Tasks |-> due[s] \/ (s \in scanned /\ left(s) # {})]
    /\ worker' = r /\ wpc' = "claimed"
    /\ UNCHANGED <<status, noProgress, transient, accepted, stalled, older, acting,
                   outcome, progressed, cancelVars>>

----------------------------------------------------------------------------
(* _execute_one: the worker's turn.                                        *)

\* First transaction: remember the progress signature; a task that is no
\* longer active ends the run at once.
StartTurn ==
    /\ wpc = "claimed" /\ LiveRun(worker)
    /\ IF status[runTask[worker]] = "active"
       THEN wpc' = "turn" /\ UNCHANGED <<run, outcome>>
       ELSE /\ run' = [run EXCEPT ![worker] = "ended"]
            /\ wpc' = "record" /\ outcome' = "succeeded"
    /\ progressed' = FALSE
    /\ UNCHANGED <<taskVars, older, runTask, action, actRun, worker, acting, cancelVars>>

\* A tool call: propose, or begin an automatic effect, with the checkpoint
\* entry in the same transaction.
CallTool(a, s) ==
    LET t == runTask[worker] IN
    /\ wpc = "turn" /\ LiveRun(worker) /\ status[t] = "active"
    /\ FreeAction(a)
    /\ action' = [action EXCEPT ![a] = s]
    /\ actRun' = [actRun EXCEPT ![a] = worker]
    /\ pending' = [pending EXCEPT ![t] = @ \cup {a}]
    /\ IF s = "executing"
       THEN wpc' = "acting" /\ acting' = a
       ELSE UNCHANGED <<wpc, acting>>
    /\ AppendTurn(t)
    /\ UNCHANGED <<status, controller, due, noProgress, transient, accepted, stalled,
                   run, runTask, worker, outcome, progressed, cancelVars>>

\* Mutant: a result, whatever it says, removes the entry.
EntriesWithout(entries, a, s) == entries \ {a}

\* record_runtime_event: an uncertain result stays in the checkpoint.
EntriesAfter(entries, a, s) ==
    IF s = "uncertain" THEN entries \cup {a} ELSE entries \ {a}

\* finish_action: a late result (the action was taken for uncertain meanwhile)
\* changes neither the status nor the checkpoint entry.
FinishTool(s) ==
    LET t == runTask[worker] IN
    /\ wpc = "acting"
    /\ IF action[acting] = "executing"
       THEN /\ action' = [action EXCEPT ![acting] = s]
            /\ pending' = [pending EXCEPT ![t] = EntriesAfter(@, acting, s)]
       ELSE UNCHANGED <<action, pending>>
    /\ AppendTurn(t)
    /\ wpc' = "turn" /\ acting' = None
    /\ UNCHANGED <<status, controller, due, noProgress, transient, accepted, stalled,
                   run, runTask, actRun, worker, outcome, progressed, cancelVars>>

\* checkpoint_reader between two rounds: _reconcile_pending without a policy.
ReadCheckpoint ==
    LET t == runTask[worker] IN
    /\ wpc = "turn" /\ StillPending(t) # pending[t]
    /\ pending' = [pending EXCEPT ![t] = StillPending(t)]
    /\ UNCHANGED <<status, controller, due, noProgress, transient, accepted, stalled,
                   older, run, runTask, action, actRun, workerVars, cancelVars>>

\* Evidence of the turn that changes nothing the controller reads: a provider
\* response that was observed, a search, a read.
RecordEvidence ==
    /\ wpc = "turn"
    /\ AppendTurn(runTask[worker])
    /\ UNCHANGED <<taskVars, run, runTask, action, actRun, workerVars, cancelVars>>

\* task_state_handler, before the transcript is locked: require_live_run.
DeltaRead ==
    /\ wpc = "turn" /\ LiveRun(worker)
    /\ wpc' = "delta"
    /\ UNCHANGED <<taskVars, older, run, runTask, action, actRun, worker, acting, outcome,
                   progressed, cancelVars>>

\* Mutant: the model's word and its own evidence are enough.
MergedOnWord(current, delta, isAccepted, pend) ==
    IF delta = "none" THEN current
    ELSE IF delta = "complete" /\ isAccepted THEN "complete" ELSE "active"

\* merge_semantic_delta on the locked row: delta.status is "none" (absent),
\* "active" or "complete"; completion needs every criterion accepted and no
\* pending action, and is otherwise turned into "active".
MergedStatus(current, delta, isAccepted, pend) ==
    IF delta = "none" THEN current
    ELSE IF delta = "complete" /\ isAccepted /\ pend = {} THEN "complete"
    ELSE "active"

DeltaMerge(delta, accept, material) ==
    LET t == runTask[worker] IN
    /\ wpc = "delta"
    /\ accepted' = [accepted EXCEPT ![t] = accept]
    /\ status' = [status EXCEPT ![t] = MergedStatus(@, delta, accept, pending[t])]
    /\ progressed' = (progressed \/ material)
    /\ AppendTurn(t)
    /\ wpc' = "turn"
    /\ UNCHANGED <<controller, due, noProgress, transient, pending, stalled, run,
                   runTask, action, actRun, worker, acting, outcome, cancelVars>>

\* The turn ends, with an answer or an empty one: finish_run.
FinishTurn ==
    /\ wpc = "turn" /\ LiveRun(worker)
    /\ AppendTurn(runTask[worker]) \/ UNCHANGED older
    /\ run' = [run EXCEPT ![worker] = "ended"]
    /\ wpc' = "record" /\ outcome' = "succeeded"
    /\ UNCHANGED <<taskVars, runTask, action, actRun, worker, acting, progressed, cancelVars>>

\* interrupt_run records what it did; a no-op for a run whose inference has ended.
Interrupted(r) ==
    LET stopped == run[r] \in {"live", "fenced"} IN
    /\ run' = [run EXCEPT ![r] = IF stopped THEN "ended" ELSE @]
    /\ action' = [a \in Actions |->
           IF stopped /\ actRun[a] = r /\ action[a] \in {"executing", "approved"}
           THEN "uncertain" ELSE action[a]]
    /\ IF stopped THEN AppendTurn(runTask[r]) ELSE UNCHANGED older

\* The turn ends by an exception: provider or database failure, cancellation
\* by the heartbeat or by a shutdown, RunInterrupted.  The handler interrupts
\* the run; a failure of that call is suppressed.
FailTurn(kind) ==
    /\ worker # None /\ wpc \in {"claimed", "turn", "acting", "delta"}
    /\ \/ Interrupted(worker)
       \/ UNCHANGED <<run, action, older>>
    /\ wpc' = "record" /\ outcome' = kind /\ acting' = None
    /\ UNCHANGED <<taskVars, runTask, actRun, worker, progressed, cancelVars>>

Idle ==
    /\ worker' = None /\ wpc' = "idle" /\ acting' = None
    /\ outcome' = "none" /\ progressed' = FALSE

\* _record_iteration_outcome, under the transcript's lock.
RecordOutcome ==
    LET t == runTask[worker]
        np == IF progressed /\ outcome = "succeeded" THEN 0 ELSE noProgress[t] + 1
        tr == transient[t] + 1
        Set(c, isDue, n, f, notice) ==
            /\ controller' = [controller EXCEPT ![t] = c]
            /\ due' = [due EXCEPT ![t] = isDue]
            /\ noProgress' = [noProgress EXCEPT ![t] = n]
            /\ transient' = [transient EXCEPT ![t] = f]
            /\ stalled' = [stalled EXCEPT ![t] = @ \/ notice]
    IN
    /\ wpc = "record"
    /\ IF status[t] # "active" THEN Set(status[t], TRUE, 0, 0, FALSE)
       ELSE IF pending[t] # {} THEN Set("waiting_for_owner", TRUE, 0, 0, FALSE)
       ELSE IF outcome = "transient"
            THEN IF tr >= MaxTransient
                 THEN Set("stalled", TRUE, noProgress[t], tr, TRUE)
                 ELSE Set("retrying", FALSE, noProgress[t], tr, FALSE)
            ELSE IF np >= MaxNoProgress
                 THEN Set("stalled", TRUE, np, 0, TRUE)
                 ELSE Set("ready", FALSE, np, 0, FALSE)
    /\ Idle
    /\ UNCHANGED <<status, pending, accepted, older, run, runTask, action, actRun,
                   cancelVars>>

\* The worker service is killed, or its last write fails and is suppressed:
\* nothing of the turn is recorded, and the loop starts over.
WorkerCrash ==
    /\ worker # None
    /\ Idle
    /\ UNCHANGED <<taskVars, older, run, runTask, action, actRun, cancelVars>>

----------------------------------------------------------------------------
(* The reconciler and the owner.                                           *)

\* Mutant: an inner join selects only runs that have an action.
FenceRunWithActions(r) ==
    /\ run[r] = "live" /\ Unlocked(r) /\ \E a \in Actions : actRun[a] = r
    /\ run' = [run EXCEPT ![r] = "fenced"]
    /\ UNCHANGED <<taskVars, older, runTask, action, actRun, workerVars, cancelVars>>

\* recover_abandoned_runs: the heartbeat is too old, so the run is fenced ...
FenceRun(r) ==
    /\ run[r] = "live" /\ Unlocked(r)
    /\ run' = [run EXCEPT ![r] = "fenced"]
    /\ UNCHANGED <<taskVars, older, runTask, action, actRun, workerVars, cancelVars>>

\* ... and interrupted by a second transaction.
RecoverRun(r) ==
    /\ run[r] = "fenced" /\ Unlocked(r)
    /\ Interrupted(r)
    /\ UNCHANGED <<taskVars, runTask, actRun, workerVars, cancelVars>>

\* reconcile_stale_executions: an execution whose run is not visibly alive.
ReconcileStale(a) ==
    /\ action[a] \in {"executing", "approved"} /\ Unlocked(actRun[a])
    /\ action' = [action EXCEPT ![a] = "uncertain"]
    /\ AppendTurn(runTask[actRun[a]])
    /\ UNCHANGED <<taskVars, run, runTask, actRun, workerVars, cancelVars>>

\* The owner's decisions; the evidence of a background run is not checkpointed,
\* so the checkpoint entry stays until the controller reconciles it.  All but the
\* acknowledgement are recorded in the transcript.
Decide(a, from, to) ==
    /\ action[a] = from /\ Unlocked(actRun[a])
    /\ to = "approved" => status[runTask[actRun[a]]] = "active"
    /\ action' = [action EXCEPT ![a] = to]
    /\ IF to = "acknowledged" THEN UNCHANGED older ELSE AppendTurn(runTask[actRun[a]])
    /\ UNCHANGED <<taskVars, run, runTask, actRun, workerVars, cancelVars>>

OwnerStep(a) ==
    \/ Decide(a, "prepared", "approved")
    \/ Decide(a, "prepared", "cancelled")
    \/ \E s \in {"succeeded", "failed", "uncertain"} : Decide(a, "approved", s)
    \/ Decide(a, "uncertain", "acknowledged")

\* Mutant: the transient budget is not given back.
ResumeTaskHalf(t) ==
    /\ status[t] = "active" /\ controller[t] = "stalled"
    /\ controller' = [controller EXCEPT ![t] = "ready"]
    /\ noProgress' = [noProgress EXCEPT ![t] = 0]
    /\ due' = [due EXCEPT ![t] = TRUE]
    /\ stalled' = [stalled EXCEPT ![t] = FALSE]
    /\ UNCHANGED <<status, transient, pending, accepted, older, run, runTask, action,
                   actRun, workerVars, cancelVars>>

\* resume_task.
ResumeTask(t) ==
    /\ status[t] = "active" /\ controller[t] = "stalled"
    /\ controller' = [controller EXCEPT ![t] = "ready"]
    /\ noProgress' = [noProgress EXCEPT ![t] = 0]
    /\ transient' = [transient EXCEPT ![t] = 0]
    /\ due' = [due EXCEPT ![t] = TRUE]
    /\ stalled' = [stalled EXCEPT ![t] = FALSE]
    /\ UNCHANGED <<status, pending, accepted, older, run, runTask, action, actRun,
                   workerVars, cancelVars>>

\* cancel_task, first transaction; it locks the transcript and no run.
CancelTask(t) ==
    /\ status[t] = "active"
    /\ status' = [status EXCEPT ![t] = "cancelled"]
    /\ controller' = [controller EXCEPT ![t] = "cancelled"]
    /\ due' = [due EXCEPT ![t] = TRUE]
    /\ pending' = [pending EXCEPT ![t] = {}]
    /\ stalled' = [stalled EXCEPT ![t] = FALSE]
    /\ toCancel' = toCancel \cup {a \in ActionsOf(t) : action[a] = "prepared"}
    /\ toInterrupt' = toInterrupt \cup {r \in Runs : runTask[r] = t /\ run[r] = "live"}
    /\ everCancelled' = everCancelled \cup {t}
    /\ UNCHANGED <<noProgress, transient, accepted, older, run, runTask, action, actRun,
                   workerVars>>

\* ... and its cleanup, one transaction per proposal, then one per run.
CleanupAction(a) ==
    /\ a \in toCancel /\ Unlocked(actRun[a])
    /\ action' = [action EXCEPT ![a] = IF @ = "prepared" THEN "cancelled" ELSE @]
    /\ toCancel' = toCancel \ {a}
    /\ UNCHANGED <<taskVars, older, run, runTask, actRun, workerVars, toInterrupt,
                   everCancelled>>

CleanupRun(r) ==
    /\ toCancel = {} /\ r \in toInterrupt /\ Unlocked(r)
    /\ Interrupted(r)
    /\ toInterrupt' = toInterrupt \ {r}
    /\ UNCHANGED <<taskVars, runTask, actRun, workerVars, toCancel, everCancelled>>

\* The process serving the cancellation dies.
CleanupCrash ==
    /\ toCancel # {} \/ toInterrupt # {}
    /\ toCancel' = {} /\ toInterrupt' = {}
    /\ UNCHANGED <<taskVars, older, run, runTask, action, actRun, workerVars,
                   everCancelled>>

----------------------------------------------------------------------------
WorkerStep ==
    \/ StartTurn
    \/ \E a \in Actions, s \in {"prepared", "executing"} : CallTool(a, s)
    \/ \E s \in {"succeeded", "failed", "uncertain"} : FinishTool(s)
    \/ ReadCheckpoint
    \/ RecordEvidence
    \/ DeltaRead
    \/ \E d \in {"none", "active", "complete"}, accept, material \in BOOLEAN :
           DeltaMerge(d, accept, material)
    \/ FinishTurn
    \/ \E k \in {"transient", "execution"} : FailTurn(k)
    \/ RecordOutcome

ClaimStep(t) ==
    \E r \in Runs, locked \in SUBSET (Tasks \ {t}), superseded \in SUBSET Actions :
        Claim(t, r, locked, superseded)

Next ==
    \/ \E t \in Tasks : CreateTask(t) \/ Wake(t) \/ ResumeTask(t) \/ CancelTask(t)
    \/ \E t \in Tasks : ClaimStep(t)
    \/ WorkerStep
    \/ WorkerCrash
    \/ \E r \in Runs : FenceRun(r) \/ RecoverRun(r) \/ CleanupRun(r)
    \/ \E a \in Actions : ReconcileStale(a) \/ OwnerStep(a) \/ CleanupAction(a)
    \/ CleanupCrash

Spec == Init /\ [][Next]_vars

\* The service is restarted by systemd and keeps polling, an inference does not
\* run for ever, time passes, and the reconciler recovers the runs that no worker
\* renews.  A scan claims t when t is the first row of the window that can be
\* claimed; the rows before it stop being claimable for a retry delay or, after a
\* kill, for the age a heartbeat must reach (60 s at least), and the next scan is
\* a second or one poll away, so the turn of t is not missed for ever.  Rows are
\* locked for one transaction, not at every scan.
Fairness ==
    /\ \A t \in Tasks :
          /\ WF_vars(Wake(t))
          /\ SF_vars(\E r \in Runs, superseded \in SUBSET Actions :
                         Claim(t, r, {}, superseded))
    /\ WF_vars(FinishTurn \/ \E k \in {"transient", "execution"} : FailTurn(k))
    /\ WF_vars(RecordOutcome)
    /\ \A r \in Runs : WF_vars(worker # r /\ FenceRun(r)) /\ WF_vars(RecoverRun(r))

FairSpec == Spec /\ Fairness

----------------------------------------------------------------------------
(* Properties.                                                             *)

\* The controller's columns stay in their domains and neither budget is ever
\* exceeded (_record_iteration_outcome).
TypeOK ==
    /\ status \in [Tasks -> {"none", "active", "complete", "cancelled"}]
    /\ controller \in [Tasks -> Controller]
    /\ due \in [Tasks -> BOOLEAN]
    /\ noProgress \in [Tasks -> 0..MaxNoProgress]
    /\ transient \in [Tasks -> 0..MaxTransient]
    /\ pending \in [Tasks -> SUBSET Actions]
    /\ accepted \in [Tasks -> BOOLEAN]
    /\ stalled \in [Tasks -> BOOLEAN]
    /\ older \in [Tasks -> SUBSET Tasks]
    /\ run \in [Runs -> {"none", "live", "fenced", "ended"}]
    /\ runTask \in [Runs -> Tasks \cup {None}]
    /\ action \in [Actions -> ActionState]
    /\ actRun \in [Actions -> Runs \cup {None}]
    /\ worker \in Runs \cup {None}
    /\ wpc \in {"idle", "claimed", "turn", "acting", "delta", "record"}
    /\ acting \in Actions \cup {None}
    /\ outcome \in Outcome
    /\ progressed \in BOOLEAN
    /\ toCancel \subseteq Actions /\ toInterrupt \subseteq Runs
    /\ everCancelled \subseteq Tasks

\* The checkpoint never loses an effect: whatever crashes, recoveries, late
\* results and owner decisions happen to it, an action that is undecided, in
\* flight, or uncertain and unacknowledged is in the pending list of its task.
\* So the next iteration cannot start before it is settled (see NoReplay).
CheckpointCoversUnsettled ==
    \A t \in Tasks \ everCancelled : UnsettledOf(t) \subseteq pending[t]

\* "Already-dispatched effects are never blindly replayed": when an iteration
\* of a task is claimed, no effect of its earlier iterations is undecided, in
\* flight, or uncertain without the owner having acknowledged it.
NoReplay ==
    [][\A r \in Runs, t \in Tasks \ everCancelled :
           (run[r] # "live" /\ run'[r] = "live" /\ runTask'[r] = t) => UnsettledOf(t)' = {}]_vars

\* A task is complete only when none of its effects is open, although proposals
\* and results keep arriving while the model reports completion.
CompletionIsSettled ==
    \A t \in Tasks \ everCancelled : status[t] = "complete" => UnsettledOf(t) = {}

\* An active task is stalled exactly when one of its two budgets is spent, and
\* the owner sees an open stall item exactly then: a stalled task is never
\* silent and a resumed or cancelled one leaves no stale alarm.
StallIsShown ==
    \A t \in Tasks :
        /\ stalled[t] <=> controller[t] = "stalled"
        /\ status[t] = "active" /\ t \notin everCancelled =>
              (controller[t] = "stalled" <=>
                  noProgress[t] = MaxNoProgress \/ transient[t] = MaxTransient)

\* The controller does not lose a task: an active task is worked on, or waits
\* for the owner, or is stalled visibly, or ends, also when the worker is killed
\* again and again before it records the outcome of a turn.  The exception is
\* the limit of the scan: rows that are completed, cancelled or stalled are never
\* updated and stay in front, and a task behind ScanLimit of them is out of the
\* window for good, although it is active and due.
TaskContinues ==
    \A t \in Tasks :
        \/ <>[](t \notin Window({}))
        \/ status[t] = "active" ~>
              \/ status[t] # "active" \/ t \in everCancelled
              \/ controller[t] = "stalled" \/ pending[t] # {}
              \/ worker # None /\ runTask[worker] = t

\* docs/28-managed-workspace-tasks.md: "a cancelled or completed task is not
\* claimed again".  The comment in cancel_task calls the status terminal.
CancelledNotClaimedAgain ==
    \A t \in everCancelled : controller[t] # "running"
=============================================================================
