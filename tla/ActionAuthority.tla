-------------------------- MODULE ActionAuthority --------------------------
(***************************************************************************)
(* The durable ledger of runs, actions and owner attention that Atlas      *)
(* keeps in PostgreSQL, and the processes that write it: the inference     *)
(* process of each run, the owner's decision requests, the reconciler that *)
(* recovers abandoned work, and the cancellation of a managed task.        *)
(*                                                                         *)
(* One action of this module is one committed transaction (or one call to  *)
(* an external system).  Every transaction that touches a run locks that   *)
(* run's row first, so transactions on one run are serialised; what        *)
(* interleaves is the gap between two transactions of one process.         *)
(***************************************************************************)
EXTENDS Naturals, FiniteSets

CONSTANTS
    Runs,      \* identities of runs
    Actions,   \* identities of actions
    Requests,  \* decision requests of the owner, each an HTTP call
    Chats,     \* owner conversations
    Tasks,     \* managed-task transcripts
    None       \* no run, no action, no transcript

ASSUME ConstantsAssumption ==
    /\ Runs \cap Requests = {}
    /\ Chats \cap Tasks = {}
    /\ None \notin Runs \cup Actions \cup Requests \cup Chats \cup Tasks

VARIABLES
    \* table runs
    runKind,      \* "none" until the row is inserted
    runChat,      \* transcript_id
    runStatus,    \* the aggregate shown to the owner
    active,       \* inference_active
    inference,    \* inference_status
    fresh,        \* heartbeat_at is not older than the recovery cutoff
    \* table actions
    actRun, actStatus,
    automatic,    \* evidence.automatic: begun without an owner decision
    aged,         \* its deadline has passed: proposal expiry, then stale_before
    acknowledged, \* evidence.owner_acknowledged_at
    \* table owner_attention
    attention,    \* the item about an action
    notice,       \* the "interrupted" item about a run
    \* transcripts.active_task_state
    task,
    \* processes
    pc, act,      \* of inference processes (named by their run) and requests
    recovering,   \* runs fenced by the reconciler and not yet interrupted
    cancelPc, cancelActs, cancelRuns,  \* cancel_task between its transactions
    unresolved,   \* inference processes whose call goes on with authority None
    \* the outside world
    effects       \* how often the external effect of an action was dispatched

runVars    == <<runKind, runChat, runStatus, active, inference, fresh>>
actionVars == <<actRun, actStatus, automatic, aged, acknowledged>>
cancelVars == <<cancelPc, cancelActs, cancelRuns>>
vars == <<runVars, actionVars, attention, notice, task, pc, act, recovering,
          cancelVars, effects, unresolved>>

RunKind    == {"none", "foreground", "background"}
RunStatus  == {"none", "running", "waiting_for_owner", "uncertain",
               "succeeded", "failed", "cancelled", "interrupted"}
InferenceStatus == {"none", "running", "succeeded", "interrupted"}
ActionStatus == {"none", "prepared", "executing", "succeeded", "failed",
                 "cancelled", "uncertain"}
Settled    == {"succeeded", "failed", "cancelled", "uncertain"}
AttentionState == {"none", "approval_required", "uncertain", "resolved"}
TaskStatus == {"active", "complete", "cancelled"}
Transcripts == Chats \cup Tasks
Processes  == Runs \cup Requests

\* Where a process stands: "begun" after the executing row is committed and
\* before the capability is called, "dispatched" once the effect has left
\* Atlas, "refused" when the capability returned before dispatching it.  A call
\* without an action row is "reading", and "unrecorded" when it turned out to
\* have an effect and that effect has left.
PC == {"none", "idle", "reading", "unrecorded", "checked_approve",
       "checked_cancel", "begun", "dispatched", "refused", "dead"}
Holding == {"begun", "dispatched", "refused"}
Referring == Holding \cup {"checked_approve", "checked_cancel"}

----------------------------------------------------------------------------
(* State formulae.                                                         *)

ActionsOf(r) == {a \in Actions : actRun[a] = r}
StatusesOf(r, status) == {status[a] : a \in ActionsOf(r)}
Alive(p) == pc[p] \notin {"none", "dead"}

Managed(r) == runChat[r] \in Tasks

\* AuthorityStore._require_managed_task_active: no proposal and no execution
\* starts for a managed task that is not active.
ManagedTaskActive(r) == Managed(r) => task[runChat[r]] = "active"

\* Mutant: require_live_run trusts the process and checks only the task.
LiveRunByTask(r) == Managed(r) => task[runChat[r]] # "cancelled"

\* require_live_run: the run still owns its inference and its managed task,
\* if it has one, was not cancelled.
LiveRun(r) == active[r] /\ (Managed(r) => task[runChat[r]] # "cancelled")

\* Mutant: the status of an action is copied into the column of the run.
AggregateRaw(S, isActive, inf) == IF "executing" \in S THEN "executing" ELSE "succeeded"

\* AuthorityStore._recompute_run, the precedence of its branches.
Aggregate(S, isActive, inf) ==
    IF "uncertain" \in S THEN "uncertain"
    ELSE IF "executing" \in S THEN "running"
    ELSE IF "prepared" \in S THEN "waiting_for_owner"
    ELSE IF isActive THEN "running"
    ELSE IF inf = "interrupted" THEN "interrupted"
    ELSE IF "failed" \in S THEN "failed"
    ELSE IF "cancelled" \in S THEN "cancelled"
    ELSE "succeeded"

\* Mutant: a writer sets the action and forgets the run.
RecomputeForgotten(r, S) == UNCHANGED runStatus

\* The row of run r with its status recomputed from a set S of action
\* statuses and the run's own (unchanged) inference columns.
Recompute(r, S) ==
    runStatus' = [runStatus EXCEPT ![r] = Aggregate(S, active[r], inference[r])]

\* The statuses of r's actions after action a takes status s.
StatusesWith(r, a, s) == {s} \cup {actStatus[b] : b \in ActionsOf(r) \ {a}}

----------------------------------------------------------------------------
Init ==
    /\ runKind = [r \in Runs |-> "none"]
    /\ runChat = [r \in Runs |-> None]
    /\ runStatus = [r \in Runs |-> "none"]
    /\ active = [r \in Runs |-> FALSE]
    /\ inference = [r \in Runs |-> "none"]
    /\ fresh = [r \in Runs |-> FALSE]
    /\ actRun = [a \in Actions |-> None]
    /\ actStatus = [a \in Actions |-> "none"]
    /\ automatic = [a \in Actions |-> FALSE]
    /\ aged = [a \in Actions |-> FALSE]
    /\ acknowledged = [a \in Actions |-> FALSE]
    /\ attention = [a \in Actions |-> "none"]
    /\ notice = [r \in Runs |-> "none"]
    /\ task = [t \in Tasks |-> "active"]
    /\ pc = [p \in Processes |-> IF p \in Runs THEN "none" ELSE "idle"]
    /\ act = [p \in Processes |-> None]
    /\ recovering = {}
    /\ cancelPc = [t \in Tasks |-> "idle"]
    /\ cancelActs = [t \in Tasks |-> {}]
    /\ cancelRuns = [t \in Tasks |-> {}]
    /\ effects = [a \in Actions |-> 0]
    /\ unresolved = {}

----------------------------------------------------------------------------
(* Runs.                                                                   *)

\* AuthorityStore.create_run: the row of a run whose inference starts now.
InsertRun(r, kind, x) ==
    /\ runKind[r] = "none"
    /\ runKind' = [runKind EXCEPT ![r] = kind]
    /\ runChat' = [runChat EXCEPT ![r] = x]
    /\ runStatus' = [runStatus EXCEPT ![r] = "running"]
    /\ active' = [active EXCEPT ![r] = TRUE]
    /\ inference' = [inference EXCEPT ![r] = "running"]
    /\ fresh' = [fresh EXCEPT ![r] = TRUE]
    /\ pc' = [pc EXCEPT ![r] = "idle"]

\* Mutant: the slot counts as taken only while its heartbeat is fresh.
NoFreshInference(kind, x) ==
    \A r \in Runs : ~(runKind[r] = kind /\ runChat[r] = x /\ active[r] /\ fresh[r])

\* The busy check, and the unique index uq_foreground_inference behind it.
NoLiveInference(kind, x) ==
    \A r \in Runs : ~(runKind[r] = kind /\ runChat[r] = x /\ active[r])

\* create_conversation_run: the owner sends a message.  The transcript row is
\* locked, a second live inference is refused (ForegroundBusy), and the open
\* interruption notices of this conversation are resolved.
OwnerMessage(r, c) ==
    /\ NoLiveInference("foreground", c)
    /\ InsertRun(r, "foreground", c)
    /\ notice' = [q \in Runs |-> IF runChat[q] = c /\ notice[q] = "open"
                                 THEN "resolved" ELSE notice[q]]
    /\ UNCHANGED <<actionVars, attention, task, act, recovering, cancelVars,
                   effects, unresolved>>

\* The managed-task worker starts the next iteration of task t.  Only the
\* conditions about task status and live runs are kept: the controller's wake
\* times and budgets can only delay this step (see ManagedTasks).
ClaimTask(r, t) ==
    /\ task[t] = "active"
    /\ NoLiveInference("background", t)
    /\ InsertRun(r, "background", t)
    /\ UNCHANGED <<actionVars, attention, notice, task, act, recovering,
                   cancelVars, effects, unresolved>>

\* maintain_heartbeat: renews the row only while inference_active is set.
Heartbeat(r) ==
    /\ Alive(r) /\ active[r] /\ ~fresh[r]
    /\ fresh' = [fresh EXCEPT ![r] = TRUE]
    /\ UNCHANGED <<runKind, runChat, runStatus, active, inference, actionVars,
                   attention, notice, task, pc, act, recovering, cancelVars,
                   effects, unresolved>>

\* Time passes without a renewal: the process is dead, or alive and stuck.  The
\* age of a run whose inference ended is read by nobody.
HeartbeatAges(r) ==
    /\ inference[r] = "running" /\ fresh[r]
    /\ fresh' = [fresh EXCEPT ![r] = FALSE]
    /\ UNCHANGED <<runKind, runChat, runStatus, active, inference, actionVars,
                   attention, notice, task, pc, act, recovering, cancelVars,
                   effects, unresolved>>

\* AuthorityStore.finish_run at the end of an inference.
FinishRun(r) ==
    /\ pc[r] = "idle" /\ LiveRun(r) /\ inference[r] = "running"
    /\ active' = [active EXCEPT ![r] = FALSE]
    /\ inference' = [inference EXCEPT ![r] = "succeeded"]
    /\ runStatus' = [runStatus EXCEPT
           ![r] = Aggregate(StatusesOf(r, actStatus), FALSE, "succeeded")]
    /\ pc' = [pc EXCEPT ![r] = "dead"]
    /\ UNCHANGED <<runKind, runChat, fresh, actionVars, attention, notice, task,
                   act, recovering, cancelVars, effects, unresolved>>

\* interrupt_run: in one transaction the inference stops owning the run, every
\* effect that may have left Atlas becomes uncertain and is shown to the owner,
\* the aggregate is recomputed, and an ordinary conversation gets a notice.
\* A run whose inference already ended is left alone.
Interrupt(r) ==
    LET stopped == inference[r] = "running"
        unsure == {a \in ActionsOf(r) : stopped /\ actStatus[a] = "executing"}
        status == [a \in Actions |-> IF a \in unsure THEN "uncertain" ELSE actStatus[a]]
    IN  /\ active' = [active EXCEPT ![r] = IF stopped THEN FALSE ELSE @]
        /\ inference' = [inference EXCEPT ![r] = IF stopped THEN "interrupted" ELSE @]
        /\ actStatus' = status
        /\ attention' = [a \in Actions |-> IF a \in unsure THEN "uncertain" ELSE attention[a]]
        /\ runStatus' = [runStatus EXCEPT ![r] =
               IF stopped THEN Aggregate(StatusesOf(r, status), FALSE, "interrupted") ELSE @]
        /\ notice' = [notice EXCEPT ![r] =
               IF stopped /\ ~Managed(r) THEN "open" ELSE @]
        /\ UNCHANGED <<runKind, runChat, fresh, actRun, automatic, aged, acknowledged>>

\* The inference process ends by an exception, or is cancelled by its own
\* heartbeat once the run is no longer active; the handler interrupts the run.
\* The executor runs in a thread that a cancellation does not stop, so an
\* effect that was begun may still leave Atlas.  Of a call without a row nothing
\* is left behind, whether its effect left or not.
StopInference(r) ==
    /\ Alive(r)
    /\ Interrupt(r)
    /\ pc' = [pc EXCEPT ![r] = "dead"]
    /\ IF pc[r] = "begun"
       THEN \E n \in {0, 1} : effects' = [effects EXCEPT ![act[r]] = @ + n]
       ELSE UNCHANGED effects
    /\ act' = [act EXCEPT ![r] = None]
    /\ unresolved' = unresolved \ {r}
    /\ UNCHANGED <<task, recovering, cancelVars>>

\* The process is killed between two transactions.
Crash(p) ==
    /\ Alive(p)
    /\ pc' = [pc EXCEPT ![p] = "dead"]
    /\ act' = [act EXCEPT ![p] = None]
    /\ unresolved' = unresolved \ {p}
    /\ UNCHANGED <<runVars, actionVars, attention, notice, task, recovering,
                   cancelVars, effects>>

----------------------------------------------------------------------------
(* Actions of an inference process: RunExecutor.tool_handler.              *)

Unused(a) == actStatus[a] = "none"

\* AuthorityStore.prepare_proposal in the transaction of propose(): authority
\* asks the owner, at the first resolution or, that one having failed, at the
\* second.
Propose(r, a) ==
    /\ pc[r] = "idle" \/ (pc[r] = "reading" /\ r \in unresolved)
    /\ LiveRun(r) /\ ManagedTaskActive(r)
    /\ Unused(a)
    /\ actRun' = [actRun EXCEPT ![a] = r]
    /\ actStatus' = [actStatus EXCEPT ![a] = "prepared"]
    /\ attention' = [attention EXCEPT ![a] = "approval_required"]
    /\ Recompute(r, StatusesWith(r, a, "prepared"))
    /\ pc' = [pc EXCEPT ![r] = "idle"]
    /\ unresolved' = unresolved \ {r}
    /\ UNCHANGED <<runKind, runChat, active, inference, fresh, automatic, aged,
                   acknowledged, notice, task, act, recovering, cancelVars, effects>>

\* AuthorityStore.begin_automatic_execution: the executing row is committed
\* before the capability is called; the run's aggregate is not recomputed.
BeginAutomatic(r, a) ==
    /\ pc[r] = "idle" /\ LiveRun(r) /\ ManagedTaskActive(r)
    /\ Unused(a)
    /\ actRun' = [actRun EXCEPT ![a] = r]
    /\ actStatus' = [actStatus EXCEPT ![a] = "executing"]
    /\ automatic' = [automatic EXCEPT ![a] = TRUE]
    /\ pc' = [pc EXCEPT ![r] = "begun"]
    /\ act' = [act EXCEPT ![r] = a]
    /\ UNCHANGED <<runVars, aged, acknowledged, attention, notice, task,
                   recovering, cancelVars, effects, unresolved>>

\* A read has no effect to protect: it is called first (the bound on the number
\* of actions leaves an identity for its record) ...
BeginRead(r) ==
    /\ pc[r] = "idle" /\ LiveRun(r) /\ \E a \in Actions : Unused(a)
    /\ pc' = [pc EXCEPT ![r] = "reading"]
    /\ UNCHANGED <<runVars, actionVars, attention, notice, task, act, recovering,
                   cancelVars, effects, unresolved>>

\* ... and so is every call whose authority could not be resolved: resolving
\* it, or the grants of the task, raised, tool_handler goes on with None, and
\* CapabilityRuntime.call resolves it a second time.
ResolutionFails(r) ==
    /\ pc[r] = "idle" /\ LiveRun(r) /\ \E a \in Actions : Unused(a)
    /\ pc' = [pc EXCEPT ![r] = "reading"]
    /\ unresolved' = unresolved \cup {r}
    /\ UNCHANGED <<runVars, actionVars, attention, notice, task, act, recovering,
                   cancelVars, effects>>

\* The second resolution answers "auto" for an operation that is no read: its
\* effect leaves Atlas with no action row.
DispatchUnrecorded(r) ==
    /\ pc[r] = "reading" /\ r \in unresolved
    /\ pc' = [pc EXCEPT ![r] = "unrecorded"]
    /\ UNCHANGED <<runVars, actionVars, attention, notice, task, act, recovering,
                   cancelVars, effects, unresolved>>

\* What was called without a row is recorded afterwards by
\* AuthorityStore.record_execution, whether or not the run is still live,
\* without recomputing the aggregate; an effect with an unknown outcome, a
\* refusal and a second failure to resolve are all recorded as failed.
RecordExecution(r, a, s) ==
    /\ pc[r] \in {"reading", "unrecorded"}
    /\ Unused(a)
    /\ actRun' = [actRun EXCEPT ![a] = r]
    /\ actStatus' = [actStatus EXCEPT ![a] = s]
    /\ effects' = [effects EXCEPT ![a] = IF pc[r] = "unrecorded" THEN 1 ELSE @]
    /\ pc' = [pc EXCEPT ![r] = "idle"]
    /\ unresolved' = unresolved \ {r}
    /\ UNCHANGED <<runVars, automatic, aged, acknowledged, attention, notice, task,
                   act, recovering, cancelVars>>

\* CapabilityRuntime.call reaches the executor: the effect leaves Atlas.
Dispatch(p) ==
    /\ pc[p] = "begun"
    /\ pc' = [pc EXCEPT ![p] = "dispatched"]
    /\ effects' = [effects EXCEPT ![act[p]] = @ + 1]
    /\ UNCHANGED <<runVars, actionVars, attention, notice, task, act, recovering,
                   cancelVars, unresolved>>

\* CapabilityRuntime.call returns before dispatch: the capability was disabled
\* or forbidden, or the arguments no longer validate.
Refuse(p) ==
    /\ pc[p] = "begun"
    /\ pc' = [pc EXCEPT ![p] = "refused"]
    /\ UNCHANGED <<runVars, actionVars, attention, notice, task, act, recovering,
                   cancelVars, effects, unresolved>>

\* Mutant: a call that was abandoned by its caller is filed as cancelled.
OutcomesCancelled(p) == {"failed", "cancelled"}

\* action_status_for_result: an outcome that is not known to be final is
\* uncertain; a refusal before dispatch is a failure.
Outcomes(p) ==
    IF pc[p] = "refused" THEN {"failed"} ELSE {"succeeded", "failed", "uncertain"}

\* Mutant: any result that arrives is applied, however late.
AlwaysInFlight(a) == actStatus[a] # "none"

\* The compare-and-set of AuthorityStore.complete.
InFlight(a) == actStatus[a] = "executing"

\* AuthorityStore.complete for action a of run r with outcome s.
Complete(r, a, s) ==
    /\ actStatus' = [actStatus EXCEPT ![a] = s]
    /\ attention' = [attention EXCEPT ![a] =
           IF s = "uncertain" THEN "uncertain"
           ELSE IF @ = "none" THEN "none" ELSE "resolved"]
    /\ Recompute(r, StatusesWith(r, a, s))

\* RunExecutor.finish_action: a result that arrives after the action left
\* "executing" is kept as late evidence and changes no status.
FinishAction(p, s) ==
    LET a == act[p] IN
    /\ pc[p] \in {"dispatched", "refused"} /\ s \in Outcomes(p)
    /\ IF InFlight(a)
       THEN Complete(actRun[a], a, s)
       ELSE UNCHANGED <<actStatus, attention, runStatus>>
    /\ pc' = [pc EXCEPT ![p] = IF p \in Runs THEN "idle" ELSE "dead"]
    /\ act' = [act EXCEPT ![p] = None]
    /\ UNCHANGED <<runKind, runChat, active, inference, fresh, actRun, automatic,
                   aged, acknowledged, notice, task, recovering, cancelVars,
                   effects, unresolved>>

----------------------------------------------------------------------------
(* The owner.                                                              *)

\* Mutant: the cancelled proposal stays in the owner's queue.
CancelPreparedQuietly(a) ==
    /\ actStatus' = [actStatus EXCEPT ![a] = "cancelled"]
    /\ Recompute(actRun[a], StatusesWith(actRun[a], a, "cancelled"))
    /\ UNCHANGED attention

\* AuthorityStore.cancel after its compare-and-set from "prepared" succeeded.
CancelPrepared(a) ==
    /\ actStatus' = [actStatus EXCEPT ![a] = "cancelled"]
    /\ attention' = [attention EXCEPT ![a] = "resolved"]
    /\ Recompute(actRun[a], StatusesWith(actRun[a], a, "cancelled"))

\* decide_action reads the action without a lock and checks that it is
\* prepared, and that its proposal has not expired before an approval.
CheckDecision(q, a, approve) ==
    /\ pc[q] = "idle"
    /\ actStatus[a] = "prepared"
    /\ approve => ~aged[a]
    /\ pc' = [pc EXCEPT ![q] = IF approve THEN "checked_approve" ELSE "checked_cancel"]
    /\ act' = [act EXCEPT ![q] = a]
    /\ UNCHANGED <<runVars, actionVars, attention, notice, task, recovering,
                   cancelVars, effects, unresolved>>

\* Mutant: begin_execution trusts the status its caller read without a lock.
ExecutableUnchecked(a) == ManagedTaskActive(actRun[a]) /\ ~aged[a]

\* AuthorityStore.begin_execution, under the run's lock: the managed task must
\* be active, the proposal unexpired, and the status still "prepared".
Executable(a) ==
    /\ ManagedTaskActive(actRun[a])
    /\ ~aged[a]
    /\ actStatus[a] = "prepared"

BeginExecution(q) ==
    LET a == act[q] IN
    /\ pc[q] = "checked_approve"
    /\ Executable(a)
    /\ actStatus' = [actStatus EXCEPT ![a] = "executing"]
    /\ Recompute(actRun[a], StatusesWith(actRun[a], a, "executing"))
    /\ pc' = [pc EXCEPT ![q] = "begun"]
    /\ UNCHANGED <<runKind, runChat, active, inference, fresh, actRun, automatic,
                   aged, acknowledged, attention, notice, task, act, recovering,
                   cancelVars, effects, unresolved>>

\* ProposalIntegrityError: the transaction is rolled back, the owner gets 409.
RejectDecision(q) ==
    /\ \/ pc[q] = "checked_approve" /\ ~Executable(act[q])
       \/ pc[q] = "checked_cancel" /\ actStatus[act[q]] # "prepared"
    /\ pc' = [pc EXCEPT ![q] = "dead"]
    /\ act' = [act EXCEPT ![q] = None]
    /\ UNCHANGED <<runVars, actionVars, attention, notice, task, recovering,
                   cancelVars, effects, unresolved>>

CancelAction(q) ==
    /\ pc[q] = "checked_cancel" /\ actStatus[act[q]] = "prepared"
    /\ CancelPrepared(act[q])
    /\ pc' = [pc EXCEPT ![q] = "dead"]
    /\ act' = [act EXCEPT ![q] = None]
    /\ UNCHANGED <<runKind, runChat, active, inference, fresh, actRun, automatic,
                   aged, acknowledged, notice, task, recovering, cancelVars,
                   effects, unresolved>>

\* AuthorityStore.acknowledge_uncertain.
Acknowledge(a) ==
    /\ actStatus[a] = "uncertain" /\ attention[a] \notin {"none", "resolved"}
    /\ attention' = [attention EXCEPT ![a] = "resolved"]
    /\ acknowledged' = [acknowledged EXCEPT ![a] = TRUE]
    /\ UNCHANGED <<runVars, actRun, actStatus, automatic, aged, notice, task, pc,
                   act, recovering, cancelVars, effects, unresolved>>

\* AuthorityStore.dismiss_interruption and dismiss_informational_notices.
DismissNotices(S) ==
    /\ \E r \in S : notice[r] = "open"
    /\ notice' = [r \in Runs |-> IF r \in S /\ notice[r] = "open"
                                 THEN "resolved" ELSE notice[r]]
    /\ UNCHANGED <<runVars, actionVars, attention, task, pc, act, recovering,
                   cancelVars, effects, unresolved>>

\* The deadline of an action's current status passes: expires_at of a proposal,
\* the staleness cutoff of an execution.
ActionAges(a) ==
    /\ actStatus[a] \in {"prepared", "executing"} /\ ~aged[a]
    /\ aged' = [aged EXCEPT ![a] = TRUE]
    /\ UNCHANGED <<runVars, actRun, actStatus, automatic, acknowledged, attention,
                   notice, task, pc, act, recovering, cancelVars,
                   effects, unresolved>>

----------------------------------------------------------------------------
(* The reconciler: reconcile_once.                                         *)

\* Mutant: only the executions of a running inference are looked at, so one
\* that the owner approved after the inference ended is forgotten.
StaleWhileRunning(a) ==
    /\ actStatus[a] = "executing" /\ aged[a]
    /\ inference[actRun[a]] = "running" /\ ~fresh[actRun[a]]

\* An execution older than the cutoff whose run is not visibly alive.
Stale(a) ==
    /\ actStatus[a] = "executing" /\ aged[a]
    /\ ~(active[actRun[a]] /\ fresh[actRun[a]])

\* AuthorityStore.reconcile_stale_executions, for one action.
ReconcileStale(a) ==
    /\ Stale(a)
    /\ actStatus' = [actStatus EXCEPT ![a] = "uncertain"]
    /\ attention' = [attention EXCEPT ![a] = "uncertain"]
    /\ runStatus' = [runStatus EXCEPT ![actRun[a]] = "uncertain"]
    /\ UNCHANGED <<runKind, runChat, active, inference, fresh, actRun, automatic,
                   aged, acknowledged, notice, task, pc, act, recovering, cancelVars,
                   effects, unresolved>>

\* Mutant: a run that was fenced but not yet interrupted is not selected again.
AbandonedActive(r) == active[r] /\ ~fresh[r]

\* The runs recover_abandoned_runs selects.
Abandoned(r) == inference[r] = "running" /\ ~fresh[r]

\* recover_abandoned_runs, first transaction: fence the run.
Fence(r) ==
    /\ Abandoned(r) /\ r \notin recovering
    /\ active' = [active EXCEPT ![r] = FALSE]
    /\ recovering' = recovering \cup {r}
    /\ UNCHANGED <<runKind, runChat, runStatus, inference, fresh, actionVars,
                   attention, notice, task, pc, act, cancelVars, effects, unresolved>>

\* ... second transaction: interrupt_run.
Recover(r) ==
    /\ r \in recovering
    /\ Interrupt(r)
    /\ recovering' = recovering \ {r}
    /\ UNCHANGED <<task, pc, act, cancelVars, effects, unresolved>>

\* The reconciler is killed between the two; the next pass selects the run
\* again, because its inference_status is still "running".
ReconcilerCrash ==
    /\ recovering # {}
    /\ recovering' = {}
    /\ UNCHANGED <<runVars, actionVars, attention, notice, task, pc, act,
                   cancelVars, effects, unresolved>>

----------------------------------------------------------------------------
(* Managed tasks.                                                          *)

\* task_state_handler merges a status reported by an inference of t.  The
\* handler reads the task before it locks it, so every stored status may be
\* overwritten (ManagedTasks models the two reads).
MergeStatus(t, s) ==
    /\ \E r \in Runs : runChat[r] = t /\ Alive(r)
    /\ task[t] # s
    /\ task' = [task EXCEPT ![t] = s]
    /\ UNCHANGED <<runVars, actionVars, attention, notice, pc, act, recovering,
                   cancelVars, effects, unresolved>>

\* managed worker _reconcile_pending: a proposal whose operation now runs
\* without asking is superseded, i.e. cancelled.
SupersedeProposal(a) ==
    /\ actStatus[a] = "prepared"
    /\ Managed(actRun[a]) /\ task[runChat[actRun[a]]] = "active"
    /\ CancelPrepared(a)
    /\ UNCHANGED <<runKind, runChat, active, inference, fresh, actRun, automatic,
                   aged, acknowledged, notice, task, pc, act, recovering, cancelVars,
                   effects, unresolved>>

\* Mutant: the first transaction lists the live runs and not the proposals.
CancelTaskRunsOnly(t) ==
    /\ task[t] = "active" /\ cancelPc[t] # "cleaning"
    /\ task' = [task EXCEPT ![t] = "cancelled"]
    /\ cancelPc' = [cancelPc EXCEPT ![t] = "cleaning"]
    /\ cancelRuns' = [cancelRuns EXCEPT ![t] =
           {r \in Runs : runKind[r] = "background" /\ runChat[r] = t /\ active[r]}]
    /\ UNCHANGED <<runVars, actionVars, attention, notice, pc, act, recovering,
                   cancelActs, effects, unresolved>>

\* cancel_task, first transaction: the task is cancelled, and what must be
\* cleaned up is read under the transcript's lock.
CancelTask(t) ==
    /\ task[t] = "active" /\ cancelPc[t] # "cleaning"
    /\ task' = [task EXCEPT ![t] = "cancelled"]
    /\ cancelPc' = [cancelPc EXCEPT ![t] = "cleaning"]
    /\ cancelActs' = [cancelActs EXCEPT ![t] =
           {a \in Actions : actStatus[a] = "prepared" /\ runChat[actRun[a]] = t}]
    /\ cancelRuns' = [cancelRuns EXCEPT ![t] =
           {r \in Runs : runKind[r] = "background" /\ runChat[r] = t /\ active[r]}]
    /\ UNCHANGED <<runVars, actionVars, attention, notice, pc, act, recovering,
                   effects, unresolved>>

\* ... then one transaction per prepared action; a decision may have been first.
CleanupAction(t, a) ==
    /\ cancelPc[t] = "cleaning" /\ a \in cancelActs[t]
    /\ IF actStatus[a] = "prepared"
       THEN CancelPrepared(a)
       ELSE UNCHANGED <<actStatus, attention, runStatus>>
    /\ cancelActs' = [cancelActs EXCEPT ![t] = @ \ {a}]
    /\ UNCHANGED <<runKind, runChat, active, inference, fresh, actRun, automatic,
                   aged, acknowledged, notice, task, pc, act, recovering, cancelPc,
                   cancelRuns, effects, unresolved>>

\* ... then one interrupt_run per live inference.
CleanupRun(t, r) ==
    /\ cancelPc[t] = "cleaning" /\ cancelActs[t] = {} /\ r \in cancelRuns[t]
    /\ Interrupt(r)
    /\ cancelRuns' = [cancelRuns EXCEPT ![t] = @ \ {r}]
    /\ UNCHANGED <<task, pc, act, recovering, cancelPc, cancelActs,
                   effects, unresolved>>

CleanupDone(t) ==
    /\ cancelPc[t] = "cleaning" /\ cancelActs[t] = {} /\ cancelRuns[t] = {}
    /\ cancelPc' = [cancelPc EXCEPT ![t] = "done"]
    /\ UNCHANGED <<runVars, actionVars, attention, notice, task, pc, act, recovering,
                   cancelActs, cancelRuns, effects, unresolved>>

\* The process serving the cancellation dies before the cleanup is complete, or
\* a step of it fails and the answer lists the rest as a warning.
CleanupCrash(t) ==
    /\ cancelPc[t] = "cleaning"
    /\ cancelPc' = [cancelPc EXCEPT ![t] = "idle"]
    /\ cancelActs' = [cancelActs EXCEPT ![t] = {}]
    /\ cancelRuns' = [cancelRuns EXCEPT ![t] = {}]
    /\ UNCHANGED <<runVars, actionVars, attention, notice, task, pc, act, recovering,
                   effects, unresolved>>

----------------------------------------------------------------------------
RunStep(r) ==
    \/ \E c \in Chats : OwnerMessage(r, c)
    \/ \E t \in Tasks : ClaimTask(r, t)
    \/ Heartbeat(r)
    \/ HeartbeatAges(r)
    \/ FinishRun(r)
    \/ StopInference(r)
    \/ BeginRead(r)
    \/ ResolutionFails(r)
    \/ DispatchUnrecorded(r)
    \/ \E a \in Actions : \/ Propose(r, a)
                          \/ BeginAutomatic(r, a)
                          \/ \E s \in {"succeeded", "failed"} : RecordExecution(r, a, s)

ProcessStep(p) ==
    \/ Dispatch(p)
    \/ Refuse(p)
    \/ \E s \in Settled : FinishAction(p, s)
    \/ Crash(p)

RequestStep(q) ==
    \/ \E a \in Actions, approve \in BOOLEAN : CheckDecision(q, a, approve)
    \/ BeginExecution(q)
    \/ RejectDecision(q)
    \/ CancelAction(q)

OwnerStep ==
    \/ \E a \in Actions : Acknowledge(a)
    \/ \E r \in Runs : DismissNotices({r})
    \/ DismissNotices(Runs)

ReconcilerStep ==
    \/ \E a \in Actions : ReconcileStale(a)
    \/ \E r \in Runs : Fence(r) \/ Recover(r)
    \/ ReconcilerCrash

TaskStep(t) ==
    \/ \E s \in {"active", "complete"} : MergeStatus(t, s)
    \/ CancelTask(t)
    \/ \E a \in Actions : CleanupAction(t, a)
    \/ \E r \in Runs : CleanupRun(t, r)
    \/ CleanupDone(t)
    \/ CleanupCrash(t)

Next ==
    \/ \E r \in Runs : RunStep(r)
    \/ \E p \in Processes : ProcessStep(p)
    \/ \E q \in Requests : RequestStep(q)
    \/ OwnerStep
    \/ \E a \in Actions : ActionAges(a) \/ SupersedeProposal(a)
    \/ ReconcilerStep
    \/ \E t \in Tasks : TaskStep(t)

Spec == Init /\ [][Next]_vars

\* What the deployment guarantees.  An inference does not stream for ever (its
\* tool calls are bounded and provider requests time out).  Time passes.  The
\* reconciliation loop keeps running, and is not killed between its two
\* transactions every single time.  Nothing is assumed of owner requests or of
\* external systems: a capability call may hang for ever.
Fairness ==
    /\ \A r \in Runs :
          /\ WF_vars(FinishRun(r) \/ StopInference(r))
          /\ WF_vars(~Alive(r) /\ HeartbeatAges(r))
          /\ WF_vars(Fence(r))
          /\ SF_vars(Recover(r))
    /\ \A a \in Actions :
          /\ WF_vars(actStatus[a] = "executing" /\ ActionAges(a))
          /\ WF_vars(ReconcileStale(a))

FairSpec == Spec /\ Fairness

----------------------------------------------------------------------------
(* Properties.                                                             *)

Domains ==
    /\ runKind \in [Runs -> RunKind]
    /\ runChat \in [Runs -> Transcripts \cup {None}]
    /\ runStatus \in [Runs -> RunStatus]
    /\ active \in [Runs -> BOOLEAN]
    /\ inference \in [Runs -> InferenceStatus]
    /\ fresh \in [Runs -> BOOLEAN]
    /\ actRun \in [Actions -> Runs \cup {None}]
    /\ actStatus \in [Actions -> ActionStatus]
    /\ automatic \in [Actions -> BOOLEAN]
    /\ aged \in [Actions -> BOOLEAN]
    /\ acknowledged \in [Actions -> BOOLEAN]
    /\ attention \in [Actions -> AttentionState]
    /\ notice \in [Runs -> {"none", "open", "resolved"}]
    /\ task \in [Tasks -> TaskStatus]
    /\ pc \in [Processes -> PC]
    /\ act \in [Processes -> Actions \cup {None}]
    /\ recovering \subseteq Runs
    /\ cancelPc \in [Tasks -> {"idle", "cleaning", "done"}]
    /\ cancelActs \in [Tasks -> SUBSET Actions]
    /\ cancelRuns \in [Tasks -> SUBSET Runs]
    /\ effects \in [Actions -> Nat]
    /\ unresolved \subseteq Runs

References ==
    /\ \A a \in Actions : actRun[a] = None <=> actStatus[a] = "none"
    /\ \A r \in Runs : runKind[r] = "none" <=> pc[r] = "none"
    /\ \A p \in Processes :
          IF pc[p] \in Referring THEN act[p] \in Actions /\ actStatus[act[p]] # "none"
                                ELSE act[p] = None

\* The columns of the tables and the program counters stay in their domains,
\* an action row belongs to a run exactly when it exists, an inference process
\* exists exactly for the runs inserted, and a process refers to an action, one
\* that exists, exactly while it handles one.
TypeOK == Domains /\ References

\* Two approvals, an approval racing a cancellation, a recovery racing the
\* process it takes for dead: whatever the order, the external effect of one
\* action leaves Atlas at most once ("never blindly repeated").
AtMostOneEffect == \A a \in Actions : effects[a] <= 1

\* An effect leaves Atlas under a durable executing row: the effect of an
\* action that is still a proposal, or that the owner cancelled, never happened
\* and no process is about to make it happen.  The one exception, against "Before
\* dispatching a consequential effect, runtime creates a durable action identity"
\* (docs/17-runtime-constitution.md), is a call whose authority could not be
\* resolved at first: its effect has left while no row knows of it.
NoEffectWithoutIntent ==
    /\ \A a \in Actions : actStatus[a] \in {"none", "prepared", "cancelled"} =>
          /\ effects[a] = 0
          /\ \A p \in Processes : ~(act[p] = a /\ pc[p] \in Holding)
    /\ \A r \in Runs : pc[r] = "unrecorded" => r \in unresolved

\* The owner's queue tells the truth about the ledger: a proposal asks for
\* approval until it is decided, an uncertain effect is shown until the owner
\* acknowledges it, and nothing that is settled is left in the queue.
AttentionMatchesLedger ==
    \A a \in Actions :
        attention[a] = CASE actStatus[a] = "prepared" -> "approval_required"
                         [] actStatus[a] = "executing" ->
                              IF automatic[a] THEN "none" ELSE "approval_required"
                         [] actStatus[a] = "uncertain" ->
                              IF acknowledged[a] THEN "resolved" ELSE "uncertain"
                         [] actStatus[a] \in {"none", "succeeded", "failed", "cancelled"} ->
                              IF attention[a] = "none" THEN "none" ELSE "resolved"

\* Once inference has ended, the status of a run is exactly the aggregate of
\* its actions, although decisions, late results, stale reconciliation and reads
\* recorded after an interruption keep changing them, and not every writer
\* recomputes it; and while inference runs, no run with an uncertain effect
\* looks anything but uncertain.
RunStatusAggregates ==
    \A r \in Runs : runKind[r] # "none" =>
        /\ inference[r] # "running" =>
              runStatus[r] = Aggregate(StatusesOf(r, actStatus), FALSE, inference[r])
        /\ "uncertain" \in StatusesOf(r, actStatus) => runStatus[r] = "uncertain"

\* Once a run's inference has ended, whichever process ended it, none of the
\* effects that inference started on its own is left "executing" with nobody
\* to finish it.
NoAbandonedExecution ==
    \A a \in Actions : (actStatus[a] = "executing" /\ automatic[a]) =>
        inference[actRun[a]] = "running"

\* One live inference per conversation and per managed task, although the
\* reconciler releases the slot of a process that may still be alive.
OneLiveInference ==
    \A r1, r2 \in Runs :
        (active[r1] /\ active[r2] /\ runKind[r1] = runKind[r2] /\ runChat[r1] = runChat[r2])
            => r1 = r2

\* When cancel_task has finished its cleanup and no inference has overwritten
\* the task's status, no proposal of the task is left for the owner to approve
\* and no inference of the task is live.
CancelCleansUp ==
    \A t \in Tasks : (cancelPc[t] = "done" /\ task[t] = "cancelled") =>
        /\ \A a \in Actions : actStatus[a] = "prepared" => runChat[actRun[a]] # t
        /\ \A r \in Runs : runChat[r] = t => ~active[r]

\* A settled action is never rewritten: a late result, a second decision or a
\* recovery changes neither success, failure, cancellation nor uncertainty.
SettledIsFinal ==
    [][\A a \in Actions : actStatus[a] \in Settled => actStatus'[a] = actStatus[a]]_vars

\* Every execution is settled: even when the process that dispatched it died or
\* hangs for ever, the action ends with a result or as uncertain.
ExecutingSettles ==
    \A a \in Actions : actStatus[a] = "executing" ~> actStatus[a] \in Settled

\* A run whose process was killed gives its slot back, is marked interrupted,
\* and in an ordinary conversation the owner is told.
AbandonedRunReleased ==
    \A r \in Runs : (pc[r] = "dead" /\ active[r]) ~>
        (~active[r] /\ inference[r] = "interrupted" /\ (~Managed(r) => notice[r] # "none"))

----------------------------------------------------------------------------
(* Inductive strengthenings of the invariants (ActionAuthority_proofs).    *)

\* An action that no process has begun.
Unissued == {"none", "prepared", "cancelled"}

\* Each begun action has one holder, which has not dispatched it twice.
EffectInv ==
    /\ \A p \in Processes : pc[p] \in Holding => actStatus[act[p]] \notin Unissued
    /\ \A p, q \in Processes :
          (pc[p] \in Holding /\ pc[q] \in Holding /\ act[p] = act[q]) => p = q
    /\ \A p \in Processes : pc[p] = "begun" => effects[act[p]] = 0
    /\ \A a \in Actions : actStatus[a] \in Unissued => effects[a] = 0
    /\ \A a \in Actions : effects[a] <= 1
    /\ \A r \in Runs : pc[r] = "unrecorded" => r \in unresolved

\* What the evidence columns say about the status they were written with.
LedgerInv ==
    /\ AttentionMatchesLedger
    /\ \A a \in Actions : actStatus[a] = "none" => attention[a] = "none"
    /\ \A a \in Actions : automatic[a] => actStatus[a] \notin {"none", "prepared"}
    /\ \A a \in Actions : acknowledged[a] => actStatus[a] = "uncertain"

\* Who is responsible for an automatic execution while its process lives.
InferenceInv ==
    /\ NoAbandonedExecution
    /\ OneLiveInference
    /\ \A r \in Runs : active[r] => inference[r] = "running"
    /\ \A a \in Actions : actRun[a] # None => runKind[actRun[a]] # "none"
    /\ \A a \in Actions :
          (actStatus[a] = "executing" /\ automatic[a] /\ pc[actRun[a]] # "dead")
              => act[actRun[a]] = a /\ pc[actRun[a]] \in Holding

\* An inference that ended by itself has no process left to record anything.
AggregateInv ==
    /\ RunStatusAggregates
    /\ \A r \in Runs : inference[r] = "succeeded" => pc[r] = "dead"
    /\ \A r \in Runs : inference[r] = "none" <=> runKind[r] = "none"

\* What a cancellation still has to clean up is on the list it read: no process
\* adds to it while the task stays cancelled.
CancelInv ==
    /\ \A r \in Runs : runChat[r] \in Tasks => runKind[r] = "background"
    /\ \A t \in Tasks :
          cancelPc[t] = "done" => cancelActs[t] = {} /\ cancelRuns[t] = {}
    /\ \A t \in Tasks : (task[t] = "cancelled" /\ cancelPc[t] # "idle") =>
          /\ \A a \in Actions :
                (actStatus[a] = "prepared" /\ runChat[actRun[a]] = t) => a \in cancelActs[t]
          /\ \A r \in Runs : (runChat[r] = t /\ active[r]) => r \in cancelRuns[t]
=============================================================================
