----------------------------- MODULE Schedules -----------------------------
(***************************************************************************)
(* Scheduled tasks and the loop that wakes them: claim_due, claim_events   *)
(* and the queued occurrences, executed one after the other by the loop    *)
(* that claimed them.  The ledger of Notifications is what event tasks     *)
(* wake on; a scheduled run writes to it when it waits for the owner, ends *)
(* uncertain or is interrupted.                                            *)
(*                                                                         *)
(* slot numbers the instants next_run_at takes for a task, so that two     *)
(* occurrences have the same scheduled_for when they have the same slot;   *)
(* past says that the clock has reached it.  interval stands for interval  *)
(* and cron: both compute the next instant from the present one.           *)
(* "finished" stands for succeeded, failed, cancelled and interrupted, the *)
(* statuses that are not outstanding, and "over" for the inferences that   *)
(* lead to them; the notice of an interruption is in attention.            *)
(***************************************************************************)
EXTENDS Notifications

CONSTANTS
    Tasks,      \* identities of scheduled tasks
    DueLimit,   \* the limit of due()
    EventLimit, \* the limit of claim_events
    Listens,    \* [Tasks -> sources the filter of an event task names]
    MaxRuns,    \* bound on occurrences
    MaxUpsets   \* bound on edits, passes that meet one, switches, crashes and live runs
                \* taken for dead, together

ASSUME ScheduleBounds ==
    /\ IsFiniteSet(Tasks)
    /\ DueLimit \in Nat \ {0} /\ EventLimit \in Nat \ {0}
    /\ MaxRuns \in Nat /\ MaxUpsets \in Nat

VARIABLES
    task,   \* [Tasks -> ScheduledTaskRow]
    sooner, \* [Tasks -> the tasks with an earlier next_run_at], of those it is past for
    runs,   \* scheduled RunRows in order of creation; action: the one that asks
    poll,   \* where scheduler_loop stands; skipped: the rows claim_events found locked
    upsets  \* what MaxUpsets bounds

schedVars == <<task, sooner, runs, poll, upsets>>
allVars == <<noteVars, schedVars>>

Kinds == {"none", "once", "interval", "event"}
OUTSTANDING == {"queued", "running", "waiting_for_owner", "uncertain"}

NoTask == [kind |-> "none", enabled |-> FALSE, slot |-> 0, past |-> FALSE, born |-> 0, last |-> "none"]

NewTask(kind, born) ==
    [NoTask EXCEPT !.kind = kind, !.enabled = TRUE, !.slot = 1, !.born = born]

RunsOf(s) == {r \in DOMAIN runs : runs[r].task = s}
\* Mutant: a run that waits for the owner is not outstanding.
OutstandingActive(s) == \E r \in RunsOf(s) : runs[r].status \in {"queued", "running"}

Outstanding(s) == \E r \in RunsOf(s) : runs[r].status \in OUTSTANDING
Due(s) == task[s].kind \in {"once", "interval"} /\ task[s].enabled /\ task[s].past

\* uq_schedule_occurrence: this instant of the task already has a run.
Occurred(s) == \E r \in RunsOf(s) : runs[r].note = 0 /\ runs[r].slot = task[s].slot

Occurrence(s, i) ==
    [task |-> s, note |-> i, slot |-> task[s].slot, status |-> "queued",
     inference |-> "queued", action |-> "none"]

NoPass == [at |-> "due", queue |-> {}, run |-> 0, skipped |-> {}]

\* next_run_at of s gets past those of before, or out of the past.
Placed(s, before) ==
    [o \in Tasks |-> IF o = s THEN before
                     ELSE IF task[o].past /\ o \notin before THEN sooner[o] \cup {s}
                     ELSE sooner[o] \ {s}]

Unplaced(s) == [o \in Tasks |-> IF o = s THEN {} ELSE sooner[o] \ {s}]

-----------------------------------------------------------------------------
(* ScheduleService, called by the model's schedule operations. *)

CreateTask(s, kind) ==
    /\ upsets < MaxUpsets
    /\ task[s].kind = "none" /\ RunsOf(s) = {}
    /\ task' = [task EXCEPT ![s] = NewTask(kind, Len(notes))]
    /\ upsets' = upsets + 1
    /\ UNCHANGED <<noteVars, sooner, runs, poll>>

\* next_run_at is computed again from the value: a new one-off date may already
\* lie in the past, an unchanged one stays where it was, an interval starts anew.
UpdateTask(s, kind, enabled, moved, past) ==
    LET anew == moved \/ kind # task[s].kind \/ kind = "interval"
    IN  /\ upsets < MaxUpsets
        /\ task[s].kind # "none"
        /\ kind = "once" /\ ~anew => past = task[s].past
        /\ kind # "once" => ~moved /\ ~past
        /\ task' = [task EXCEPT ![s].kind = kind, ![s].enabled = enabled, ![s].past = past,
                                ![s].slot = IF anew THEN @ + 1 ELSE @]
        /\ \/ ~past /\ sooner' = Unplaced(s)
           \/ past /\ ~anew /\ UNCHANGED sooner
           \/ /\ past /\ anew
              /\ \E before \in SUBSET {o \in Tasks \ {s} : task[o].past} :
                    /\ \A o \in before : sooner[o] \ {s} \subseteq before
                    /\ sooner' = Placed(s, before)
        /\ upsets' = upsets + 1
        /\ UNCHANGED <<noteVars, runs, poll>>

DeleteTask(s) ==
    /\ upsets < MaxUpsets
    /\ task[s].kind # "none"
    /\ task' = [task EXCEPT ![s] = NoTask]
    /\ sooner' = Unplaced(s)
    /\ upsets' = upsets + 1
    /\ UNCHANGED <<noteVars, runs, poll>>

\* The clock reaches next_run_at, later than those it reached before.
TimeReaches(s) ==
    /\ task[s].kind \in {"once", "interval"} /\ ~task[s].past
    /\ task' = [task EXCEPT ![s].past = TRUE]
    /\ sooner' = Placed(s, {o \in Tasks : task[o].past})
    /\ UNCHANGED <<noteVars, runs, poll, upsets>>

\* A notification gets older than EVENT_WAKE_MAX_AGE.
NoteAges(i) ==
    /\ "scheduler" \in loops
    /\ notes[i].wake = "fresh" /\ \A j \in 1..(i - 1) : notes[j].wake # "fresh"
    /\ notes' = [notes EXCEPT ![i].wake = "old"]
    /\ UNCHANGED <<loops, attention, drafts, deviceVars, deliveryVars, schedVars>>

-----------------------------------------------------------------------------
(* run_due_once: claim_due, claim_events, then the queued runs in order. *)

\* advance_before_run, then last_status = "queued".
Advance(t) ==
    [t EXCEPT !.last = "queued",
              !.enabled = IF t.kind = "once" THEN FALSE ELSE @,
              !.slot = IF t.kind = "interval" THEN @ + 1 ELSE @,
              !.past = IF t.kind = "interval" THEN FALSE ELSE @]

Ripe == {s \in Tasks : Due(s) /\ ~Outstanding(s)}

\* A pass meets rows that another transaction holds, an edit not yet committed; the
\* FOR UPDATE SKIP LOCKED of both claims leaves them out.
Meets(held) ==
    /\ held # {} => upsets < MaxUpsets
    /\ \A s \in held : task[s].kind # "none"
    /\ upsets' = IF held = {} THEN upsets ELSE upsets + 1

\* due(): the first DueLimit due rows in the order of next_run_at.
Window(held) ==
    LET rows == {s \in Tasks \ held : Due(s)}
    IN  {s \in rows : Cardinality(sooner[s] \cap rows) < DueLimit}

Claims(held) == Ripe \cap Window(held)

\* The due tasks of the window without an outstanding run get one, in one transaction.
ClaimDue(held) ==
    /\ "scheduler" \in loops
    /\ poll.at = "due"
    /\ \A s \in Claims(held) : ~Occurred(s)
    /\ Len(runs) + Cardinality(Claims(held)) <= MaxRuns
    /\ Meets(held)
    /\ \E order \in [1..Cardinality(Claims(held)) -> Claims(held)] :
          /\ \A s \in Claims(held) : \E k \in DOMAIN order : order[k] = s
          /\ runs' = runs \o [k \in DOMAIN order |-> Occurrence(order[k], 0)]
    /\ task' = [s \in Tasks |-> IF s \in Claims(held) THEN Advance(task[s]) ELSE task[s]]
    /\ sooner' = [s \in Tasks |-> IF task'[s].past THEN {o \in sooner[s] : task'[o].past} ELSE {}]
    /\ poll' = [poll EXCEPT !.at = "events"]
    /\ UNCHANGED noteVars

\* The unique constraint refuses the transaction, and the pass ends there.
ClaimDueFails ==
    /\ "scheduler" \in loops
    /\ poll.at = "due"
    /\ \E s \in Claims({}) : Occurred(s)
    /\ UNCHANGED allVars

Listeners == {s \in Tasks : task[s].kind = "event" /\ task[s].enabled}

\* Notification i is one that task s wakes on.
Wakes(s, i) ==
    /\ notes[i].source \in Listens[s]
    /\ notes[i].severity = "warning"
    /\ notes[i].status # "superseded"
    /\ i > task[s].born
    /\ notes[i].origin # 0 => runs[notes[i].origin].task # s

Unclaimed == {i \in DOMAIN notes : notes[i].wake = "fresh" /\ i \notin Locked}

\* The oldest of them, as many as one pass reads.
Fresh == {i \in Unclaimed : Cardinality({j \in Unclaimed : j < i}) < EventLimit}

\* The first notification of the pass a task without an outstanding run wakes on;
\* from then on its run is outstanding.
FirstWake(s, held) ==
    IF s \notin Listeners \ held \/ Outstanding(s) THEN {}
    ELSE LET S == {i \in Fresh : Wakes(s, i)} IN IF S = {} THEN {} ELSE {Min(S)}

Woken(held) == {p \in Tasks \X Fresh : p[2] \in FirstWake(p[1], held)}

\* Mutant: a notification is done with when one task got its run.
ClaimedByFirst(i, held) ==
    \/ \E s \in Listeners \ held : i \in FirstWake(s, held)
    \/ \A s \in Listeners \ held : ~Wakes(s, i)

\* A notification is done with when every task it wakes got its run in this pass,
\* of those whose rows the pass has read.
Claimed(i, held) == \A s \in Listeners \ held : Wakes(s, i) => i \in FirstWake(s, held)

\* The instants of different tasks are not compared: the queued runs may come in
\* any order.
Queue(rs) == {r \in DOMAIN rs : rs[r].inference = "queued"}

ClaimEvents(held) ==
    /\ poll.at = "events"
    /\ Len(runs) + Cardinality(Woken(held)) <= MaxRuns
    /\ Meets(held)
    /\ \A i \in DOMAIN notes : notes[i].wake = "old" => i \notin Locked
    /\ notes' = [i \in DOMAIN notes |->
                   IF \/ notes[i].wake = "old"
                      \/ i \in Fresh /\ Listeners \ held # {} /\ Claimed(i, held)
                   THEN [notes[i] EXCEPT !.wake = "claimed"] ELSE notes[i]]
    /\ \E order \in [1..Cardinality(Woken(held)) -> Woken(held)] :
          /\ \A p \in Woken(held) : \E k \in DOMAIN order : order[k] = p
          /\ \A k, l \in DOMAIN order : k < l => order[k][2] <= order[l][2]
          /\ runs' = runs \o [k \in DOMAIN order |-> Occurrence(order[k][1], order[k][2])]
    /\ task' = [s \in Tasks |-> IF FirstWake(s, held) # {} THEN Advance(task[s]) ELSE task[s]]
    /\ poll' = [at |-> "run", queue |-> Queue(runs'), run |-> 0, skipped |-> held]
    /\ UNCHANGED <<loops, attention, drafts, deviceVars, deliveryVars, sooner>>

\* _recompute_run, of an inference that was started.
Aggregate(run) ==
    CASE run.action = "uncertain" -> "uncertain"
      [] run.action = "prepared"  -> "waiting_for_owner"
      [] OTHER -> IF run.inference = "running" THEN "running" ELSE "finished"

\* The run is written with its aggregate, and the task that still exists shows it.
SetRun(r, run) ==
    LET s == runs[r].task
    IN  /\ runs' = [runs EXCEPT ![r] = [run EXCEPT !.status = Aggregate(run)]]
        /\ task' = [task EXCEPT ![s].last = IF task[s].kind = "none" THEN @ ELSE Aggregate(run)]
        /\ UNCHANGED sooner

\* _execute_task claims the occurrence it was given.
ExecuteClaim ==
    /\ poll.at = "run" /\ poll.run = 0
    /\ \E r \in poll.queue :
          /\ runs' = [runs EXCEPT ![r].status = "running", ![r].inference = "running"]
          /\ poll' = [poll EXCEPT !.run = r, !.queue = @ \ {r}]
    /\ UNCHANGED <<noteVars, task, sooner, upsets>>

\* The capability is switched off at that moment: the occurrence stays queued.
ExecuteSkips ==
    /\ upsets < MaxUpsets
    /\ poll.at = "run" /\ poll.run = 0
    /\ \E r \in poll.queue : poll' = [poll EXCEPT !.queue = @ \ {r}]
    /\ upsets' = upsets + 1
    /\ UNCHANGED <<noteVars, task, sooner, runs>>

Live(r) == r # 0 /\ runs[r].inference = "running"

\* The live run proposes its action, or cannot confirm the effect it started.
RunAsks(action) ==
    LET r == poll.run
    IN  /\ Live(r) /\ attention[ActionItem(r)] = "none" /\ Room
        /\ RaiseAttention(ActionItem(r), AttentionOf(action), r)
        /\ SetRun(r, [runs[r] EXCEPT !.action = action])
        /\ UNCHANGED <<loops, drafts, deviceVars, deliveryVars, poll, upsets>>

\* The answer is stored and finish_run aggregates the run.
ExecuteEnd ==
    /\ Live(poll.run)
    /\ SetRun(poll.run, [runs[poll.run] EXCEPT !.inference = "over"])
    /\ poll' = [poll EXCEPT !.run = 0]
    /\ UNCHANGED <<noteVars, upsets>>

\* Somebody else interrupted the run: require_live_run refuses the answer, and the
\* loop goes on to the next run.
ExecuteRefused ==
    /\ poll.run # 0 /\ ~Live(poll.run)
    /\ poll' = [poll EXCEPT !.run = 0]
    /\ UNCHANGED <<noteVars, task, sooner, runs, upsets>>

\* The heartbeat notices first and cancels the task it was started in, which is the
\* loop itself: a CancelledError is no Exception, and nothing starts the loop again.
LoopCancelled ==
    /\ poll.run # 0 /\ ~Live(poll.run)
    /\ poll' = [NoPass EXCEPT !.at = "dead"]
    /\ UNCHANGED <<noteVars, task, sooner, runs, upsets>>

\* interrupt_run: an effect still executing becomes uncertain, and a notice is
\* raised beside it.
Interrupt(r, executing) ==
    LET x    == ActionItem(r)
        seen == IF executing THEN EmitAlone(notes, AttentionEvent(x, "uncertain", r)) ELSE notes
    IN  /\ executing => /\ attention[x] \in {"none", "approval_required"}
                        /\ Lockable(OpenThread(notes, ItemThread(x)))
        /\ Len(seen) < MaxNotes
        /\ notes' = EmitAlone(seen, AttentionEvent(NoticeItem(r), "interrupted", r))
        /\ attention' = [attention EXCEPT ![x] = IF executing THEN "uncertain" ELSE @,
                                          ![NoticeItem(r)] = "interrupted"]
        /\ SetRun(r, [runs[r] EXCEPT !.inference = "over",
                                     !.action = IF executing THEN "uncertain" ELSE @])

ExecuteFails(executing) ==
    /\ Live(poll.run)
    /\ Interrupt(poll.run, executing)
    /\ poll' = [poll EXCEPT !.run = 0]
    /\ UNCHANGED <<loops, drafts, deviceVars, deliveryVars, upsets>>

\* Mutant: the pass waits for the owner to settle its runs.
PollEndsSettled ==
    /\ poll.at = "run" /\ poll.run = 0 /\ poll.queue = {}
    /\ \A s \in Tasks : ~Outstanding(s)
    /\ poll' = NoPass
    /\ UNCHANGED <<noteVars, task, sooner, runs, upsets>>

PollEnds ==
    /\ poll.at = "run" /\ poll.run = 0 /\ poll.queue = {}
    /\ poll' = NoPass
    /\ UNCHANGED <<noteVars, task, sooner, runs, upsets>>

\* The process dies and is started again.
SchedulerCrash ==
    /\ upsets < MaxUpsets
    /\ poll \notin {NoPass, [NoPass EXCEPT !.at = "dead"]}
    /\ poll' = NoPass
    /\ upsets' = upsets + 1
    /\ UNCHANGED <<noteVars, task, sooner, runs>>

\* The owner restarts Atlas after the loop was cancelled.
SchedulerRestart ==
    /\ poll.at = "dead"
    /\ poll' = NoPass
    /\ UNCHANGED <<noteVars, task, sooner, runs, upsets>>

\* recover_abandoned_runs, once the heartbeat is stale: the process died, or it
\* lives and was only slow.  ActionAuthority takes its two transactions apart.
RecoverRun(r, executing) ==
    /\ Live(r)
    /\ poll.run = r => upsets < MaxUpsets
    /\ upsets' = IF poll.run = r THEN upsets + 1 ELSE upsets
    /\ Interrupt(r, executing)
    /\ UNCHANGED <<loops, drafts, deviceVars, deliveryVars, poll>>

\* The owner decides the proposal, while the inference goes on or after it ended:
\* it is cancelled, or executed with a known outcome, or with an unconfirmed one.
OwnerDecides(r, confirmed) ==
    /\ runs[r].action = "prepared"
    /\ IF confirmed THEN SettleAttention(ActionItem(r))
       ELSE Room /\ RaiseAttention(ActionItem(r), "uncertain", r)
    /\ SetRun(r, [runs[r] EXCEPT !.action = IF confirmed THEN "none" ELSE "uncertain"])
    /\ UNCHANGED <<loops, drafts, deviceVars, deliveryVars, poll, upsets>>

\* acknowledge_uncertain: the attention is settled, action and run stay uncertain.
OwnerAcknowledges(r) ==
    /\ runs[r].action = "uncertain" /\ attention[ActionItem(r)] = "uncertain"
    /\ SettleAttention(ActionItem(r))
    /\ UNCHANGED <<loops, drafts, deviceVars, deliveryVars, schedVars>>

-----------------------------------------------------------------------------
(* What the scheduler promises. *)

\* A task never has two outstanding runs, whichever of the two claims queued
\* them, and the status its row shows is that of its newest run.
OneRunAtATime ==
    \A s \in Tasks :
        /\ Cardinality({r \in RunsOf(s) : runs[r].status \in OUTSTANDING}) <= 1
        /\ RunsOf(s) # {} /\ task[s].kind # "none" =>
              \/ task[s].last = runs[Max(RunsOf(s))].status
              \/ task[s].last = "queued" /\ runs[Max(RunsOf(s))].status = "running"

\* A notification that is still news is claimed only once every task it wakes has
\* a run for it, over as many polls as the deferrals take.  Excepted are the tasks
\* whose rows the claiming pass found locked: it leaves them out of "every matching
\* task" and claims the notification without a run for them.
ClaimedWhenServed ==
    [][\A i \in DOMAIN notes :
          /\ notes[i].wake = "fresh" /\ notes'[i].wake = "claimed"
          => \A s \in Listeners : Wakes(s, i) =>
                \/ s \in poll'.skipped
                \/ \E r \in DOMAIN runs' : runs'[r].task = s /\ runs'[r].note = i]_allVars

\* A one-off task that was switched on again for an instant it already ran at.
Poisoned == \E s \in Claims({}) : Occurred(s)

\* due() returns its limit of tasks, and each of them still waits for its last run.
Crowded ==
    Cardinality(Window({})) = DueLimit /\ \A s \in Window({}) : Outstanding(s)

\* The bound on occurrences keeps the next claim from happening.
Full ==
    \/ Len(runs) + Cardinality(Claims({})) > MaxRuns
    \/ poll.at = "events" /\ Len(runs) + Cardinality(Woken({})) > MaxRuns

\* The claim always gets through in the end: over crashes of the scheduler, failed
\* runs and edits of the tasks, there is again and again no due task waiting for a
\* run.  Excepted are a poisoned task that makes every claim fail, a window that
\* tasks with an outstanding run fill, and a loop that was cancelled.
ClaimsGetThrough ==
    []<>("scheduler" \notin loops \/ Ripe = {} \/ Poisoned \/ Crowded \/ Full \/ poll.at = "dead")

\* "When due, Atlas wakes a model with the stored intent" (docs/11-schedules.md):
\* there is again and again no due task waiting for a run.
DueTasksWake ==
    []<>(Ripe = {} \/ Full)
=============================================================================
