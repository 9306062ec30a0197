----------------------------- MODULE Awareness -----------------------------
(***************************************************************************)
(* The ledger, the scheduler and the monitors together.  loops says which  *)
(* parts act in a behaviour: "scheduler", "units", "rdc" and "push" are    *)
(* switched on by settings (scheduler_enabled, host_watch_unit_list,       *)
(* rdc_monitor_enabled, a VAPID key), "model" by the capability            *)
(* atlas.notifications; "no key" is the dispatcher without a VAPID key,    *)
(* "chat" are conversations that ask for the owner, "owner" is the owner   *)
(* who answers them and clears notices, "inbox" the owner at the inbox.    *)
(***************************************************************************)
EXTENDS Schedules, HostMonitors

CONSTANTS
    Deployments,    \* sets of loops that are switched on together
    Presets,        \* [Deployments -> kinds of the tasks that may exist at the start]
    Foreground      \* attention items of conversations

\* Every conversation item and every action and notice of a scheduled run has its row.
ASSUME AwarenessAssumption ==
    /\ Foreground \subseteq Items /\ {"action", "run"} \X (1..MaxRuns) \subseteq Items
    /\ \A p \in Deployments : Presets[p] \subseteq [Tasks -> Kinds]

vars == <<noteVars, schedVars, monitorVars>>

Init ==
    /\ loops \in Deployments
    /\ notes = <<>>
    /\ attention = [x \in Items |-> "none"]
    /\ drafts = [w \in Writers |-> {}]
    /\ subs = [d \in Devices |-> "enabled"]
    /\ disp = [x \in Dispatchers |-> Idle]
    /\ testing = FALSE
    /\ shown = [d \in Devices |-> <<>>]
    /\ tries = [i \in 1..MaxNotes |-> 0]
    /\ disturbed = FALSE /\ lost = 0 /\ churn = 0
    /\ \E kinds \in Presets[loops] :
          task = [s \in Tasks |-> IF kinds[s] = "none" THEN NoTask ELSE NewTask(kinds[s], 0)]
    /\ sooner = [s \in Tasks |-> {}] /\ runs = <<>> /\ poll = NoPass /\ upsets = 0
    /\ watched = Units
    /\ health = [u \in Units |-> "healthy"]
    /\ known = [u \in Units |-> "none"]
    /\ forgotten = {}
    /\ journal = [lines |-> <<>>, alive |-> TRUE]
    /\ rdc = RdcInit
    /\ told = [n \in 1..MaxLines |-> 0] /\ lapsed = {}
    /\ changes = 0 /\ stale = 0

ModelEvent(t, b, severity) == Event("model", <<"model", t>>, severity, b, poll.run)

LedgerNext ==
    \/ \E x \in Foreground : AttentionRaised(x)
    \/ /\ "owner" \in loops
       /\ \/ \E x \in Foreground \cup {NoticeItem(r) : r \in DOMAIN runs} : AttentionSettled(x)
          \/ DismissAll \/ OwnerWrites
    \/ \E w \in Writers, t \in Topics, b \in Bodies, s \in {"info", "warning"} :
          ModelEmitRead(w, ModelEvent(t, b, s))
    \/ \E w \in Writers : ModelEmitWrite(w)
    \/ "inbox" \in loops /\ \E i \in DOMAIN notes :
          \E last \in i..Len(notes), loadedOpen \in BOOLEAN : OwnerResolves(i, last, loadedOpen)

DeviceNext ==
    /\ "push" \in loops
    /\ \/ \E d \in Devices : Subscribe(d) \/ Unsubscribe(d)
       \/ PushTest

DeliveryStep(x) ==
    DeliverSkip(x) \/ DeliverSelect(x) \/ DeliverSend(x) \/ DeliverCommit(x) \/ DeliverTorn(x)

DeliveryNext ==
    \/ \E x \in Dispatchers : DeliveryStep(x) \/ DeliverLost(x)
    \/ TestDone

OwnerOfSchedules ==
    /\ "scheduler" \in loops
    /\ \E s \in Tasks :
          \/ \E kind \in Kinds \ {"none"} : CreateTask(s, kind)
          \/ \E kind \in Kinds \ {"none"}, enabled, moved, past \in BOOLEAN :
                UpdateTask(s, kind, enabled, moved, past)
          \/ DeleteTask(s)
          \/ TimeReaches(s)

SchedulerStep ==
    \/ \E held \in SUBSET Tasks : ClaimDue(held) \/ ClaimEvents(held)
    \/ ClaimDueFails \/ ExecuteClaim \/ ExecuteEnd \/ ExecuteRefused \/ PollEnds

SchedulerNext ==
    \/ SchedulerStep
    \/ ExecuteSkips \/ LoopCancelled
    \/ \E action \in {"prepared", "uncertain"} : RunAsks(action)
    \/ \E executing \in BOOLEAN :
          \/ ExecuteFails(executing)
          \/ \E r \in DOMAIN runs : RecoverRun(r, executing)
    \/ SchedulerCrash \/ SchedulerRestart
    \/ \E r \in DOMAIN runs :
          \/ \E confirmed \in BOOLEAN : OwnerDecides(r, confirmed)
          \/ "owner" \in loops /\ OwnerAcknowledges(r)
    \/ \E i \in DOMAIN notes : NoteAges(i)

WorldNext ==
    \/ \E u \in Units, h \in Healths : UnitChanges(u, h)
    \/ \E W \in SUBSET Units : ListUnits(W)
    \/ \E line \in Lines : ConnectorLogs(line)
    \/ ConnectorStopsOrStarts

MonitorNext ==
    \/ UnitsPass
    \/ \E expired \in {{}, 1..MaxLines}, outlasted \in BOOLEAN :
          \/ RdcPass(expired, outlasted)
          \/ \E w \in 1..MaxLines : RdcPassStale(w, expired, outlasted)

Next ==
    \/ (LedgerNext \/ DeviceNext \/ DeliveryNext) /\ UNCHANGED <<schedVars, monitorVars>>
    \/ (OwnerOfSchedules \/ SchedulerNext) /\ UNCHANGED monitorVars
    \/ (WorldNext \/ MonitorNext) /\ UNCHANGED schedVars

\* The dispatcher loop and the scheduler loop run for as long as the process does
\* and come back after every exception; an inference ends.
Fairness ==
    /\ WF_vars(DeliveryStep("loop") /\ UNCHANGED <<schedVars, monitorVars>>)
    /\ WF_vars(DeliveryStep("test") /\ UNCHANGED <<schedVars, monitorVars>>)
    /\ WF_vars(SchedulerStep /\ UNCHANGED monitorVars)

Spec == Init /\ [][Next]_vars /\ Fairness

TypeOK ==
    /\ loops \in Deployments
    /\ \A i \in DOMAIN notes :
          /\ notes[i].source \in {"authority", "model", "push", "units", "rdc"}
          /\ notes[i].severity \in Severities /\ notes[i].status \in Statuses
          /\ notes[i].push \in PushStatuses /\ notes[i].wake \in {"fresh", "old", "claimed"}
          /\ notes[i].origin \in 0..Len(runs)
    /\ Len(notes) <= MaxNotes
    /\ attention \in [Items -> AttentionStates \cup {"none", "resolved", "dismissed"}]
    /\ subs \in [Devices -> {"absent", "enabled", "disabled"}]
    /\ \A x \in Dispatchers :
          /\ disp[x].left \subseteq disp[x].rows /\ disp[x].ok \subseteq disp[x].rows
          /\ disp[x].rows \subseteq Pending
          /\ disp[x].gone \subseteq disp[x].subs /\ disp[x].subs \subseteq Devices
    /\ task \in [Tasks -> [kind : Kinds, enabled : BOOLEAN, slot : Nat, past : BOOLEAN,
                           born : 0..MaxNotes,
                           last : OUTSTANDING \cup {"none", "finished"}]]
    /\ runs \in Seq([task : Tasks, note : 0..MaxNotes, slot : Nat,
                     status : OUTSTANDING \cup {"finished"},
                     inference : {"queued", "running", "over"},
                     action : {"none", "prepared", "uncertain"}])
    /\ poll.run \in 0..Len(runs) /\ poll.at \in {"due", "events", "run", "dead"}
    /\ poll.queue \subseteq DOMAIN runs /\ poll.skipped \subseteq Tasks
    /\ sooner \in [Tasks -> SUBSET Tasks]
    /\ known \in [Units -> {"none", "healthy", "unhealthy"}]
    /\ rdc.cursor \in 0..Len(journal.lines)
=============================================================================
