--------------------------- MODULE Notifications ---------------------------
(***************************************************************************)
(* The awareness ledger: rows emitted on threads inside the emitter's      *)
(* transaction, the mirror of owner attention, the owner's inbox, and the  *)
(* push outbox that a dispatcher drains to the owner's devices.            *)
(*                                                                         *)
(* notes is the table in created_at order.  A severity stands for its      *)
(* class: "warning" for warning, action_required and critical, which the   *)
(* policy treats alike.  Titles, the quiet flag and read marks are         *)
(* display data and are left out; body stands for kind, title, body and    *)
(* detail together, the fields an identical event is recognised by.        *)
(***************************************************************************)
EXTENDS Naturals, Sequences, FiniteSets, FiniteSetsExt

CONSTANTS
    Items,          \* owner-attention rows
    Topics,         \* thread keys the model may choose
    Bodies,         \* contents the model may choose
    Writers,        \* model runs that may emit at the same time
    Devices,        \* push subscriptions (endpoints)
    MaxNotes,       \* bound on the rows of the ledger
    BatchLimit,     \* rows one delivery takes (20 in the code)
    ModelPerHour,   \* notifications_model_emit_per_hour
    MaxLost,        \* bound on deliveries lost to a crash
    MaxChurn        \* bound on changes of the subscriptions

ASSUME NotificationBounds ==
    /\ MaxNotes \in Nat /\ MaxLost \in Nat /\ MaxChurn \in Nat
    /\ BatchLimit \in Nat \ {0} /\ ModelPerHour \in Nat

VARIABLES
    loops,      \* the parts that act; never changes
    notes,      \* NotificationRow
    attention,  \* [Items -> state of the OwnerAttentionRow]
    drafts,     \* [Writers -> an emit between its reads and its write]
    subs,       \* [Devices -> PushSubscriptionRow]
    disp,       \* [Dispatchers -> a delivery transaction]
    testing,    \* the test endpoint is about to deliver
    shown,      \* [Devices -> rows displayed, each over the earlier ones of its tag]
    tries,      \* sends of a row since its last lost delivery, up to 2 (history)
    disturbed,  \* a delivery was lost or two overlapped (history)
    lost, churn \* what MaxLost and MaxChurn bound

ledgerVars == <<notes, attention>>
deliveryVars == <<disp, testing, shown, tries, disturbed, lost>>
deviceVars == <<subs, churn>>
noteVars == <<loops, notes, attention, drafts, subs, disp, testing, shown, tries,
              disturbed, lost, churn>>

Dispatchers == {"loop", "test"}
Severities == {"info", "warning", "resolved"}
Statuses == {"open", "superseded", "resolved"}
PushStatuses == {"none", "pending", "sent", "failed", "skipped"}

Event(source, thread, severity, body, origin) ==
    [source |-> source, thread |-> thread, severity |-> severity, body |-> body,
     origin |-> origin]

\* The policy: info stays in the inbox, a resolution is pushed only for a thread
\* that was pushed, everything else is pushed.
DecidePush(severity, pushedBefore) ==
    CASE severity = "info"     -> "none"
      [] severity = "resolved" -> IF pushedBefore THEN "pending" ELSE "none"
      [] OTHER                 -> "pending"

Row(e, status, push) ==
    [source |-> e.source, thread |-> e.thread, severity |-> e.severity, body |-> e.body,
     origin |-> e.origin, status |-> status, push |-> push, wake |-> "fresh"]

OpenThread(rows, t) ==
    {i \in DOMAIN rows : rows[i].thread = t /\ rows[i].status = "open"}

ThreadPushed(rows, t) ==
    \E i \in DOMAIN rows : rows[i].thread = t /\ rows[i].push \in {"pending", "sent"}

Close(rows, S, status) ==
    [i \in DOMAIN rows |-> IF i \in S THEN [rows[i] EXCEPT !.status = status] ELSE rows[i]]

\* Mutant: the thread is closed after the row was added to it.
EmitThenClose(rows, e, open) ==
    LET more == Append(rows, Row(e, "open", DecidePush(e.severity, ThreadPushed(rows, e.thread))))
        as   == IF e.severity = "resolved" THEN "resolved" ELSE "superseded"
    IN  IF \/ e.severity = "resolved" /\ open = {}
           \/ \E i \in open : rows[i].body = e.body
        THEN rows ELSE Close(more, OpenThread(more, e.thread), as)

\* emit_sync, for the open rows of the thread it read and could lock.
Emit(rows, e, open) ==
    LET pushed == ThreadPushed(rows, e.thread)
        new(status) == Row(e, status, DecidePush(e.severity, pushed))
    IN  IF e.severity = "resolved"
        THEN IF open = {} THEN rows
             ELSE Append(Close(rows, open, "resolved"), new("resolved"))
        ELSE IF \E i \in open : rows[i].body = e.body THEN rows
             ELSE Append(Close(rows, open, "superseded"), new("open"))

\* An emit whose thread no other transaction writes meanwhile.
EmitAlone(rows, e) == Emit(rows, e, OpenThread(rows, e.thread))

\* The emits of one transaction: the ledger after the first k of them.
EmitSteps(rows, events) ==
    LET ledger[k \in 0..Len(events)] ==
            IF k = 0 THEN rows ELSE EmitAlone(ledger[k - 1], events[k])
    IN  ledger

EmitAll(rows, events) == EmitSteps(rows, events)[Len(events)]

ResolveThread(rows, t) == Close(rows, OpenThread(rows, t), "resolved")

\* Rows a delivery holds FOR UPDATE: nobody else can write them meanwhile.
Locked == UNION {disp[d].rows : d \in Dispatchers}
Lockable(S) == S \cap Locked = {}
Room == Len(notes) < MaxNotes

-----------------------------------------------------------------------------
(* Owner attention and its mirror, written by one flush. *)

\* An item is an action, a run or a staged change: its thread is the action's,
\* the run's or its own.
ActionItem(a) == <<"action", a>>
NoticeItem(r) == <<"run", r>>
ItemThread(x) == <<"attention", x>>

AttentionStates == {"approval_required", "uncertain", "interrupted", "staged_change"}
StatesOf(x) ==
    CASE x[1] = "action" -> {"approval_required", "uncertain"}
      [] x[1] = "run"    -> {"interrupted"}
      [] OTHER           -> {"staged_change"}

AttentionOf(action) == IF action = "prepared" THEN "approval_required" ELSE action

AttentionEvent(x, state, origin) ==
    Event("authority", ItemThread(x), IF state = "staged_change" THEN "info" ELSE "warning",
          state, origin)

\* An attention row is inserted, or its state changes.
RaiseAttention(x, state, origin) ==
    /\ Lockable(OpenThread(notes, ItemThread(x)))
    /\ attention' = [attention EXCEPT ![x] = state]
    /\ notes' = EmitAlone(notes, AttentionEvent(x, state, origin))

SettleAttention(x) ==
    /\ Lockable(OpenThread(notes, ItemThread(x)))
    /\ attention' = [attention EXCEPT ![x] = "resolved"]
    /\ notes' = ResolveThread(notes, ItemThread(x))

\* A settled item is not raised again; an approved effect may become uncertain.
AttentionRaised(x) ==
    /\ "chat" \in loops /\ Room
    /\ \E state \in StatesOf(x) :
          /\ attention[x] = "none" \/ (attention[x] = "approval_required" /\ state = "uncertain")
          /\ RaiseAttention(x, state, 0)
    /\ UNCHANGED <<loops, drafts, deviceVars, deliveryVars>>

\* The owner decides, acknowledges or dismisses one item.
AttentionSettled(x) ==
    /\ attention[x] \in AttentionStates
    /\ SettleAttention(x)
    /\ UNCHANGED <<loops, drafts, deviceVars, deliveryVars>>

Informational == {x \in Items : attention[x] \in {"interrupted", "staged_change"}}

\* One UPDATE resolves the rows; the flush hook does not see it.
DismissByUpdate(S) ==
    /\ S # {}
    /\ attention' = [x \in Items |-> IF x \in S THEN "dismissed" ELSE attention[x]]
    /\ UNCHANGED <<loops, notes, drafts, deviceVars, deliveryVars>>

\* dismiss_informational_notices: all notices at once.
DismissAll == DismissByUpdate(Informational)

\* A new message of the owner resolves the interruptions of its chat.
OwnerWrites == "chat" \in loops /\ DismissByUpdate(Informational \cap {NoticeItem(0)})

-----------------------------------------------------------------------------
(* The model's own notifications: notifications.emit. *)

ModelRows == {i \in DOMAIN notes : notes[i].source = "model"}

\* The budget is counted and the open rows of the thread are selected; other
\* transactions may commit before the write.
ModelEmitRead(w, e) ==
    /\ "model" \in loops
    /\ drafts[w] = {}
    /\ Cardinality(ModelRows) < ModelPerHour
    /\ Room
    /\ drafts' = [drafts EXCEPT ![w] = {[event |-> e, seen |-> OpenThread(notes, e.thread)]}]
    /\ UNCHANGED <<loops, ledgerVars, deviceVars, deliveryVars>>

\* The selected rows are locked; the ones closed while waiting no longer match,
\* and a row inserted meanwhile was not in the snapshot.
ModelEmitWrite(w) ==
    /\ Room
    /\ \E d \in drafts[w] :
          LET open == d.seen \cap OpenThread(notes, d.event.thread)
          IN  Lockable(open) /\ notes' = Emit(notes, d.event, open)
    /\ drafts' = [drafts EXCEPT ![w] = {}]
    /\ UNCHANGED <<loops, attention, deviceVars, deliveryVars>>

-----------------------------------------------------------------------------
(* The inbox. *)

\* resolve(): row i was loaded without a lock, possibly before it was superseded,
\* and rows after `last` were inserted after the thread's rows were selected.
OwnerResolves(i, last, loadedOpen) ==
    /\ LET S == {j \in OpenThread(notes, notes[i].thread) : j <= last}
           late == IF loadedOpen /\ notes[i].status = "superseded" THEN {i} ELSE {}
       IN  /\ S \cup late # {}
           /\ Lockable(S \cup late)
           /\ notes' = Close(notes, S \cup late, "resolved")
    /\ UNCHANGED <<loops, attention, drafts, deviceVars, deliveryVars>>

-----------------------------------------------------------------------------
(* Devices. *)

Subscribe(d) ==
    /\ churn < MaxChurn
    /\ subs[d] # "enabled"
    /\ subs' = [subs EXCEPT ![d] = "enabled"]
    /\ churn' = churn + 1
    /\ UNCHANGED <<loops, ledgerVars, drafts, deliveryVars>>

\* A delivery that loaded the row can no longer update it.
Unsubscribe(d) ==
    /\ churn < MaxChurn
    /\ subs[d] # "absent"
    /\ subs' = [subs EXCEPT ![d] = "absent"]
    /\ disp' = [x \in Dispatchers |->
                  IF d \in disp[x].subs THEN [disp[x] EXCEPT !.torn = TRUE] ELSE disp[x]]
    /\ churn' = churn + 1
    /\ UNCHANGED <<loops, ledgerVars, drafts, testing, shown, tries, disturbed, lost>>

-----------------------------------------------------------------------------
(* deliver_pending: one transaction from the selection to the commit. *)

Idle == [rows |-> {}, subs |-> {}, left |-> {}, ok |-> {}, gone |-> {}, torn |-> FALSE]
Enabled == {d \in Devices : subs[d] = "enabled"}
Pending == {i \in DOMAIN notes : notes[i].push = "pending"}

\* Mutant: the rows are selected without SKIP LOCKED.
BatchUnlocked ==
    {i \in Pending : Cardinality({j \in Pending : j < i}) < BatchLimit}

\* Mutant: the newest rows are taken first.
BatchNewest ==
    {i \in Pending \ Locked : Cardinality({j \in Pending \ Locked : j > i}) < BatchLimit}

\* The oldest BatchLimit pending rows that nobody holds (SKIP LOCKED).
Batch ==
    {i \in Pending \ Locked : Cardinality({j \in Pending \ Locked : j < i}) < BatchLimit}

SetPush(S, status) ==
    [i \in DOMAIN notes |-> IF i \in S THEN [notes[i] EXCEPT !.push = status] ELSE notes[i]]

MayDeliver(x) == disp[x] = Idle /\ (x = "test" => testing)

\* Without a key or a device the batch is skipped.
DeliverSkip(x) ==
    /\ MayDeliver(x)
    /\ Batch # {}
    /\ "no key" \in loops \/ ("push" \in loops /\ Enabled = {})
    /\ notes' = SetPush(Batch, "skipped")
    /\ testing' = (testing /\ x # "test")
    /\ UNCHANGED <<loops, attention, drafts, deviceVars, disp, shown, tries, disturbed, lost>>

DeliverSelect(x) ==
    /\ MayDeliver(x)
    /\ Batch # {}
    /\ "push" \in loops /\ Enabled # {}
    /\ disp' = [disp EXCEPT ![x] = [Idle EXCEPT !.rows = Batch, !.subs = Enabled, !.left = Batch]]
    /\ testing' = (testing /\ x # "test")
    /\ disturbed' = (disturbed \/ \E y \in Dispatchers : disp[y] # Idle)
    /\ UNCHANGED <<loops, ledgerVars, drafts, deviceVars, shown, tries, lost>>

\* One row to every loaded device; each answers on its own.
DeliverSend(x) ==
    /\ disp[x].left # {}
    /\ LET i == Min(disp[x].left)
       IN  \E ok \in SUBSET disp[x].subs, gone \in SUBSET disp[x].subs :
             /\ ok \cap gone = {}
             /\ disp' = [disp EXCEPT ![x].left = @ \ {i},
                                     ![x].ok = IF ok = {} THEN @ ELSE @ \cup {i},
                                     ![x].gone = @ \cup gone]
             /\ shown' = [d \in Devices |->
                            IF d \in ok THEN Append(shown[d], i) ELSE shown[d]]
             /\ tries' = [tries EXCEPT ![i] = Min({@ + 1, 2})]
    /\ UNCHANGED <<loops, ledgerVars, drafts, deviceVars, testing, disturbed, lost>>

\* Mutant: a row that reached no device stays in the outbox.
OutcomeRetried(x, i) == IF i \in disp[x].ok THEN "sent" ELSE "pending"

\* One device is enough; there is no second attempt.
Outcome(x, i) == IF i \in disp[x].ok THEN "sent" ELSE "failed"

\* The results of the rows and the devices are written together; an update of a
\* deleted subscription fails and takes the whole transaction with it.
DeliverCommit(x) ==
    /\ disp[x].rows # {} /\ disp[x].left = {} /\ ~disp[x].torn
    /\ notes' = [i \in DOMAIN notes |->
                   IF i \in disp[x].rows
                   THEN [notes[i] EXCEPT !.push = Outcome(x, i)]
                   ELSE notes[i]]
    /\ subs' = [d \in Devices |-> IF d \in disp[x].gone THEN "disabled" ELSE subs[d]]
    /\ disp' = [disp EXCEPT ![x] = Idle]
    /\ UNCHANGED <<loops, attention, drafts, churn, testing, shown, tries, disturbed, lost>>

Rollback(x) ==
    /\ disp' = [disp EXCEPT ![x] = Idle]
    /\ tries' = [i \in DOMAIN tries |-> IF i \in disp[x].rows THEN 0 ELSE tries[i]]
    /\ disturbed' = TRUE

DeliverTorn(x) ==
    /\ disp[x].rows # {} /\ disp[x].left = {} /\ disp[x].torn
    /\ Rollback(x)
    /\ UNCHANGED <<loops, ledgerVars, drafts, deviceVars, testing, shown, lost>>

\* The process dies before the commit.
DeliverLost(x) ==
    /\ lost < MaxLost
    /\ disp[x].rows # {}
    /\ Rollback(x)
    /\ lost' = lost + 1
    /\ UNCHANGED <<loops, ledgerVars, drafts, deviceVars, testing, shown>>

\* POST /api/push/test: emit, commit, then deliver from the request.
PushTest ==
    /\ Room /\ ~testing /\ disp["test"] = Idle
    /\ LET e == Event("push", <<"push", 0>>, "warning", "test", 0)
       IN  Lockable(OpenThread(notes, e.thread)) /\ notes' = EmitAlone(notes, e)
    /\ testing' = TRUE
    /\ UNCHANGED <<loops, attention, drafts, deviceVars, disp, shown, tries, disturbed, lost>>

\* Nothing is left for the request to deliver.
TestDone ==
    /\ testing /\ disp["test"] = Idle /\ Batch = {}
    /\ testing' = FALSE
    /\ UNCHANGED <<loops, ledgerVars, drafts, deviceVars, disp, shown, tries, disturbed, lost>>

-----------------------------------------------------------------------------
(* What the ledger and the outbox promise. *)

NewestOf(t) == LET S == {i \in DOMAIN notes : notes[i].thread = t}
               IN  IF S = {} THEN 0 ELSE Max(S)

\* The ledger tells the present state.  The newest row of a thread is never hidden
\* as superseded, whatever emits and resolutions interleave on it.  When an item
\* asks for the owner, the newest row of its thread tells the state it is in; when
\* the item is settled, none of its rows is open, except after a dismissal by UPDATE.
LedgerIsCurrent ==
    /\ \A t \in {notes[i].thread : i \in DOMAIN notes} : notes[NewestOf(t)].status # "superseded"
    /\ \A x \in Items :
          LET n == NewestOf(ItemThread(x))
          IN  /\ attention[x] \in AttentionStates => n # 0 /\ notes[n].body = attention[x]
              /\ attention[x] = "resolved" => OpenThread(notes, ItemThread(x)) = {}

\* A row is sent at most once per delivery that survives: two deliveries never
\* take the same row, and a row with a recorded result is not sent again.
OneSendPerDelivery ==
    \A i \in DOMAIN tries : tries[i] <= 1

\* As long as no delivery was lost and no two overlapped, a device shows, for
\* every tag, the newest of the rows that reached it.
ScreenIsLatest ==
    ~disturbed => \A d \in Devices : \A k, l \in DOMAIN shown[d] :
        k < l /\ notes[shown[d][k]].thread = notes[shown[d][l]].thread => shown[d][k] < shown[d][l]

\* The dispatcher loop and the test request share the outbox without sending a row
\* twice, and an undisturbed outbox leaves the latest word on the screen.
DeliveryIsOrderly == OneSendPerDelivery /\ ScreenIsLatest

\* The outbox drains: the dispatcher comes back after a lost delivery and after a
\* device that left in the middle of one, until every row was sent, failed or
\* skipped.
OutboxDrains ==
    []<>(Pending = {} \/ loops \cap {"push", "no key"} = {})
=============================================================================
