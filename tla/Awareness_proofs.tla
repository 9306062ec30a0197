-------------------------- MODULE Awareness_proofs --------------------------
(***************************************************************************)
(* Proofs about the ledger, the outbox, the scheduler and the monitors,    *)
(* for any number of rows, items, writers, devices, tasks, units and lines.*)
(* The ledger is shared, so most steps are seen through what they may do   *)
(* to it: rows are added on the threads of the actor, none changes its     *)
(* content and none is opened again (Extends).                             *)
(***************************************************************************)
EXTENDS Awareness, NumberLemmas, FiniteSetTheorems, TLAPS

Sources == {"authority", "model", "push", "units", "rdc"}
ModelThreads == {<<"model", t>> : t \in Topics}
ItemThreads == {ItemThread(x) : x \in Items}
UnitThreads == {UnitThread(u) : u \in Units}
RestartThreads == {<<"unit restart", u>> : u \in Units}
RdcThreads == {AuthThread, RestartThread, ProcessThread}
PushThread == <<"push", 0>>
Threads == ModelThreads \cup ItemThreads \cup UnitThreads \cup RestartThreads \cup RdcThreads
           \cup {PushThread}
Texts == Bodies \cup AttentionStates \cup Healths \cup Nat
         \cup {"test", "online", "restarted", "missing", "running"}

EventRow == [source : Sources, thread : Threads, severity : Severities, body : Texts,
             origin : Nat]
NoteRow == [source : Sources, thread : Threads, severity : Severities, body : Texts,
            origin : Nat, status : Statuses, push : PushStatuses,
            wake : {"fresh", "old", "claimed"}]
Ledgers == Seq(NoteRow)

-----------------------------------------------------------------------------
(* Emits.                                                                  *)

\* A row that keeps everything but its status and what the outbox and the
\* scheduler noted.
SameRow(r, s) ==
    /\ r.source = s.source /\ r.thread = s.thread /\ r.severity = s.severity
    /\ r.body = s.body /\ r.origin = s.origin
    /\ r.status = "open" => s.status = "open"

\* Rows are only added, on threads of T.
Extends(old, new, T) ==
    /\ new \in Ledgers /\ Len(old) <= Len(new)
    /\ \A i \in DOMAIN old : i \in DOMAIN new /\ SameRow(new[i], old[i])
    /\ \A i \in DOMAIN new : i \notin DOMAIN old => new[i].thread \in T

\* Neither the outbox nor the scheduler noted anything.
Unnoted(old, new) ==
    /\ \A i \in DOMAIN old : new[i].push = old[i].push /\ new[i].wake = old[i].wake
    /\ \A i \in DOMAIN new : i \notin DOMAIN old =>
          new[i].push \in {"none", "pending"} /\ new[i].wake = "fresh"

SamePush(old, new) == \A i \in DOMAIN old : new[i].push = old[i].push

\* A row is superseded by a later one, and only on the model's threads, where two
\* writers may overlap, is there a later row than an open one.
Orderly(rows) ==
    /\ \A i \in DOMAIN rows : rows[i].status = "superseded" =>
          \E j \in DOMAIN rows : i < j /\ rows[j].thread = rows[i].thread
    /\ \A i, j \in DOMAIN rows :
          rows[i].status = "open" /\ i < j /\ rows[j].thread = rows[i].thread =>
             rows[i].thread \in ModelThreads

\* The newest row of thread t says b.
Tells(rows, t, b) ==
    \E i \in DOMAIN rows : /\ rows[i].thread = t /\ rows[i].body = b
                           /\ \A j \in DOMAIN rows : i < j => rows[j].thread # t

\* Rows whose status was set, and nothing else.
Closed(rows, S, status, new) ==
    /\ new \in Ledgers /\ Len(new) = Len(rows) /\ DOMAIN new = DOMAIN rows
    /\ \A i \in DOMAIN rows :
          /\ SameRow(new[i], rows[i]) /\ new[i].push = rows[i].push /\ new[i].wake = rows[i].wake
          /\ new[i].status = IF i \in S THEN status ELSE rows[i].status

LEMMA CloseFacts ==
    ASSUME NEW rows \in Ledgers, NEW S, NEW status \in {"superseded", "resolved"}
    PROVE  Closed(rows, S, status, Close(rows, S, status))
<1>1. /\ Len(rows) \in Nat /\ DOMAIN rows = 1..Len(rows) /\ \A i \in 1..Len(rows) : rows[i] \in NoteRow
  BY SeqProperties DEF Ledgers
<1> DEFINE c == Close(rows, S, status)
<1>2. /\ c = [i \in 1..Len(rows) |-> IF i \in S THEN [rows[i] EXCEPT !.status = status] ELSE rows[i]]
  BY <1>1 DEF Close
<1> HIDE DEF c
<1>3. ASSUME NEW i \in 1..Len(rows)
      PROVE  /\ c[i] \in NoteRow /\ SameRow(c[i], rows[i])
             /\ c[i].push = rows[i].push /\ c[i].wake = rows[i].wake
             /\ c[i].status = IF i \in S THEN status ELSE rows[i].status
  <2>1. rows[i] \in NoteRow
    BY <1>1
  <2>2. CASE i \in S
    <3>1. c[i] = [rows[i] EXCEPT !.status = status]
      BY <1>2, <2>2
    <3> QED
      BY <2>1, <2>2, <3>1 DEF NoteRow, SameRow, Statuses
  <2>3. CASE i \notin S
    BY <1>2, <2>1, <2>3 DEF SameRow
  <2> QED
    BY <2>2, <2>3
<1>4. c \in [1..Len(rows) -> NoteRow]
  BY <1>2, <1>3
<1>5. c \in Ledgers /\ Len(c) = Len(rows)
  BY <1>1, <1>4, FunctionIsSeq DEF Ledgers
<1> QED
  BY <1>1, <1>3, <1>4, <1>5 DEF c, Closed

\* What an emit adds.
LEMMA RowFacts ==
    ASSUME NEW e \in EventRow, NEW status \in Statuses, NEW before \in BOOLEAN
    PROVE  LET r == Row(e, status, DecidePush(e.severity, before))
           IN  /\ r \in NoteRow /\ r.thread = e.thread /\ r.body = e.body /\ r.source = e.source
               /\ r.severity = e.severity /\ r.origin = e.origin
               /\ r.status = status /\ r.push \in {"none", "pending"} /\ r.wake = "fresh"
<1>1. DecidePush(e.severity, before) \in {"none", "pending"}
  BY DEF DecidePush
<1> QED
  BY <1>1 DEF Row, NoteRow, EventRow, PushStatuses

\* The two outcomes of an emit on the rows `open` of its thread.
Ignored(rows, e, open, new) ==
    /\ new = rows
    /\ IF e.severity = "resolved" THEN open = {} ELSE \E i \in open : rows[i].body = e.body

Added(rows, e, open, new) ==
    /\ Len(new) = Len(rows) + 1
    /\ new[Len(new)].thread = e.thread /\ new[Len(new)].body = e.body
    /\ new[Len(new)].origin = e.origin
    /\ new[Len(new)].status = IF e.severity = "resolved" THEN "resolved" ELSE "open"
    /\ \A i \in DOMAIN rows :
          new[i].status = IF i \notin open THEN rows[i].status
                          ELSE IF e.severity = "resolved" THEN "resolved" ELSE "superseded"

LEMMA EmitFacts ==
    ASSUME NEW rows \in Ledgers, NEW e \in EventRow, NEW open \in SUBSET DOMAIN rows
    PROVE  /\ Extends(rows, Emit(rows, e, open), {e.thread})
           /\ Unnoted(rows, Emit(rows, e, open))
           /\ \/ Ignored(rows, e, open, Emit(rows, e, open))
              \/ Added(rows, e, open, Emit(rows, e, open))
<1>0. Len(rows) \in Nat /\ DOMAIN rows = 1..Len(rows)
  BY SeqProperties DEF Ledgers
<1>1. CASE IF e.severity = "resolved" THEN open = {} ELSE \E i \in open : rows[i].body = e.body
  <2>1. Emit(rows, e, open) = rows
    BY <1>1 DEF Emit
  <2> QED
    BY <1>0, <1>1, <2>1 DEF Extends, Unnoted, Ignored, SameRow
<1>2. CASE ~(IF e.severity = "resolved" THEN open = {} ELSE \E i \in open : rows[i].body = e.body)
  <2> DEFINE as == IF e.severity = "resolved" THEN "resolved" ELSE "superseded"
             is == IF e.severity = "resolved" THEN "resolved" ELSE "open"
             row == Row(e, is, DecidePush(e.severity, ThreadPushed(rows, e.thread)))
             kept == Close(rows, open, as)
             new == Append(kept, row)
  <2>1. Emit(rows, e, open) = new
    BY <1>2, Zenon DEF Emit
  <2>2. /\ row \in NoteRow /\ row.thread = e.thread /\ row.body = e.body
        /\ row.origin = e.origin /\ row.status = is
        /\ row.push \in {"none", "pending"} /\ row.wake = "fresh"
    <3>1. is \in Statuses
      BY DEF Statuses
    <3>2. ThreadPushed(rows, e.thread) \in BOOLEAN
      BY DEF ThreadPushed
    <3> HIDE DEF is
    <3> QED
      BY <3>1, <3>2, RowFacts
  <2>3. Closed(rows, open, as, kept)
    <3>1. as \in {"superseded", "resolved"}
      OBVIOUS
    <3> HIDE DEF as
    <3> QED
      BY <3>1, CloseFacts
  <2> HIDE DEF row, kept, as, is
  <2>4. /\ new \in Ledgers /\ Len(new) = Len(rows) + 1 /\ DOMAIN new = 1..(Len(rows) + 1)
        /\ \A i \in DOMAIN rows : new[i] = kept[i]
        /\ new[Len(rows) + 1] = row
    <3>1. kept \in Seq(NoteRow) /\ Len(kept) = Len(rows)
      BY <2>3 DEF Ledgers, Closed
    <3> QED
      BY <1>0, <2>2, <2>3, <3>1, SeqAppend, AppendProperties, SeqProperties DEF Ledgers
  <2> HIDE DEF new
  <2>5. /\ \A i \in DOMAIN rows : i \in DOMAIN new /\ SameRow(new[i], rows[i])
        /\ \A i \in DOMAIN new : i \notin DOMAIN rows => i = Len(rows) + 1
    <3>1. \A i \in DOMAIN rows : SameRow(new[i], rows[i])
      BY <2>3, <2>4, Zenon DEF Closed
    <3> QED
      BY <1>0, <2>4, <3>1
  <2>6. Extends(rows, new, {e.thread})
    BY <1>0, <2>2, <2>4, <2>5 DEF Extends
  <2>7. Unnoted(rows, new)
    BY <2>2, <2>3, <2>4, <2>5 DEF Unnoted, Closed
  <2>8. Added(rows, e, open, new)
    BY <2>2, <2>3, <2>4 DEF Added, Closed, as, is
  <2> QED
    BY <2>1, <2>6, <2>7, <2>8
<1> QED
  BY <1>1, <1>2

LEMMA ExtendsTrans ==
    ASSUME NEW a \in Ledgers, NEW b, NEW c, NEW T, Extends(a, b, T), Extends(b, c, T)
    PROVE  Extends(a, c, T)
<1>1. /\ Len(a) \in Nat /\ Len(b) \in Nat /\ Len(c) \in Nat
      /\ DOMAIN a = 1..Len(a) /\ DOMAIN b = 1..Len(b) /\ DOMAIN c = 1..Len(c)
  BY SeqProperties DEF Extends, Ledgers
<1>2. \A i \in DOMAIN a : i \in DOMAIN c /\ SameRow(c[i], a[i])
  BY DEF Extends, SameRow
<1>3. \A i \in DOMAIN c : i \notin DOMAIN a => c[i].thread \in T
  BY DEF Extends, SameRow
<1> QED
  BY <1>1, <1>2, <1>3 DEF Extends

LEMMA UnnotedTrans ==
    ASSUME NEW a, NEW b, NEW c, NEW T, Extends(a, b, T), Extends(b, c, T),
           Unnoted(a, b), Unnoted(b, c)
    PROVE  Unnoted(a, c)
  BY DEF Extends, Unnoted

LEMMA ExtendsSame ==
    ASSUME NEW a \in Ledgers, NEW T
    PROVE  Extends(a, a, T) /\ Unnoted(a, a)
<1>1. Len(a) \in Nat
  BY SeqProperties DEF Ledgers
<1> QED
  BY <1>1 DEF Extends, Unnoted, SameRow

LEMMA ExtendsMore ==
    ASSUME NEW a, NEW b, NEW T, NEW U, T \subseteq U, Extends(a, b, T)
    PROVE  Extends(a, b, U)
  BY DEF Extends

LEMMA ClosedExtends ==
    ASSUME NEW a \in Ledgers, NEW b, NEW S, NEW status, Closed(a, S, status, b), NEW T
    PROVE  Extends(a, b, T) /\ Unnoted(a, b)
<1>1. Len(a) \in Nat
  BY SeqProperties DEF Ledgers
<1> QED
  BY <1>1 DEF Extends, Unnoted, Closed

\* A thread nobody wrote on.
LEMMA ExtendsTells ==
    ASSUME NEW a, NEW b, NEW T, Extends(a, b, T), NEW t, t \notin T, NEW text, Tells(a, t, text)
    PROVE  Tells(b, t, text)
<1>1. PICK i \in DOMAIN a : /\ a[i].thread = t /\ a[i].body = text
                            /\ \A j \in DOMAIN a : i < j => a[j].thread # t
  BY DEF Tells
<1>2. i \in DOMAIN b /\ b[i].thread = t /\ b[i].body = text
  BY <1>1 DEF Extends, SameRow
<1>3. \A j \in DOMAIN b : i < j => b[j].thread # t
  BY <1>1 DEF Extends, SameRow
<1> QED
  BY <1>2, <1>3 DEF Tells

LEMMA ExtendsOpen ==
    ASSUME NEW a, NEW b, NEW T, Extends(a, b, T), NEW t, t \notin T
    PROVE  OpenThread(b, t) \subseteq OpenThread(a, t)
  BY DEF Extends, SameRow, OpenThread

\* An emit keeps the ledger in order, a resolution too.
LEMMA OrderlyEmit ==
    ASSUME NEW rows \in Ledgers, NEW e \in EventRow, NEW open \in SUBSET OpenThread(rows, e.thread),
           Orderly(rows), e.thread \in ModelThreads \/ open = OpenThread(rows, e.thread),
           NEW new, Extends(rows, new, {e.thread}), Added(rows, e, open, new)
    PROVE  Orderly(new)
<1>0. /\ Len(rows) \in Nat /\ DOMAIN rows = 1..Len(rows)
      /\ DOMAIN new = 1..(Len(rows) + 1)
  BY SeqProperties DEF Extends, Ledgers, Added
<1> DEFINE n == Len(rows) + 1
<1>1. /\ n \in DOMAIN new /\ new[n].thread = e.thread /\ new[n].status # "superseded"
      /\ Len(new) = n
  BY <1>0 DEF Added
<1>2. \A i \in DOMAIN rows :
         /\ i \in DOMAIN new /\ i < n /\ new[i].thread = rows[i].thread
         /\ new[i].status = "open" => rows[i].status = "open" /\ i \notin open
         /\ new[i].status = "superseded" => rows[i].status = "superseded" \/ i \in open
  BY <1>0 DEF Extends, SameRow, Added
<1>3. \A i \in DOMAIN new : i \in DOMAIN rows \/ i = n
  BY <1>0
<1> HIDE DEF n
<1>4. ASSUME NEW i \in DOMAIN new, new[i].status = "superseded"
      PROVE  \E j \in DOMAIN new : i < j /\ new[j].thread = new[i].thread
  <2>1. i \in DOMAIN rows
    BY <1>1, <1>3, <1>4
  <2>2. CASE i \in open
    BY <1>1, <1>2, <2>1, <2>2 DEF OpenThread
  <2>3. CASE rows[i].status = "superseded"
    BY <1>2, <2>1, <2>3 DEF Orderly
  <2> QED
    BY <1>2, <1>4, <2>1, <2>2, <2>3
<1>5. ASSUME NEW i \in DOMAIN new, NEW j \in DOMAIN new,
             new[i].status = "open", i < j, new[j].thread = new[i].thread
      PROVE  new[i].thread \in ModelThreads
  <2>1. i \in DOMAIN rows
    BY <1>0, <1>3, <1>5 DEF n
  <2>2. CASE j \in DOMAIN rows
    BY <1>2, <1>5, <2>1, <2>2 DEF Orderly
  <2>3. CASE j = n
    BY <1>1, <1>2, <1>5, <2>1, <2>3 DEF OpenThread
  <2> QED
    BY <1>3, <2>2, <2>3
<1> QED
  BY <1>4, <1>5 DEF Orderly

LEMMA OrderlyClosed ==
    ASSUME NEW rows, NEW S, NEW new, Orderly(rows), Closed(rows, S, "resolved", new)
    PROVE  Orderly(new)
<1>1. DOMAIN new = DOMAIN rows
  BY DEF Closed
<1>2. \A i \in DOMAIN rows :
         /\ new[i].thread = rows[i].thread
         /\ new[i].status = "open" => rows[i].status = "open"
         /\ new[i].status = "superseded" => rows[i].status = "superseded"
  BY DEF Closed, SameRow
<1> QED
  BY <1>1, <1>2 DEF Orderly

LEMMA OrderlySame ==
    ASSUME NEW rows, NEW new, Orderly(rows), DOMAIN new = DOMAIN rows,
           \A i \in DOMAIN rows :
              new[i].thread = rows[i].thread /\ new[i].status = rows[i].status
    PROVE  Orderly(new)
  BY DEF Orderly

\* After an emit its thread tells it, and after a recovery nothing on it is open.
LEMMA EmitTells ==
    ASSUME NEW rows \in Ledgers, NEW e \in EventRow, Orderly(rows), e.thread \notin ModelThreads,
           NEW new, Extends(rows, new, {e.thread}),
           LET open == OpenThread(rows, e.thread)
           IN  Ignored(rows, e, open, new) \/ Added(rows, e, open, new)
    PROVE  /\ e.severity # "resolved" => Tells(new, e.thread, e.body)
           /\ e.severity = "resolved" => OpenThread(new, e.thread) = {}
<1>0. /\ Len(rows) \in Nat /\ DOMAIN rows = 1..Len(rows)
      /\ Len(new) \in Nat /\ DOMAIN new = 1..Len(new)
  BY SeqProperties DEF Extends, Ledgers
<1> DEFINE open == OpenThread(rows, e.thread)
<1>1. CASE Ignored(rows, e, open, new)
  <2>1. CASE e.severity = "resolved"
    BY <1>1, <2>1 DEF Ignored
  <2>2. CASE e.severity # "resolved"
    <3>1. PICK i \in open : rows[i].body = e.body
      BY <1>1, <2>2 DEF Ignored
    <3>2. i \in DOMAIN rows /\ rows[i].thread = e.thread /\ rows[i].status = "open"
      BY DEF OpenThread
    <3>3. \A j \in DOMAIN rows : i < j => rows[j].thread # e.thread
      BY <3>2 DEF Orderly
    <3> QED
      BY <1>1, <2>2, <3>1, <3>2, <3>3 DEF Tells, Ignored
  <2> QED
    BY <2>1, <2>2
<1>2. CASE Added(rows, e, open, new)
  <2>1. \A j \in DOMAIN new : j <= Len(new) /\ (j \in DOMAIN rows \/ j = Len(new))
    BY <1>0, <1>2 DEF Added
  <2>2. Len(new) \in DOMAIN new /\ \A j \in DOMAIN new : ~(Len(new) < j)
    BY <1>0, <1>2 DEF Added
  <2>3. Tells(new, e.thread, e.body)
    BY <1>2, <2>2 DEF Added, Tells
  <2>4. ASSUME e.severity = "resolved", NEW i \in OpenThread(new, e.thread) PROVE FALSE
    <3>1. i \in DOMAIN new /\ new[i].thread = e.thread /\ new[i].status = "open"
      BY <2>4 DEF OpenThread
    <3>2. i \in DOMAIN rows
      BY <1>2, <2>1, <2>4, <3>1 DEF Added
    <3>3. rows[i].thread = e.thread /\ rows[i].status = "open"
      BY <3>1, <3>2 DEF Extends, SameRow
    <3>4. i \in open
      BY <3>2, <3>3 DEF OpenThread
    <3> QED
      BY <1>2, <2>4, <3>1, <3>2, <3>4 DEF Added
  <2> QED
    BY <2>3, <2>4
<1> QED
  BY <1>1, <1>2

-----------------------------------------------------------------------------
(* Several emits in one transaction.                                       *)

LEMMA EmitAloneFacts ==
    ASSUME NEW rows \in Ledgers, NEW e \in EventRow
    PROVE  LET open == OpenThread(rows, e.thread)
               new  == EmitAlone(rows, e)
           IN  /\ Extends(rows, new, {e.thread}) /\ Unnoted(rows, new) /\ new \in Ledgers
               /\ Len(new) <= Len(rows) + 1
               /\ Ignored(rows, e, open, new) \/ Added(rows, e, open, new)
<1> DEFINE open == OpenThread(rows, e.thread)
<1>1. open \in SUBSET DOMAIN rows
  BY DEF OpenThread
<1>2. /\ Extends(rows, Emit(rows, e, open), {e.thread}) /\ Unnoted(rows, Emit(rows, e, open))
      /\ \/ Ignored(rows, e, open, Emit(rows, e, open)) \/ Added(rows, e, open, Emit(rows, e, open))
  <2> HIDE DEF open
  <2> QED
    BY <1>1, EmitFacts
<1>3. Len(rows) \in Nat
  BY SeqProperties DEF Ledgers
<1>4. EmitAlone(rows, e) = Emit(rows, e, open)
  BY DEF EmitAlone
<1>5. Len(EmitAlone(rows, e)) <= Len(rows) + 1 /\ EmitAlone(rows, e) \in Ledgers
  BY <1>2, <1>3, <1>4 DEF Extends, Ignored, Added
<1> HIDE DEF open
<1> QED
  BY <1>2, <1>4, <1>5 DEF open

LEMMA EmitStepsDef ==
    ASSUME NEW rows \in Ledgers, NEW events \in Seq(EventRow)
    PROVE  \E ledger : /\ ledger = EmitSteps(rows, events) /\ ledger[0] = rows
                       /\ \A k \in 1..Len(events) : ledger[k] = EmitAlone(ledger[k - 1], events[k])
<1> DEFINE n == Len(events)
           step == [p \in Ledgers \X (1..n) |-> EmitAlone(p[1], events[p[2]])]
           Solves(f) == f = [k \in 0..n |-> IF k = 0 THEN rows ELSE EmitAlone(f[k - 1], events[k])]
<1>1. n \in Nat /\ \A k \in 1..n : events[k] \in EventRow
  BY SeqProperties
<1>2. /\ step \in [Ledgers \X (1..n) -> Ledgers]
      /\ \A r \in Ledgers, k \in 1..n : step[<<r, k>>] = EmitAlone(r, events[k])
  BY <1>1, EmitAloneFacts
<1> HIDE DEF step
<1>3. PICK f : Iteration(f, n, Ledgers, rows, step)
  <2>1. n \in Nat /\ rows \in Ledgers /\ step \in [Ledgers \X (1..n) -> Ledgers]
    BY <1>1, <1>2
  <2> HIDE DEF n
  <2> QED
    BY <2>1, Iterates
<1>4. Solves(f)
  <2>1. ASSUME NEW k \in 0..n PROVE f[k] = IF k = 0 THEN rows ELSE EmitAlone(f[k - 1], events[k])
    <3>1. CASE k = 0
      BY <1>3, <3>1 DEF Iteration
    <3>2. CASE k # 0
      <4>1. k \in 1..n /\ k - 1 \in 0..n
        BY <1>1, <3>2
      <4> QED
        BY <1>2, <1>3, <3>2, <4>1 DEF Iteration
    <3> QED
      BY <3>1, <3>2
  <2> HIDE DEF n
  <2> QED
    BY <1>3, <2>1 DEF Iteration
<1>5. EmitSteps(rows, events) = CHOOSE g : Solves(g)
  BY DEF EmitSteps
<1> HIDE DEF Solves
<1>6. Solves(EmitSteps(rows, events))
  BY <1>4, <1>5
<1>7. PICK ledger : ledger = EmitSteps(rows, events)
  OBVIOUS
<1>8. ledger = [k \in 0..n |-> IF k = 0 THEN rows ELSE EmitAlone(ledger[k - 1], events[k])]
  BY <1>6, <1>7 DEF Solves
<1>9. ledger[0] = rows /\ \A k \in 1..n : ledger[k] = EmitAlone(ledger[k - 1], events[k])
  BY <1>1, <1>8
<1> QED
  BY <1>7, <1>9

ThreadsOf(events) == {events[k].thread : k \in 1..Len(events)}

Says(rows, e) == \E i \in DOMAIN rows : rows[i].thread = e.thread /\ rows[i].body = e.body

\* The last of the events up to k on its thread, and a recovery.
Recovers(events, j, k) ==
    /\ events[j].severity = "resolved"
    /\ \A l \in 1..k : j < l => events[l].thread # events[j].thread

\* new is the ledger after k of the events.
EmitsOK(rows, new, events, k) ==
    /\ Extends(rows, new, ThreadsOf(events)) /\ Unnoted(rows, new) /\ Orderly(new)
    /\ Len(new) <= Len(rows) + k /\ \A i \in DOMAIN new : i \in DOMAIN rows \/ new[i].origin = 0
    /\ \A j \in 1..k : events[j].severity # "resolved" => Says(new, events[j])
    /\ \A j \in 1..k : Recovers(events, j, k) => OpenThread(new, events[j].thread) = {}

LEMMA EmitsStart ==
    ASSUME NEW rows \in Ledgers, Orderly(rows), NEW events
    PROVE  EmitsOK(rows, rows, events, 0)
<1>1. Len(rows) \in Nat
  BY SeqProperties DEF Ledgers
<1> QED
  BY <1>1, ExtendsSame DEF EmitsOK

LEMMA EmitsStep ==
    ASSUME NEW rows \in Ledgers, NEW events \in Seq(EventRow), NEW k \in 1..Len(events),
           ThreadsOf(events) \cap ModelThreads = {}, events[k].origin = 0,
           NEW old, EmitsOK(rows, old, events, k - 1), NEW new, new = EmitAlone(old, events[k])
    PROVE  EmitsOK(rows, new, events, k)
<1> DEFINE e == events[k]
           open == OpenThread(old, e.thread)
           T == ThreadsOf(events)
<1>1. e \in EventRow /\ Len(events) \in Nat
  BY SeqProperties
<1>2. e.thread \in T /\ e.thread \notin ModelThreads /\ {e.thread} \subseteq T
  BY DEF ThreadsOf
<1>3. old \in Ledgers /\ Orderly(old) /\ Extends(rows, old, T) /\ Unnoted(rows, old)
  BY DEF EmitsOK, Extends
<1> HIDE DEF T, e
<1>4. /\ Extends(old, new, {e.thread}) /\ Unnoted(old, new) /\ new \in Ledgers
      /\ Len(new) <= Len(old) + 1
      /\ Ignored(old, e, open, new) \/ Added(old, e, open, new)
  BY <1>1, <1>3, EmitAloneFacts DEF e
<1>5. Extends(old, new, T)
  BY <1>2, <1>4, ExtendsMore
<1>6. Extends(rows, new, T) /\ Unnoted(rows, new)
  BY <1>3, <1>4, <1>5, ExtendsTrans, UnnotedTrans
<1>7. Orderly(new)
  <2>1. CASE Ignored(old, e, open, new)
    BY <1>3, <2>1 DEF Ignored
  <2>2. CASE Added(old, e, open, new)
    BY <1>1, <1>3, <1>4, <2>2, OrderlyEmit
  <2> QED
    BY <1>4, <2>1, <2>2
<1>8. Len(new) <= Len(rows) + k
  <2>1. Len(old) <= Len(rows) + (k - 1) /\ Len(old) \in Nat /\ Len(rows) \in Nat /\ Len(new) \in Nat
    BY <1>3, <1>4, SeqProperties DEF EmitsOK, Ledgers
  <2> QED
    BY <1>4, <2>1
<1>9. /\ e.severity # "resolved" => Tells(new, e.thread, e.body)
      /\ e.severity = "resolved" => OpenThread(new, e.thread) = {}
  BY <1>1, <1>2, <1>3, <1>4, EmitTells
<1>10. ASSUME NEW j \in 1..k, events[j].severity # "resolved" PROVE Says(new, events[j])
  <2>1. CASE j = k
    BY <1>9, <1>10, <2>1 DEF Tells, Says, e
  <2>2. CASE j # k
    <3>1. j \in 1..(k - 1)
      BY <1>1, <2>2
    <3>2. Says(old, events[j])
      BY <1>10, <3>1 DEF EmitsOK
    <3> QED
      BY <1>4, <3>2 DEF Says, Extends, SameRow
  <2> QED
    BY <2>1, <2>2
<1>11. ASSUME NEW j \in 1..k, Recovers(events, j, k)
       PROVE  OpenThread(new, events[j].thread) = {}
  <2>1. CASE j = k
    BY <1>9, <1>11, <2>1 DEF Recovers, e
  <2>2. CASE j # k
    <3>1. j \in 1..(k - 1) /\ j < k /\ k \in 1..k /\ \A l \in 1..(k - 1) : l \in 1..k
      BY <1>1, <2>2
    <3>2. Recovers(events, j, k - 1) /\ events[j].thread # e.thread
      BY <1>11, <3>1 DEF Recovers, e
    <3>3. OpenThread(old, events[j].thread) = {}
      BY <3>1, <3>2 DEF EmitsOK
    <3> QED
      BY <1>4, <3>2, <3>3, ExtendsOpen
  <2> QED
    BY <2>1, <2>2
<1>12. \A i \in DOMAIN new : i \in DOMAIN rows \/ new[i].origin = 0
  <2>1. \A i \in DOMAIN old : i \in DOMAIN rows \/ old[i].origin = 0
    BY DEF EmitsOK
  <2>2. \A i \in DOMAIN old : i \in DOMAIN rows \/ new[i].origin = 0
    BY <1>4, <2>1 DEF Extends, SameRow
  <2>3. CASE Ignored(old, e, open, new)
    BY <2>1, <2>3 DEF Ignored
  <2>4. CASE Added(old, e, open, new)
    <3>1. /\ DOMAIN new = 1..Len(new) /\ Len(new) = Len(old) + 1 /\ new[Len(new)].origin = e.origin
          /\ DOMAIN old = 1..Len(old) /\ Len(old) \in Nat
      BY <1>3, <1>4, <2>4, SeqProperties DEF Added, Ledgers
    <3>2. \A i \in DOMAIN new : i \in DOMAIN old \/ i = Len(new)
      BY <3>1
    <3> QED
      BY <2>2, <3>1, <3>2 DEF e
  <2> QED
    BY <1>4, <2>3, <2>4
<1> QED
  BY <1>6, <1>7, <1>8, <1>10, <1>11, <1>12 DEF EmitsOK, T

LEMMA EmitAllFacts ==
    ASSUME NEW rows \in Ledgers, Orderly(rows), NEW events \in Seq(EventRow),
           ThreadsOf(events) \cap ModelThreads = {}, \A k \in 1..Len(events) : events[k].origin = 0
    PROVE  EmitsOK(rows, EmitAll(rows, events), events, Len(events))
<1> DEFINE n == Len(events)
<1>1. PICK ledger : /\ ledger = EmitSteps(rows, events) /\ ledger[0] = rows
                    /\ \A k \in 1..Len(events) : ledger[k] = EmitAlone(ledger[k - 1], events[k])
  BY EmitStepsDef
<1> DEFINE S == {k \in 0..n : EmitsOK(rows, ledger[k], events, k)}
<1>2. n \in Nat
  BY SeqProperties
<1>3. 0 \in S
  BY <1>1, <1>2, EmitsStart
<1>4. ASSUME NEW k \in 1..n, k - 1 \in S PROVE k \in S
  <2>1. EmitsOK(rows, ledger[k - 1], events, k - 1)
    BY <1>4
  <2>2. EmitsOK(rows, ledger[k], events, k)
    BY <1>1, <2>1, EmitsStep
  <2> QED
    BY <1>2, <2>2
<1>5. \A k \in 0..n : k \in S
  <2> HIDE DEF S, n
  <2> QED
    BY <1>2, <1>3, <1>4, UpTo
<1>6. EmitsOK(rows, ledger[n], events, n)
  BY <1>2, <1>5
<1> QED
  BY <1>1, <1>6 DEF EmitAll

-----------------------------------------------------------------------------
(* The invariant.                                                          *)

\* An item that asks for the owner is what its thread tells; a settled one has no open row.
AttentionOK(rows, states) ==
    /\ states \in [Items -> AttentionStates \cup {"none", "resolved", "dismissed"}]
    /\ \A x \in Items :
          /\ states[x] \in AttentionStates => Tells(rows, ItemThread(x), states[x])
          /\ states[x] = "resolved" => OpenThread(rows, ItemThread(x)) = {}

NotesOK(rows, count) ==
    /\ rows \in Ledgers /\ Orderly(rows) /\ Len(rows) <= MaxNotes
    /\ \A i \in DOMAIN rows : rows[i].origin <= count

\* What a writer is about to emit is on a thread of the model's.
DraftsOK(ds, count) ==
    \A w \in Writers : \A d \in ds[w] :
       d.event \in EventRow /\ d.event.thread \in ModelThreads /\ d.event.origin <= count

LedgerInv ==
    /\ loops \in Deployments /\ NotesOK(notes, Len(runs))
    /\ AttentionOK(notes, attention) /\ DraftsOK(drafts, Len(runs))

Delivery == [rows : SUBSET Nat, subs : SUBSET Devices, left : SUBSET Nat, ok : SUBSET Nat,
             gone : SUBSET Devices, torn : BOOLEAN]

\* The rows that wait for their one send.
Unsent(i) ==
    /\ i \in Pending
    /\ i \in Locked => \E x \in Dispatchers : i \in disp[x].left

DispatchersOK ==
    /\ subs \in [Devices -> {"absent", "enabled", "disabled"}]
    /\ disp \in [Dispatchers -> Delivery]
    /\ \A x \in Dispatchers :
          /\ disp[x].left \subseteq disp[x].rows /\ disp[x].ok \subseteq disp[x].rows
          /\ disp[x].rows \subseteq Pending /\ disp[x].gone \subseteq disp[x].subs
    /\ \A x, y \in Dispatchers : x # y => disp[x].rows \cap disp[y].rows = {}

TriesOK ==
    /\ tries \in [1..MaxNotes -> 0..1]
    /\ \A i \in 1..MaxNotes : i \notin DOMAIN notes \/ Unsent(i) => tries[i] = 0

\* As long as nothing disturbed the outbox, the rows are sent in the order of the ledger.
ShownOK ==
    /\ shown \in [Devices -> Seq(Nat)]
    /\ \A d \in Devices : \A k \in DOMAIN shown[d] : shown[d][k] \in DOMAIN notes
    /\ ~disturbed =>
          /\ \A x, y \in Dispatchers : x = y \/ disp[x] = Idle \/ disp[y] = Idle
          /\ \A x \in Dispatchers : \A i \in disp[x].rows, j \in Pending :
                j \notin disp[x].rows => i < j
          /\ \A d \in Devices : \A k \in DOMAIN shown[d] :
                /\ \A i \in DOMAIN notes : Unsent(i) => shown[d][k] < i
                /\ \A l \in DOMAIN shown[d] : k < l => shown[d][k] < shown[d][l]

DeliveryInv == DispatchersOK /\ TriesOK /\ ShownOK

TaskRow == [kind : Kinds, enabled : BOOLEAN, slot : Nat, past : BOOLEAN, born : 0..MaxNotes,
            last : OUTSTANDING \cup {"none", "finished"}]
RunRow == [task : Tasks, note : 0..MaxNotes, slot : Nat, status : OUTSTANDING \cup {"finished"},
           inference : {"queued", "running", "over"},
           action : {"none", "prepared", "uncertain"}]

\* The status of a run is that of its parts.
RunOK(run) ==
    IF run.inference = "queued" THEN run.status = "queued" /\ run.action = "none"
    ELSE run.status = Aggregate(run)

\* What task s shows of run r.
Shows(s, r) ==
    \/ task[s].last = runs[r].status
    \/ task[s].last = "queued" /\ runs[r].status = "running"

PollOf(p) == [at |-> p.at, queue |-> p.queue, run |-> p.run, skipped |-> p.skipped]

\* An outstanding run is the newest of its task.
RunsInv ==
    /\ task \in [Tasks -> TaskRow]
    /\ runs \in Seq(RunRow) /\ Len(runs) <= MaxRuns
    /\ \A r \in DOMAIN runs : RunOK(runs[r])
    /\ poll.run \in 0..Len(runs) /\ poll.at \in {"due", "events", "run", "dead"}
    /\ poll = PollOf(poll)
    /\ poll.queue \subseteq {r \in DOMAIN runs : runs[r].inference = "queued"}
    /\ \A q, r \in DOMAIN runs :
          runs[q].task = runs[r].task /\ q < r => runs[q].status \notin OUTSTANDING
    /\ \A r \in DOMAIN runs :
          /\ task[runs[r].task].kind # "none"
          /\ \A q \in DOMAIN runs : r < q => runs[q].task # runs[r].task
          => Shows(runs[r].task, r)

UnitInv ==
    /\ watched \subseteq Units /\ health \in [Units -> Healths]
    /\ known \in [Units -> {"none", "healthy", "unhealthy"}]
    /\ \A u \in Units :
          OpenThread(notes, UnitThread(u)) # {} => known[u] = "unhealthy" \/ u \in forgotten

RdcState == [phase : {"unknown", "starting", "auth_required", "online", "stopped"},
             awaiting : {"none", "url", "code", "expiry"}, restored : BOOLEAN,
             missing : BOOLEAN, alarm : BOOLEAN, cursor : Nat]

\* No line after the cursor was announced, one before it once, and once more for each
\* cursor that was lost.
RdcInv ==
    /\ journal \in [lines : Seq(Lines), alive : BOOLEAN] /\ Len(journal.lines) <= MaxLines
    /\ rdc \in RdcState /\ rdc.cursor <= Len(journal.lines)
    /\ told \in [1..MaxLines -> Nat] /\ stale \in Nat
    /\ \A n \in 1..MaxLines :
          /\ told[n] <= 1 + stale /\ (n > rdc.cursor => told[n] = 0)
          /\ told[n] # 0 => \E i \in DOMAIN notes : notes[i].thread = AuthThread /\ notes[i].body = n

AwareInv == LedgerInv /\ DeliveryInv /\ RunsInv /\ UnitInv /\ RdcInv

-----------------------------------------------------------------------------
(* Frames: what a step that only adds rows leaves true.                    *)

LEMMA ThreadsApart ==
    /\ \A x, y : ItemThread(x) = ItemThread(y) => x = y
    /\ \A u, v : UnitThread(u) = UnitThread(v) => u = v
    /\ \A x, u : ItemThread(x) # UnitThread(u)
    /\ \A x : ItemThread(x) \notin ModelThreads \cup UnitThreads \cup RestartThreads \cup RdcThreads
                                   \cup {PushThread}
    /\ \A u : UnitThread(u) \notin ModelThreads \cup ItemThreads \cup RestartThreads \cup RdcThreads
                                   \cup {PushThread}
    /\ \A t \in ModelThreads : t \notin RestartThreads \cup RdcThreads \cup {PushThread}
<1>1. \A x, y : ItemThread(x) = ItemThread(y) => x = y
  BY DEF ItemThread
<1>2. \A u, v : UnitThread(u) = UnitThread(v) => u = v
  BY DEF UnitThread
<1>3. \A x, u : ItemThread(x) # UnitThread(u)
  BY DEF ItemThread, UnitThread
<1>4. ASSUME NEW x
      PROVE  ItemThread(x) \notin ModelThreads \cup UnitThreads \cup RestartThreads \cup RdcThreads
                                  \cup {PushThread}
  BY DEF ItemThread, ModelThreads, UnitThreads, UnitThread, RestartThreads, RdcThreads, PushThread,
         AuthThread, RestartThread, ProcessThread
<1>5. ASSUME NEW u
      PROVE  UnitThread(u) \notin ModelThreads \cup ItemThreads \cup RestartThreads \cup RdcThreads
                                  \cup {PushThread}
  BY DEF UnitThread, ModelThreads, ItemThreads, ItemThread, RestartThreads, RdcThreads, PushThread,
         AuthThread, RestartThread, ProcessThread
<1>6. ASSUME NEW t \in ModelThreads
      PROVE  t \notin RestartThreads \cup RdcThreads \cup {PushThread}
  <2>1. PICK m \in Topics : t = <<"model", m>>
    BY DEF ModelThreads
  <2> QED
    BY <2>1 DEF RestartThreads, RdcThreads, PushThread, AuthThread, RestartThread, ProcessThread
<1> QED
  BY <1>1, <1>2, <1>3, <1>4, <1>5, <1>6

LEMMA NotesFacts ==
    ASSUME NEW rows, NEW count, NotesOK(rows, count)
    PROVE  /\ rows \in Ledgers /\ Orderly(rows) /\ Len(rows) \in Nat /\ DOMAIN rows = 1..Len(rows)
           /\ \A i \in DOMAIN rows : rows[i] \in NoteRow
  BY SeqProperties DEF NotesOK, Ledgers

\* Items keep what their threads tell.
LEMMA AttentionQuiet ==
    ASSUME NEW old, NEW new, NEW states, AttentionOK(old, states), NEW T, Extends(old, new, T),
           \A x \in Items : ItemThread(x) \notin T
    PROVE  AttentionOK(new, states)
<1>1. ASSUME NEW x \in Items
      PROVE  /\ states[x] \in AttentionStates => Tells(new, ItemThread(x), states[x])
             /\ states[x] = "resolved" => OpenThread(new, ItemThread(x)) = {}
  <2>1. states[x] \in AttentionStates => Tells(new, ItemThread(x), states[x])
    BY ExtendsTells DEF AttentionOK
  <2>2. OpenThread(new, ItemThread(x)) \subseteq OpenThread(old, ItemThread(x))
    BY ExtendsOpen
  <2> QED
    BY <2>1, <2>2 DEF AttentionOK
<1> QED
  BY <1>1 DEF AttentionOK

LEMMA UnitsQuiet ==
    ASSUME UnitInv, NEW T, Extends(notes, notes', T), \A u \in Units : UnitThread(u) \notin T,
           UNCHANGED unitVars
    PROVE  UnitInv'
<1>1. ASSUME NEW u \in Units
      PROVE  OpenThread(notes', UnitThread(u)) \subseteq OpenThread(notes, UnitThread(u))
  BY ExtendsOpen
<1>2. UNCHANGED <<watched, health, known, forgotten>>
  BY DEF unitVars
<1>3. \A u \in Units : OpenThread(notes', UnitThread(u)) # {} =>
                          known'[u] = "unhealthy" \/ u \in forgotten'
  BY <1>1, <1>2 DEF UnitInv
<1> QED
  BY <1>2, <1>3 DEF UnitInv

LEMMA RdcQuiet ==
    ASSUME RdcInv, NEW T, Extends(notes, notes', T), UNCHANGED <<journal, rdc, told, stale>>
    PROVE  RdcInv'
<1>1. \A n : (\E i \in DOMAIN notes : notes[i].thread = AuthThread /\ notes[i].body = n) =>
             \E i \in DOMAIN notes' : notes'[i].thread = AuthThread /\ notes'[i].body = n
  BY DEF Extends, SameRow
<1> QED
  BY <1>1 DEF RdcInv

LEMMA DeliveryQuiet ==
    ASSUME LedgerInv, DeliveryInv, NEW T, Extends(notes, notes', T), SamePush(notes, notes'),
           UNCHANGED <<disp, shown, tries, disturbed, subs>>
    PROVE  DeliveryInv'
<1>1. /\ Len(notes) \in Nat /\ DOMAIN notes = 1..Len(notes)
      /\ Len(notes') \in Nat /\ DOMAIN notes' = 1..Len(notes')
  BY NotesFacts, SeqProperties DEF LedgerInv, Extends, Ledgers
<1>2. DOMAIN notes \subseteq DOMAIN notes' /\ Locked' = Locked
  BY DEF Extends, Locked
<1>3. \A i \in DOMAIN notes : i \in Pending <=> i \in Pending'
  BY <1>2 DEF SamePush, Pending
<1>4. Pending \subseteq Pending'
  BY <1>3 DEF Pending
<1>5. \A i \in DOMAIN notes : Unsent(i)' => Unsent(i)
  BY <1>2, <1>3 DEF Unsent
<1>6. DispatchersOK'
  BY <1>4 DEF DeliveryInv, DispatchersOK
<1>7. TriesOK'
  BY <1>2, <1>5 DEF DeliveryInv, TriesOK
<1>8. \A i \in DOMAIN notes' : i \notin DOMAIN notes => \A j \in DOMAIN notes : j < i
  BY <1>1
<1>9. ShownOK'
  <2>1. /\ shown' \in [Devices -> Seq(Nat)]
        /\ \A d \in Devices : \A k \in DOMAIN shown'[d] : shown'[d][k] \in DOMAIN notes'
    BY <1>2 DEF DeliveryInv, ShownOK
  <2>2. SUFFICES ASSUME ~disturbed'
                 PROVE  /\ \A x \in Dispatchers : \A i \in disp'[x].rows, j \in Pending' :
                              j \notin disp'[x].rows => i < j
                        /\ \A d \in Devices : \A k \in DOMAIN shown'[d] :
                              \A i \in DOMAIN notes' : Unsent(i)' => shown'[d][k] < i
    BY <2>1 DEF DeliveryInv, ShownOK
  <2>3. ASSUME NEW x \in Dispatchers, NEW i \in disp'[x].rows, NEW j \in Pending', j \notin disp'[x].rows
        PROVE  i < j
    <3>1. i \in DOMAIN notes /\ j \in DOMAIN notes'
      BY <2>3 DEF DeliveryInv, DispatchersOK, Pending
    <3>2. CASE j \in DOMAIN notes
      BY <1>3, <2>2, <2>3, <3>2 DEF DeliveryInv, ShownOK
    <3> QED
      BY <1>8, <3>1, <3>2
  <2>4. ASSUME NEW d \in Devices, NEW k \in DOMAIN shown'[d], NEW i \in DOMAIN notes', Unsent(i)'
        PROVE  shown'[d][k] < i
    <3>1. shown'[d][k] \in DOMAIN notes
      BY <2>4 DEF DeliveryInv, ShownOK
    <3>2. CASE i \in DOMAIN notes
      BY <1>5, <2>2, <2>4, <3>2 DEF DeliveryInv, ShownOK
    <3> QED
      BY <1>8, <2>4, <3>1, <3>2
  <2> QED
    BY <2>3, <2>4
<1> QED
  BY <1>6, <1>7, <1>9 DEF DeliveryInv

-----------------------------------------------------------------------------
(* Steps on the ledger.                                                    *)

LEMMA EmitNotes ==
    ASSUME NEW rows, NEW count \in Nat, NotesOK(rows, count), Len(rows) < MaxNotes,
           NEW e \in EventRow, e.thread \notin ModelThreads, e.origin <= count
    PROVE  /\ Extends(rows, EmitAlone(rows, e), {e.thread}) /\ Unnoted(rows, EmitAlone(rows, e))
           /\ NotesOK(EmitAlone(rows, e), count)
           /\ e.severity # "resolved" => Tells(EmitAlone(rows, e), e.thread, e.body)
<1>1. /\ rows \in Ledgers /\ Orderly(rows) /\ Len(rows) \in Nat /\ DOMAIN rows = 1..Len(rows)
  BY NotesFacts
<1>2. PICK new : new = EmitAlone(rows, e)
  OBVIOUS
<1> DEFINE open == OpenThread(rows, e.thread)
<1>3. /\ Extends(rows, new, {e.thread}) /\ Unnoted(rows, new) /\ new \in Ledgers
      /\ Len(new) <= Len(rows) + 1
      /\ Ignored(rows, e, open, new) \/ Added(rows, e, open, new)
  BY <1>1, <1>2, EmitAloneFacts
<1>4. Orderly(new)
  <2>1. CASE Ignored(rows, e, open, new)
    BY <1>1, <2>1 DEF Ignored
  <2>2. CASE Added(rows, e, open, new)
    BY <1>1, <1>3, <2>2, OrderlyEmit
  <2> QED
    BY <1>3, <2>1, <2>2
<1>5. \A i \in DOMAIN new : new[i].origin <= count
  <2>1. \A i \in DOMAIN rows : new[i].origin <= count
    BY <1>3 DEF NotesOK, Extends, SameRow
  <2>2. CASE Ignored(rows, e, open, new)
    BY <2>1, <2>2 DEF Ignored
  <2>3. CASE Added(rows, e, open, new)
    <3>1. DOMAIN new = 1..Len(new) /\ Len(new) = Len(rows) + 1 /\ new[Len(new)].origin = e.origin
      BY <1>3, <2>3, SeqProperties DEF Added, Ledgers
    <3> QED
      BY <1>1, <2>1, <3>1
  <2> QED
    BY <1>3, <2>2, <2>3
<1>6. Len(new) <= MaxNotes
  <2>1. Len(new) \in Nat
    BY <1>3, SeqProperties DEF Ledgers
  <2> QED
    BY <1>1, <1>3, <2>1, NotificationBounds
<1>7. e.severity # "resolved" => Tells(new, e.thread, e.body)
  BY <1>1, <1>3, EmitTells
<1> QED
  BY <1>2, <1>3, <1>4, <1>5, <1>6, <1>7 DEF NotesOK

\* One item is raised.
Raised(rows, states, x, state, origin, new, after) ==
    /\ Len(rows) < MaxNotes
    /\ new = EmitAlone(rows, AttentionEvent(x, state, origin))
    /\ after = [states EXCEPT ![x] = state]

LEMMA RaiseFacts ==
    ASSUME NEW rows, NEW states, NEW count \in Nat, NotesOK(rows, count), AttentionOK(rows, states),
           NEW x \in Items, NEW state \in AttentionStates, NEW origin \in 0..count,
           NEW new, NEW after, Raised(rows, states, x, state, origin, new, after)
    PROVE  /\ Extends(rows, new, {ItemThread(x)}) /\ Unnoted(rows, new)
           /\ NotesOK(new, count) /\ AttentionOK(new, after)
<1>0. /\ new = EmitAlone(rows, AttentionEvent(x, state, origin)) /\ Len(rows) < MaxNotes
      /\ after = [states EXCEPT ![x] = state]
  BY DEF Raised
<1> DEFINE e == AttentionEvent(x, state, origin)
<1>1. /\ e \in EventRow /\ e.thread = ItemThread(x) /\ e.body = state /\ e.origin = origin
      /\ e.severity # "resolved"
  BY DEF AttentionEvent, Event, EventRow, Sources, Threads, ItemThreads, Severities, Texts
<1> HIDE DEF e
<1>2. /\ Extends(rows, new, {ItemThread(x)}) /\ Unnoted(rows, new) /\ NotesOK(new, count)
      /\ Tells(new, ItemThread(x), state)
  <2>1. new = EmitAlone(rows, e) /\ e.origin <= count /\ Len(rows) < MaxNotes
    BY <1>0, <1>1 DEF e
  <2>2. e.thread \notin ModelThreads
    BY <1>1, ThreadsApart
  <2> QED
    BY <1>1, <2>1, <2>2, EmitNotes
<1>3. /\ after \in [Items -> AttentionStates \cup {"none", "resolved", "dismissed"}]
      /\ after[x] = state /\ \A y \in Items : y # x => after[y] = states[y]
  BY <1>0 DEF AttentionOK
<1>4. ASSUME NEW y \in Items, y # x
      PROVE  /\ after[y] \in AttentionStates => Tells(new, ItemThread(y), after[y])
             /\ after[y] = "resolved" => OpenThread(new, ItemThread(y)) = {}
  <2>1. ItemThread(y) \notin {ItemThread(x)}
    BY <1>4, ThreadsApart
  <2>2. OpenThread(new, ItemThread(y)) \subseteq OpenThread(rows, ItemThread(y))
    BY <1>2, <2>1, ExtendsOpen
  <2>3. states[y] \in AttentionStates => Tells(new, ItemThread(y), states[y])
    BY <1>2, <2>1, ExtendsTells DEF AttentionOK
  <2> QED
    BY <1>3, <1>4, <2>2, <2>3 DEF AttentionOK
<1>5. "resolved" \notin AttentionStates
  BY DEF AttentionStates
<1> QED
  BY <1>2, <1>3, <1>4, <1>5 DEF AttentionOK

\* A thread is resolved.
LEMMA ClosedNotes ==
    ASSUME NEW rows, NEW count, NotesOK(rows, count), NEW S, NEW new, new = Close(rows, S, "resolved")
    PROVE  /\ Closed(rows, S, "resolved", new) /\ Unnoted(rows, new) /\ NotesOK(new, count)
           /\ Extends(rows, new, {})
<1>1. rows \in Ledgers /\ Orderly(rows)
  BY DEF NotesOK
<1>2. Closed(rows, S, "resolved", new)
  BY <1>1, CloseFacts
<1>3. Extends(rows, new, {}) /\ Unnoted(rows, new) /\ Orderly(new)
  BY <1>1, <1>2, ClosedExtends, OrderlyClosed
<1> QED
  BY <1>2, <1>3 DEF NotesOK, Closed, SameRow

LEMMA SettleFacts ==
    ASSUME NEW rows, NEW states, NEW count, NotesOK(rows, count), AttentionOK(rows, states),
           NEW x \in Items, NEW new, new = ResolveThread(rows, ItemThread(x)),
           NEW after, after = [states EXCEPT ![x] = "resolved"]
    PROVE  /\ Extends(rows, new, {}) /\ Unnoted(rows, new)
           /\ NotesOK(new, count) /\ AttentionOK(new, after)
<1> DEFINE S == OpenThread(rows, ItemThread(x))
<1>1. new = Close(rows, S, "resolved")
  BY DEF ResolveThread
<1> HIDE DEF S
<1>2. /\ Closed(rows, S, "resolved", new) /\ Unnoted(rows, new) /\ NotesOK(new, count)
      /\ Extends(rows, new, {})
  BY <1>1, ClosedNotes
<1>3. AttentionOK(new, states)
  BY <1>2, AttentionQuiet
<1>4. /\ after \in [Items -> AttentionStates \cup {"none", "resolved", "dismissed"}]
      /\ after[x] = "resolved" /\ \A y \in Items : y # x => after[y] = states[y]
  BY DEF AttentionOK
<1>5. OpenThread(new, ItemThread(x)) = {}
  <2>1. SUFFICES ASSUME NEW i \in OpenThread(new, ItemThread(x)) PROVE FALSE
    OBVIOUS
  <2>2. i \in DOMAIN rows /\ new[i].thread = ItemThread(x) /\ new[i].status = "open"
    BY <1>2 DEF Closed, OpenThread
  <2>3. rows[i].thread = ItemThread(x) /\ rows[i].status = "open"
    BY <1>2, <2>2 DEF Closed, SameRow
  <2>4. i \in S
    BY <2>2, <2>3 DEF OpenThread, S
  <2> QED
    BY <1>2, <2>2, <2>4 DEF Closed
<1>6. "resolved" \notin AttentionStates
  BY DEF AttentionStates
<1>7. \A y \in Items : /\ after[y] \in AttentionStates => Tells(new, ItemThread(y), after[y])
                       /\ after[y] = "resolved" => OpenThread(new, ItemThread(y)) = {}
  BY <1>3, <1>4, <1>5, <1>6 DEF AttentionOK
<1> QED
  BY <1>2, <1>4, <1>7 DEF AttentionOK

\* A step that only writes the ledger.
Writes(T) ==
    /\ Extends(notes, notes', T) /\ Unnoted(notes, notes') /\ \A u \in Units : UnitThread(u) \notin T
    /\ NotesOK(notes', Len(runs')) /\ AttentionOK(notes', attention')
    /\ DraftsOK(drafts', Len(runs'))
    /\ UNCHANGED <<loops, subs, disp, shown, tries, disturbed, monitorVars>>

\* The invariant is kept, and no row is marked for the scheduler.
WakeKept == \A i \in DOMAIN notes : notes'[i].wake = notes[i].wake
Kept == AwareInv' /\ WakeKept

LEMMA NoteStep ==
    ASSUME AwareInv, NEW T, Writes(T), RunsInv'
    PROVE  Kept
<1>1. LedgerInv'
  BY DEF AwareInv, LedgerInv, Writes
<1>2. DeliveryInv'
  BY DeliveryQuiet DEF AwareInv, Writes, Unnoted, SamePush
<1>3. UnitInv' /\ RdcInv'
  BY UnitsQuiet, RdcQuiet DEF AwareInv, monitorVars, rdcVars, Writes
<1> QED
  BY <1>1, <1>2, <1>3 DEF AwareInv, Kept, WakeKept, Writes, Unnoted

LEMMA RunsSame ==
    ASSUME RunsInv, UNCHANGED <<task, runs, poll>>
    PROVE  RunsInv'
<1>1. \A s, r : Shows(s, r)' <=> Shows(s, r)
  BY DEF Shows
<1> QED
  BY <1>1 DEF RunsInv

LEMMA RunsFacts ==
    ASSUME RunsInv
    PROVE  /\ Len(runs) \in Nat /\ DOMAIN runs = 1..Len(runs)
           /\ \A r \in DOMAIN runs : runs[r] \in RunRow /\ RunOK(runs[r])
           /\ poll.run \in 0..Len(runs) /\ Len(runs) <= MaxRuns
  BY SeqProperties DEF RunsInv

LEMMA LedgerSteps ==
    ASSUME AwareInv, LedgerNext, UNCHANGED <<schedVars, monitorVars>>
    PROVE  Kept
<1>1. /\ NotesOK(notes, Len(runs)) /\ AttentionOK(notes, attention) /\ DraftsOK(drafts, Len(runs))
      /\ Len(runs) \in Nat /\ runs' = runs /\ poll' = poll /\ RunsInv'
      /\ notes \in Ledgers /\ Len(notes) \in Nat /\ poll.run \in 0..Len(runs)
  BY RunsFacts, RunsSame, NotesFacts DEF AwareInv, LedgerInv, schedVars
<1>2. ASSUME NEW x \in Foreground, AttentionRaised(x) PROVE Kept
  <2>1. PICK state \in StatesOf(x) : RaiseAttention(x, state, 0)
    BY <1>2 DEF AttentionRaised
  <2>2. x \in Items /\ state \in AttentionStates /\ 0 \in 0..Len(runs)
    BY <1>1, AwarenessAssumption DEF AwarenessAssumption, StatesOf, AttentionStates
  <2>3. /\ Len(notes) < MaxNotes /\ UNCHANGED <<loops, drafts, deviceVars, deliveryVars>>
    BY <1>2 DEF AttentionRaised, Room
  <2>4. /\ Extends(notes, notes', {ItemThread(x)}) /\ Unnoted(notes, notes')
        /\ NotesOK(notes', Len(runs)) /\ AttentionOK(notes', attention')
    <3>1. Raised(notes, attention, x, state, 0, notes', attention')
      BY <2>1, <2>3 DEF RaiseAttention, Raised
    <3> QED
      BY <1>1, <2>2, <2>3, <3>1, RaiseFacts
  <2>5. \A u \in Units : UnitThread(u) \notin {ItemThread(x)}
    BY ThreadsApart
  <2>11. Writes({ItemThread(x)})
    BY <1>1, <2>3, <2>4, <2>5 DEF Writes, deviceVars, deliveryVars
  <2> QED
    BY <1>1, <2>11, NoteStep
<1>3. ASSUME NEW x \in Foreground \cup {NoticeItem(r) : r \in DOMAIN runs}, AttentionSettled(x)
      PROVE  Kept
  <2>1. x \in Items
    <3>1. CASE x \in Foreground
      BY <3>1, AwarenessAssumption DEF AwarenessAssumption
    <3>2. ASSUME NEW r \in DOMAIN runs, x = NoticeItem(r) PROVE x \in Items
      <4>1. r \in 1..MaxRuns
        BY RunsFacts, ScheduleBounds DEF AwareInv, ScheduleBounds
      <4> QED
        BY <3>2, <4>1, AwarenessAssumption DEF AwarenessAssumption, NoticeItem
    <3> QED
      BY <3>1, <3>2
  <2>2. /\ notes' = ResolveThread(notes, ItemThread(x))
        /\ attention' = [attention EXCEPT ![x] = "resolved"]
        /\ UNCHANGED <<loops, drafts, deviceVars, deliveryVars>>
    BY <1>3 DEF AttentionSettled, SettleAttention
  <2>3. /\ Extends(notes, notes', {}) /\ Unnoted(notes, notes')
        /\ NotesOK(notes', Len(runs)) /\ AttentionOK(notes', attention')
    BY <1>1, <2>1, <2>2, SettleFacts
  <2>4. NotesOK(notes', Len(runs')) /\ DraftsOK(drafts', Len(runs'))
    BY <1>1, <2>2, <2>3
  <2>11. Writes({})
    BY <1>1, <2>2, <2>3, <2>4 DEF Writes, deviceVars, deliveryVars
  <2> QED
    BY <1>1, <2>11, NoteStep
<1>4. ASSUME NEW S, DismissByUpdate(S) PROVE Kept
  <2>1. /\ UNCHANGED <<loops, notes, drafts, deviceVars, deliveryVars>>
        /\ attention' = [x \in Items |-> IF x \in S THEN "dismissed" ELSE attention[x]]
    BY <1>4 DEF DismissByUpdate
  <2>2. Extends(notes, notes', {}) /\ Unnoted(notes, notes')
    BY <1>1, <2>1, ExtendsSame
  <2>3. AttentionOK(notes', attention')
    <3>1. "dismissed" \notin AttentionStates
      BY DEF AttentionStates
    <3>2. attention' \in [Items -> AttentionStates \cup {"none", "resolved", "dismissed"}]
      BY <1>1, <2>1 DEF AttentionOK
    <3>3. \A x \in Items : attention'[x] = "dismissed" \/ attention'[x] = attention[x]
      BY <2>1
    <3> QED
      BY <1>1, <2>1, <3>1, <3>2, <3>3 DEF AttentionOK
  <2>11. Writes({})
    BY <1>1, <2>1, <2>2, <2>3 DEF Writes, deviceVars, deliveryVars
  <2> QED
    BY <1>1, <2>11, NoteStep
<1>5. ASSUME NEW w \in Writers, NEW t \in Topics, NEW b \in Bodies, NEW s \in {"info", "warning"},
             ModelEmitRead(w, ModelEvent(t, b, s))
      PROVE  Kept
  <2> DEFINE e == ModelEvent(t, b, s)
  <2>1. e \in EventRow /\ e.thread \in ModelThreads /\ e.origin <= Len(runs)
    BY <1>1 DEF ModelEvent, Event, EventRow, Sources, Threads, ModelThreads, Severities, Texts
  <2> HIDE DEF e
  <2>2. /\ drafts' = [drafts EXCEPT ![w] = {[event |-> e, seen |-> OpenThread(notes, e.thread)]}]
        /\ UNCHANGED <<loops, notes, attention, deviceVars, deliveryVars>>
    BY <1>5 DEF ModelEmitRead, ledgerVars, e
  <2>3. DraftsOK(drafts', Len(runs))
    <3>1. \A v \in Writers : \A d \in drafts'[v] : d.event = e \/ d \in drafts[v]
      BY <2>2
    <3> QED
      BY <1>1, <2>1, <3>1 DEF DraftsOK
  <2>4. Extends(notes, notes', {}) /\ Unnoted(notes, notes')
    BY <1>1, <2>2, ExtendsSame
  <2>5. /\ NotesOK(notes', Len(runs')) /\ DraftsOK(drafts', Len(runs'))
        /\ AttentionOK(notes', attention')
    BY <1>1, <2>2, <2>3
  <2>11. Writes({})
    BY <1>1, <2>2, <2>4, <2>5 DEF Writes, deviceVars, deliveryVars
  <2> QED
    BY <1>1, <2>11, NoteStep
<1>6. ASSUME NEW w \in Writers, ModelEmitWrite(w) PROVE Kept
  <2>1. PICK d \in drafts[w] :
           notes' = Emit(notes, d.event, d.seen \cap OpenThread(notes, d.event.thread))
    BY <1>6 DEF ModelEmitWrite
  <2> DEFINE e == d.event
             open == d.seen \cap OpenThread(notes, e.thread)
  <2>2. e \in EventRow /\ e.thread \in ModelThreads /\ e.origin <= Len(runs)
    BY <1>1 DEF DraftsOK
  <2>3. open \in SUBSET OpenThread(notes, e.thread) /\ open \in SUBSET DOMAIN notes
    BY DEF OpenThread
  <2>4. /\ Len(notes) < MaxNotes /\ drafts' = [drafts EXCEPT ![w] = {}]
        /\ UNCHANGED <<loops, attention, deviceVars, deliveryVars>>
    BY <1>6 DEF ModelEmitWrite, Room
  <2> HIDE DEF e, open
  <2>5. /\ Extends(notes, notes', {e.thread}) /\ Unnoted(notes, notes')
        /\ Ignored(notes, e, open, notes') \/ Added(notes, e, open, notes')
    BY <1>1, <2>1, <2>2, <2>3, EmitFacts DEF e, open
  <2>6. Orderly(notes')
    <3>1. CASE Ignored(notes, e, open, notes')
      BY <1>1, <3>1 DEF Ignored, NotesOK
    <3>2. CASE Added(notes, e, open, notes')
      BY <1>1, <2>2, <2>3, <2>5, <3>2, OrderlyEmit DEF NotesOK
    <3> QED
      BY <2>5, <3>1, <3>2
  <2>7. NotesOK(notes', Len(runs))
    <3>1. /\ notes' \in Ledgers /\ Len(notes') \in Nat /\ DOMAIN notes' = 1..Len(notes')
          /\ DOMAIN notes = 1..Len(notes)
      BY <1>1, <2>5, SeqProperties DEF Extends, Ledgers
    <3>2. \A i \in DOMAIN notes : notes'[i].origin <= Len(runs)
      BY <1>1, <2>5 DEF NotesOK, Extends, SameRow
    <3>3. CASE Ignored(notes, e, open, notes')
      BY <1>1, <3>3 DEF Ignored
    <3>4. CASE Added(notes, e, open, notes')
      <4>1. Len(notes') = Len(notes) + 1 /\ notes'[Len(notes')].origin = e.origin
        BY <3>4 DEF Added
      <4>2. Len(notes') <= MaxNotes
        BY <1>1, <2>4, <3>1, <4>1, NotificationBounds
      <4>3. \A i \in DOMAIN notes' : notes'[i].origin <= Len(runs)
        BY <1>1, <2>2, <3>1, <3>2, <4>1
      <4> QED
        BY <2>6, <3>1, <4>2, <4>3 DEF NotesOK
    <3> QED
      BY <2>5, <3>3, <3>4
  <2>8. AttentionOK(notes', attention')
    BY <1>1, <2>2, <2>4, <2>5, AttentionQuiet, ThreadsApart
  <2>9. DraftsOK(drafts', Len(runs))
    BY <1>1, <2>4 DEF DraftsOK
  <2>10. \A u \in Units : UnitThread(u) \notin {e.thread}
    BY <2>2, ThreadsApart
  <2>11. Writes({e.thread})
    BY <1>1, <2>4, <2>5, <2>7, <2>8, <2>9, <2>10 DEF Writes, deviceVars, deliveryVars
  <2> QED
    BY <1>1, <2>11, NoteStep
<1>7. ASSUME NEW i \in DOMAIN notes, NEW last \in i..Len(notes), NEW loadedOpen \in BOOLEAN,
             OwnerResolves(i, last, loadedOpen)
      PROVE  Kept
  <2>1. PICK S : notes' = Close(notes, S, "resolved")
    BY <1>7 DEF OwnerResolves
  <2>2. UNCHANGED <<loops, attention, drafts, deviceVars, deliveryVars>>
    BY <1>7 DEF OwnerResolves
  <2>3. /\ Extends(notes, notes', {}) /\ Unnoted(notes, notes') /\ NotesOK(notes', Len(runs))
    BY <1>1, <2>1, ClosedNotes
  <2>4. AttentionOK(notes', attention')
    BY <1>1, <2>2, <2>3, AttentionQuiet
  <2>11. Writes({})
    BY <1>1, <2>2, <2>3, <2>4 DEF Writes, deviceVars, deliveryVars
  <2> QED
    BY <1>1, <2>11, NoteStep
<1> QED
  BY <1>2, <1>3, <1>4, <1>5, <1>6, <1>7 DEF LedgerNext, DismissAll, OwnerWrites

-----------------------------------------------------------------------------
(* Devices and deliveries.                                                 *)

\* Rows keep their place and everything an owner sees of them.
Marked(old, new) ==
    /\ new \in [DOMAIN old -> NoteRow]
    /\ \A i \in DOMAIN old : SameRow(new[i], old[i]) /\ new[i].status = old[i].status

LEMMA MarkedNotes ==
    ASSUME NEW rows, NEW count, NotesOK(rows, count), NEW new, Marked(rows, new)
    PROVE  NotesOK(new, count) /\ Extends(rows, new, {}) /\ DOMAIN new = DOMAIN rows
<1>1. rows \in Ledgers /\ Orderly(rows) /\ Len(rows) \in Nat /\ DOMAIN rows = 1..Len(rows)
  BY NotesFacts
<1>2. new \in Ledgers /\ Len(new) = Len(rows) /\ DOMAIN new = DOMAIN rows
  BY <1>1, FunctionIsSeq DEF Marked, Ledgers
<1>3. Orderly(new)
  <2>1. \A i \in DOMAIN rows : new[i].thread = rows[i].thread /\ new[i].status = rows[i].status
    BY DEF Marked, SameRow
  <2> QED
    BY <1>1, <1>2, <2>1, OrderlySame
<1>4. \A i \in DOMAIN new : new[i].origin <= count
  BY <1>2 DEF Marked, SameRow, NotesOK
<1> QED
  BY <1>1, <1>2, <1>3, <1>4 DEF NotesOK, Extends, Marked

LEMMA NotesMore ==
    ASSUME NEW rows, NEW ds, NEW m \in Nat, NEW n \in Nat, m <= n, NotesOK(rows, m), DraftsOK(ds, m)
    PROVE  NotesOK(rows, n) /\ DraftsOK(ds, n)
<1>1. \A i \in DOMAIN rows : rows[i].origin \in Nat
  BY NotesFacts DEF NoteRow
<1>2. \A i \in DOMAIN rows : rows[i].origin <= n
  BY <1>1 DEF NotesOK
<1>3. ASSUME NEW w \in Writers, NEW d \in ds[w] PROVE d.event.origin <= n
  <2>1. d.event \in EventRow /\ d.event.origin <= m
    BY DEF DraftsOK
  <2> QED
    BY <2>1 DEF EventRow
<1> QED
  BY <1>2, <1>3 DEF NotesOK, DraftsOK

\* A step that only marks rows.
LEMMA MarkStep ==
    ASSUME AwareInv, Marked(notes, notes'), UNCHANGED <<loops, attention, drafts, monitorVars>>,
           Len(runs) <= Len(runs'), DeliveryInv', RunsInv'
    PROVE  AwareInv'
<1>1. /\ NotesOK(notes', Len(runs)) /\ Extends(notes, notes', {})
  BY MarkedNotes DEF AwareInv, LedgerInv
<1>2. NotesOK(notes', Len(runs')) /\ DraftsOK(drafts', Len(runs'))
  <2>1. Len(runs) \in Nat /\ Len(runs') \in Nat
    BY SeqProperties DEF AwareInv, RunsInv
  <2>2. DraftsOK(drafts', Len(runs))
    BY DEF AwareInv, LedgerInv
  <2> QED
    BY <1>1, <2>1, <2>2, NotesMore
<1>3. AttentionOK(notes', attention')
  <2>1. AttentionOK(notes, attention')
    BY DEF AwareInv, LedgerInv
  <2> QED
    BY <1>1, <2>1, AttentionQuiet
<1>4. LedgerInv'
  BY <1>2, <1>3 DEF AwareInv, LedgerInv
<1>5. UnitInv' /\ RdcInv'
  BY <1>1, UnitsQuiet, RdcQuiet DEF AwareInv, monitorVars, rdcVars
<1> QED
  BY <1>4, <1>5 DEF AwareInv

LEMMA DeliveryFacts ==
    ASSUME AwareInv
    PROVE  /\ notes \in Ledgers /\ Len(notes) \in Nat /\ DOMAIN notes = 1..Len(notes)
           /\ Len(notes) <= MaxNotes /\ MaxNotes \in Nat /\ Pending \subseteq DOMAIN notes
           /\ \A i \in DOMAIN notes : notes[i] \in NoteRow
           /\ \A x \in Dispatchers : /\ disp[x] \in Delivery /\ disp[x].rows \subseteq Pending
                                     /\ disp[x].left \subseteq disp[x].rows
                                     /\ disp[x].rows \subseteq Locked
           /\ \A i \in Locked : \E x \in Dispatchers : i \in disp[x].rows
           /\ \A x, y \in Dispatchers : x # y => disp[x].rows \cap disp[y].rows = {}
<1>1. /\ notes \in Ledgers /\ Len(notes) \in Nat /\ DOMAIN notes = 1..Len(notes)
      /\ Len(notes) <= MaxNotes /\ MaxNotes \in Nat /\ \A i \in DOMAIN notes : notes[i] \in NoteRow
  BY NotesFacts, NotificationBounds DEF AwareInv, LedgerInv, NotesOK
<1>2. DispatchersOK
  BY DEF AwareInv, DeliveryInv
<1> QED
  BY <1>1, <1>2 DEF DispatchersOK, Pending, Locked

LEMMA BatchFacts ==
    ASSUME AwareInv
    PROVE  /\ Batch \subseteq Pending /\ Batch \cap Locked = {}
           /\ \A i \in Batch, j \in Pending : j < i /\ j \notin Locked => j \in Batch
<1> DEFINE P == Pending \ Locked
           Below(i) == {j \in P : j < i}
<1>1. Batch = {i \in P : Cardinality(Below(i)) < BatchLimit}
  BY DEF Batch
<1>2. P \subseteq 1..Len(notes) /\ Len(notes) \in Nat
  BY DeliveryFacts
<1>3. ASSUME NEW i \in P, NEW j \in P, j < i, Cardinality(Below(i)) < BatchLimit
      PROVE  Cardinality(Below(j)) < BatchLimit
  <2>1. Below(j) \subseteq Below(i)
    BY <1>2, <1>3
  <2>2. IsFiniteSet(Below(i))
    <3>1. IsFiniteSet(1..Len(notes))
      BY <1>2, FS_Interval
    <3>2. Below(i) \subseteq 1..Len(notes)
      BY <1>2
    <3> HIDE DEF Below
    <3> QED
      BY <3>1, <3>2, FS_Subset
  <2> HIDE DEF Below
  <2>3. IsFiniteSet(Below(j)) /\ Cardinality(Below(j)) <= Cardinality(Below(i))
    BY <2>1, <2>2, FS_Subset
  <2>4. Cardinality(Below(j)) \in Nat /\ Cardinality(Below(i)) \in Nat
    BY <2>2, <2>3, FS_CardinalityType
  <2> QED
    BY <1>3, <2>3, <2>4, NotificationBounds
<1> HIDE DEF Below
<1>4. \A i \in Batch, j \in Pending : j < i /\ j \notin Locked => j \in Batch
  BY <1>1, <1>3
<1> QED
  BY <1>1, <1>4

LEMMA DeviceSteps ==
    ASSUME AwareInv, DeviceNext, UNCHANGED <<schedVars, monitorVars>>
    PROVE  Kept
<1>1. /\ NotesOK(notes, Len(runs)) /\ AttentionOK(notes, attention) /\ DraftsOK(drafts, Len(runs))
      /\ Len(runs) \in Nat /\ runs' = runs /\ RunsInv'
  BY RunsFacts, RunsSame DEF AwareInv, LedgerInv, schedVars
<1>2. ASSUME NEW d \in Devices, Subscribe(d) \/ Unsubscribe(d) PROVE Kept
  <2>1. /\ UNCHANGED <<loops, notes, attention, drafts, shown, tries, disturbed>>
        /\ subs' = [subs EXCEPT ![d] = "enabled"] \/ subs' = [subs EXCEPT ![d] = "absent"]
    BY <1>2 DEF Subscribe, Unsubscribe, deliveryVars, ledgerVars
  <2>2. DispatchersOK /\ TriesOK /\ ShownOK
    BY DEF AwareInv, DeliveryInv
  <2>3. ASSUME NEW x \in Dispatchers
        PROVE  /\ disp'[x] \in Delivery /\ disp'[x].rows = disp[x].rows /\ disp'[x].left = disp[x].left
               /\ disp'[x].ok = disp[x].ok /\ disp'[x].gone = disp[x].gone
               /\ disp'[x].subs = disp[x].subs /\ (disp[x] = Idle => disp'[x] = Idle)
    <3>1. disp[x] \in Delivery
      BY <2>2 DEF DispatchersOK
    <3>2. CASE disp'[x] = disp[x]
      BY <3>1, <3>2
    <3>3. CASE disp'[x] = [disp[x] EXCEPT !.torn = TRUE] /\ d \in disp[x].subs
      <4>1. disp[x] # Idle
        BY <3>3 DEF Idle
      <4> QED
        BY <3>1, <3>3, <4>1 DEF Delivery
    <3> QED
      BY <1>2, <3>2, <3>3 DEF Subscribe, Unsubscribe, deliveryVars
  <2>4. disp' \in [Dispatchers -> Delivery]
    <3>1. disp' = [x \in Dispatchers |-> disp'[x]]
      BY <1>2, <2>2 DEF Subscribe, Unsubscribe, deliveryVars, DispatchersOK
    <3> QED
      BY <2>3, <3>1
  <2>5. Locked' = Locked /\ Pending' = Pending
    BY <2>1, <2>3 DEF Locked, Pending
  <2>6. \A i : Unsent(i)' <=> Unsent(i)
    BY <2>3, <2>5 DEF Unsent
  <2>7. DispatchersOK'
    BY <2>1, <2>2, <2>3, <2>4, <2>5 DEF DispatchersOK
  <2>8. TriesOK'
    BY <2>1, <2>2, <2>6 DEF TriesOK
  <2>9. ShownOK'
    BY <2>1, <2>2, <2>3, <2>5, <2>6 DEF ShownOK
  <2>10. Marked(notes, notes')
    <3>1. notes \in [DOMAIN notes -> NoteRow]
      BY <1>1, SeqProperties DEF NotesOK, Ledgers
    <3> QED
      BY <2>1, <3>1 DEF Marked, SameRow
  <2>11. AwareInv'
    BY <1>1, <2>1, <2>7, <2>8, <2>9, <2>10, MarkStep DEF DeliveryInv
  <2> QED
    BY <2>1, <2>11 DEF Kept, WakeKept
<1>3. CASE PushTest
  <2> DEFINE e == Event("push", PushThread, "warning", "test", 0)
  <2>1. /\ notes' = EmitAlone(notes, e) /\ Len(notes) < MaxNotes
        /\ UNCHANGED <<loops, attention, drafts, subs, disp, shown, tries, disturbed>>
    BY <1>3 DEF PushTest, Room, deviceVars, PushThread
  <2>2. e \in EventRow /\ e.thread = PushThread /\ e.origin = 0
    BY DEF Event, EventRow, Sources, Threads, Severities, Texts
  <2> HIDE DEF e
  <2>3. e.thread \notin ModelThreads /\ \A u \in Units : UnitThread(u) \notin {e.thread}
    BY <2>2, ThreadsApart
  <2>4. /\ Extends(notes, notes', {e.thread}) /\ Unnoted(notes, notes') /\ NotesOK(notes', Len(runs))
    <3>1. e.origin <= Len(runs)
      BY <1>1, <2>2
    <3> QED
      BY <1>1, <2>1, <2>2, <2>3, <3>1, EmitNotes
  <2>5. AttentionOK(notes', attention')
    <3>1. \A x \in Items : ItemThread(x) \notin {e.thread}
      BY <2>2, ThreadsApart
    <3> QED
      BY <1>1, <2>1, <2>4, <3>1, AttentionQuiet
  <2>6. Writes({e.thread})
    BY <1>1, <2>1, <2>3, <2>4, <2>5 DEF Writes
  <2> QED
    BY <1>1, <2>6, NoteStep
<1> QED
  BY <1>2, <1>3 DEF DeviceNext

\* What a step of a delivery may do to the rows: the ones that still wait for their
\* send waited before.
LEMMA WaitStep ==
    ASSUME AwareInv, UNCHANGED shown, DOMAIN notes' = DOMAIN notes,
           \A i \in DOMAIN notes : Unsent(i)' => Unsent(i)
    PROVE  /\ tries' = tries => TriesOK'
           /\ shown \in [Devices -> Seq(Nat)]
           /\ \A d \in Devices : \A k \in DOMAIN shown'[d] :
                 /\ shown'[d][k] \in DOMAIN notes'
                 /\ ~disturbed =>
                       /\ \A i \in DOMAIN notes' : Unsent(i)' => shown'[d][k] < i
                       /\ \A l \in DOMAIN shown'[d] : k < l => shown'[d][k] < shown'[d][l]
<1>1. TriesOK /\ ShownOK
  BY DEF AwareInv, DeliveryInv
<1>2. ASSUME tries' = tries PROVE TriesOK'
  <2>1. \A i \in 1..MaxNotes : i \notin DOMAIN notes' \/ Unsent(i)' => tries[i] = 0
    BY <1>1 DEF TriesOK
  <2> QED
    BY <1>1, <1>2, <2>1 DEF TriesOK
<1> QED
  BY <1>1, <1>2 DEF ShownOK

LEMMA SkipStep ==
    ASSUME AwareInv, NEW x \in Dispatchers, DeliverSkip(x), UNCHANGED <<schedVars, monitorVars>>
    PROVE  Kept
<1>1. /\ notes' = SetPush(Batch, "skipped")
      /\ UNCHANGED <<loops, attention, drafts, subs, disp, shown, tries, disturbed>>
  BY DEF DeliverSkip, deviceVars
<1>2. ASSUME NEW i \in DOMAIN notes
      PROVE  /\ notes'[i] \in NoteRow /\ SameRow(notes'[i], notes[i])
             /\ notes'[i].status = notes[i].status /\ notes'[i].wake = notes[i].wake
             /\ notes'[i].push = IF i \in Batch THEN "skipped" ELSE notes[i].push
  <2>1. notes[i] \in NoteRow /\ "skipped" \in PushStatuses
    BY DeliveryFacts DEF PushStatuses
  <2>2. CASE i \in Batch
    <3>1. notes'[i] = [notes[i] EXCEPT !.push = "skipped"]
      BY <1>1, <2>2 DEF SetPush
    <3> QED
      BY <2>1, <2>2, <3>1 DEF NoteRow, SameRow
  <2>3. CASE i \notin Batch
    <3>1. notes'[i] = notes[i]
      BY <1>1, <2>3 DEF SetPush
    <3> QED
      BY <2>1, <2>3, <3>1 DEF SameRow
  <2> QED
    BY <2>2, <2>3
<1>3. Marked(notes, notes') /\ WakeKept /\ DOMAIN notes' = DOMAIN notes
  BY <1>1, <1>2 DEF Marked, WakeKept, SetPush
<1>4. Locked' = Locked /\ Pending' = Pending \ Batch
  <2>1. Locked' = Locked
    BY <1>1 DEF Locked
  <2> QED
    BY <1>2, <1>3, <2>1 DEF Pending
<1>5. \A i \in DOMAIN notes : Unsent(i)' => Unsent(i)
  BY <1>1, <1>4 DEF Unsent
<1>6. DispatchersOK'
  <2>1. \A y \in Dispatchers : disp[y].rows \subseteq Pending'
    BY <1>4, DeliveryFacts, BatchFacts
  <2> QED
    BY <1>1, <2>1 DEF AwareInv, DeliveryInv, DispatchersOK
<1>7. TriesOK' /\ ShownOK'
  <2>1. ~disturbed => \A y \in Dispatchers : \A i \in disp'[y].rows, j \in Pending' :
                         j \notin disp'[y].rows => i < j
    BY <1>1, <1>4 DEF AwareInv, DeliveryInv, ShownOK
  <2>2. ~disturbed => \A y, z \in Dispatchers : y = z \/ disp'[y] = Idle \/ disp'[z] = Idle
    BY <1>1 DEF AwareInv, DeliveryInv, ShownOK
  <2>3. /\ TriesOK'
        /\ shown \in [Devices -> Seq(Nat)]
        /\ \A d \in Devices : \A k \in DOMAIN shown'[d] :
              /\ shown'[d][k] \in DOMAIN notes'
              /\ ~disturbed =>
                    /\ \A i \in DOMAIN notes' : Unsent(i)' => shown'[d][k] < i
                    /\ \A l \in DOMAIN shown'[d] : k < l => shown'[d][k] < shown'[d][l]
    BY <1>1, <1>3, <1>5, WaitStep
  <2> QED
    BY <1>1, <2>1, <2>2, <2>3 DEF ShownOK
<1>8. RunsInv' /\ Len(runs) <= Len(runs')
  BY RunsSame, RunsFacts DEF AwareInv, schedVars
<1>9. AwareInv'
  BY <1>1, <1>3, <1>6, <1>7, <1>8, MarkStep DEF DeliveryInv
<1> QED
  BY <1>3, <1>9 DEF Kept

\* A step of a delivery that leaves the ledger alone.
LEMMA SameLedger ==
    ASSUME AwareInv, UNCHANGED <<loops, notes, attention, drafts, schedVars, monitorVars>>, DeliveryInv'
    PROVE  Kept
<1>1. RunsInv' /\ Len(runs) <= Len(runs')
  BY RunsSame, RunsFacts DEF AwareInv, schedVars
<1>2. Marked(notes, notes')
  <2>1. notes \in [DOMAIN notes -> NoteRow]
    BY SeqProperties DEF AwareInv, LedgerInv, NotesOK, Ledgers
  <2> QED
    BY <2>1 DEF Marked, SameRow
<1>3. AwareInv'
  BY <1>1, <1>2, MarkStep
<1> QED
  BY <1>3 DEF Kept, WakeKept

LEMMA SelectStep ==
    ASSUME AwareInv, NEW x \in Dispatchers, DeliverSelect(x), UNCHANGED <<schedVars, monitorVars>>
    PROVE  Kept
<1>1. /\ UNCHANGED <<loops, notes, attention, drafts, subs, shown, tries>>
      /\ disp[x] = Idle
      /\ disp' = [disp EXCEPT ![x] = [Idle EXCEPT !.rows = Batch, !.subs = Enabled, !.left = Batch]]
      /\ disturbed' = (disturbed \/ \E y \in Dispatchers : disp[y] # Idle)
  BY DEF DeliverSelect, deviceVars, ledgerVars, MayDeliver
<1>2. DispatchersOK /\ TriesOK /\ ShownOK
  BY DEF AwareInv, DeliveryInv
<1>3. /\ Batch \subseteq Pending /\ Batch \cap Locked = {} /\ Pending \subseteq Nat
      /\ \A i \in Batch, j \in Pending : j < i /\ j \notin Locked => j \in Batch
  BY DeliveryFacts, BatchFacts
<1>4. /\ disp'[x].rows = Batch /\ disp'[x].left = Batch /\ disp'[x].ok = {} /\ disp'[x].gone = {}
      /\ disp'[x].subs = Enabled /\ disp'[x] \in Delivery
      /\ disp[x].rows = {} /\ disp[x].left = {}
      /\ \A y \in Dispatchers : y # x => disp'[y] = disp[y]
  <2>1. disp'[x] = [Idle EXCEPT !.rows = Batch, !.subs = Enabled, !.left = Batch]
    BY <1>1, <1>2 DEF DispatchersOK
  <2>2. Enabled \subseteq Devices
    BY DEF Enabled
  <2>3. \A y \in Dispatchers : y # x => disp'[y] = disp[y]
    BY <1>1, <1>2 DEF DispatchersOK
  <2>4. disp[x].rows = {} /\ disp[x].left = {}
    BY <1>1 DEF Idle
  <2> QED
    BY <1>3, <2>1, <2>2, <2>3, <2>4 DEF Idle, Delivery
<1>5. Pending' = Pending /\ DOMAIN notes' = DOMAIN notes
  BY <1>1 DEF Pending
<1>6. /\ \A i \in Locked : \E y \in Dispatchers : y # x /\ i \in disp[y].rows
      /\ \A y \in Dispatchers : disp[y].rows \subseteq Locked /\ disp[y].left \subseteq disp[y].rows
      /\ Locked \subseteq Locked'
  <2>1. \A i \in Locked : \E y \in Dispatchers : y # x /\ i \in disp[y].rows
    BY <1>4, DeliveryFacts
  <2>2. Locked \subseteq Locked'
    BY <1>4, <2>1 DEF Locked
  <2> QED
    BY <2>1, <2>2, DeliveryFacts
<1>7. \A i \in DOMAIN notes : Unsent(i)' => Unsent(i)
  <2> SUFFICES ASSUME NEW i \in DOMAIN notes, Unsent(i)', i \in Locked
               PROVE  \E y \in Dispatchers : i \in disp[y].left
    BY <1>5 DEF Unsent
  <2>1. PICK y \in Dispatchers : i \in disp'[y].left
    BY <1>6 DEF Unsent
  <2>2. y # x
    BY <1>3, <1>4, <2>1
  <2> QED
    BY <1>4, <2>1, <2>2
<1>8. DispatchersOK'
  <2>1. disp' \in [Dispatchers -> Delivery]
    BY <1>1, <1>2, <1>4 DEF DispatchersOK
  <2>2. ASSUME NEW y \in Dispatchers
        PROVE  /\ disp'[y].left \subseteq disp'[y].rows /\ disp'[y].ok \subseteq disp'[y].rows
               /\ disp'[y].rows \subseteq Pending' /\ disp'[y].gone \subseteq disp'[y].subs
    <3>1. CASE y = x
      BY <1>3, <1>4, <1>5, <3>1
    <3>2. CASE y # x
      <4>1. /\ disp[y].left \subseteq disp[y].rows /\ disp[y].ok \subseteq disp[y].rows
            /\ disp[y].rows \subseteq Pending /\ disp[y].gone \subseteq disp[y].subs
        BY <1>2 DEF DispatchersOK
      <4>2. disp'[y] = disp[y]
        BY <1>4, <3>2
      <4> QED
        BY <1>5, <4>1, <4>2
    <3> QED
      BY <3>1, <3>2
  <2>3. ASSUME NEW y \in Dispatchers, NEW z \in Dispatchers, y # z
        PROVE  disp'[y].rows \cap disp'[z].rows = {}
    <3>1. CASE y = x
      BY <1>3, <1>4, <1>6, <2>3, <3>1
    <3>2. CASE z = x
      BY <1>3, <1>4, <1>6, <2>3, <3>2
    <3>3. CASE y # x /\ z # x
      BY <1>2, <1>4, <2>3, <3>3 DEF DispatchersOK
    <3> QED
      BY <3>1, <3>2, <3>3
  <2> QED
    BY <1>1, <1>2, <2>1, <2>2, <2>3 DEF DispatchersOK
<1>9. TriesOK' /\ ShownOK'
  <2>1. ASSUME ~disturbed' PROVE /\ ~disturbed /\ Locked = {} /\ \A y \in Dispatchers : disp[y] = Idle
    <3>1. ~disturbed /\ \A y \in Dispatchers : disp[y] = Idle
      BY <1>1, <2>1
    <3> QED
      BY <3>1 DEF Locked, Idle
  <2>2. ASSUME ~disturbed', NEW y \in Dispatchers, NEW i \in disp'[y].rows, NEW j \in Pending',
               j \notin disp'[y].rows
        PROVE  i < j
    <3>1. y = x
      BY <1>4, <2>1, <2>2 DEF Idle
    <3>2. i \in Batch /\ j \notin Batch /\ j \in Pending /\ i \in Nat /\ j \in Nat
      BY <1>3, <1>4, <1>5, <2>2, <3>1
    <3>3. ~(j < i) /\ i # j
      BY <1>3, <2>1, <2>2, <3>2
    <3> QED
      BY <3>2, <3>3
  <2>3. ASSUME ~disturbed', NEW y \in Dispatchers, NEW z \in Dispatchers
        PROVE  y = z \/ disp'[y] = Idle \/ disp'[z] = Idle
    BY <1>4, <2>1, <2>3
  <2>4. /\ TriesOK'
        /\ shown \in [Devices -> Seq(Nat)]
        /\ \A d \in Devices : \A k \in DOMAIN shown'[d] :
              /\ shown'[d][k] \in DOMAIN notes'
              /\ ~disturbed =>
                    /\ \A i \in DOMAIN notes' : Unsent(i)' => shown'[d][k] < i
                    /\ \A l \in DOMAIN shown'[d] : k < l => shown'[d][k] < shown'[d][l]
    BY <1>1, <1>5, <1>7, WaitStep
  <2> QED
    BY <1>1, <2>1, <2>2, <2>3, <2>4 DEF ShownOK
<1> QED
  BY <1>1, <1>8, <1>9, SameLedger DEF DeliveryInv

\* A delivery ends.
LEMMA IdleFacts ==
    ASSUME AwareInv, NEW x \in Dispatchers, disp' = [disp EXCEPT ![x] = Idle]
    PROVE  /\ disp' \in [Dispatchers -> Delivery] /\ disp'[x] = Idle
           /\ \A y \in Dispatchers : y # x => disp'[y] = disp[y]
           /\ Locked' = Locked \ disp[x].rows
           /\ \A y \in Dispatchers : disp'[y].left \subseteq disp[y].left
           /\ \A y \in Dispatchers :
                 /\ disp'[y].left \subseteq disp'[y].rows /\ disp'[y].ok \subseteq disp'[y].rows
                 /\ disp'[y].rows \subseteq Pending \ disp[x].rows
                 /\ disp'[y].gone \subseteq disp'[y].subs
                 /\ \A z \in Dispatchers : y # z => disp'[y].rows \cap disp'[z].rows = {}
<1>1. DispatchersOK
  BY DEF AwareInv, DeliveryInv
<1>2. Idle \in Delivery
  BY DEF Idle, Delivery
<1>3. /\ disp' \in [Dispatchers -> Delivery] /\ disp'[x] = Idle
      /\ \A y \in Dispatchers : y # x => disp'[y] = disp[y]
  BY <1>1, <1>2 DEF DispatchersOK
<1>4. disp'[x].rows = {} /\ disp'[x].left = {} /\ disp'[x].ok = {} /\ disp'[x].gone = {}
  BY <1>3 DEF Idle
<1>5. \A y \in Dispatchers : y # x => disp[y].rows \cap disp[x].rows = {}
  BY <1>1 DEF DispatchersOK
<1>6. Locked' = Locked \ disp[x].rows
  <2>1. \A i \in Locked' : i \in Locked /\ i \notin disp[x].rows
    BY <1>3, <1>4, <1>5 DEF Locked
  <2>2. \A i \in Locked : i \in disp[x].rows \/ i \in Locked'
    BY <1>3 DEF Locked
  <2> QED
    BY <2>1, <2>2
<1>7. \A y \in Dispatchers :
         /\ disp'[y].left \subseteq disp'[y].rows /\ disp'[y].ok \subseteq disp'[y].rows
         /\ disp'[y].rows \subseteq Pending \ disp[x].rows /\ disp'[y].gone \subseteq disp'[y].subs
         /\ \A z \in Dispatchers : y # z => disp'[y].rows \cap disp'[z].rows = {}
  BY <1>1, <1>3, <1>4, <1>5 DEF DispatchersOK
<1>8. \A y \in Dispatchers : disp'[y].left \subseteq disp[y].left
  BY <1>3, <1>4
<1> QED
  BY <1>3, <1>6, <1>7, <1>8

LEMMA RollbackStep ==
    ASSUME AwareInv, NEW x \in Dispatchers, Rollback(x), UNCHANGED <<schedVars, monitorVars>>,
           UNCHANGED <<loops, notes, attention, drafts, subs, shown>>
    PROVE  Kept
<1>1. /\ disp' = [disp EXCEPT ![x] = Idle] /\ disturbed' = TRUE
      /\ tries' = [i \in DOMAIN tries |-> IF i \in disp[x].rows THEN 0 ELSE tries[i]]
  BY DEF Rollback
<1>2. DispatchersOK /\ TriesOK /\ ShownOK
  BY DEF AwareInv, DeliveryInv
<1>3. Pending' = Pending
  BY DEF Pending
<1>4. DispatchersOK'
  BY <1>1, <1>2, <1>3, IdleFacts DEF DispatchersOK
<1>5. TriesOK'
  <2>1. tries' \in [1..MaxNotes -> 0..1]
    BY <1>1, <1>2 DEF TriesOK
  <2>2. ASSUME NEW i \in 1..MaxNotes, i \notin DOMAIN notes' \/ Unsent(i)', i \notin disp[x].rows
        PROVE  tries[i] = 0
    <3>1. CASE i \notin DOMAIN notes
      BY <1>2, <3>1 DEF TriesOK
    <3>2. CASE Unsent(i)'
      <4>1. Unsent(i)
        <5>1. /\ Locked' = Locked \ disp[x].rows
              /\ \A y \in Dispatchers : disp'[y].left \subseteq disp[y].left
          BY <1>1, IdleFacts
        <5>2. i \in Pending /\ (i \in Locked' => \E y \in Dispatchers : i \in disp'[y].left)
          BY <1>3, <3>2 DEF Unsent
        <5> QED
          BY <2>2, <5>1, <5>2 DEF Unsent
      <4> QED
        BY <1>2, <4>1 DEF TriesOK
    <3> QED
      BY <2>2, <3>1, <3>2
  <2>3. \A i \in 1..MaxNotes : tries'[i] = IF i \in disp[x].rows THEN 0 ELSE tries[i]
    BY <1>1, <1>2 DEF TriesOK
  <2> QED
    BY <2>1, <2>2, <2>3 DEF TriesOK
<1>6. ShownOK'
  BY <1>1, <1>2 DEF ShownOK
<1> QED
  BY <1>4, <1>5, <1>6, SameLedger DEF DeliveryInv

LEMMA CommitStep ==
    ASSUME AwareInv, NEW x \in Dispatchers, DeliverCommit(x), UNCHANGED <<schedVars, monitorVars>>
    PROVE  Kept
<1>1. /\ disp' = [disp EXCEPT ![x] = Idle]
      /\ notes' = [i \in DOMAIN notes |-> IF i \in disp[x].rows
                                          THEN [notes[i] EXCEPT !.push = Outcome(x, i)] ELSE notes[i]]
      /\ subs' = [d \in Devices |-> IF d \in disp[x].gone THEN "disabled" ELSE subs[d]]
      /\ UNCHANGED <<loops, attention, drafts, shown, tries, disturbed>>
  BY DEF DeliverCommit
<1>2. DispatchersOK /\ TriesOK /\ ShownOK
  BY DEF AwareInv, DeliveryInv
<1>3. ASSUME NEW i \in DOMAIN notes
      PROVE  /\ notes'[i] \in NoteRow /\ SameRow(notes'[i], notes[i])
             /\ notes'[i].status = notes[i].status /\ notes'[i].wake = notes[i].wake
             /\ IF i \in disp[x].rows THEN notes'[i].push # "pending"
                                      ELSE notes'[i].push = notes[i].push
  <2>1. notes[i] \in NoteRow
    BY DeliveryFacts
  <2>2. CASE i \in disp[x].rows
    <3>1. notes'[i] = [notes[i] EXCEPT !.push = Outcome(x, i)]
      BY <1>1, <2>2
    <3>2. Outcome(x, i) \in PushStatuses /\ Outcome(x, i) # "pending"
      BY DEF Outcome, PushStatuses
    <3> QED
      BY <2>1, <2>2, <3>1, <3>2 DEF NoteRow, SameRow
  <2>3. CASE i \notin disp[x].rows
    <3>1. notes'[i] = notes[i]
      BY <1>1, <2>3
    <3> QED
      BY <2>1, <2>3, <3>1 DEF SameRow
  <2> QED
    BY <2>2, <2>3
<1>4. Marked(notes, notes') /\ WakeKept /\ DOMAIN notes' = DOMAIN notes
  BY <1>1, <1>3 DEF Marked, WakeKept
<1>5. Pending' = Pending \ disp[x].rows
  BY <1>3, <1>4 DEF Pending
<1>6. ASSUME NEW i \in DOMAIN notes, Unsent(i)' PROVE Unsent(i)
  <2>1. /\ Locked' = Locked \ disp[x].rows
        /\ \A y \in Dispatchers : disp'[y].left \subseteq disp[y].left
    BY <1>1, IdleFacts
  <2>2. /\ i \in Pending \ disp[x].rows
        /\ i \in Locked' => \E y \in Dispatchers : i \in disp'[y].left
    BY <1>5, <1>6 DEF Unsent
  <2> QED
    BY <2>1, <2>2 DEF Unsent
<1>7. DispatchersOK'
  <2>1. subs' \in [Devices -> {"absent", "enabled", "disabled"}]
    BY <1>1, <1>2 DEF DispatchersOK
  <2> QED
    BY <1>1, <1>5, <2>1, IdleFacts DEF DispatchersOK
<1>8. TriesOK' /\ ShownOK'
  <2>0. disp'[x] = Idle /\ \A y \in Dispatchers : y # x => disp'[y] = disp[y]
    BY <1>1, IdleFacts
  <2>1. disp'[x] = Idle /\ disp'[x].rows = {} /\ \A y \in Dispatchers : y # x => disp'[y] = disp[y]
    BY <2>0 DEF Idle
  <2>2. ~disturbed => \A y \in Dispatchers : \A i \in disp'[y].rows, j \in Pending' :
                         j \notin disp'[y].rows => i < j
    BY <1>2, <1>5, <2>1 DEF ShownOK
  <2>3. ~disturbed => \A y, z \in Dispatchers : y = z \/ disp'[y] = Idle \/ disp'[z] = Idle
    BY <1>2, <2>1 DEF ShownOK
  <2>4. /\ TriesOK'
        /\ shown \in [Devices -> Seq(Nat)]
        /\ \A d \in Devices : \A k \in DOMAIN shown'[d] :
              /\ shown'[d][k] \in DOMAIN notes'
              /\ ~disturbed =>
                    /\ \A i \in DOMAIN notes' : Unsent(i)' => shown'[d][k] < i
                    /\ \A l \in DOMAIN shown'[d] : k < l => shown'[d][k] < shown'[d][l]
    BY <1>1, <1>4, <1>6, WaitStep
  <2> QED
    BY <1>1, <2>2, <2>3, <2>4 DEF ShownOK
<1>9. RunsInv' /\ Len(runs) <= Len(runs')
  BY RunsSame, RunsFacts DEF AwareInv, schedVars
<1>10. AwareInv'
  BY <1>1, <1>4, <1>7, <1>8, <1>9, MarkStep DEF DeliveryInv
<1> QED
  BY <1>4, <1>10 DEF Kept

LEMMA SendStep ==
    ASSUME AwareInv, NEW x \in Dispatchers, DeliverSend(x), UNCHANGED <<schedVars, monitorVars>>
    PROVE  Kept
<1>00. PICK i : i = Min(disp[x].left)
  OBVIOUS
<1>0. PICK ok \in SUBSET disp[x].subs, gone \in SUBSET disp[x].subs :
        /\ disp' = [disp EXCEPT ![x].left = @ \ {i},
                                ![x].ok = IF ok = {} THEN @ ELSE @ \cup {i},
                                ![x].gone = @ \cup gone]
        /\ shown' = [d \in Devices |-> IF d \in ok THEN Append(shown[d], i) ELSE shown[d]]
        /\ tries' = [tries EXCEPT ![i] = Min({@ + 1, 2})]
  BY <1>00, Zenon DEF DeliverSend
<1>1. /\ UNCHANGED <<loops, notes, attention, drafts, subs, disturbed>> /\ disp[x].left # {}
  BY DEF DeliverSend, deviceVars, ledgerVars
<1>2. DispatchersOK /\ TriesOK /\ ShownOK
  BY DEF AwareInv, DeliveryInv
<1>3. /\ disp[x] \in Delivery /\ disp[x].rows \subseteq Pending /\ Pending \subseteq DOMAIN notes
      /\ DOMAIN notes = 1..Len(notes) /\ Len(notes) \in Nat /\ Len(notes) <= MaxNotes
      /\ MaxNotes \in Nat /\ disp[x].left \subseteq disp[x].rows /\ disp[x].rows \subseteq Locked
  BY DeliveryFacts
<1>4. i \in disp[x].left /\ \A j \in disp[x].left : i <= j
  BY <1>00, <1>1, <1>3, MinProperty DEF Delivery
<1>5. i \in Nat /\ i \in DOMAIN notes /\ i \in 1..MaxNotes /\ i \in Pending /\ i \in disp[x].rows
      /\ i \in Locked
  BY <1>3, <1>4
<1>6. /\ \A y \in Dispatchers : y # x => disp'[y] = disp[y]
      /\ disp'[x].rows = disp[x].rows /\ disp'[x].left = disp[x].left \ {i}
      /\ disp'[x].ok \subseteq disp[x].rows /\ disp'[x].subs = disp[x].subs
      /\ disp'[x].gone = disp[x].gone \cup gone
      /\ disp' \in [Dispatchers -> Delivery]
  <2>1. disp' = [disp EXCEPT ![x] = [disp[x] EXCEPT !.left = @ \ {i},
                                                    !.ok = IF ok = {} THEN @ ELSE @ \cup {i},
                                                    !.gone = @ \cup gone]]
    BY <1>0, <1>2, <1>3 DEF DispatchersOK, Delivery
  <2>2. disp'[x] = [disp[x] EXCEPT !.left = @ \ {i},
                                   !.ok = IF ok = {} THEN @ ELSE @ \cup {i}, !.gone = @ \cup gone]
    BY <1>2, <2>1 DEF DispatchersOK
  <2>3. \A y \in Dispatchers : y # x => disp'[y] = disp[y]
    BY <1>2, <2>1 DEF DispatchersOK
  <2>4. disp[x].ok \subseteq disp[x].rows
    BY <1>2 DEF DispatchersOK
  <2>5. /\ disp'[x] \in Delivery /\ disp'[x].rows = disp[x].rows /\ disp'[x].left = disp[x].left \ {i}
        /\ disp'[x].ok = (IF ok = {} THEN disp[x].ok ELSE disp[x].ok \cup {i})
        /\ disp'[x].subs = disp[x].subs /\ disp'[x].gone = disp[x].gone \cup gone
    <3>1. /\ disp[x].rows \in SUBSET Nat /\ disp[x].left \in SUBSET Nat /\ disp[x].ok \in SUBSET Nat
          /\ disp[x].subs \in SUBSET Devices /\ disp[x].gone \in SUBSET Devices
          /\ gone \in SUBSET Devices
      BY <1>3 DEF Delivery
    <3>2. PICK left, good, all : /\ left = disp[x].left \ {i} /\ all = disp[x].gone \cup gone
                                 /\ good = IF ok = {} THEN disp[x].ok ELSE disp[x].ok \cup {i}
      OBVIOUS
    <3>3. left \in SUBSET Nat /\ good \in SUBSET Nat /\ all \in SUBSET Devices
      BY <1>5, <3>1, <3>2
    <3>4. disp'[x] = [disp[x] EXCEPT !.left = left, !.ok = good, !.gone = all]
      BY <2>2, <3>2, Zenon
    <3>5. disp'[x] \in Delivery
      BY <1>3, <3>3, <3>4 DEF Delivery
    <3>6. /\ disp'[x].rows = disp[x].rows /\ disp'[x].left = left /\ disp'[x].ok = good
          /\ disp'[x].subs = disp[x].subs /\ disp'[x].gone = all
      BY <1>3, <3>4 DEF Delivery
    <3> QED
      BY <3>2, <3>5, <3>6
  <2>6. disp'[x].ok \subseteq disp[x].rows
    BY <1>5, <2>4, <2>5
  <2>7. disp' \in [Dispatchers -> Delivery]
    BY <1>2, <2>1, <2>3, <2>5 DEF DispatchersOK
  <2> QED
    BY <2>3, <2>5, <2>6, <2>7
<1>7. /\ Pending' = Pending /\ DOMAIN notes' = DOMAIN notes /\ Locked' = Locked
      /\ \A y \in Dispatchers : disp'[y].rows = disp[y].rows /\ disp'[y].left \subseteq disp[y].left
  <2>1. \A y \in Dispatchers : disp'[y].rows = disp[y].rows /\ disp'[y].left \subseteq disp[y].left
    BY <1>6
  <2> QED
    BY <1>1, <2>1 DEF Pending, Locked
<1>8. /\ \A j \in DOMAIN notes : Unsent(j)' => Unsent(j) /\ j # i
      /\ Unsent(i)
  <2>1. \A j : Unsent(j)' => Unsent(j)
    BY <1>7 DEF Unsent
  <2>2. \A y \in Dispatchers : i \notin disp'[y].left
    <3>1. \A y \in Dispatchers : y # x => i \notin disp[y].rows /\ disp[y].left \subseteq disp[y].rows
      BY <1>5, DeliveryFacts
    <3> QED
      BY <1>6, <3>1
  <2>3. ~Unsent(i)'
    BY <1>5, <1>7, <2>2 DEF Unsent
  <2> QED
    BY <1>4, <1>5, <2>1, <2>3 DEF Unsent
<1>9. DispatchersOK'
  <2>1. ASSUME NEW y \in Dispatchers
        PROVE  /\ disp'[y].left \subseteq disp'[y].rows /\ disp'[y].ok \subseteq disp'[y].rows
               /\ disp'[y].rows \subseteq Pending' /\ disp'[y].gone \subseteq disp'[y].subs
    <3>1. /\ disp[y].left \subseteq disp[y].rows /\ disp[y].ok \subseteq disp[y].rows
          /\ disp[y].rows \subseteq Pending /\ disp[y].gone \subseteq disp[y].subs
      BY <1>2 DEF DispatchersOK
    <3>2. CASE y = x
      BY <1>6, <1>7, <3>1, <3>2
    <3>3. CASE y # x
      <4>1. disp'[y] = disp[y]
        BY <1>6, <3>3
      <4> QED
        BY <1>7, <3>1, <4>1
    <3> QED
      BY <3>2, <3>3
  <2> QED
    BY <1>1, <1>2, <1>6, <1>7, <2>1 DEF DispatchersOK
<1>10. TriesOK'
  <2>1. tries[i] = 0
    BY <1>2, <1>5, <1>8 DEF TriesOK
  <2>2. tries'[i] = 1 /\ \A j \in 1..MaxNotes : j # i => tries'[j] = tries[j]
    <3>1. Min({0 + 1, 2}) = 1
      BY MinOfTwo
    <3> QED
      BY <1>0, <1>2, <1>5, <2>1, <3>1 DEF TriesOK
  <2>3. tries' \in [1..MaxNotes -> 0..1]
    <3>1. tries' = [j \in 1..MaxNotes |-> tries'[j]]
      BY <1>0, <1>2 DEF TriesOK
    <3>2. \A j \in 1..MaxNotes : tries'[j] \in 0..1
      BY <1>2, <2>2 DEF TriesOK
    <3> QED
      BY <3>1, <3>2
  <2>4. \A j \in 1..MaxNotes : j \notin DOMAIN notes' \/ Unsent(j)' => tries'[j] = 0
    <3> SUFFICES ASSUME NEW j \in 1..MaxNotes, j \notin DOMAIN notes' \/ Unsent(j)'
                 PROVE  tries'[j] = 0
      OBVIOUS
    <3>1. j # i
      BY <1>5, <1>7, <1>8
    <3>2. j \notin DOMAIN notes \/ Unsent(j)
      BY <1>7, <1>8
    <3> QED
      BY <1>2, <2>2, <3>1, <3>2 DEF TriesOK
  <2> QED
    BY <2>3, <2>4 DEF TriesOK
<1>11. ASSUME NEW d \in Devices
       PROVE  /\ shown'[d] \in Seq(Nat)
              /\ \A k \in DOMAIN shown'[d] :
                    \/ k \in DOMAIN shown[d] /\ shown'[d][k] = shown[d][k]
                    \/ shown'[d][k] = i /\ \A l \in DOMAIN shown'[d] : l <= k
  <2>1. shown[d] \in Seq(Nat)
    BY <1>2 DEF ShownOK
  <2>2. CASE d \in ok
    <3>1. shown'[d] = Append(shown[d], i)
      BY <1>0, <2>2
    <3>2. Len(shown[d]) \in Nat /\ DOMAIN shown[d] = 1..Len(shown[d])
      BY <2>1, SeqProperties
    <3>3. /\ DOMAIN shown'[d] = DOMAIN shown[d] \cup {Len(shown[d]) + 1}
          /\ \A k \in DOMAIN shown[d] : shown'[d][k] = shown[d][k]
          /\ shown'[d][Len(shown[d]) + 1] = i /\ shown'[d] \in Seq(Nat)
      BY <1>5, <2>1, <3>1, AppendProperties, SeqAppend
    <3> QED
      BY <3>2, <3>3
  <2>3. CASE d \notin ok
    BY <1>0, <2>1, <2>3
  <2> QED
    BY <2>2, <2>3
<1>12. ShownOK'
  <2>1. shown' \in [Devices -> Seq(Nat)]
    BY <1>0, <1>11
  <2>2. ASSUME NEW d \in Devices, NEW k \in DOMAIN shown'[d] PROVE shown'[d][k] \in DOMAIN notes'
    BY <1>2, <1>5, <1>7, <1>11 DEF ShownOK
  <2>3. ASSUME ~disturbed
        PROVE  /\ \A y \in Dispatchers : y # x => disp[y] = Idle /\ disp[y].left = {}
               /\ \A j \in Pending : j \notin disp[x].rows => i < j
    <3>1. disp[x] # Idle
      BY <1>1 DEF Idle
    <3>2. \A y \in Dispatchers : y # x => disp[y] = Idle
      BY <1>2, <2>3, <3>1 DEF ShownOK
    <3>3. \A y \in Dispatchers : y # x => disp[y].left = {}
      BY <3>2 DEF Idle
    <3> QED
      BY <1>2, <1>5, <2>3, <3>2, <3>3 DEF ShownOK
  <2>4. ASSUME ~disturbed, NEW j \in DOMAIN notes, Unsent(j)' PROVE i < j
    <3>1. Unsent(j) /\ j # i /\ j \in Nat /\ j \in Pending
      BY <1>3, <1>8, <2>4 DEF Unsent
    <3>2. CASE j \in disp[x].rows
      <4>1. j \in Locked
        BY <1>3, <3>2
      <4>2. PICK y \in Dispatchers : j \in disp[y].left
        BY <3>1, <4>1 DEF Unsent
      <4>3. j \in disp[x].left
        BY <2>3, <2>4, <4>2
      <4> QED
        BY <1>4, <1>5, <3>1, <4>3
    <3> QED
      BY <2>3, <2>4, <3>1, <3>2
  <2>5. ASSUME ~disturbed, NEW d \in Devices, NEW k \in DOMAIN shown'[d]
        PROVE  /\ \A j \in DOMAIN notes' : Unsent(j)' => shown'[d][k] < j
               /\ \A l \in DOMAIN shown'[d] : k < l => shown'[d][k] < shown'[d][l]
    <3>0. \A l \in DOMAIN shown'[d] : l \in Nat
      BY <1>11, SeqProperties
    <3>1. CASE k \in DOMAIN shown[d] /\ shown'[d][k] = shown[d][k]
      <4>1. \A j \in DOMAIN notes' : Unsent(j)' => shown'[d][k] < j
        BY <1>2, <1>7, <1>8, <2>5, <3>1 DEF ShownOK
      <4>2. shown[d][k] < i
        BY <1>2, <1>5, <1>8, <2>5, <3>1 DEF ShownOK
      <4>3. ASSUME NEW l \in DOMAIN shown'[d], k < l PROVE shown'[d][k] < shown'[d][l]
        BY <1>2, <1>11, <2>5, <3>1, <4>2, <4>3 DEF ShownOK
      <4> QED
        BY <4>1, <4>3
    <3>2. CASE shown'[d][k] = i /\ \A l \in DOMAIN shown'[d] : l <= k
      BY <1>7, <2>4, <2>5, <3>0, <3>2
    <3> QED
      BY <1>11, <2>5, <3>1, <3>2
  <2>6. ASSUME ~disturbed, NEW y \in Dispatchers, NEW z \in Dispatchers
        PROVE  y = z \/ disp'[y] = Idle \/ disp'[z] = Idle
    BY <1>6, <2>3, <2>6
  <2>7. ~disturbed => \A y \in Dispatchers : \A j \in disp'[y].rows, l \in Pending' :
                         l \notin disp'[y].rows => j < l
    BY <1>2, <1>7 DEF ShownOK
  <2> QED
    BY <1>1, <2>1, <2>2, <2>5, <2>6, <2>7 DEF ShownOK
<1> QED
  BY <1>1, <1>9, <1>10, <1>12, SameLedger DEF DeliveryInv

LEMMA DeliverySteps ==
    ASSUME AwareInv, DeliveryNext, UNCHANGED <<schedVars, monitorVars>>
    PROVE  Kept
<1>1. ASSUME NEW x \in Dispatchers, DeliverTorn(x) \/ DeliverLost(x) PROVE Kept
  BY <1>1, RollbackStep DEF DeliverTorn, DeliverLost, ledgerVars, deviceVars
<1>2. CASE TestDone
  <2>1. UNCHANGED <<loops, notes, attention, drafts, subs, disp, shown, tries, disturbed>>
    BY <1>2 DEF TestDone, ledgerVars, deviceVars
  <2>2. Pending' = Pending /\ Locked' = Locked
    BY <2>1 DEF Pending, Locked
  <2>3. \A i : Unsent(i)' <=> Unsent(i)
    BY <2>1, <2>2 DEF Unsent
  <2>4. DeliveryInv'
    BY <2>1, <2>2, <2>3 DEF AwareInv, DeliveryInv, DispatchersOK, TriesOK, ShownOK
  <2> QED
    BY <2>1, <2>4, SameLedger
<1> QED
  BY <1>1, <1>2, SkipStep, SelectStep, SendStep, CommitStep DEF DeliveryNext, DeliveryStep

-----------------------------------------------------------------------------
(* The scheduler.                                                          *)

\* A step of the scheduler that writes nothing to the ledger.
LEMMA SchedOnly ==
    ASSUME AwareInv, UNCHANGED <<noteVars, monitorVars>>, Len(runs) <= Len(runs'), RunsInv'
    PROVE  Kept
<1>1. UNCHANGED <<loops, notes, attention, drafts, subs, disp, shown, tries, disturbed>>
  BY DEF noteVars
<1>2. notes \in Ledgers
  BY DEF AwareInv, LedgerInv, NotesOK
<1>3. DeliveryInv'
  <2>1. Extends(notes, notes', {}) /\ SamePush(notes, notes')
    BY <1>1, <1>2, ExtendsSame DEF SamePush
  <2> QED
    BY <1>1, <2>1, DeliveryQuiet DEF AwareInv
<1>4. Marked(notes, notes')
  <2>1. notes \in [DOMAIN notes -> NoteRow]
    BY <1>2, SeqProperties DEF Ledgers
  <2> QED
    BY <1>1, <2>1 DEF Marked, SameRow
<1>5. AwareInv'
  BY <1>1, <1>3, <1>4, MarkStep
<1> QED
  BY <1>1, <1>5 DEF Kept, WakeKept

\* The owner edits a task: the status it shows stays.
LEMMA TaskStep ==
    ASSUME RunsInv, UNCHANGED <<runs, poll>>, task' \in [Tasks -> TaskRow],
           \A s \in Tasks : RunsOf(s) # {} /\ task'[s].kind # "none" =>
                               task[s].kind # "none" /\ task'[s].last = task[s].last
    PROVE  RunsInv'
<1>1. ASSUME NEW r \in DOMAIN runs, task'[runs[r].task].kind # "none",
             \A q \in DOMAIN runs : r < q => runs[q].task # runs[r].task
      PROVE  Shows(runs[r].task, r)'
  <2>1. r \in RunsOf(runs[r].task) /\ runs[r].task \in Tasks
    BY RunsFacts DEF RunsOf, RunRow
  <2>2. Shows(runs[r].task, r)
    BY <1>1, <2>1 DEF RunsInv
  <2> QED
    BY <1>1, <2>1, <2>2 DEF Shows
<1> QED
  BY <1>1 DEF RunsInv

\* A step that moves the loop on and touches neither task nor run.
PollMoves ==
    /\ poll'.at \in {"due", "events", "run", "dead"} /\ poll'.run \in 0..Len(runs)
    /\ poll' = PollOf(poll')
    /\ poll'.queue \subseteq poll.queue

LEMMA PollStep ==
    ASSUME RunsInv, UNCHANGED <<task, runs>>, PollMoves
    PROVE  RunsInv'
<1>1. \A s, r : Shows(s, r)' <=> Shows(s, r)
  BY DEF Shows
<1> QED
  BY <1>1 DEF RunsInv, PollMoves

\* The run that is written is the newest of its task.
Settles(r, run) ==
    /\ r \in DOMAIN runs /\ runs[r].status \in OUTSTANDING /\ runs[r].inference # "queued"
    /\ run \in RunRow /\ run.task = runs[r].task /\ run.inference # "queued"
    /\ SetRun(r, run) /\ PollMoves

LEMMA SetRunStep ==
    ASSUME RunsInv, NEW r, NEW run, Settles(r, run)
    PROVE  RunsInv' /\ Len(runs') = Len(runs)
<1> DEFINE s == run.task
           new == [run EXCEPT !.status = Aggregate(run)]
<1>1. /\ r \in DOMAIN runs /\ runs[r].status \in OUTSTANDING /\ runs[r].inference # "queued"
      /\ run \in RunRow /\ runs[r].task = s /\ run.inference # "queued" /\ PollMoves
  BY DEF Settles
<1>2. /\ runs' = [runs EXCEPT ![r] = new]
      /\ task' = [task EXCEPT ![s].last = IF task[s].kind = "none" THEN @ ELSE Aggregate(run)]
  BY DEF Settles, SetRun
<1>3. /\ Aggregate(run) \in {"uncertain", "waiting_for_owner", "running", "finished"}
      /\ s \in Tasks
  BY <1>1 DEF Aggregate, RunRow
<1>4. /\ new \in RunRow /\ new.status = Aggregate(run) /\ new.task = s /\ new.inference # "queued"
      /\ new.inference = run.inference /\ new.action = run.action
  BY <1>1, <1>3 DEF RunRow, OUTSTANDING
<1>5. RunOK(new)
  <2>1. Aggregate(new) = Aggregate(run)
    BY <1>4 DEF Aggregate
  <2> QED
    BY <1>4, <2>1 DEF RunOK
<1> HIDE DEF new
<1>6. /\ Len(runs) \in Nat /\ DOMAIN runs = 1..Len(runs) /\ Len(runs) <= MaxRuns
      /\ task \in [Tasks -> TaskRow] /\ runs \in Seq(RunRow)
      /\ \A q \in DOMAIN runs : runs[q] \in RunRow /\ RunOK(runs[q])
  BY RunsFacts DEF RunsInv
<1>7. /\ runs' \in Seq(RunRow) /\ Len(runs') = Len(runs) /\ DOMAIN runs' = DOMAIN runs
      /\ runs'[r] = new /\ \A q \in DOMAIN runs : q # r => runs'[q] = runs[q]
  BY <1>1, <1>2, <1>4, <1>6
<1>8. \A q \in DOMAIN runs : runs'[q].task = runs[q].task /\ RunOK(runs'[q])
  BY <1>1, <1>4, <1>5, <1>6, <1>7
<1>9. /\ task' \in [Tasks -> TaskRow] /\ \A t \in Tasks : task'[t].kind = task[t].kind
      /\ \A t \in Tasks : t # s => task'[t] = task[t]
      /\ task[s].kind # "none" => task'[s].last = Aggregate(run)
  <2>1. task[s] \in TaskRow
    BY <1>3, <1>6
  <2>2. PICK row : row = [task[s] EXCEPT !.last = IF task[s].kind = "none" THEN task[s].last
                                                  ELSE Aggregate(run)]
    OBVIOUS
  <2>3. row \in TaskRow /\ row.kind = task[s].kind /\ (task[s].kind # "none" => row.last = Aggregate(run))
    BY <1>3, <2>1, <2>2 DEF TaskRow, OUTSTANDING
  <2>4. task' = [task EXCEPT ![s] = row]
    BY <1>2, <2>2, Zenon
  <2> QED
    BY <1>3, <1>6, <2>3, <2>4
<1>10. \A q \in DOMAIN runs : r < q => runs[q].task # s
  BY <1>1 DEF RunsInv
<1>11. poll'.queue \subseteq {q \in DOMAIN runs' : runs'[q].inference = "queued"}
  BY <1>1, <1>7 DEF RunsInv, PollMoves
<1>12. ASSUME NEW p \in DOMAIN runs', NEW q \in DOMAIN runs', runs'[p].task = runs'[q].task, p < q
       PROVE  runs'[p].status \notin OUTSTANDING
  <2>1. p \in DOMAIN runs /\ q \in DOMAIN runs /\ runs[p].task = runs[q].task
    BY <1>7, <1>8, <1>12
  <2>2. p # r
    BY <1>1, <1>10, <1>12, <2>1
  <2> QED
    BY <1>7, <1>12, <2>1, <2>2 DEF RunsInv
<1>13. ASSUME NEW q \in DOMAIN runs', task'[runs'[q].task].kind # "none",
              \A p \in DOMAIN runs' : q < p => runs'[p].task # runs'[q].task
       PROVE  \/ task'[runs'[q].task].last = runs'[q].status
              \/ task'[runs'[q].task].last = "queued" /\ runs'[q].status = "running"
  <2>1. q \in DOMAIN runs /\ runs'[q].task = runs[q].task /\ runs[q].task \in Tasks
    BY <1>6, <1>7, <1>8 DEF RunRow
  <2>2. \A p \in DOMAIN runs : q < p => runs[p].task # runs[q].task
    BY <1>7, <1>8, <1>13
  <2>3. CASE q = r
    <3>1. runs'[q] = new /\ runs'[q].task = s
      BY <1>4, <1>7, <2>3
    <3>2. task[s].kind # "none"
      BY <1>3, <1>9, <1>13, <3>1
    <3>3. task'[s].last = Aggregate(run) /\ runs'[q].status = Aggregate(run)
      BY <1>4, <1>9, <3>1, <3>2
    <3> QED
      BY <3>1, <3>3
  <2>4. CASE q # r
    <3>1. runs[q].task # s
      <4>1. q < r \/ r < q
        BY <1>1, <1>6, <2>1, <2>4
      <4> QED
        BY <1>1, <1>10, <2>1, <2>2, <4>1
    <3>2. task'[runs[q].task] = task[runs[q].task] /\ runs'[q] = runs[q]
      BY <1>7, <1>9, <2>1, <2>4, <3>1
    <3>3. Shows(runs[q].task, q)
      BY <1>13, <2>1, <2>2, <3>2 DEF RunsInv
    <3>4. \/ task[runs[q].task].last = runs[q].status
          \/ task[runs[q].task].last = "queued" /\ runs[q].status = "running"
      BY <3>3 DEF Shows
    <3> QED
      BY <2>1, <3>2, <3>4
  <2> QED
    BY <2>3, <2>4
<1>14. RunsInv'
  BY <1>1, <1>6, <1>7, <1>8, <1>9, <1>11, <1>12, <1>13 DEF RunsInv, Shows, PollMoves
<1> QED
  BY <1>7, <1>14

\* Occurrences are queued: each for a task without an outstanding run, one for a task.
Queues(new, n) ==
    /\ n \in Nat /\ new \in [1..n -> RunRow] /\ Len(runs) + n <= MaxRuns
    /\ \A k \in 1..n : /\ new[k].status = "queued" /\ new[k].inference = "queued"
                       /\ new[k].action = "none" /\ ~Outstanding(new[k].task)
    /\ \A k, l \in 1..n : new[k].task = new[l].task => k = l
    /\ runs' = runs \o new
    /\ task' \in [Tasks -> TaskRow]
    /\ \A s \in Tasks : IF \E k \in 1..n : new[k].task = s
                        THEN task'[s].last = "queued"
                        ELSE task'[s] = task[s]
    /\ poll'.at \in {"due", "events", "run", "dead"} /\ poll'.run \in 0..Len(runs)
    /\ poll' = PollOf(poll')
    /\ poll'.queue \subseteq {r \in DOMAIN runs' : runs'[r].inference = "queued"}

LEMMA QueueStep ==
    ASSUME RunsInv, NEW new, NEW n, Queues(new, n)
    PROVE  /\ RunsInv' /\ Len(runs') = Len(runs) + n
           /\ \A k \in 1..n : Len(runs) + k \in DOMAIN runs' /\ runs'[Len(runs) + k] = new[k]
<1>1. /\ n \in Nat /\ new \in [1..n -> RunRow] /\ Len(runs) + n <= MaxRuns
      /\ \A k \in 1..n : /\ new[k].status = "queued" /\ new[k].inference = "queued"
                         /\ new[k].action = "none" /\ ~Outstanding(new[k].task)
      /\ \A k, l \in 1..n : new[k].task = new[l].task => k = l
      /\ runs' = runs \o new /\ task' \in [Tasks -> TaskRow]
      /\ \A s \in Tasks : IF \E k \in 1..n : new[k].task = s
                          THEN task'[s].last = "queued"
                          ELSE task'[s] = task[s]
  BY DEF Queues
<1>2. /\ poll'.at \in {"due", "events", "run", "dead"} /\ poll'.run \in 0..Len(runs)
      /\ poll' = PollOf(poll')
      /\ poll'.queue \subseteq {r \in DOMAIN runs' : runs'[r].inference = "queued"}
  BY DEF Queues
<1>3. /\ Len(runs) \in Nat /\ DOMAIN runs = 1..Len(runs) /\ Len(runs) <= MaxRuns
      /\ task \in [Tasks -> TaskRow] /\ runs \in Seq(RunRow)
      /\ \A q \in DOMAIN runs : runs[q] \in RunRow /\ RunOK(runs[q])
  BY RunsFacts DEF RunsInv
<1> DEFINE m == Len(runs)
<1>4. new \in Seq(RunRow) /\ Len(new) = n
  BY <1>1, FunctionIsSeq
<1>5. /\ runs' \in Seq(RunRow) /\ Len(runs') = m + n
      /\ \A r \in 1..m : runs'[r] = runs[r]
      /\ \A k \in 1..n : runs'[m + k] = new[k]
  <2>1. runs \in Seq(RunRow) /\ new \in Seq(RunRow)
    BY <1>3, <1>4
  <2>2. /\ runs \o new \in Seq(RunRow) /\ Len(runs \o new) = Len(runs) + Len(new)
        /\ \A i \in 1..Len(runs) : (runs \o new)[i] = runs[i]
        /\ \A i \in 1..Len(new) : (runs \o new)[Len(runs) + i] = new[i]
    BY <2>1, ConcatFacts
  <2>3. PICK both : both = runs \o new
    OBVIOUS
  <2>4. runs' = both
    BY <1>1, <2>3
  <2>5. /\ both \in Seq(RunRow) /\ Len(both) = Len(runs) + n
        /\ \A i \in 1..Len(runs) : both[i] = runs[i]
        /\ \A i \in 1..n : both[Len(runs) + i] = new[i]
    BY <1>4, <2>2, <2>3, Zenon
  <2> QED
    BY <2>4, <2>5
<1>6. /\ DOMAIN runs' = 1..(m + n)
      /\ \A r \in 1..m : r \in DOMAIN runs' /\ r \in DOMAIN runs
      /\ \A k \in 1..n : m + k \in DOMAIN runs' /\ m + k \notin DOMAIN runs
      /\ \A r \in DOMAIN runs' : r \in 1..m \/ \E k \in 1..n : r = m + k
  <2>1. DOMAIN runs' = 1..(m + n)
    BY <1>5, SeqProperties
  <2>2. \A r \in 1..(m + n) : r \in 1..m \/ (r - m \in 1..n /\ r = m + (r - m))
    BY <1>1, <1>3
  <2>3. m \in Nat /\ DOMAIN runs = 1..m
    BY <1>3
  <2> HIDE DEF m
  <2>4. /\ \A r \in 1..m : r \in 1..(m + n)
        /\ \A k \in 1..n : m + k \in 1..(m + n) /\ m + k \notin 1..m
    BY <1>1, <2>3
  <2> QED
    BY <2>1, <2>2, <2>3, <2>4
<1> HIDE DEF m
<1>7. \A k \in 1..n : new[k] \in RunRow /\ RunOK(new[k]) /\ new[k].task \in Tasks
  BY <1>1 DEF RunOK, RunRow
<1>8. \A r \in DOMAIN runs' : RunOK(runs'[r])
  BY <1>3, <1>5, <1>6, <1>7
<1>9. ASSUME NEW p \in DOMAIN runs', NEW q \in DOMAIN runs', runs'[p].task = runs'[q].task, p < q
      PROVE  runs'[p].status \notin OUTSTANDING
  <2>1. CASE p \in 1..m /\ q \in 1..m
    BY <1>5, <1>6, <1>9, <2>1 DEF RunsInv
  <2>2. ASSUME p \in 1..m, NEW k \in 1..n, q = m + k PROVE runs[p].status \notin OUTSTANDING
    <3>1. runs[p].task = new[k].task /\ p \in DOMAIN runs
      BY <1>5, <1>6, <1>9, <2>2
    <3> QED
      BY <1>1, <3>1 DEF Outstanding, RunsOf
  <2>3. ASSUME NEW k \in 1..n, p = m + k, q \in 1..m PROVE FALSE
    BY <1>3, <1>9, <2>3 DEF m
  <2>4. ASSUME NEW k \in 1..n, p = m + k, NEW l \in 1..n, q = m + l PROVE FALSE
    <3>1. new[k].task = new[l].task
      BY <1>5, <1>9, <2>4
    <3>2. k = l
      BY <1>1, <3>1
    <3> QED
      BY <1>3, <1>9, <2>4, <3>2 DEF m
  <2> QED
    BY <1>5, <1>6, <2>1, <2>2, <2>3, <2>4
<1>10. ASSUME NEW q \in DOMAIN runs', task'[runs'[q].task].kind # "none",
              \A p \in DOMAIN runs' : q < p => runs'[p].task # runs'[q].task
       PROVE  \/ task'[runs'[q].task].last = runs'[q].status
              \/ task'[runs'[q].task].last = "queued" /\ runs'[q].status = "running"
  <2>1. CASE q \in 1..m
    <3>1. runs'[q] = runs[q] /\ q \in DOMAIN runs /\ runs[q].task \in Tasks
      BY <1>3, <1>5, <1>6, <2>1 DEF RunRow
    <3>2. ~\E k \in 1..n : new[k].task = runs[q].task
      <4>1. \A k \in 1..n : q < m + k /\ runs'[m + k] = new[k] /\ m + k \in DOMAIN runs'
        BY <1>3, <1>5, <1>6, <2>1 DEF m
      <4> QED
        BY <1>10, <3>1, <4>1
    <3>3. task'[runs[q].task] = task[runs[q].task]
      BY <1>1, <3>1, <3>2
    <3>4. \A p \in DOMAIN runs : q < p => runs[p].task # runs[q].task
      BY <1>3, <1>5, <1>6, <1>10, <3>1 DEF m
    <3>5. Shows(runs[q].task, q)
      BY <1>10, <3>1, <3>3, <3>4 DEF RunsInv
    <3>6. \/ task[runs[q].task].last = runs[q].status
          \/ task[runs[q].task].last = "queued" /\ runs[q].status = "running"
      BY <3>5 DEF Shows
    <3> QED
      BY <3>1, <3>3, <3>6
  <2>2. ASSUME NEW k \in 1..n, q = m + k PROVE task'[runs'[q].task].last = runs'[q].status
    <3>1. runs'[q] = new[k] /\ new[k].status = "queued" /\ new[k].task \in Tasks
      BY <1>1, <1>5, <1>7, <2>2
    <3>2. task'[new[k].task].last = "queued"
      BY <1>1, <3>1
    <3> QED
      BY <3>1, <3>2
  <2> QED
    BY <1>6, <2>1, <2>2
<1>11. Len(runs') <= MaxRuns /\ poll'.run \in 0..Len(runs')
  BY <1>1, <1>2, <1>3, <1>5, ScheduleBounds DEF ScheduleBounds, m
<1>12. RunsInv'
  BY <1>1, <1>2, <1>5, <1>8, <1>9, <1>10, <1>11 DEF RunsInv, Shows
<1> QED
  BY <1>5, <1>6, <1>12 DEF m

LEMMA AdvanceFacts ==
    ASSUME NEW t \in TaskRow
    PROVE  Advance(t) \in TaskRow /\ Advance(t).last = "queued"
<1>1. t.slot \in Nat /\ t.slot + 1 \in Nat
  BY DEF TaskRow
<1> QED
  BY <1>1 DEF Advance, TaskRow, OUTSTANDING

LEMMA OccurrenceFacts ==
    ASSUME task \in [Tasks -> TaskRow], NEW s \in Tasks, NEW i \in 0..MaxNotes
    PROVE  LET o == Occurrence(s, i)
           IN  /\ o \in RunRow /\ o.task = s /\ o.note = i
               /\ o.status = "queued" /\ o.inference = "queued" /\ o.action = "none"
<1>1. task[s].slot \in Nat
  BY DEF TaskRow
<1> QED
  BY <1>1 DEF Occurrence, RunRow, OUTSTANDING

\* A list without repetitions of all members of a finite set.
LEMMA Listing ==
    ASSUME NEW S, IsFiniteSet(S), NEW order \in [1..Cardinality(S) -> S],
           \A p \in S : \E k \in DOMAIN order : order[k] = p
    PROVE  /\ Cardinality(S) \in Nat
           /\ \A k, l \in 1..Cardinality(S) : order[k] = order[l] => k = l
<1> DEFINE n == Cardinality(S)
<1>1. n \in Nat
  BY FS_CardinalityType
<1>2. IsFiniteSet(1..n) /\ Cardinality(1..n) = n
  BY <1>1, FS_Interval
<1>3. order \in Surjection(1..n, S)
  BY DEF Surjection
<1>4. order \in Injection(1..n, S)
  BY <1>2, <1>3, FS_SurjSameCardinalityImpliesInj
<1> QED
  BY <1>1, <1>4 DEF Injection, IsInjective

LEMMA ClaimDueStep ==
    ASSUME AwareInv, NEW held, ClaimDue(held), UNCHANGED monitorVars
    PROVE  Kept
<1> DEFINE Mine == Claims(held)
<1>1. PICK order \in [1..Cardinality(Mine) -> Mine] :
         /\ \A s \in Mine : \E k \in DOMAIN order : order[k] = s
         /\ runs' = runs \o [k \in DOMAIN order |-> Occurrence(order[k], 0)]
  BY DEF ClaimDue
<1> DEFINE n == Cardinality(Mine)
           new == [k \in DOMAIN order |-> Occurrence(order[k], 0)]
<1>2. /\ Len(runs) + n <= MaxRuns /\ poll' = [poll EXCEPT !.at = "events"]
      /\ task' = [s \in Tasks |-> IF s \in Mine THEN Advance(task[s]) ELSE task[s]]
      /\ UNCHANGED noteVars
  BY DEF ClaimDue
<1>3. Mine \subseteq Tasks /\ IsFiniteSet(Mine) /\ \A s \in Mine : ~Outstanding(s)
  BY FS_Subset, ScheduleBounds DEF Claims, Ripe, ScheduleBounds
<1> HIDE DEF Mine
<1>4. n \in Nat /\ \A k, l \in 1..n : order[k] = order[l] => k = l
  BY <1>1, <1>3, Listing
<1>5. /\ task \in [Tasks -> TaskRow] /\ 0 \in 0..MaxNotes
      /\ poll = PollOf(poll) /\ poll.run \in 0..Len(runs)
      /\ poll.queue \subseteq {r \in DOMAIN runs : runs[r].inference = "queued"}
      /\ Len(runs) \in Nat /\ DOMAIN runs = 1..Len(runs) /\ runs \in Seq(RunRow) /\ RunsInv
  BY RunsFacts, NotificationBounds DEF AwareInv, RunsInv
<1>6. ASSUME NEW k \in 1..n
      PROVE  /\ new[k] \in RunRow /\ new[k].task = order[k]
             /\ new[k].status = "queued" /\ new[k].inference = "queued" /\ new[k].action = "none"
             /\ order[k] \in Mine
  <2>1. order[k] \in Mine /\ order[k] \in Tasks /\ new[k] = Occurrence(order[k], 0)
    BY <1>1, <1>3
  <2> HIDE DEF new
  <2> QED
    BY <1>5, <2>1, OccurrenceFacts
<1>7. new \in [1..n -> RunRow] /\ runs' = runs \o new
  <2>1. new = [k \in 1..n |-> new[k]]
    BY <1>1
  <2>2. runs' = runs \o new
    BY <1>1
  <2> HIDE DEF new, n
  <2> QED
    BY <1>6, <2>1, <2>2
<1> HIDE DEF new
<1>8. \A s \in Tasks : task'[s] = IF s \in Mine THEN Advance(task[s]) ELSE task[s]
  BY <1>2
<1>9. \A s \in Tasks : s \in Mine <=> \E k \in 1..n : new[k].task = s
  BY <1>1, <1>6
<1>10. task' \in [Tasks -> TaskRow] /\ \A s \in Mine : task'[s].last = "queued"
  <2>1. \A s \in Tasks : task[s] \in TaskRow /\ Advance(task[s]) \in TaskRow /\ Advance(task[s]).last = "queued"
    BY <1>5, AdvanceFacts
  <2> QED
    BY <1>2, <1>3, <2>1
<1>11. /\ poll'.at = "events" /\ poll'.run = poll.run /\ poll'.queue = poll.queue
       /\ poll' = PollOf(poll')
  BY <1>2, <1>5 DEF PollOf
<1>12. poll'.queue \subseteq {r \in DOMAIN runs' : runs'[r].inference = "queued"}
  <2>1. new \in Seq(RunRow)
    BY <1>4, <1>7, FunctionIsSeq
  <2>2. \A r \in DOMAIN runs : r \in DOMAIN runs' /\ runs'[r] = runs[r]
    BY <1>5, <1>7, <2>1
  <2> QED
    BY <1>5, <1>11, <2>2
<1>13. Queues(new, n)
  <2>1. Len(runs) + n <= MaxRuns /\ n \in Nat
    BY <1>2, <1>4
  <2> HIDE DEF n
  <2>2. \A k \in 1..n : /\ new[k].status = "queued" /\ new[k].inference = "queued"
                        /\ new[k].action = "none" /\ ~Outstanding(new[k].task)
    BY <1>3, <1>6
  <2>3. \A k, l \in 1..n : new[k].task = new[l].task => k = l
    BY <1>4, <1>6
  <2>4. \A s \in Tasks : IF \E k \in 1..n : new[k].task = s
                         THEN task'[s].last = "queued"
                         ELSE task'[s] = task[s]
    BY <1>8, <1>9, <1>10
  <2>5. poll'.at \in {"due", "events", "run", "dead"} /\ poll'.run \in 0..Len(runs)
    BY <1>5, <1>11
  <2> QED
    BY <1>7, <1>10, <1>11, <1>12, <2>1, <2>2, <2>3, <2>4, <2>5 DEF Queues
<1>14. RunsInv' /\ Len(runs') = Len(runs) + n
  <2> HIDE DEF n
  <2> QED
    BY <1>5, <1>13, QueueStep
<1>15. Len(runs) <= Len(runs')
  BY <1>4, <1>5, <1>14
<1> QED
  BY <1>2, <1>14, <1>15, SchedOnly

LEMMA FirstWakeFacts ==
    ASSUME AwareInv, NEW s, NEW held
    PROVE  /\ FirstWake(s, held) \subseteq Fresh /\ \A i, j \in FirstWake(s, held) : i = j
           /\ FirstWake(s, held) # {} => ~Outstanding(s)
<1>1. CASE s \notin Listeners \ held \/ Outstanding(s)
  BY <1>1 DEF FirstWake
<1>2. CASE ~(s \notin Listeners \ held \/ Outstanding(s))
  <2> DEFINE S == {i \in Fresh : Wakes(s, i)}
  <2>1. FirstWake(s, held) = IF S = {} THEN {} ELSE {Min(S)}
    BY <1>2, Zenon DEF FirstWake
  <2>2. S \in SUBSET Nat /\ S \subseteq Fresh
    BY DeliveryFacts DEF Fresh, Unclaimed
  <2> HIDE DEF S
  <2>3. S # {} => Min(S) \in S
    BY <2>2, MinProperty
  <2> QED
    BY <1>2, <2>1, <2>2, <2>3
<1> QED
  BY <1>1, <1>2

\* What ClaimedWhenServed says of a step.
Served ==
    \A i \in DOMAIN notes :
       notes[i].wake = "fresh" /\ notes'[i].wake = "claimed"
       => \A s \in Listeners : Wakes(s, i) =>
             \/ s \in poll'.skipped
             \/ \E r \in DOMAIN runs' : runs'[r].task = s /\ runs'[r].note = i

LEMMA ClaimEventsStep ==
    ASSUME AwareInv, NEW held \in SUBSET Tasks, ClaimEvents(held), UNCHANGED monitorVars
    PROVE  AwareInv' /\ Served
<1>1. PICK order \in [1..Cardinality(Woken(held)) -> Woken(held)] :
         /\ \A p \in Woken(held) : \E k \in DOMAIN order : order[k] = p
         /\ runs' = runs \o [k \in DOMAIN order |-> Occurrence(order[k][1], order[k][2])]
  BY DEF ClaimEvents
<1> DEFINE n == Cardinality(Woken(held))
           new == [k \in DOMAIN order |-> Occurrence(order[k][1], order[k][2])]
<1>2. /\ Len(runs) + n <= MaxRuns /\ poll' = [at |-> "run", queue |-> Queue(runs'), run |-> 0, skipped |-> held]
      /\ task' = [s \in Tasks |-> IF FirstWake(s, held) # {} THEN Advance(task[s]) ELSE task[s]]
      /\ notes' = [i \in DOMAIN notes |->
                     IF notes[i].wake = "old" \/ (i \in Fresh /\ Listeners \ held # {} /\ Claimed(i, held))
                     THEN [notes[i] EXCEPT !.wake = "claimed"] ELSE notes[i]]
      /\ UNCHANGED <<loops, attention, drafts, subs, disp, shown, tries, disturbed>>
  BY DEF ClaimEvents, deviceVars, deliveryVars
<1>3. /\ IsFiniteSet(Woken(held))
      /\ \A p \in Woken(held) : /\ p[1] \in Tasks /\ p[2] \in DOMAIN notes /\ p[2] \in FirstWake(p[1], held)
                          /\ p = <<p[1], p[2]>>
  <2>1. Woken(held) \subseteq Tasks \X Fresh /\ Fresh \subseteq DOMAIN notes
    BY DEF Woken, Fresh, Unclaimed
  <2>2. IsFiniteSet(DOMAIN notes)
    BY DeliveryFacts, FS_Interval
  <2>3. IsFiniteSet(Fresh)
    BY <2>1, <2>2, FS_Subset
  <2>4. IsFiniteSet(Tasks \X Fresh)
    BY <2>3, FS_Product, ScheduleBounds DEF ScheduleBounds
  <2>5. IsFiniteSet(Woken(held))
    BY <2>1, <2>4, FS_Subset
  <2> QED
    BY <2>1, <2>5 DEF Woken
<1>4. n \in Nat /\ \A k, l \in 1..n : order[k] = order[l] => k = l
  BY <1>1, <1>3, Listing
<1>5. /\ task \in [Tasks -> TaskRow] /\ RunsInv
      /\ Len(runs) \in Nat /\ DOMAIN runs = 1..Len(runs) /\ runs \in Seq(RunRow)
  BY RunsFacts DEF AwareInv, RunsInv
<1>6. ASSUME NEW k \in 1..n
      PROVE  /\ new[k] \in RunRow /\ new[k].task = order[k][1] /\ new[k].note = order[k][2]
             /\ new[k].status = "queued" /\ new[k].inference = "queued" /\ new[k].action = "none"
             /\ order[k] \in Woken(held)
  <2>1. /\ order[k] \in Woken(held) /\ order[k][1] \in Tasks /\ order[k][2] \in DOMAIN notes
        /\ new[k] = Occurrence(order[k][1], order[k][2])
    BY <1>1, <1>3
  <2>2. order[k][2] \in 0..MaxNotes
    BY <2>1, DeliveryFacts
  <2> HIDE DEF new
  <2> QED
    BY <1>5, <2>1, <2>2, OccurrenceFacts
<1>7. new \in [1..n -> RunRow] /\ runs' = runs \o new
  <2>1. new = [k \in 1..n |-> new[k]]
    BY <1>1
  <2>2. runs' = runs \o new
    BY <1>1
  <2> HIDE DEF new, n
  <2> QED
    BY <1>6, <2>1, <2>2
<1> HIDE DEF new
<1>8. \A k, l \in 1..n : new[k].task = new[l].task => k = l
  <2> SUFFICES ASSUME NEW k \in 1..n, NEW l \in 1..n, new[k].task = new[l].task PROVE k = l
    OBVIOUS
  <2>1. order[k][1] = order[l][1] /\ order[k] \in Woken(held) /\ order[l] \in Woken(held)
    BY <1>6
  <2>2. order[k][2] = order[l][2]
    BY <1>3, <2>1, FirstWakeFacts
  <2>3. order[k] = order[l]
    BY <1>3, <2>1, <2>2
  <2> QED
    BY <1>4, <2>3
<1>9. \A s \in Tasks : \A i \in FirstWake(s, held) : \E k \in 1..n : new[k].task = s /\ new[k].note = i
  <2> SUFFICES ASSUME NEW s \in Tasks, NEW i \in FirstWake(s, held)
               PROVE  \E k \in 1..n : new[k].task = s /\ new[k].note = i
    OBVIOUS
  <2>1. <<s, i>> \in Woken(held)
    BY FirstWakeFacts DEF Woken
  <2>2. PICK k \in 1..n : order[k] = <<s, i>>
    BY <1>1, <2>1
  <2> QED
    BY <1>6, <2>2
<1>10. \A s \in Tasks : FirstWake(s, held) # {} <=> \E k \in 1..n : new[k].task = s
  <2>1. \A k \in 1..n : FirstWake(new[k].task, held) # {}
    BY <1>3, <1>6
  <2> QED
    BY <1>9, <2>1
<1>11. /\ task' \in [Tasks -> TaskRow]
       /\ \A s \in Tasks : IF FirstWake(s, held) # {} THEN task'[s].last = "queued" ELSE task'[s] = task[s]
  <2>1. \A s \in Tasks : task[s] \in TaskRow /\ Advance(task[s]) \in TaskRow /\ Advance(task[s]).last = "queued"
    BY <1>5, AdvanceFacts
  <2> QED
    BY <1>2, <2>1
<1>12. /\ poll'.at \in {"due", "events", "run", "dead"} /\ poll'.run \in 0..Len(runs)
       /\ poll' = PollOf(poll')
       /\ poll'.queue \subseteq {r \in DOMAIN runs' : runs'[r].inference = "queued"}
  BY <1>2, <1>5 DEF Queue, PollOf
<1>13. Queues(new, n)
  <2>1. Len(runs) + n <= MaxRuns /\ n \in Nat
    BY <1>2, <1>4
  <2> HIDE DEF n
  <2>2. \A k \in 1..n : /\ new[k].status = "queued" /\ new[k].inference = "queued"
                        /\ new[k].action = "none" /\ ~Outstanding(new[k].task)
    <3>1. \A k \in 1..n : FirstWake(new[k].task, held) # {}
      BY <1>3, <1>6
    <3> QED
      BY <1>6, <3>1, FirstWakeFacts
  <2>3. \A s \in Tasks : IF \E k \in 1..n : new[k].task = s
                         THEN task'[s].last = "queued"
                         ELSE task'[s] = task[s]
    BY <1>10, <1>11
  <2> QED
    BY <1>7, <1>8, <1>11, <1>12, <2>1, <2>2, <2>3 DEF Queues
<1>14. /\ RunsInv' /\ Len(runs') = Len(runs) + n
       /\ \A k \in 1..n : Len(runs) + k \in DOMAIN runs' /\ runs'[Len(runs) + k] = new[k]
  <2> HIDE DEF n
  <2> QED
    BY <1>5, <1>13, QueueStep
<1>15. Len(runs) <= Len(runs')
  BY <1>4, <1>5, <1>14
<1>16. ASSUME NEW i \in DOMAIN notes
       PROVE  /\ notes'[i] \in NoteRow /\ SameRow(notes'[i], notes[i])
              /\ notes'[i].status = notes[i].status /\ notes'[i].push = notes[i].push
              /\ notes[i].wake = "fresh" /\ notes'[i].wake = "claimed" => Claimed(i, held)
  <2>1. notes[i] \in NoteRow
    BY DeliveryFacts
  <2>2. CASE notes[i].wake = "old" \/ (i \in Fresh /\ Listeners \ held # {} /\ Claimed(i, held))
    <3>1. notes'[i] = [notes[i] EXCEPT !.wake = "claimed"]
      BY <1>2, <2>2
    <3>2. notes[i].wake = "fresh" => Claimed(i, held)
      BY <2>2
    <3> QED
      BY <2>1, <3>1, <3>2 DEF NoteRow, SameRow
  <2>3. CASE ~(notes[i].wake = "old" \/ (i \in Fresh /\ Listeners \ held # {} /\ Claimed(i, held)))
    <3>1. notes'[i] = notes[i]
      BY <1>2, <2>3
    <3> QED
      BY <2>1, <3>1 DEF SameRow
  <2> QED
    BY <2>2, <2>3
<1>17. Marked(notes, notes') /\ SamePush(notes, notes')
  BY <1>2, <1>16 DEF Marked, SamePush
<1>18. DeliveryInv'
  <2>1. Extends(notes, notes', {})
    BY <1>17, MarkedNotes DEF AwareInv, LedgerInv
  <2> QED
    BY <1>2, <1>17, <2>1, DeliveryQuiet DEF AwareInv
<1>19. AwareInv'
  BY <1>2, <1>14, <1>15, <1>17, <1>18, MarkStep
<1>20. Served
  <2> SUFFICES ASSUME NEW i \in DOMAIN notes, notes[i].wake = "fresh", notes'[i].wake = "claimed",
                      NEW s \in Listeners, Wakes(s, i), s \notin poll'.skipped
               PROVE  \E r \in DOMAIN runs' : runs'[r].task = s /\ runs'[r].note = i
    BY DEF Served
  <2>0. s \in Listeners \ held
    BY <1>2
  <2>1. i \in FirstWake(s, held) /\ s \in Tasks
    BY <1>16, <2>0 DEF Claimed, Listeners
  <2>2. PICK k \in 1..n : new[k].task = s /\ new[k].note = i
    BY <1>9, <2>1
  <2> HIDE DEF n
  <2> QED
    BY <1>14, <2>2
<1> QED
  BY <1>19, <1>20

LEMMA NoteAgesStep ==
    ASSUME AwareInv, NEW i \in DOMAIN notes, NoteAges(i), UNCHANGED monitorVars
    PROVE  AwareInv' /\ Served
<1>1. /\ notes' = [notes EXCEPT ![i].wake = "old"]
      /\ UNCHANGED <<loops, attention, drafts, subs, disp, shown, tries, disturbed, task, runs, poll>>
  BY DEF NoteAges, deviceVars, deliveryVars, schedVars
<1>2. ASSUME NEW j \in DOMAIN notes
      PROVE  /\ notes'[j] \in NoteRow /\ SameRow(notes'[j], notes[j])
             /\ notes'[j].status = notes[j].status /\ notes'[j].push = notes[j].push
             /\ notes'[j].wake = "old" \/ notes'[j].wake = notes[j].wake
  <2>1. notes[j] \in NoteRow
    BY DeliveryFacts
  <2>2. CASE j = i
    <3>1. notes'[j] = [notes[j] EXCEPT !.wake = "old"]
      BY <1>1, <2>2
    <3> QED
      BY <2>1, <3>1 DEF NoteRow, SameRow
  <2>3. CASE j # i
    <3>1. notes'[j] = notes[j]
      BY <1>1, <2>3
    <3> QED
      BY <2>1, <3>1 DEF SameRow
  <2> QED
    BY <2>2, <2>3
<1>3. Marked(notes, notes') /\ SamePush(notes, notes')
  <2>1. notes' = [j \in DOMAIN notes |-> notes'[j]]
    BY <1>1, DeliveryFacts, SeqProperties DEF Ledgers
  <2> QED
    BY <1>2, <2>1 DEF Marked, SamePush
<1>4. DeliveryInv'
  <2>1. Extends(notes, notes', {})
    BY <1>3, MarkedNotes DEF AwareInv, LedgerInv
  <2> QED
    BY <1>1, <1>3, <2>1, DeliveryQuiet DEF AwareInv
<1>5. RunsInv' /\ Len(runs) <= Len(runs')
  BY <1>1, RunsSame, RunsFacts DEF AwareInv
<1>6. AwareInv'
  BY <1>1, <1>3, <1>4, <1>5, MarkStep
<1> QED
  BY <1>2, <1>6 DEF Served

LEMMA TaskEditStep ==
    ASSUME AwareInv, OwnerOfSchedules, UNCHANGED monitorVars
    PROVE  Kept
<1>1. PICK s \in Tasks :
         \/ \E kind \in Kinds \ {"none"} : CreateTask(s, kind)
         \/ \E kind \in Kinds \ {"none"}, enabled, moved, past \in BOOLEAN :
               UpdateTask(s, kind, enabled, moved, past)
         \/ DeleteTask(s) \/ TimeReaches(s)
  BY DEF OwnerOfSchedules
<1>2. UNCHANGED <<noteVars, runs, poll>>
  BY <1>1 DEF CreateTask, UpdateTask, DeleteTask, TimeReaches
<1>3. task \in [Tasks -> TaskRow] /\ task[s] \in TaskRow /\ Len(notes) \in 0..MaxNotes
  BY DeliveryFacts DEF AwareInv, RunsInv
<1>4. \E row \in TaskRow :
         /\ task' = [task EXCEPT ![s] = row]
         /\ RunsOf(s) # {} /\ row.kind # "none" => task[s].kind # "none" /\ row.last = task[s].last
  <2>1. ASSUME NEW kind \in Kinds \ {"none"}, CreateTask(s, kind)
        PROVE  /\ NewTask(kind, Len(notes)) \in TaskRow /\ RunsOf(s) = {}
               /\ task' = [task EXCEPT ![s] = NewTask(kind, Len(notes))]
    BY <1>3, <2>1 DEF CreateTask, NewTask, NoTask, TaskRow, Kinds
  <2>2. ASSUME NEW kind \in Kinds \ {"none"}, NEW enabled \in BOOLEAN, NEW moved \in BOOLEAN,
               NEW past \in BOOLEAN, UpdateTask(s, kind, enabled, moved, past)
        PROVE  \E row \in TaskRow : /\ task' = [task EXCEPT ![s] = row]
                                    /\ task[s].kind # "none" /\ row.last = task[s].last
    <3>1. PICK anew : anew = (moved \/ kind # task[s].kind \/ kind = "interval")
      OBVIOUS
    <3>2. /\ task' = [task EXCEPT ![s].kind = kind, ![s].enabled = enabled, ![s].past = past,
                                  ![s].slot = IF anew THEN @ + 1 ELSE @]
          /\ task[s].kind # "none"
      BY <2>2, <3>1, Zenon DEF UpdateTask
    <3>3. PICK slot : slot = IF anew THEN task[s].slot + 1 ELSE task[s].slot
      OBVIOUS
    <3>4. slot \in Nat
      BY <1>3, <3>3 DEF TaskRow
    <3>5. PICK row : row = [task[s] EXCEPT !.kind = kind, !.enabled = enabled, !.past = past,
                                           !.slot = slot]
      OBVIOUS
    <3>6. row \in TaskRow /\ row.last = task[s].last
      BY <1>3, <3>4, <3>5 DEF TaskRow
    <3>7. task' = [task EXCEPT ![s] = row]
      BY <1>3, <3>2, <3>3, <3>5
    <3> QED
      BY <3>2, <3>6, <3>7
  <2>3. ASSUME DeleteTask(s) PROVE NoTask \in TaskRow /\ task' = [task EXCEPT ![s] = NoTask]
    BY <2>3, NotificationBounds DEF DeleteTask, NoTask, TaskRow, Kinds
  <2>4. ASSUME TimeReaches(s)
        PROVE  LET row == [task[s] EXCEPT !.past = TRUE]
               IN  /\ row \in TaskRow /\ task' = [task EXCEPT ![s] = row]
                   /\ task[s].kind # "none" /\ row.last = task[s].last
    BY <1>3, <2>4 DEF TimeReaches, TaskRow
  <2>5. NoTask.kind = "none"
    BY DEF NoTask
  <2> QED
    BY <1>1, <2>1, <2>2, <2>3, <2>4, <2>5
<1>5. PICK row \in TaskRow :
         /\ task' = [task EXCEPT ![s] = row]
         /\ RunsOf(s) # {} /\ row.kind # "none" => task[s].kind # "none" /\ row.last = task[s].last
  BY <1>4
<1>6. /\ task' \in [Tasks -> TaskRow] /\ task'[s] = row
      /\ \A t \in Tasks : t # s => task'[t] = task[t]
  BY <1>3, <1>5
<1>7. \A t \in Tasks : RunsOf(t) # {} /\ task'[t].kind # "none" =>
                          task[t].kind # "none" /\ task'[t].last = task[t].last
  BY <1>5, <1>6
<1>8. RunsInv' /\ Len(runs) <= Len(runs')
  BY <1>2, <1>6, <1>7, TaskStep, RunsFacts DEF AwareInv
<1> QED
  BY <1>2, <1>8, SchedOnly

LEMMA ExecuteClaimStep ==
    ASSUME AwareInv, ExecuteClaim, UNCHANGED monitorVars
    PROVE  Kept
<1>1. PICK r \in poll.queue :
         /\ runs' = [runs EXCEPT ![r].status = "running", ![r].inference = "running"]
         /\ poll' = [poll EXCEPT !.run = r, !.queue = @ \ {r}]
  BY DEF ExecuteClaim
<1>2. UNCHANGED <<noteVars, task>>
  BY DEF ExecuteClaim
<1>3. /\ Len(runs) \in Nat /\ DOMAIN runs = 1..Len(runs) /\ runs \in Seq(RunRow) /\ RunsInv
      /\ \A q \in DOMAIN runs : runs[q] \in RunRow /\ RunOK(runs[q])
      /\ Len(runs) <= MaxRuns /\ task \in [Tasks -> TaskRow]
  BY RunsFacts DEF AwareInv, RunsInv
<1>4. /\ r \in DOMAIN runs /\ runs[r].inference = "queued" /\ runs[r].status = "queued"
      /\ runs[r].action = "none" /\ runs[r] \in RunRow
  BY <1>3 DEF RunsInv, RunOK
<1>5. PICK new : new = [runs[r] EXCEPT !.status = "running", !.inference = "running"]
  OBVIOUS
<1>6. /\ new \in RunRow /\ new.task = runs[r].task /\ new.status = "running"
      /\ new.inference = "running" /\ new.action = "none"
  BY <1>4, <1>5 DEF RunRow, OUTSTANDING
<1>7. RunOK(new)
  BY <1>6 DEF RunOK, Aggregate
<1>8. /\ runs' \in Seq(RunRow) /\ Len(runs') = Len(runs) /\ DOMAIN runs' = DOMAIN runs
      /\ runs'[r] = new /\ \A q \in DOMAIN runs : q # r => runs'[q] = runs[q]
  <2>1. runs' = [runs EXCEPT ![r] = new]
    BY <1>1, <1>3, <1>4, <1>5
  <2> QED
    BY <1>3, <1>4, <1>6, <2>1
<1>9. \A q \in DOMAIN runs : runs'[q].task = runs[q].task /\ RunOK(runs'[q])
  BY <1>3, <1>4, <1>6, <1>7, <1>8
<1>10. /\ poll'.run = r /\ poll'.at = poll.at /\ poll'.queue = poll.queue \ {r}
       /\ poll' = PollOf(poll')
       /\ poll.at \in {"due", "events", "run", "dead"}
  <2>1. poll = PollOf(poll)
        /\ poll.at \in {"due", "events", "run", "dead"}
    BY <1>3 DEF RunsInv
  <2> QED
    BY <1>1, <2>1 DEF PollOf
<1>11. poll'.queue \subseteq {q \in DOMAIN runs' : runs'[q].inference = "queued"}
  BY <1>3, <1>8, <1>10 DEF RunsInv
<1>12. \A q \in DOMAIN runs : r < q => runs[q].task # runs[r].task
  BY <1>3, <1>4 DEF RunsInv, OUTSTANDING
<1>13. ASSUME NEW p \in DOMAIN runs', NEW q \in DOMAIN runs', runs'[p].task = runs'[q].task, p < q
       PROVE  runs'[p].status \notin OUTSTANDING
  <2>1. p \in DOMAIN runs /\ q \in DOMAIN runs /\ runs[p].task = runs[q].task
    BY <1>8, <1>9, <1>13
  <2>2. p # r
    BY <1>12, <1>13, <2>1
  <2> QED
    BY <1>3, <1>8, <1>13, <2>1, <2>2 DEF RunsInv
<1>14. ASSUME NEW q \in DOMAIN runs', task'[runs'[q].task].kind # "none",
              \A p \in DOMAIN runs' : q < p => runs'[p].task # runs'[q].task
       PROVE  \/ task'[runs'[q].task].last = runs'[q].status
              \/ task'[runs'[q].task].last = "queued" /\ runs'[q].status = "running"
  <2>1. q \in DOMAIN runs /\ runs'[q].task = runs[q].task
    BY <1>8, <1>9
  <2>2. \A p \in DOMAIN runs : q < p => runs[p].task # runs[q].task
    BY <1>8, <1>9, <1>14
  <2>3. Shows(runs[q].task, q)
    BY <1>2, <1>3, <1>14, <2>1, <2>2 DEF RunsInv
  <2>4. \/ task[runs[q].task].last = runs[q].status
        \/ task[runs[q].task].last = "queued" /\ runs[q].status = "running"
    BY <2>3 DEF Shows
  <2>5. CASE q = r
    BY <1>2, <1>4, <1>6, <1>8, <2>1, <2>4, <2>5
  <2>6. CASE q # r
    BY <1>2, <1>8, <2>1, <2>4, <2>6
  <2> QED
    BY <2>5, <2>6
<1>15. RunsInv'
  BY <1>2, <1>3, <1>4, <1>8, <1>9, <1>10, <1>11, <1>13, <1>14 DEF RunsInv, Shows
<1> QED
  BY <1>2, <1>3, <1>8, <1>15, SchedOnly

LEMMA LoopSteps ==
    ASSUME AwareInv, UNCHANGED monitorVars,
           \/ ClaimDueFails \/ ExecuteRefused \/ PollEnds \/ ExecuteSkips \/ LoopCancelled
           \/ SchedulerCrash \/ SchedulerRestart
    PROVE  Kept
<1>1. UNCHANGED <<noteVars, task, runs>>
  BY DEF ClaimDueFails, ExecuteRefused, PollEnds, ExecuteSkips, LoopCancelled, SchedulerCrash,
         SchedulerRestart, allVars, schedVars
<1>2. /\ poll = PollOf(poll)
      /\ poll.at \in {"due", "events", "run", "dead"}
      /\ poll.run \in 0..Len(runs) /\ Len(runs) \in Nat
  BY RunsFacts DEF AwareInv, RunsInv
<1>3. PollMoves
  <2>1. CASE poll' = poll
    BY <1>2, <2>1 DEF PollMoves
  <2>2. CASE poll' = NoPass \/ poll' = [NoPass EXCEPT !.at = "dead"]
    BY <1>2, <2>2 DEF PollMoves, PollOf, NoPass
  <2>3. CASE poll' = [poll EXCEPT !.run = 0]
    BY <1>2, <2>3 DEF PollMoves, PollOf
  <2>4. ASSUME NEW r \in poll.queue, poll' = [poll EXCEPT !.queue = @ \ {r}] PROVE PollMoves
    BY <1>2, <2>4 DEF PollMoves, PollOf
  <2> QED
    BY <2>1, <2>2, <2>3, <2>4
       DEF ClaimDueFails, ExecuteRefused, PollEnds, ExecuteSkips, LoopCancelled, SchedulerCrash,
           SchedulerRestart, allVars, schedVars
<1>4. RunsInv' /\ Len(runs) <= Len(runs')
  BY <1>1, <1>2, <1>3, PollStep DEF AwareInv
<1> QED
  BY <1>1, <1>4, SchedOnly

\* A run that is not queued has a status that follows from its parts.
LEMMA LiveFacts ==
    ASSUME AwareInv, NEW r \in DOMAIN runs, Live(r) \/ runs[r].action = "prepared"
    PROVE  /\ runs[r] \in RunRow /\ runs[r].status \in OUTSTANDING /\ runs[r].inference # "queued"
<1>1. runs[r] \in RunRow /\ RunOK(runs[r])
  BY RunsFacts DEF AwareInv
<1>2. runs[r].inference # "queued"
  BY <1>1 DEF Live, RunOK
<1>3. runs[r].status = Aggregate(runs[r])
  BY <1>1, <1>2 DEF RunOK
<1>4. runs[r].status \in OUTSTANDING
  BY <1>3 DEF Live, Aggregate, OUTSTANDING
<1> QED
  BY <1>1, <1>2, <1>4

LEMMA RunItems ==
    ASSUME AwareInv, NEW r \in DOMAIN runs
    PROVE  /\ ActionItem(r) \in Items /\ NoticeItem(r) \in Items /\ r \in 0..Len(runs)
           /\ ActionItem(r) # NoticeItem(r)
<1>1. r \in 1..MaxRuns /\ r \in 0..Len(runs)
  BY RunsFacts, ScheduleBounds DEF AwareInv, ScheduleBounds
<1> QED
  BY <1>1, AwarenessAssumption DEF AwarenessAssumption, ActionItem, NoticeItem

LEMMA PollStays ==
    ASSUME AwareInv, poll' = poll \/ poll' = [poll EXCEPT !.run = 0]
    PROVE  PollMoves
<1>1. /\ poll = PollOf(poll)
      /\ poll.at \in {"due", "events", "run", "dead"}
      /\ poll.run \in 0..Len(runs) /\ Len(runs) \in Nat
  BY RunsFacts DEF AwareInv, RunsInv
<1> QED
  BY <1>1 DEF PollMoves, PollOf

\* A step that writes a run, the items of it and their notifications.
LEMMA RunWrites ==
    ASSUME AwareInv, NEW r, NEW run, Settles(r, run), NEW T, Extends(notes, notes', T),
           Unnoted(notes, notes'), \A u \in Units : UnitThread(u) \notin T,
           NotesOK(notes', Len(runs)), AttentionOK(notes', attention'),
           UNCHANGED <<loops, drafts, subs, disp, shown, tries, disturbed, monitorVars>>
    PROVE  Kept
<1>1. RunsInv' /\ Len(runs') = Len(runs)
  BY SetRunStep DEF AwareInv
<1>2. NotesOK(notes', Len(runs')) /\ DraftsOK(drafts', Len(runs'))
  BY <1>1 DEF AwareInv, LedgerInv
<1>3. Writes(T)
  BY <1>2 DEF Writes
<1> QED
  BY <1>1, <1>3, NoteStep

LEMMA LedgerFacts ==
    ASSUME AwareInv
    PROVE  /\ NotesOK(notes, Len(runs)) /\ AttentionOK(notes, attention) /\ Len(runs) \in Nat
           /\ notes \in Ledgers /\ Len(notes) \in Nat /\ attention = [x \in Items |-> attention[x]]
  BY RunsFacts, NotesFacts DEF AwareInv, LedgerInv, AttentionOK

LEMMA RunAsksStep ==
    ASSUME AwareInv, NEW action \in {"prepared", "uncertain"}, RunAsks(action), UNCHANGED monitorVars
    PROVE  Kept
<1>1. PICK r : r = poll.run
  OBVIOUS
<1>2. /\ Live(r) /\ Len(notes) < MaxNotes
      /\ RaiseAttention(ActionItem(r), AttentionOf(action), r)
      /\ SetRun(r, [runs[r] EXCEPT !.action = action]) /\ poll' = poll
      /\ UNCHANGED <<loops, drafts, subs, disp, shown, tries, disturbed>>
  BY <1>1 DEF RunAsks, Room, deviceVars, deliveryVars
<1>3. r \in DOMAIN runs
  BY <1>1, <1>2, RunsFacts DEF AwareInv, Live
<1>4. /\ runs[r] \in RunRow /\ runs[r].status \in OUTSTANDING /\ runs[r].inference # "queued"
  BY <1>2, <1>3, LiveFacts
<1>5. PICK run : run = [runs[r] EXCEPT !.action = action]
  OBVIOUS
<1>6. Settles(r, run)
  <2>1. run \in RunRow /\ run.task = runs[r].task /\ run.inference # "queued"
    BY <1>4, <1>5 DEF RunRow
  <2>2. SetRun(r, run) /\ PollMoves
    BY <1>2, <1>5, PollStays
  <2> QED
    BY <1>3, <1>4, <2>1, <2>2 DEF Settles
<1>7. PICK x, state : x = ActionItem(r) /\ state = AttentionOf(action)
  OBVIOUS
<1>8. x \in Items /\ r \in 0..Len(runs) /\ state \in AttentionStates
  BY <1>3, <1>7, RunItems DEF AttentionOf, AttentionStates
<1>9. Raised(notes, attention, x, state, r, notes', attention')
  BY <1>2, <1>7 DEF Raised, RaiseAttention
<1>10. /\ Extends(notes, notes', {ItemThread(x)}) /\ Unnoted(notes, notes')
       /\ NotesOK(notes', Len(runs)) /\ AttentionOK(notes', attention')
  BY <1>8, <1>9, LedgerFacts, RaiseFacts
<1>11. \A u \in Units : UnitThread(u) \notin {ItemThread(x)}
  BY ThreadsApart
<1> QED
  BY <1>2, <1>6, <1>10, <1>11, RunWrites

LEMMA ExecuteEndStep ==
    ASSUME AwareInv, ExecuteEnd, UNCHANGED monitorVars
    PROVE  Kept
<1>1. PICK r : r = poll.run
  OBVIOUS
<1>2. /\ Live(r) /\ SetRun(r, [runs[r] EXCEPT !.inference = "over"])
      /\ poll' = [poll EXCEPT !.run = 0] /\ UNCHANGED noteVars
  BY <1>1 DEF ExecuteEnd
<1>3. r \in DOMAIN runs
  BY <1>1, <1>2, RunsFacts DEF AwareInv, Live
<1>4. /\ runs[r] \in RunRow /\ runs[r].status \in OUTSTANDING /\ runs[r].inference # "queued"
  BY <1>2, <1>3, LiveFacts
<1>5. PICK run : run = [runs[r] EXCEPT !.inference = "over"]
  OBVIOUS
<1>6. Settles(r, run)
  <2>1. run \in RunRow /\ run.task = runs[r].task /\ run.inference # "queued"
    BY <1>4, <1>5 DEF RunRow
  <2>2. SetRun(r, run) /\ PollMoves
    BY <1>2, <1>5, PollStays
  <2> QED
    BY <1>3, <1>4, <2>1, <2>2 DEF Settles
<1>7. RunsInv' /\ Len(runs') = Len(runs) /\ Len(runs) \in Nat
  BY <1>6, SetRunStep, LedgerFacts DEF AwareInv
<1> QED
  BY <1>2, <1>7, SchedOnly

LEMMA InterruptStep ==
    ASSUME AwareInv, NEW r \in DOMAIN runs, Live(r), NEW executing \in BOOLEAN, Interrupt(r, executing),
           poll' = poll \/ poll' = [poll EXCEPT !.run = 0],
           UNCHANGED <<loops, drafts, subs, disp, shown, tries, disturbed, monitorVars>>
    PROVE  Kept
<1> DEFINE x == ActionItem(r)
           y == NoticeItem(r)
<1>1. PICK seen, mid :
         /\ seen = IF executing THEN EmitAlone(notes, AttentionEvent(x, "uncertain", r)) ELSE notes
         /\ mid = IF executing THEN [attention EXCEPT ![x] = "uncertain"] ELSE attention
  OBVIOUS
<1>2. /\ Len(seen) < MaxNotes /\ notes' = EmitAlone(seen, AttentionEvent(y, "interrupted", r))
      /\ attention' = [attention EXCEPT ![x] = IF executing THEN "uncertain" ELSE @,
                                        ![y] = "interrupted"]
      /\ SetRun(r, [runs[r] EXCEPT !.inference = "over",
                                   !.action = IF executing THEN "uncertain" ELSE @])
  BY <1>1, Zenon DEF Interrupt
<1>3. /\ x \in Items /\ y \in Items /\ r \in 0..Len(runs) /\ x # y
  BY RunItems
<1>4. /\ NotesOK(notes, Len(runs)) /\ AttentionOK(notes, attention) /\ Len(runs) \in Nat
      /\ notes \in Ledgers /\ Len(notes) \in Nat /\ attention = [i \in Items |-> attention[i]]
  BY LedgerFacts
<1> DEFINE T == {ItemThread(x), ItemThread(y)}
<1> HIDE DEF x, y
<1>5. /\ Extends(notes, seen, T) /\ Unnoted(notes, seen)
      /\ NotesOK(seen, Len(runs)) /\ AttentionOK(seen, mid)
  <2>1. CASE executing
    <3>1. seen = EmitAlone(notes, AttentionEvent(x, "uncertain", r))
      BY <1>1, <2>1
    <3>2. AttentionEvent(x, "uncertain", r) \in EventRow
      BY <1>3, <1>4 DEF AttentionEvent, Event, EventRow, Sources, Threads, ItemThreads, Severities, Texts,
         AttentionStates
    <3>3. Len(notes) <= Len(seen) /\ Len(seen) \in Nat
      BY <1>4, <3>1, <3>2, EmitAloneFacts, SeqProperties DEF Extends, Ledgers
    <3>4. Raised(notes, attention, x, "uncertain", r, seen, mid)
      BY <1>1, <1>2, <1>4, <2>1, <3>1, <3>3, NotificationBounds DEF Raised
    <3>5. "uncertain" \in AttentionStates
      BY DEF AttentionStates
    <3>6. /\ Extends(notes, seen, {ItemThread(x)}) /\ Unnoted(notes, seen)
          /\ NotesOK(seen, Len(runs)) /\ AttentionOK(seen, mid)
      BY <1>3, <1>4, <3>4, <3>5, RaiseFacts
    <3>7. {ItemThread(x)} \subseteq T
      OBVIOUS
    <3> QED
      BY <3>6, <3>7, ExtendsMore
  <2>2. CASE ~executing
    BY <1>1, <1>4, <2>2, ExtendsSame
  <2> QED
    BY <2>1, <2>2
<1>6. Raised(seen, mid, y, "interrupted", r, notes', attention')
  <2>1. attention' = [mid EXCEPT ![y] = "interrupted"]
    <3>1. CASE executing
      BY <1>1, <1>2, <3>1
    <3>2. CASE ~executing
      BY <1>1, <1>2, <1>3, <1>4, <3>2
    <3> QED
      BY <3>1, <3>2
  <2> QED
    BY <1>2, <2>1 DEF Raised
<1>7. /\ Extends(seen, notes', {ItemThread(y)}) /\ Unnoted(seen, notes')
      /\ NotesOK(notes', Len(runs)) /\ AttentionOK(notes', attention')
  <2>1. "interrupted" \in AttentionStates
    BY DEF AttentionStates
  <2> QED
    BY <1>3, <1>4, <1>5, <1>6, <2>1, RaiseFacts
<1>8. Extends(notes, notes', T) /\ Unnoted(notes, notes')
  <2>1. {ItemThread(y)} \subseteq T
    OBVIOUS
  <2>2. Extends(seen, notes', T)
    BY <1>7, <2>1, ExtendsMore
  <2> QED
    BY <1>4, <1>5, <1>7, <2>2, ExtendsTrans, UnnotedTrans
<1>9. \A u \in Units : UnitThread(u) \notin T
  BY ThreadsApart
<1>10. PICK run : run = [runs[r] EXCEPT !.inference = "over",
                                        !.action = IF executing THEN "uncertain" ELSE @]
  OBVIOUS
<1>11. Settles(r, run)
  <2>1. /\ runs[r] \in RunRow /\ runs[r].status \in OUTSTANDING /\ runs[r].inference # "queued"
    BY LiveFacts
  <2>2. PICK action : action = IF executing THEN "uncertain" ELSE runs[r].action
    OBVIOUS
  <2>3. action \in {"none", "prepared", "uncertain"}
    BY <2>1, <2>2 DEF RunRow
  <2>4. run = [runs[r] EXCEPT !.inference = "over", !.action = action]
    BY <1>10, <2>2, Zenon
  <2>5. run \in RunRow /\ run.task = runs[r].task /\ run.inference # "queued"
    BY <2>1, <2>3, <2>4 DEF RunRow
  <2>6. SetRun(r, run) /\ PollMoves
    BY <1>2, <1>10, PollStays
  <2> QED
    BY <2>1, <2>5, <2>6 DEF Settles
<1> HIDE DEF T
<1> QED
  BY <1>7, <1>8, <1>9, <1>11, RunWrites

LEMMA OwnerDecidesStep ==
    ASSUME AwareInv, NEW r \in DOMAIN runs, NEW confirmed \in BOOLEAN, OwnerDecides(r, confirmed),
           UNCHANGED monitorVars
    PROVE  Kept
<1>1. /\ runs[r].action = "prepared" /\ poll' = poll
      /\ IF confirmed THEN SettleAttention(ActionItem(r))
         ELSE Room /\ RaiseAttention(ActionItem(r), "uncertain", r)
      /\ SetRun(r, [runs[r] EXCEPT !.action = IF confirmed THEN "none" ELSE "uncertain"])
      /\ UNCHANGED <<loops, drafts, subs, disp, shown, tries, disturbed>>
  BY DEF OwnerDecides, deviceVars, deliveryVars
<1>2. PICK run : run = [runs[r] EXCEPT !.action = IF confirmed THEN "none" ELSE "uncertain"]
  OBVIOUS
<1>3. Settles(r, run)
  <2>1. /\ runs[r] \in RunRow /\ runs[r].status \in OUTSTANDING /\ runs[r].inference # "queued"
    BY <1>1, LiveFacts
  <2>2. PICK action : action = IF confirmed THEN "none" ELSE "uncertain"
    OBVIOUS
  <2>3. run = [runs[r] EXCEPT !.action = action] /\ action \in {"none", "prepared", "uncertain"}
    BY <1>2, <2>2
  <2>4. run \in RunRow /\ run.task = runs[r].task /\ run.inference # "queued"
    BY <2>1, <2>3 DEF RunRow
  <2>5. SetRun(r, run) /\ PollMoves
    BY <1>1, <1>2, PollStays
  <2> QED
    BY <2>1, <2>4, <2>5 DEF Settles
<1>4. PICK x : x = ActionItem(r)
  OBVIOUS
<1>5. x \in Items /\ r \in 0..Len(runs)
  BY <1>4, RunItems
<1>6. CASE confirmed
  <2>1. /\ notes' = ResolveThread(notes, ItemThread(x))
        /\ attention' = [attention EXCEPT ![x] = "resolved"]
    BY <1>1, <1>4, <1>6 DEF SettleAttention
  <2>2. /\ Extends(notes, notes', {}) /\ Unnoted(notes, notes')
        /\ NotesOK(notes', Len(runs)) /\ AttentionOK(notes', attention')
    BY <1>5, <2>1, LedgerFacts, SettleFacts
  <2>3. \A u \in Units : UnitThread(u) \notin {}
    OBVIOUS
  <2> QED
    BY <1>1, <1>3, <2>2, <2>3, RunWrites
<1>7. CASE ~confirmed
  <2>1. Raised(notes, attention, x, "uncertain", r, notes', attention')
    BY <1>1, <1>4, <1>7 DEF Raised, RaiseAttention, Room
  <2>2. "uncertain" \in AttentionStates
    BY DEF AttentionStates
  <2>3. /\ Extends(notes, notes', {ItemThread(x)}) /\ Unnoted(notes, notes')
        /\ NotesOK(notes', Len(runs)) /\ AttentionOK(notes', attention')
    BY <1>5, <2>1, <2>2, LedgerFacts, RaiseFacts
  <2>4. \A u \in Units : UnitThread(u) \notin {ItemThread(x)}
    BY ThreadsApart
  <2> QED
    BY <1>1, <1>3, <2>3, <2>4, RunWrites
<1> QED
  BY <1>6, <1>7

LEMMA OwnerAcknowledgesStep ==
    ASSUME AwareInv, NEW r \in DOMAIN runs, OwnerAcknowledges(r), UNCHANGED monitorVars
    PROVE  Kept
<1>1. PICK x : x = ActionItem(r)
  OBVIOUS
<1>2. x \in Items
  BY <1>1, RunItems
<1>3. /\ notes' = ResolveThread(notes, ItemThread(x))
      /\ attention' = [attention EXCEPT ![x] = "resolved"]
      /\ UNCHANGED <<loops, drafts, subs, disp, shown, tries, disturbed, task, runs, poll>>
  BY <1>1 DEF OwnerAcknowledges, SettleAttention, deviceVars, deliveryVars, schedVars
<1>4. /\ Extends(notes, notes', {}) /\ Unnoted(notes, notes')
      /\ NotesOK(notes', Len(runs)) /\ AttentionOK(notes', attention')
  BY <1>2, <1>3, LedgerFacts, SettleFacts
<1>5. RunsInv'
  BY <1>3, RunsSame DEF AwareInv
<1>6. Writes({})
  BY <1>3, <1>4 DEF Writes, AwareInv, LedgerInv
<1> QED
  BY <1>5, <1>6, NoteStep

LEMMA KeptServed ==
    ASSUME Kept
    PROVE  AwareInv' /\ Served
  BY DEF Kept, WakeKept, Served

LEMMA SchedulerSteps ==
    ASSUME AwareInv, SchedulerNext, UNCHANGED monitorVars
    PROVE  AwareInv' /\ Served
<1>1. ASSUME NEW executing \in BOOLEAN, ExecuteFails(executing) PROVE Kept
  <2>1. /\ Live(poll.run) /\ Interrupt(poll.run, executing) /\ poll' = [poll EXCEPT !.run = 0]
        /\ UNCHANGED <<loops, drafts, subs, disp, shown, tries, disturbed>>
    BY <1>1 DEF ExecuteFails, deviceVars, deliveryVars
  <2>2. poll.run \in DOMAIN runs
    BY <2>1, RunsFacts DEF AwareInv, Live
  <2> QED
    BY <2>1, <2>2, InterruptStep
<1>2. ASSUME NEW executing \in BOOLEAN, NEW r \in DOMAIN runs, RecoverRun(r, executing) PROVE Kept
  <2>1. /\ Live(r) /\ Interrupt(r, executing) /\ poll' = poll
        /\ UNCHANGED <<loops, drafts, subs, disp, shown, tries, disturbed>>
    BY <1>2 DEF RecoverRun, deviceVars, deliveryVars
  <2> QED
    BY <2>1, InterruptStep
<1>3. CASE SchedulerStep
  <2>1. ASSUME NEW held \in SUBSET Tasks, ClaimEvents(held) PROVE AwareInv' /\ Served
    BY <2>1, ClaimEventsStep
  <2>2. ASSUME NEW held \in SUBSET Tasks, ClaimDue(held) PROVE AwareInv' /\ Served
    BY <2>2, ClaimDueStep, KeptServed
  <2>3. CASE ClaimDueFails \/ ExecuteClaim \/ ExecuteEnd \/ ExecuteRefused \/ PollEnds
    <3>1. Kept
      BY <2>3, ExecuteClaimStep, ExecuteEndStep, LoopSteps
    <3> QED
      BY <3>1, KeptServed
  <2> QED
    BY <1>3, <2>1, <2>2, <2>3 DEF SchedulerStep
<1>4. CASE ExecuteSkips \/ LoopCancelled \/ SchedulerCrash \/ SchedulerRestart
  BY <1>4, LoopSteps, KeptServed
<1>5. ASSUME NEW action \in {"prepared", "uncertain"}, RunAsks(action) PROVE Kept
  BY <1>5, RunAsksStep
<1>6. ASSUME NEW r \in DOMAIN runs, NEW confirmed \in BOOLEAN, OwnerDecides(r, confirmed) PROVE Kept
  BY <1>6, OwnerDecidesStep
<1>7. ASSUME NEW r \in DOMAIN runs, OwnerAcknowledges(r) PROVE Kept
  BY <1>7, OwnerAcknowledgesStep
<1>8. ASSUME NEW i \in DOMAIN notes, NoteAges(i) PROVE AwareInv' /\ Served
  BY <1>8, NoteAgesStep
<1> QED
  BY <1>1, <1>2, <1>3, <1>4, <1>5, <1>6, <1>7, <1>8, KeptServed DEF SchedulerNext

-----------------------------------------------------------------------------
(* The monitors.                                                           *)

\* A change of the world the monitors watch.
LEMMA WorldSteps ==
    ASSUME AwareInv, WorldNext, UNCHANGED schedVars
    PROVE  Kept
<1>1. UNCHANGED <<noteVars, known, forgotten, rdc, told, stale>>
  BY DEF WorldNext, UnitChanges, ListUnits, ConnectorLogs, ConnectorStopsOrStarts, unitVars, rdcVars
<1>2. UNCHANGED <<loops, notes, attention, drafts, subs, disp, shown, tries, disturbed>>
  BY <1>1 DEF noteVars
<1>3. watched' \subseteq Units /\ health' \in [Units -> Healths]
  <2>1. watched \subseteq Units /\ health \in [Units -> Healths]
    BY DEF AwareInv, UnitInv
  <2>2. ASSUME NEW u \in Units, NEW h \in Healths, UnitChanges(u, h)
        PROVE  watched' \subseteq Units /\ health' \in [Units -> Healths]
    BY <2>1, <2>2 DEF UnitChanges
  <2>3. ASSUME NEW W \in SUBSET Units, ListUnits(W)
        PROVE  watched' \subseteq Units /\ health' \in [Units -> Healths]
    BY <2>1, <2>3 DEF ListUnits
  <2> QED
    BY <2>1, <2>2, <2>3 DEF WorldNext, ConnectorLogs, ConnectorStopsOrStarts, unitVars
<1>4. /\ journal' \in [lines : Seq(Lines), alive : BOOLEAN]
      /\ Len(journal.lines) <= Len(journal'.lines) /\ Len(journal'.lines) <= MaxLines
  <2>1. /\ journal \in [lines : Seq(Lines), alive : BOOLEAN] /\ Len(journal.lines) <= MaxLines
        /\ journal.lines \in Seq(Lines) /\ Len(journal.lines) \in Nat
    BY SeqProperties DEF AwareInv, RdcInv
  <2>2. ASSUME NEW line \in Lines, ConnectorLogs(line)
        PROVE  /\ journal' \in [lines : Seq(Lines), alive : BOOLEAN]
               /\ Len(journal.lines) <= Len(journal'.lines) /\ Len(journal'.lines) <= MaxLines
    <3>1. PICK more : more = Append(journal.lines, line)
      OBVIOUS
    <3>2. more \in Seq(Lines) /\ Len(more) = Len(journal.lines) + 1
      BY <2>1, <3>1, SeqAppend
    <3>3. journal' = [journal EXCEPT !.lines = more] /\ Len(journal.lines) < MaxLines
      BY <2>2, <3>1 DEF ConnectorLogs
    <3>4. journal' \in [lines : Seq(Lines), alive : BOOLEAN] /\ journal'.lines = more
      BY <2>1, <3>2, <3>3
    <3> QED
      BY <2>1, <3>2, <3>3, <3>4, MonitorBounds DEF MonitorBounds
  <2>3. ASSUME ConnectorStopsOrStarts
        PROVE  journal' \in [lines : Seq(Lines), alive : BOOLEAN] /\ journal'.lines = journal.lines
    BY <2>1, <2>3 DEF ConnectorStopsOrStarts
  <2> QED
    BY <2>1, <2>2, <2>3 DEF WorldNext, UnitChanges, ListUnits, rdcVars
<1>5. UnitInv'
  BY <1>1, <1>2, <1>3 DEF AwareInv, UnitInv
<1>6. RdcInv'
  <2>1. rdc' = rdc /\ told' = told /\ stale' = stale /\ notes' = notes
    BY <1>1, <1>2
  <2>2. rdc'.cursor <= Len(journal'.lines)
    <3>1. rdc.cursor \in Nat /\ rdc.cursor <= Len(journal.lines) /\ Len(journal.lines) \in Nat
          /\ Len(journal'.lines) \in Nat
      BY <1>4, SeqProperties DEF AwareInv, RdcInv, RdcState
    <3> QED
      BY <1>4, <2>1, <3>1
  <2> QED
    BY <1>4, <2>1, <2>2 DEF AwareInv, RdcInv
<1>7. RunsInv' /\ runs' = runs
  BY RunsSame DEF AwareInv, schedVars
<1>8. LedgerInv'
  BY <1>2, <1>7 DEF AwareInv, LedgerInv
<1>9. DeliveryInv'
  <2>1. Extends(notes, notes', {}) /\ SamePush(notes, notes')
    BY <1>2, LedgerFacts, ExtendsSame DEF SamePush
  <2> QED
    BY <1>2, <2>1, DeliveryQuiet DEF AwareInv
<1>10. AwareInv'
  BY <1>5, <1>6, <1>7, <1>8, <1>9 DEF AwareInv
<1> QED
  BY <1>2, <1>10 DEF Kept, WakeKept

\* What a pass emits: none of it is about an item or on a thread of the model's.
PassOK(events) ==
    /\ events \in Seq(EventRow) /\ \A k \in 1..Len(events) : events[k].origin = 0
    /\ ThreadsOf(events) \cap ModelThreads = {} /\ ThreadsOf(events) \cap ItemThreads = {}

LEMMA PassStep ==
    ASSUME AwareInv, NEW events, PassOK(events), notes' = EmitAll(notes, events),
           Len(notes) + Len(events) <= MaxNotes,
           UNCHANGED <<loops, attention, drafts, subs, disp, shown, tries, disturbed, schedVars>>
    PROVE  /\ LedgerInv' /\ DeliveryInv' /\ RunsInv' /\ WakeKept
           /\ EmitsOK(notes, notes', events, Len(events))
<1>1. /\ NotesOK(notes, Len(runs)) /\ AttentionOK(notes, attention) /\ Len(runs) \in Nat
      /\ notes \in Ledgers /\ Len(notes) \in Nat /\ Orderly(notes)
  BY LedgerFacts DEF NotesOK
<1>2. EmitsOK(notes, notes', events, Len(events))
  BY <1>1, EmitAllFacts DEF PassOK
<1>3. /\ Extends(notes, notes', ThreadsOf(events)) /\ Unnoted(notes, notes') /\ Orderly(notes')
      /\ Len(notes') <= Len(notes) + Len(events)
      /\ \A i \in DOMAIN notes' : i \in DOMAIN notes \/ notes'[i].origin = 0
  BY <1>2 DEF EmitsOK
<1>4. RunsInv' /\ runs' = runs
  BY RunsSame DEF AwareInv, schedVars
<1>5. NotesOK(notes', Len(runs'))
  <2>1. Len(events) \in Nat /\ Len(notes') \in Nat /\ notes' \in Ledgers
    BY <1>3, SeqProperties DEF PassOK, Extends, Ledgers
  <2>2. Len(notes') <= MaxNotes
    BY <1>1, <1>3, <2>1, NotificationBounds
  <2>3. \A i \in DOMAIN notes' : notes'[i].origin <= Len(runs)
    BY <1>1, <1>3 DEF NotesOK, Extends, SameRow
  <2> QED
    BY <1>3, <1>4, <2>1, <2>2, <2>3 DEF NotesOK
<1>6. AttentionOK(notes', attention')
  <2>1. \A x \in Items : ItemThread(x) \notin ThreadsOf(events)
    BY DEF PassOK, ItemThreads
  <2> QED
    BY <1>1, <1>3, <2>1, AttentionQuiet
<1>7. LedgerInv'
  BY <1>4, <1>5, <1>6 DEF AwareInv, LedgerInv
<1>8. DeliveryInv'
  BY <1>3, DeliveryQuiet DEF AwareInv, SamePush, Unnoted
<1>9. WakeKept
  BY <1>3 DEF WakeKept, Unnoted
<1> QED
  BY <1>2, <1>4, <1>7, <1>8, <1>9

\* The sequence SetToSeq chooses lists the set without repetitions.
LEMMA SetToSeqFacts ==
    ASSUME NEW S, IsFiniteSet(S)
    PROVE  LET s == SetToSeq(S) n == Cardinality(S)
           IN  /\ n \in Nat /\ s \in [1..n -> S] /\ \A p \in S : \E k \in 1..n : s[k] = p
               /\ \A k, l \in 1..n : s[k] = s[l] => k = l
<1> DEFINE n == Cardinality(S)
           s == SetToSeq(S)
<1>1. n \in Nat /\ ExistsBijection(1..n, S)
  BY FS_CardinalityType
<1>2. \E f \in [1..n -> S] : IsInjective(f)
  BY <1>1 DEF ExistsBijection, Bijection, Injection
<1>3. s \in [1..n -> S] /\ IsInjective(s)
  BY <1>2 DEF SetToSeq
<1>4. s \in Injection(1..n, S)
  BY <1>3 DEF Injection
<1>5. Cardinality(1..n) = n
  BY <1>1, FS_Interval
<1> HIDE DEF n, s
<1>6. s \in Surjection(1..n, S)
  <2>1. Cardinality(1..n) = Cardinality(S)
    BY <1>5 DEF n
  <2> QED
    BY <1>4, <2>1, FS_Injection
<1>7. \A p \in S : \E k \in 1..n : s[k] = p
  BY <1>6 DEF Surjection
<1>8. \A k, l \in 1..n : s[k] = s[l] => k = l
  BY <1>3 DEF IsInjective
<1> QED
  BY <1>1, <1>3, <1>7, <1>8 DEF n, s

\* The event of a unit is on its alarm thread or on its restart thread, and a recovery
\* is on the alarm thread.
RestartOf(u) == <<"unit restart", u>>

LEMMA UnitEventFacts ==
    ASSUME AwareInv, NEW u \in Units, PassEvents(u) # <<>>
    PROVE  LET e == Head(PassEvents(u))
           IN  /\ e \in EventRow /\ e.origin = 0 /\ e.thread \in {UnitThread(u), RestartOf(u)}
               /\ Healthy(health[u]) /\ known[u] = "unhealthy" =>
                     e.thread = UnitThread(u) /\ e.severity = "resolved"
               /\ Healthy(health[u]) /\ known[u] # "unhealthy" => e.thread = RestartOf(u)
<1>1. health[u] \in Healths
  BY DEF AwareInv, UnitInv
<1> DEFINE warning  == Event("units", UnitThread(u), "warning", health[u], 0)
           resolved == Event("units", UnitThread(u), "resolved", health[u], 0)
           info     == Event("units", RestartOf(u), "info", health[u], 0)
<1>2. /\ warning \in EventRow /\ warning.origin = 0 /\ warning.thread = UnitThread(u)
      /\ resolved \in EventRow /\ resolved.origin = 0 /\ resolved.thread = UnitThread(u)
      /\ resolved.severity = "resolved"
      /\ info \in EventRow /\ info.origin = 0 /\ info.thread = RestartOf(u)
  BY <1>1 DEF Event, EventRow, Sources, Threads, UnitThreads, RestartThreads, RestartOf, Severities, Texts
<1>3. CASE ~Healthy(health[u]) /\ known[u] # "unhealthy"
  <2>1. PassEvents(u) = <<warning>>
    BY <1>3 DEF PassEvents, UnitEvents, Healthy
  <2> HIDE DEF warning
  <2>2. Head(PassEvents(u)) = warning
    BY <2>1
  <2> QED
    BY <1>2, <1>3, <2>2
<1>4. CASE Healthy(health[u]) /\ known[u] = "unhealthy"
  <2>1. PassEvents(u) = <<resolved>>
    BY <1>4 DEF PassEvents, UnitEvents
  <2> HIDE DEF resolved
  <2>2. Head(PassEvents(u)) = resolved
    BY <2>1
  <2> QED
    BY <1>2, <1>4, <2>2
<1>5. CASE ~(~Healthy(health[u]) /\ known[u] # "unhealthy") /\ ~(Healthy(health[u]) /\ known[u] = "unhealthy")
  <2>1. PassEvents(u) = <<info>> /\ health[u] = "restarted" /\ known[u] = "healthy"
    BY <1>5 DEF PassEvents, UnitEvents, RestartOf
  <2> HIDE DEF info
  <2>2. Head(PassEvents(u)) = info
    BY <2>1
  <2> QED
    BY <1>2, <1>5, <2>1, <2>2
<1> QED
  BY <1>3, <1>4, <1>5

\* A recovery is announced.
LEMMA RecoveryAnnounced ==
    ASSUME NEW u \in watched, Healthy(health[u]), known[u] = "unhealthy"
    PROVE  u \in Announced
<1>1. PassEvents(u) = <<Event("units", UnitThread(u), "resolved", health[u], 0)>>
  BY DEF PassEvents, UnitEvents
<1>2. PassEvents(u) # <<>>
  BY <1>1
<1> QED
  BY <1>2 DEF Announced

LEMMA UnitsPassStep ==
    ASSUME AwareInv, UnitsPass, UNCHANGED schedVars
    PROVE  Kept
<1>1. PICK order, n : order = SetToSeq(Announced) /\ n = Cardinality(Announced)
  OBVIOUS
<1>2. PICK events : events = [k \in DOMAIN order |-> Head(PassEvents(order[k]))]
  OBVIOUS
<1>3. /\ Len(notes) + Len(events) <= MaxNotes /\ notes' = EmitAll(notes, events)
      /\ known' = [u \in Units |-> IF u \notin watched THEN "none"
                                   ELSE IF Healthy(health[u]) THEN "healthy" ELSE "unhealthy"]
      /\ health' = [u \in Units |-> IF u \in watched /\ Healthy(health[u]) THEN "healthy" ELSE health[u]]
      /\ forgotten' = forgotten \cup {u \in Units \ watched : known[u] = "unhealthy"}
      /\ UNCHANGED <<loops, attention, drafts, subs, disp, shown, tries, disturbed, watched, rdcVars>>
  BY <1>1, <1>2 DEF UnitsPass, deviceVars, deliveryVars
<1>4. /\ watched \subseteq Units /\ health \in [Units -> Healths]
      /\ known \in [Units -> {"none", "healthy", "unhealthy"}]
      /\ \A u \in Units :
            OpenThread(notes, UnitThread(u)) # {} => known[u] = "unhealthy" \/ u \in forgotten
  BY DEF AwareInv, UnitInv
<1>5. /\ n \in Nat /\ order \in [1..n -> Announced] /\ \A u \in Announced : \E k \in 1..n : order[k] = u
      /\ \A k, l \in 1..n : order[k] = order[l] => k = l
  <2>1. IsFiniteSet(Announced)
    BY <1>4, FS_Subset, MonitorBounds DEF Announced, MonitorBounds
  <2> QED
    BY <1>1, <2>1, SetToSeqFacts
<1>6. ASSUME NEW k \in 1..n
      PROVE  /\ order[k] \in watched /\ order[k] \in Units
             /\ events[k] \in EventRow /\ events[k].origin = 0
             /\ events[k].thread \in {UnitThread(order[k]), RestartOf(order[k])}
             /\ Healthy(health[order[k]]) /\ known[order[k]] = "unhealthy" =>
                   events[k].thread = UnitThread(order[k]) /\ events[k].severity = "resolved"
             /\ Healthy(health[order[k]]) /\ known[order[k]] # "unhealthy" =>
                   events[k].thread = RestartOf(order[k])
  <2>1. PICK u : u = order[k]
    OBVIOUS
  <2>2. u \in watched /\ u \in Units /\ PassEvents(u) # <<>>
    BY <1>4, <1>5, <2>1 DEF Announced
  <2>3. events[k] = Head(PassEvents(u))
    BY <1>2, <1>5, <2>1
  <2> QED
    BY <2>1, <2>2, <2>3, UnitEventFacts
<1>7. events \in Seq(EventRow) /\ Len(events) = n
  <2>1. events \in [1..n -> EventRow]
    BY <1>2, <1>5, <1>6
  <2> QED
    BY <1>5, <2>1, FunctionIsSeq
<1>8. ASSUME NEW k \in 1..n, NEW u \in Units, events[k].thread = UnitThread(u) PROVE u = order[k]
  <2>1. UnitThread(u) # RestartOf(order[k])
    BY DEF UnitThread, RestartOf
  <2>2. UnitThread(u) = UnitThread(order[k])
    BY <1>6, <1>8, <2>1
  <2> QED
    BY <2>2, ThreadsApart
<1>9. PassOK(events)
  <2>1. ASSUME NEW k \in 1..n PROVE events[k].thread \notin ModelThreads \cup ItemThreads
    <3>1. events[k].thread \in UnitThreads \cup RestartThreads
      BY <1>6 DEF UnitThreads, RestartThreads, RestartOf
    <3>2. \A t \in UnitThreads : t \notin ModelThreads \cup ItemThreads
      BY ThreadsApart DEF UnitThreads
    <3>3. \A t \in RestartThreads : t \notin ModelThreads
      BY ThreadsApart
    <3>4. \A t \in ItemThreads : t \notin RestartThreads
      BY ThreadsApart DEF ItemThreads
    <3> QED
      BY <3>1, <3>2, <3>3, <3>4
  <2> QED
    BY <1>6, <1>7, <2>1 DEF PassOK, ThreadsOf
<1>10. /\ LedgerInv' /\ DeliveryInv' /\ RunsInv' /\ WakeKept /\ EmitsOK(notes, notes', events, n)
  BY <1>3, <1>7, <1>9, PassStep
<1>11. /\ Extends(notes, notes', ThreadsOf(events))
       /\ \A j \in 1..n : Recovers(events, j, n) => OpenThread(notes', events[j].thread) = {}
  BY <1>10 DEF EmitsOK
<1>12. ASSUME NEW u \in Units, OpenThread(notes', UnitThread(u)) # {}
       PROVE  known'[u] = "unhealthy" \/ u \in forgotten'
  <2>1. ASSUME ~\E k \in 1..n : events[k].thread = UnitThread(u), known[u] # "unhealthy" \/ u \notin watched
        PROVE  u \in forgotten'
    <3>1. UnitThread(u) \notin ThreadsOf(events)
      BY <1>7, <2>1 DEF ThreadsOf
    <3>2. OpenThread(notes, UnitThread(u)) # {}
      BY <1>11, <1>12, <3>1, ExtendsOpen
    <3> QED
      BY <1>3, <1>4, <2>1, <3>2
  <2>2. CASE u \notin watched
    BY <1>6, <1>8, <2>1, <2>2
  <2>3. CASE u \in watched /\ ~Healthy(health[u])
    BY <1>3, <2>3
  <2>4. CASE u \in watched /\ Healthy(health[u]) /\ known[u] = "unhealthy"
    <3>1. PICK k \in 1..n : order[k] = u
      BY <1>5, <2>4, RecoveryAnnounced
    <3>2. events[k].thread = UnitThread(u) /\ events[k].severity = "resolved"
      BY <1>6, <2>4, <3>1
    <3>3. \A l \in 1..n : k < l => events[l].thread # events[k].thread
      <4>1. \A l \in 1..n : events[l].thread = UnitThread(u) => l = k
        BY <1>5, <1>8, <3>1
      <4>2. \A l \in 1..n : k < l => l # k
        BY <1>5
      <4> QED
        BY <3>2, <4>1, <4>2
    <3>4. Recovers(events, k, n)
      BY <3>2, <3>3 DEF Recovers
    <3> QED
      BY <1>11, <1>12, <3>2, <3>4
  <2>5. CASE u \in watched /\ Healthy(health[u]) /\ known[u] # "unhealthy"
    <3>1. \A k \in 1..n : events[k].thread # UnitThread(u)
      <4>1. UnitThread(u) # RestartOf(u)
        BY DEF UnitThread, RestartOf
      <4> QED
        BY <1>6, <1>8, <2>5, <4>1
    <3> QED
      BY <2>1, <2>5, <3>1
  <2> QED
    BY <2>2, <2>3, <2>4, <2>5
<1>13. UnitInv'
  <2>1. watched' \subseteq Units /\ health' \in [Units -> Healths]
    BY <1>3, <1>4 DEF Healths
  <2>2. known' \in [Units -> {"none", "healthy", "unhealthy"}]
    BY <1>3
  <2> QED
    BY <1>12, <2>1, <2>2 DEF UnitInv
<1>14. RdcInv'
  BY <1>3, <1>11, RdcQuiet DEF AwareInv, rdcVars
<1> QED
  BY <1>10, <1>13, <1>14 DEF AwareInv, Kept

\* What one line of the journal adds: at most one event, and a warning names the line.
LineEvent(e, n) ==
    /\ e \in EventRow /\ e.origin = 0 /\ e.thread \in RdcThreads
    /\ e.severity = "warning" => e.thread = AuthThread /\ e.body = n

LEMMA LineFacts ==
    ASSUME NEW st \in RdcState, NEW n \in Nat, NEW line \in Lines, NEW expired
    PROVE  /\ ApplyLine(st, line) \in RdcState
           /\ \/ LineEvents(st, n, line, expired) = <<>>
              \/ \E e : LineEvents(st, n, line, expired) = <<e>> /\ LineEvent(e, n)
<1>1. ApplyLine(st, line) \in RdcState
  <2>0. PICK new : new = ApplyLine(st, line)
    OBVIOUS
  <2>1. \/ new = [st EXCEPT !.phase = "starting", !.awaiting = "none", !.restored = FALSE]
        \/ new = [st EXCEPT !.restored = TRUE]
        \/ new = [st EXCEPT !.awaiting = "url"] \/ new = [st EXCEPT !.awaiting = "code"]
        \/ new = [st EXCEPT !.awaiting = "expiry"]
        \/ new = [st EXCEPT !.awaiting = "none", !.phase = "auth_required"]
        \/ new = [st EXCEPT !.phase = "online"]
        \/ new = [st EXCEPT !.phase = "stopped", !.awaiting = "none"]
        \/ new = st
    BY <2>0 DEF ApplyLine
  <2>2. ASSUME new = [st EXCEPT !.phase = "starting", !.awaiting = "none", !.restored = FALSE]
        PROVE  new \in RdcState
    BY <2>2 DEF RdcState
  <2>3. ASSUME new = [st EXCEPT !.restored = TRUE] PROVE new \in RdcState
    BY <2>3 DEF RdcState
  <2>4. ASSUME new = [st EXCEPT !.awaiting = "url"] PROVE new \in RdcState
    BY <2>4 DEF RdcState
  <2>5. ASSUME new = [st EXCEPT !.awaiting = "code"] PROVE new \in RdcState
    BY <2>5 DEF RdcState
  <2>6. ASSUME new = [st EXCEPT !.awaiting = "expiry"] PROVE new \in RdcState
    BY <2>6 DEF RdcState
  <2>7. ASSUME new = [st EXCEPT !.awaiting = "none", !.phase = "auth_required"] PROVE new \in RdcState
    BY <2>7 DEF RdcState
  <2>8. ASSUME new = [st EXCEPT !.phase = "online"] PROVE new \in RdcState
    BY <2>8 DEF RdcState
  <2>9. ASSUME new = [st EXCEPT !.phase = "stopped", !.awaiting = "none"] PROVE new \in RdcState
    BY <2>9 DEF RdcState
  <2> QED
    BY <2>0, <2>1, <2>2, <2>3, <2>4, <2>5, <2>6, <2>7, <2>8, <2>9
<1> DEFINE code     == Event("rdc", AuthThread, "warning", n, 0)
           resolved == Event("rdc", AuthThread, "resolved", "online", 0)
           restart  == Event("rdc", RestartThread, "info", "restarted", 0)
<1>2. LineEvent(code, n) /\ LineEvent(resolved, n) /\ LineEvent(restart, n)
  BY DEF LineEvent, Event, EventRow, Sources, Threads, RdcThreads, Severities, Texts
<1>3. \/ LineEvents(st, n, line, expired) = <<>> \/ LineEvents(st, n, line, expired) = <<code>>
      \/ LineEvents(st, n, line, expired) = <<resolved>> \/ LineEvents(st, n, line, expired) = <<restart>>
  BY DEF LineEvents
<1> HIDE DEF code, resolved, restart
<1> QED
  BY <1>1, <1>2, <1>3

\* The journal read up to line n: each warning names another of the lines.
Readings == [state : RdcState, events : Seq(EventRow)]

ReadOK(p, from, n) ==
    /\ p \in Readings
    /\ \A j \in 1..Len(p.events) :
          /\ p.events[j].origin = 0 /\ p.events[j].thread \in RdcThreads
          /\ p.events[j].severity = "warning" =>
                p.events[j].thread = AuthThread /\ p.events[j].body \in from..n
    /\ \A j, l \in 1..Len(p.events) :
          /\ p.events[j].severity = "warning" /\ p.events[l].severity = "warning"
          /\ p.events[j].body = p.events[l].body
          => j = l

ReadLine(p, n, expired) ==
    [state  |-> ApplyLine(p.state, journal.lines[n]),
     events |-> p.events \o LineEvents(p.state, n, journal.lines[n], expired)]

LEMMA ReadLineTyped ==
    ASSUME NEW p \in Readings, NEW n \in Nat, NEW expired, journal.lines[n] \in Lines
    PROVE  /\ ReadLine(p, n, expired) \in Readings
           /\ \/ ReadLine(p, n, expired).events = p.events
              \/ \E e : ReadLine(p, n, expired).events = p.events \o <<e>> /\ LineEvent(e, n)
<1>1. p.state \in RdcState /\ p.events \in Seq(EventRow)
  BY DEF Readings
<1>2. PICK line : line = journal.lines[n]
  OBVIOUS
<1>3. PICK st, more : st = ApplyLine(p.state, line) /\ more = LineEvents(p.state, n, line, expired)
  OBVIOUS
<1>4. st \in RdcState /\ (more = <<>> \/ \E e : more = <<e>> /\ LineEvent(e, n))
  BY <1>1, <1>2, <1>3, LineFacts
<1>5. more \in Seq(EventRow)
  <2>1. CASE more = <<>>
    BY <2>1
  <2>2. ASSUME NEW e, more = <<e>>, LineEvent(e, n) PROVE more \in Seq(EventRow)
    BY <2>2 DEF LineEvent
  <2> QED
    BY <1>4, <2>1, <2>2
<1>6. ReadLine(p, n, expired) = [state |-> st, events |-> p.events \o more]
  BY <1>2, <1>3 DEF ReadLine
<1>7. p.events \o more \in Seq(EventRow)
  BY <1>1, <1>5, ConcatFacts
<1>8. more = <<>> => p.events \o more = p.events
  BY <1>1
<1> QED
  <2>1. PICK new : new = ReadLine(p, n, expired)
    OBVIOUS
  <2>2. PICK both : both = p.events \o more
    OBVIOUS
  <2>3. new = [state |-> st, events |-> both] /\ new.events = both
    BY <1>6, <2>1, <2>2
  <2>4. new \in Readings
    BY <1>4, <1>7, <2>2, <2>3 DEF Readings
  <2>5. new.events = p.events \/ \E e : new.events = p.events \o <<e>> /\ LineEvent(e, n)
    BY <1>4, <1>8, <2>2, <2>3, Zenon
  <2> QED
    BY <2>1, <2>4, <2>5, Zenon

LEMMA ReadLineOK ==
    ASSUME NEW from \in Nat, NEW n \in Nat, from <= n, NEW p, ReadOK(p, from, n - 1), NEW expired,
           journal.lines[n] \in Lines
    PROVE  ReadOK(ReadLine(p, n, expired), from, n)
<1>1. p \in Readings /\ p.events \in Seq(EventRow)
  BY DEF ReadOK, Readings
<1>2. PICK new : new = ReadLine(p, n, expired)
  OBVIOUS
<1>3. /\ new \in Readings
      /\ new.events = p.events \/ \E e : new.events = p.events \o <<e>> /\ LineEvent(e, n)
  BY <1>1, <1>2, ReadLineTyped
<1>4. \A b \in from..(n - 1) : b \in from..n /\ b # n
  OBVIOUS
<1>5. CASE new.events = p.events
  <2>1. PICK ev : ev = p.events
    OBVIOUS
  <2>2. /\ \A j \in 1..Len(ev) :
              /\ ev[j].origin = 0 /\ ev[j].thread \in RdcThreads
              /\ ev[j].severity = "warning" => ev[j].thread = AuthThread /\ ev[j].body \in from..(n - 1)
        /\ \A j, l \in 1..Len(ev) :
              ev[j].severity = "warning" /\ ev[l].severity = "warning" /\ ev[j].body = ev[l].body => j = l
    BY <2>1 DEF ReadOK
  <2>3. \A j \in 1..Len(ev) :
           /\ ev[j].origin = 0 /\ ev[j].thread \in RdcThreads
           /\ ev[j].severity = "warning" => ev[j].thread = AuthThread /\ ev[j].body \in from..n
    BY <1>4, <2>2
  <2>4. new.events = ev
    BY <1>5, <2>1
  <2>5. ReadOK(new, from, n)
    BY <1>3, <2>2, <2>3, <2>4 DEF ReadOK
  <2> QED
    BY <1>2, <2>5
<1>6. ASSUME NEW e, new.events = p.events \o <<e>>, LineEvent(e, n) PROVE ReadOK(new, from, n)
  <2>1. PICK old, ev : old = p.events /\ ev = new.events
    OBVIOUS
  <2>2. <<e>> \in Seq(EventRow) /\ Len(<<e>>) = 1 /\ <<e>>[1] = e
    BY <1>6 DEF LineEvent
  <2>3. /\ Len(ev) = Len(old) + 1 /\ \A i \in 1..Len(old) : ev[i] = old[i]
        /\ ev[Len(old) + 1] = e /\ Len(old) \in Nat
    <3>1. /\ Len(p.events \o <<e>>) = Len(p.events) + Len(<<e>>)
          /\ \A i \in 1..Len(p.events) : (p.events \o <<e>>)[i] = p.events[i]
          /\ \A i \in 1..Len(<<e>>) : (p.events \o <<e>>)[Len(p.events) + i] = <<e>>[i]
      BY <1>1, <2>2, ConcatFacts
    <3>2. Len(p.events) \in Nat
      BY <1>1
    <3> QED
      BY <1>6, <2>1, <2>2, <3>1, <3>2
  <2>4. /\ \A j \in 1..Len(old) :
              /\ old[j].origin = 0 /\ old[j].thread \in RdcThreads
              /\ old[j].severity = "warning" => old[j].thread = AuthThread /\ old[j].body \in from..(n - 1)
        /\ \A j, l \in 1..Len(old) :
              old[j].severity = "warning" /\ old[l].severity = "warning" /\ old[j].body = old[l].body => j = l
    BY <2>1 DEF ReadOK
  <2>5. \A j \in 1..Len(ev) : j \in 1..Len(old) \/ j = Len(old) + 1
    BY <2>3
  <2>6. n \in from..n
    OBVIOUS
  <2>7. \A j \in 1..Len(ev) :
           /\ ev[j].origin = 0 /\ ev[j].thread \in RdcThreads
           /\ ev[j].severity = "warning" => ev[j].thread = AuthThread /\ ev[j].body \in from..n
    BY <1>4, <1>6, <2>3, <2>4, <2>5, <2>6 DEF LineEvent
  <2>8. \A j, l \in 1..Len(ev) :
           ev[j].severity = "warning" /\ ev[l].severity = "warning" /\ ev[j].body = ev[l].body => j = l
    BY <1>4, <1>6, <2>3, <2>4, <2>5 DEF LineEvent
  <2> QED
    BY <1>3, <2>1, <2>7, <2>8 DEF ReadOK
<1> QED
  BY <1>2, <1>3, <1>5, <1>6

LEMMA JournalDef ==
    ASSUME NEW st \in RdcState, NEW from \in Nat \ {0}, NEW to \in Nat, from - 1 <= to, NEW expired,
           \A n \in from..to : journal.lines[n] \in Lines
    PROVE  \E read : /\ read[to] = ApplyJournal(st, from, to, expired)
                     /\ read[from - 1] = [state |-> st, events |-> <<>>]
                     /\ \A n \in from..to : read[n] = ReadLine(read[n - 1], n, expired)
<1> DEFINE m == to - (from - 1)
           start == [state |-> st, events |-> <<>>]
           step == [p \in Readings \X (1..m) |-> ReadLine(p[1], p[2] + (from - 1), expired)]
           Solves(f) == f = [n \in (from - 1)..to |->
                               IF n = from - 1 THEN start ELSE ReadLine(f[n - 1], n, expired)]
<1>1. m \in Nat /\ start \in Readings
  BY DEF Readings
<1>2. /\ step \in [Readings \X (1..m) -> Readings]
      /\ \A p \in Readings, k \in 1..m : step[<<p, k>>] = ReadLine(p, k + (from - 1), expired)
  <2>1. \A k \in 1..m : k + (from - 1) \in from..to /\ k + (from - 1) \in Nat
    OBVIOUS
  <2>2. \A p \in Readings, k \in 1..m : ReadLine(p, k + (from - 1), expired) \in Readings
    BY <2>1, ReadLineTyped
  <2> QED
    BY <2>2
<1> HIDE DEF step, start
<1>3. PICK f : Iteration(f, m, Readings, start, step)
  <2> HIDE DEF m
  <2> QED
    BY <1>1, <1>2, Iterates
<1>4. /\ f \in [0..m -> Readings] /\ f[0] = start
      /\ \A k \in 1..m : f[k] = ReadLine(f[k - 1], k + (from - 1), expired)
  <2>1. f \in [0..m -> Readings] /\ f[0] = start /\ \A k \in 1..m : f[k] = step[<<f[k - 1], k>>]
    BY <1>3 DEF Iteration
  <2>2. \A k \in 1..m : f[k - 1] \in Readings
    <3>1. \A k \in 1..m : k - 1 \in 0..m
      BY <1>1
    <3> QED
      BY <2>1, <3>1
  <2> HIDE DEF m
  <2> QED
    BY <1>2, <2>1, <2>2
<1> DEFINE g == [n \in (from - 1)..to |-> f[n - (from - 1)]]
<1>5. \A n \in (from - 1)..to : g[n] = IF n = from - 1 THEN start ELSE ReadLine(g[n - 1], n, expired)
  <2> SUFFICES ASSUME NEW n \in (from - 1)..to
               PROVE  g[n] = IF n = from - 1 THEN start ELSE ReadLine(g[n - 1], n, expired)
    OBVIOUS
  <2>1. CASE n = from - 1
    <3>1. n - (from - 1) = 0
      BY <2>1
    <3> QED
      BY <1>4, <2>1, <3>1
  <2>2. CASE n # from - 1
    <3>1. /\ n - (from - 1) \in 1..m /\ (n - (from - 1)) + (from - 1) = n
          /\ n - 1 \in (from - 1)..to /\ (n - 1) - (from - 1) = (n - (from - 1)) - 1
      BY <2>2
    <3>2. g[n] = f[n - (from - 1)] /\ g[n - 1] = f[(n - (from - 1)) - 1]
      BY <3>1
    <3>3. f[n - (from - 1)] = ReadLine(f[(n - (from - 1)) - 1], n, expired)
      BY <1>4, <3>1
    <3> QED
      BY <2>2, <3>2, <3>3
  <2> QED
    BY <2>1, <2>2
<1>6. Solves(g)
  <2>1. g = [n \in (from - 1)..to |-> g[n]]
    OBVIOUS
  <2> HIDE DEF g
  <2> QED
    BY <1>5, <2>1
<1>7. ApplyJournal(st, from, to, expired) = (CHOOSE h : Solves(h))[to]
  BY DEF ApplyJournal, ReadLine, start
<1> HIDE DEF Solves
<1>8. PICK read : read = CHOOSE h : Solves(h)
  OBVIOUS
<1>9. Solves(read)
  BY <1>6, <1>8
<1>10. read = [n \in (from - 1)..to |->
                 IF n = from - 1 THEN start ELSE ReadLine(read[n - 1], n, expired)]
  BY <1>9 DEF Solves
<1>11. /\ read[from - 1] = start
       /\ \A n \in from..to : read[n] = ReadLine(read[n - 1], n, expired)
  <2>1. from - 1 \in (from - 1)..to
    OBVIOUS
  <2>2. \A n \in from..to : n \in (from - 1)..to /\ n # from - 1
    OBVIOUS
  <2>3. \A n \in (from - 1)..to :
           read[n] = IF n = from - 1 THEN start ELSE ReadLine(read[n - 1], n, expired)
    BY <1>10
  <2> QED
    BY <2>1, <2>2, <2>3
<1> QED
  BY <1>7, <1>8, <1>11 DEF start

LEMMA JournalFacts ==
    ASSUME NEW st \in RdcState, NEW from \in Nat \ {0}, NEW to \in Nat, from - 1 <= to, NEW expired,
           \A n \in from..to : journal.lines[n] \in Lines
    PROVE  ReadOK(ApplyJournal(st, from, to, expired), from, to)
<1>1. PICK read : /\ read[to] = ApplyJournal(st, from, to, expired)
                  /\ read[from - 1] = [state |-> st, events |-> <<>>]
                  /\ \A n \in from..to : read[n] = ReadLine(read[n - 1], n, expired)
  BY JournalDef
<1> DEFINE m == to - (from - 1)
           S == {k \in 0..m : ReadOK(read[k + (from - 1)], from, k + (from - 1))}
<1>2. m \in Nat /\ m + (from - 1) = to
  OBVIOUS
<1>3. 0 \in S
  <2>1. PICK start : start = read[from - 1]
    OBVIOUS
  <2>2. start.events = <<>> /\ start \in Readings
    BY <1>1, <2>1 DEF Readings
  <2>3. 1..Len(<<>>) = {}
    OBVIOUS
  <2>4. ReadOK(start, from, from - 1)
    BY <2>2, <2>3 DEF ReadOK
  <2>5. 0 + (from - 1) = from - 1 /\ 0 \in 0..m
    BY <1>2
  <2> QED
    BY <2>1, <2>4, <2>5
<1>4. ASSUME NEW k \in 1..m, k - 1 \in S PROVE k \in S
  <2>1. PICK n : n = k + (from - 1)
    OBVIOUS
  <2>2. /\ n \in from..to /\ n \in Nat /\ from <= n /\ from \in Nat
        /\ (k - 1) + (from - 1) = n - 1 /\ k \in 0..m
    BY <1>2, <2>1
  <2>3. ReadOK(read[n - 1], from, n - 1)
    <3>1. ReadOK(read[(k - 1) + (from - 1)], from, (k - 1) + (from - 1))
      BY <1>4
    <3> QED
      BY <2>2, <3>1
  <2>4. ReadOK(read[n], from, n)
    BY <1>1, <2>2, <2>3, ReadLineOK
  <2> QED
    BY <2>1, <2>2, <2>4
<1>5. m \in S
  <2> HIDE DEF S, m
  <2>1. m \in 0..m
    BY <1>2
  <2> QED
    BY <1>2, <1>3, <1>4, <2>1, UpTo
<1> QED
  BY <1>1, <1>2, <1>5

LEMMA LivenessFacts ==
    ASSUME NEW st \in RdcState, NEW alive \in BOOLEAN, NEW outlasted \in BOOLEAN
    PROVE  \E new, more : /\ ApplyLiveness(st, alive, outlasted) = [state |-> new, events |-> more]
                          /\ new \in RdcState /\ more \in Seq(EventRow)
                          /\ \A k \in 1..Len(more) : more[k].origin = 0 /\ more[k].thread = ProcessThread
<1> DEFINE back == Event("rdc", ProcessThread, "resolved", "running", 0)
           gone == Event("rdc", ProcessThread, "warning", "missing", 0)
<1>1. /\ back \in EventRow /\ back.origin = 0 /\ back.thread = ProcessThread
      /\ gone \in EventRow /\ gone.origin = 0 /\ gone.thread = ProcessThread
  BY DEF Event, EventRow, Sources, Threads, RdcThreads, Severities, Texts
<1>2. \E new, more : /\ ApplyLiveness(st, alive, outlasted) = [state |-> new, events |-> more]
                     /\ more \in {<<>>, <<back>>, <<gone>>}
                     /\ \/ new = [st EXCEPT !.missing = FALSE, !.alarm = FALSE]
                        \/ new = [st EXCEPT !.missing = TRUE] \/ new = [st EXCEPT !.alarm = TRUE]
                        \/ new = st
  <2>1. CASE alive /\ st.alarm
    BY <2>1, Zenon DEF ApplyLiveness
  <2>2. CASE alive /\ ~st.alarm
    BY <2>2, Zenon DEF ApplyLiveness
  <2>3. CASE ~alive /\ ~st.missing
    BY <2>3, Zenon DEF ApplyLiveness
  <2>4. CASE ~alive /\ st.missing /\ ~st.alarm /\ outlasted
    BY <2>4, Zenon DEF ApplyLiveness
  <2>5. CASE ~alive /\ st.missing /\ (st.alarm \/ ~outlasted)
    BY <2>5, Zenon DEF ApplyLiveness
  <2> QED
    BY <2>1, <2>2, <2>3, <2>4, <2>5
<1> HIDE DEF back, gone
<1>3. PICK new, more : /\ ApplyLiveness(st, alive, outlasted) = [state |-> new, events |-> more]
                       /\ more \in {<<>>, <<back>>, <<gone>>}
                       /\ \/ new = [st EXCEPT !.missing = FALSE, !.alarm = FALSE]
                          \/ new = [st EXCEPT !.missing = TRUE] \/ new = [st EXCEPT !.alarm = TRUE]
                          \/ new = st
  BY <1>2
<1>4. new \in RdcState
  <2>1. ASSUME new = [st EXCEPT !.missing = FALSE, !.alarm = FALSE] PROVE new \in RdcState
    BY <2>1 DEF RdcState
  <2>2. ASSUME new = [st EXCEPT !.missing = TRUE] PROVE new \in RdcState
    BY <2>2 DEF RdcState
  <2>3. ASSUME new = [st EXCEPT !.alarm = TRUE] PROVE new \in RdcState
    BY <2>3 DEF RdcState
  <2> QED
    BY <1>3, <2>1, <2>2, <2>3
<1>5. /\ more \in Seq(EventRow)
      /\ \A k \in 1..Len(more) : more[k].origin = 0 /\ more[k].thread = ProcessThread
  <2>1. CASE more = <<>>
    BY <2>1
  <2>2. CASE more = <<back>>
    BY <1>1, <2>2
  <2>3. CASE more = <<gone>>
    BY <1>1, <2>3
  <2> QED
    BY <1>3, <2>1, <2>2, <2>3
<1> QED
  BY <1>3, <1>4, <1>5

\* The announcements of line n.
Calls(events, n) == {k \in 1..Len(events) : events[k].severity = "warning" /\ events[k].body = n}

LEMMA CallsFacts ==
    ASSUME NEW p, NEW from \in Nat, NEW to \in Nat, ReadOK(p, from, to), NEW n \in Nat
    PROVE  /\ Cardinality(Calls(p.events, n)) \in 0..1
           /\ n \notin from..to => Cardinality(Calls(p.events, n)) = 0
           /\ Cardinality(Calls(p.events, n)) # 0 => \E k \in 1..Len(p.events) :
                 /\ p.events[k].severity = "warning" /\ p.events[k].thread = AuthThread
                 /\ p.events[k].body = n
<1>1. PICK ev : ev = p.events
  OBVIOUS
<1>2. /\ \A j \in 1..Len(ev) : ev[j].severity = "warning" =>
            ev[j].thread = AuthThread /\ ev[j].body \in from..to
      /\ \A j, l \in 1..Len(ev) :
            ev[j].severity = "warning" /\ ev[l].severity = "warning" /\ ev[j].body = ev[l].body => j = l
  BY <1>1 DEF ReadOK
<1>3. CASE Calls(ev, n) = {}
  <2>1. Cardinality(Calls(ev, n)) = 0
    BY <1>3, FS_EmptySet
  <2> QED
    BY <1>1, <2>1
<1>4. ASSUME NEW k \in Calls(ev, n)
      PROVE  /\ Cardinality(Calls(ev, n)) = 1 /\ n \in from..to
             /\ k \in 1..Len(ev) /\ ev[k].severity = "warning" /\ ev[k].thread = AuthThread
             /\ ev[k].body = n
  <2>1. k \in 1..Len(ev) /\ ev[k].severity = "warning" /\ ev[k].body = n
    BY <1>4 DEF Calls
  <2>2. Calls(ev, n) = {k}
    BY <1>2, <1>4, <2>1 DEF Calls
  <2>3. Cardinality(Calls(ev, n)) = 1
    BY <2>2, FS_Singleton
  <2> QED
    BY <1>2, <2>1, <2>3
<1> QED
  BY <1>1, <1>3, <1>4

LEMMA RdcPassStep ==
    ASSUME AwareInv, NEW from \in 1..(rdc.cursor + 1), NEW expired, NEW outlasted \in BOOLEAN,
           RdcPassFrom(rdc, from, expired, outlasted), stale' \in Nat,
           \/ from = rdc.cursor + 1 /\ stale' = stale
           \/ stale' = stale + 1,
           UNCHANGED schedVars
    PROVE  Kept
<1>1. PICK to, read : to = Len(journal.lines) /\ read = ApplyJournal(rdc, from, to, expired)
  OBVIOUS
<1>2. /\ journal \in [lines : Seq(Lines), alive : BOOLEAN] /\ to <= MaxLines /\ to \in Nat
      /\ rdc \in RdcState /\ rdc.cursor <= to /\ rdc.cursor \in Nat
      /\ told \in [1..MaxLines -> Nat] /\ stale \in Nat
      /\ \A n \in 1..to : journal.lines[n] \in Lines
  BY <1>1, SeqProperties DEF AwareInv, RdcInv, RdcState
<1>3. from \in Nat \ {0} /\ from \in Nat /\ from - 1 <= to /\ \A n \in from..to : n \in 1..to
  BY <1>2
<1>4. ReadOK(read, from, to) /\ read \in Readings
  <2>1. ReadOK(read, from, to)
    BY <1>1, <1>2, <1>3, JournalFacts
  <2> QED
    BY <2>1 DEF ReadOK
<1>5. PICK st, more :
         /\ ApplyLiveness(read.state, journal.alive, outlasted) = [state |-> st, events |-> more]
         /\ st \in RdcState /\ more \in Seq(EventRow)
         /\ \A k \in 1..Len(more) : more[k].origin = 0 /\ more[k].thread = ProcessThread
  BY <1>2, <1>4, LivenessFacts DEF Readings
<1>6. PICK ev, all : ev = read.events /\ all = ev \o more
  OBVIOUS
<1>7. /\ notes' = EmitAll(notes, all) /\ Len(notes) + Len(all) <= MaxNotes
      /\ rdc' = [st EXCEPT !.cursor = to]
      /\ told' = [n \in 1..MaxLines |-> told[n] + Cardinality(Calls(ev, n))]
      /\ UNCHANGED <<loops, attention, drafts, deviceVars, deliveryVars, unitVars, journal>>
  <2>1. DOMAIN ev = 1..Len(ev) /\ DOMAIN told = 1..MaxLines
    BY <1>2, <1>4, <1>6, SeqProperties DEF Readings
  <2>2. LET live == ApplyLiveness(read.state, journal.alive, outlasted)
        IN  live.state = st /\ live.events = more
    BY <1>5
  <2> QED
    BY <1>1, <1>6, <2>1, <2>2 DEF RdcPassFrom, Calls
<1>8. /\ ev \in Seq(EventRow) /\ all \in Seq(EventRow) /\ Len(all) = Len(ev) + Len(more)
      /\ Len(ev) \in Nat /\ Len(more) \in Nat
      /\ \A k \in 1..Len(ev) : all[k] = ev[k]
      /\ \A k \in 1..Len(more) : all[Len(ev) + k] = more[k]
  BY <1>4, <1>5, <1>6, ConcatFacts, SeqProperties DEF Readings
<1>9. \A k \in 1..Len(all) : all[k].origin = 0 /\ all[k].thread \in RdcThreads
  <2> SUFFICES ASSUME NEW k \in 1..Len(all) PROVE all[k].origin = 0 /\ all[k].thread \in RdcThreads
    OBVIOUS
  <2>1. k \in 1..Len(ev) \/ \E l \in 1..Len(more) : k = Len(ev) + l
    <3>1. ~(k \in 1..Len(ev)) => k - Len(ev) \in 1..Len(more) /\ k = Len(ev) + (k - Len(ev))
      BY <1>8
    <3> QED
      BY <3>1
  <2>2. \A j \in 1..Len(ev) : ev[j].origin = 0 /\ ev[j].thread \in RdcThreads
    BY <1>4, <1>6 DEF ReadOK
  <2>3. ProcessThread \in RdcThreads
    BY DEF RdcThreads
  <2> QED
    BY <1>5, <1>8, <2>1, <2>2, <2>3
<1>10. ThreadsOf(all) \subseteq RdcThreads
  BY <1>9 DEF ThreadsOf
<1>11. PassOK(all)
  <2>1. RdcThreads \cap ModelThreads = {} /\ RdcThreads \cap ItemThreads = {}
    BY ThreadsApart DEF ItemThreads
  <2> QED
    BY <1>8, <1>9, <1>10, <2>1 DEF PassOK
<1>12. /\ LedgerInv' /\ DeliveryInv' /\ RunsInv' /\ WakeKept /\ EmitsOK(notes, notes', all, Len(all))
  BY <1>7, <1>11, PassStep DEF deviceVars, deliveryVars
<1>13. /\ Extends(notes, notes', ThreadsOf(all))
       /\ \A j \in 1..Len(all) : all[j].severity # "resolved" => Says(notes', all[j])
  BY <1>12 DEF EmitsOK
<1>14. UnitInv'
  <2>1. \A u \in Units : UnitThread(u) \notin ThreadsOf(all)
    BY <1>10, ThreadsApart
  <2> QED
    BY <1>7, <1>13, <2>1, UnitsQuiet DEF AwareInv
<1>15. \A n \in 1..MaxLines :
          /\ Cardinality(Calls(ev, n)) \in 0..1
          /\ n \notin from..to => Cardinality(Calls(ev, n)) = 0
          /\ Cardinality(Calls(ev, n)) # 0 => \E k \in 1..Len(ev) :
                ev[k].severity = "warning" /\ ev[k].thread = AuthThread /\ ev[k].body = n
  <2>1. \A n \in 1..MaxLines : n \in Nat
    BY MonitorBounds DEF MonitorBounds
  <2>2. \A n \in Nat :
          /\ Cardinality(Calls(read.events, n)) \in 0..1
          /\ n \notin from..to => Cardinality(Calls(read.events, n)) = 0
          /\ Cardinality(Calls(read.events, n)) # 0 => \E k \in 1..Len(read.events) :
                /\ read.events[k].severity = "warning" /\ read.events[k].thread = AuthThread
                /\ read.events[k].body = n
    BY <1>2, <1>3, <1>4, CallsFacts
  <2> QED
    BY <1>6, <2>1, <2>2
<1>16. ASSUME NEW n \in 1..MaxLines
       PROVE  /\ told'[n] \in Nat /\ told'[n] <= 1 + stale' /\ (n > to => told'[n] = 0)
              /\ told'[n] # 0 =>
                    \E i \in DOMAIN notes' : notes'[i].thread = AuthThread /\ notes'[i].body = n
  <2>1. PICK c, t : c = Cardinality(Calls(ev, n)) /\ t = told[n]
    OBVIOUS
  <2>2. told'[n] = t + c
    BY <1>7, <2>1
  <2>3. /\ t \in Nat /\ t <= 1 + stale /\ (n > rdc.cursor => t = 0)
        /\ t # 0 => \E i \in DOMAIN notes : notes[i].thread = AuthThread /\ notes[i].body = n
    BY <1>2, <2>1 DEF AwareInv, RdcInv
  <2>4. /\ c \in 0..1 /\ (n \notin from..to => c = 0)
        /\ c # 0 => \E k \in 1..Len(ev) :
              ev[k].severity = "warning" /\ ev[k].thread = AuthThread /\ ev[k].body = n
    BY <1>15, <2>1
  <2>5. t + c \in Nat /\ t + c <= 1 + stale' /\ (n > to => t + c = 0) /\ (t + c # 0 => t # 0 \/ c # 0)
    <3>1. PICK cur, s : cur = rdc.cursor /\ s = stale'
      OBVIOUS
    <3>2. /\ cur \in Nat /\ cur <= to /\ to \in Nat /\ s \in Nat /\ stale \in Nat
          /\ n \in Int /\ from \in Nat
          /\ \/ from = cur + 1 /\ s = stale
             \/ s = stale + 1
      BY <1>2, <1>3, <3>1, MonitorBounds DEF MonitorBounds
    <3>3. t \in Nat /\ t <= 1 + stale /\ (n > cur => t = 0) /\ c \in 0..1 /\ (n \notin from..to => c = 0)
      BY <2>3, <2>4, <3>1
    <3>4. t + c \in Nat /\ t + c <= 1 + s /\ (n > to => t + c = 0) /\ (t + c # 0 => t # 0 \/ c # 0)
      BY <3>2, <3>3
    <3> QED
      BY <3>1, <3>4
  <2>6. t # 0 => \E i \in DOMAIN notes' : notes'[i].thread = AuthThread /\ notes'[i].body = n
    BY <1>13, <2>3 DEF Extends, SameRow
  <2>7. c # 0 => \E i \in DOMAIN notes' : notes'[i].thread = AuthThread /\ notes'[i].body = n
    <3> SUFFICES ASSUME c # 0
                 PROVE  \E i \in DOMAIN notes' : notes'[i].thread = AuthThread /\ notes'[i].body = n
      OBVIOUS
    <3>1. PICK k \in 1..Len(ev) :
             ev[k].severity = "warning" /\ ev[k].thread = AuthThread /\ ev[k].body = n
      BY <2>4
    <3>2. k \in 1..Len(all) /\ all[k] = ev[k]
      BY <1>8
    <3>3. Says(notes', all[k])
      BY <1>13, <3>1, <3>2
    <3> QED
      BY <3>1, <3>2, <3>3 DEF Says
  <2> QED
    BY <2>2, <2>5, <2>6, <2>7
<1>17. RdcInv'
  <2>1. rdc' \in RdcState /\ rdc'.cursor = to
    BY <1>2, <1>5, <1>7 DEF RdcState
  <2>2. told' \in [1..MaxLines -> Nat]
    BY <1>7, <1>16
  <2>3. journal' = journal /\ Len(journal'.lines) = to
    BY <1>1, <1>7
  <2> QED
    BY <1>2, <1>16, <2>1, <2>2, <2>3 DEF RdcInv
<1> QED
  BY <1>12, <1>14, <1>17 DEF AwareInv, Kept

LEMMA MonitorSteps ==
    ASSUME AwareInv, MonitorNext, UNCHANGED schedVars
    PROVE  Kept
<1>1. rdc.cursor \in Nat /\ stale \in Nat
  BY DEF AwareInv, RdcInv, RdcState
<1>2. ASSUME NEW expired, NEW outlasted \in BOOLEAN, RdcPass(expired, outlasted) PROVE Kept
  <2>1. PICK from : from = rdc.cursor + 1
    OBVIOUS
  <2>2. from \in 1..(rdc.cursor + 1)
    BY <1>1, <2>1
  <2>3. RdcPassFrom(rdc, from, expired, outlasted) /\ stale' = stale /\ stale' \in Nat
    BY <1>1, <1>2, <2>1 DEF RdcPass
  <2> QED
    BY <2>1, <2>2, <2>3, RdcPassStep
<1>3. ASSUME NEW expired, NEW outlasted \in BOOLEAN, NEW w, RdcPassStale(w, expired, outlasted)
      PROVE  Kept
  <2>1. /\ w \in 1..(rdc.cursor + 1) /\ RdcPassFrom(rdc, w, expired, outlasted)
        /\ stale' = stale + 1 /\ stale' \in Nat
    BY <1>1, <1>3 DEF RdcPassStale
  <2> QED
    BY <2>1, RdcPassStep
<1> QED
  BY <1>2, <1>3, UnitsPassStep DEF MonitorNext

-----------------------------------------------------------------------------
(* The invariant holds.                                                    *)

LEMMA AwareInit ==
    ASSUME Init
    PROVE  AwareInv
<1>1. /\ loops \in Deployments /\ notes = <<>> /\ attention = [x \in Items |-> "none"]
      /\ drafts = [w \in Writers |-> {}] /\ runs = <<>> /\ poll = NoPass
  BY DEF Init
<1>2. /\ Len(notes) = 0 /\ Len(runs) = 0 /\ DOMAIN notes = {} /\ DOMAIN runs = {}
      /\ notes \in Ledgers /\ runs \in Seq(RunRow) /\ 0 <= MaxNotes /\ 0 <= MaxRuns
  BY <1>1, NotificationBounds, ScheduleBounds DEF ScheduleBounds, NotificationBounds, Ledgers
<1>3. LedgerInv
  <2>1. NotesOK(notes, Len(runs))
    BY <1>2 DEF NotesOK, Orderly
  <2>2. AttentionOK(notes, attention)
    BY <1>1 DEF AttentionOK, AttentionStates
  <2>3. DraftsOK(drafts, Len(runs))
    BY <1>1 DEF DraftsOK
  <2> QED
    BY <1>1, <2>1, <2>2, <2>3 DEF LedgerInv
<1>4. DeliveryInv
  <2>1. DispatchersOK
    BY DEF Init, DispatchersOK, Delivery, Idle
  <2>2. TriesOK
    BY DEF Init, TriesOK
  <2>3. ShownOK
    <3>1. shown = [d \in Devices |-> <<>>] /\ disp = [x \in Dispatchers |-> Idle]
      BY DEF Init
    <3>2. \A d \in Devices : shown[d] = <<>> /\ DOMAIN shown[d] = {}
      BY <3>1
    <3>3. \A x \in Dispatchers : disp[x] = Idle /\ disp[x].rows = {}
      BY <3>1 DEF Idle
    <3> QED
      BY <3>1, <3>2, <3>3 DEF ShownOK
  <2> QED
    BY <2>1, <2>2, <2>3 DEF DeliveryInv
<1>5. RunsInv
  <2>1. PICK kinds \in Presets[loops] :
           task = [s \in Tasks |-> IF kinds[s] = "none" THEN NoTask ELSE NewTask(kinds[s], 0)]
    BY DEF Init
  <2>2. kinds \in [Tasks -> Kinds]
    BY <1>1, <2>1, AwarenessAssumption DEF AwarenessAssumption
  <2>3. 0 \in 0..MaxNotes
    BY <1>2, NotificationBounds DEF NotificationBounds
  <2>4. NoTask \in TaskRow /\ \A k \in Kinds : NewTask(k, 0) \in TaskRow
    BY <2>3 DEF NoTask, NewTask, TaskRow, Kinds
  <2>5. task \in [Tasks -> TaskRow]
    BY <2>1, <2>2, <2>4
  <2>6. /\ poll.run \in 0..Len(runs) /\ poll.at \in {"due", "events", "run", "dead"}
        /\ poll = PollOf(poll) /\ poll.queue = {}
    BY <1>1, <1>2 DEF NoPass, PollOf
  <2> QED
    BY <1>2, <2>5, <2>6 DEF RunsInv
<1>6. UnitInv
  <2>1. \A t : OpenThread(notes, t) = {}
    BY <1>2 DEF OpenThread
  <2> QED
    BY <2>1 DEF Init, UnitInv, Healths
<1>7. RdcInv
  <2>1. /\ journal = [lines |-> <<>>, alive |-> TRUE] /\ rdc = RdcInit
        /\ told = [n \in 1..MaxLines |-> 0] /\ stale = 0 /\ MaxLines \in Nat
    BY MonitorBounds DEF Init, MonitorBounds
  <2>2. /\ journal \in [lines : Seq(Lines), alive : BOOLEAN] /\ Len(journal.lines) = 0
        /\ rdc \in RdcState /\ rdc.cursor = 0
    BY <2>1 DEF RdcInit, RdcState
  <2> QED
    BY <2>1, <2>2 DEF RdcInv
<1> QED
  BY <1>3, <1>4, <1>5, <1>6, <1>7 DEF AwareInv

LEMMA AwareStutter ==
    ASSUME AwareInv, UNCHANGED vars
    PROVE  AwareInv'
<1>1. UNCHANGED <<noteVars, schedVars, monitorVars, unitVars, rdcVars, ledgerVars>>
  BY DEF vars, noteVars, schedVars, monitorVars, ledgerVars
<1>2. UNCHANGED <<loops, notes, attention, drafts, subs, disp, shown, tries, disturbed>>
  BY <1>1 DEF noteVars
<1>3. RunsInv' /\ runs' = runs
  BY <1>1, RunsSame DEF AwareInv, schedVars
<1>4. LedgerInv'
  BY <1>2, <1>3 DEF AwareInv, LedgerInv
<1>5. Extends(notes, notes', {}) /\ SamePush(notes, notes')
  BY <1>2, LedgerFacts, ExtendsSame DEF SamePush
<1>6. DeliveryInv'
  BY <1>2, <1>5, DeliveryQuiet DEF AwareInv
<1>7. UnitInv' /\ RdcInv'
  BY <1>1, <1>5, UnitsQuiet, RdcQuiet DEF AwareInv, rdcVars
<1> QED
  BY <1>3, <1>4, <1>6, <1>7 DEF AwareInv

LEMMA AwareStep ==
    ASSUME AwareInv, Next
    PROVE  AwareInv' /\ Served
<1>1. CASE (LedgerNext \/ DeviceNext \/ DeliveryNext) /\ UNCHANGED <<schedVars, monitorVars>>
  BY <1>1, LedgerSteps, DeviceSteps, DeliverySteps, KeptServed
<1>2. CASE (OwnerOfSchedules \/ SchedulerNext) /\ UNCHANGED monitorVars
  BY <1>2, TaskEditStep, SchedulerSteps, KeptServed
<1>3. CASE (WorldNext \/ MonitorNext) /\ UNCHANGED schedVars
  BY <1>3, WorldSteps, MonitorSteps, KeptServed
<1> QED
  BY <1>1, <1>2, <1>3 DEF Next

\* The five parts of the invariant hold of every reachable state: they are what each of
\* the actors may rely on when it reads the ledger that the others write.
THEOREM AwareInvariant == Spec => []AwareInv
<1>1. Init => AwareInv
  BY AwareInit
<1>2. AwareInv /\ [Next]_vars => AwareInv'
  BY AwareStutter, AwareStep
<1> QED
  BY <1>1, <1>2, PTL DEF Spec

-----------------------------------------------------------------------------
(* What it gives.                                                          *)

\* The types of what only the claims read.
OrderInv == sooner \in [Tasks -> SUBSET Tasks] /\ poll.skipped \subseteq Tasks

LEMMA OrderStep ==
    ASSUME AwareInv, OrderInv, Next
    PROVE  OrderInv'
<1>1. poll = PollOf(poll)
  BY DEF AwareInv, RunsInv
<1>2. CASE UNCHANGED <<sooner, poll>>
  BY <1>2 DEF OrderInv
<1>3. ASSUME NEW held \in SUBSET Tasks, ClaimDue(held) PROVE OrderInv'
  <2>1. sooner' = [s \in Tasks |-> IF task'[s].past THEN {o \in sooner[s] : task'[o].past} ELSE {}]
    BY <1>3 DEF ClaimDue
  <2>2. poll'.skipped = poll.skipped
    BY <1>1, <1>3 DEF ClaimDue, PollOf
  <2> QED
    BY <2>1, <2>2 DEF OrderInv
<1>4. ASSUME NEW held \in SUBSET Tasks, ClaimEvents(held) PROVE OrderInv'
  BY <1>4 DEF ClaimEvents, OrderInv
<1>5. ASSUME UNCHANGED sooner,
             \/ poll' = NoPass \/ poll' = [NoPass EXCEPT !.at = "dead"] \/ poll' = [poll EXCEPT !.run = 0]
             \/ \E r : poll' = [poll EXCEPT !.queue = @ \ {r}]
             \/ \E r : poll' = [poll EXCEPT !.run = r, !.queue = @ \ {r}]
      PROVE  OrderInv'
  <2>1. ASSUME poll' = NoPass \/ poll' = [NoPass EXCEPT !.at = "dead"] PROVE OrderInv'
    <3>1. poll'.skipped = {}
      BY <2>1 DEF NoPass
    <3> QED
      BY <1>5, <3>1 DEF OrderInv
  <2>2. CASE poll' = [poll EXCEPT !.run = 0]
    BY <1>1, <1>5, <2>2 DEF PollOf, OrderInv
  <2>3. ASSUME NEW r, poll' = [poll EXCEPT !.queue = @ \ {r}] PROVE OrderInv'
    BY <1>1, <1>5, <2>3 DEF PollOf, OrderInv
  <2>4. ASSUME NEW r, poll' = [poll EXCEPT !.run = r, !.queue = @ \ {r}] PROVE OrderInv'
    BY <1>1, <1>5, <2>4 DEF PollOf, OrderInv
  <2> QED
    BY <1>5, <2>1, <2>2, <2>3, <2>4
<1>6. ASSUME NEW s \in Tasks, NEW before \in SUBSET Tasks, sooner' = Placed(s, before), UNCHANGED poll
      PROVE  OrderInv'
  BY <1>6 DEF OrderInv, Placed
<1>7. ASSUME NEW s \in Tasks, sooner' = Unplaced(s), UNCHANGED poll PROVE OrderInv'
  BY <1>7 DEF OrderInv, Unplaced
<1>8. ASSUME OwnerOfSchedules PROVE OrderInv'
  <2>1. PICK s \in Tasks :
           \/ \E kind \in Kinds \ {"none"} : CreateTask(s, kind)
           \/ \E kind \in Kinds \ {"none"}, enabled, moved, past \in BOOLEAN :
                 UpdateTask(s, kind, enabled, moved, past)
           \/ DeleteTask(s) \/ TimeReaches(s)
    BY <1>8 DEF OwnerOfSchedules
  <2>2. /\ UNCHANGED poll
        /\ \/ UNCHANGED sooner \/ sooner' = Unplaced(s)
           \/ \E before \in SUBSET Tasks : sooner' = Placed(s, before)
    <3>1. \A S \in SUBSET {o \in Tasks \ {s} : task[o].past} : S \in SUBSET Tasks
      OBVIOUS
    <3>2. {o \in Tasks : task[o].past} \in SUBSET Tasks
      OBVIOUS
    <3>3. ASSUME NEW kind, NEW enabled, NEW moved, NEW past \in BOOLEAN,
                 UpdateTask(s, kind, enabled, moved, past)
          PROVE  /\ UNCHANGED poll
                 /\ \/ UNCHANGED sooner \/ sooner' = Unplaced(s)
                    \/ \E before \in SUBSET Tasks : sooner' = Placed(s, before)
      BY <3>1, <3>3, Zenon DEF UpdateTask
    <3>4. ASSUME NEW kind, CreateTask(s, kind) PROVE UNCHANGED <<sooner, poll>>
      BY <3>4 DEF CreateTask
    <3>5. ASSUME DeleteTask(s) PROVE sooner' = Unplaced(s) /\ UNCHANGED poll
      BY <3>5 DEF DeleteTask
    <3>6. ASSUME TimeReaches(s)
          PROVE  UNCHANGED poll /\ \E before \in SUBSET Tasks : sooner' = Placed(s, before)
      BY <3>2, <3>6, Zenon DEF TimeReaches
    <3> QED
      BY <2>1, <3>3, <3>4, <3>5, <3>6
  <2> QED
    BY <1>2, <1>6, <1>7, <2>2
<1>9. ASSUME SchedulerNext PROVE OrderInv'
  <2>1. ASSUME ExecuteClaim PROVE OrderInv'
    BY <1>5, <2>1 DEF ExecuteClaim
  <2>2. ASSUME ClaimDueFails PROVE OrderInv'
    BY <1>2, <2>2 DEF ClaimDueFails, allVars, schedVars
  <2>3. ASSUME ExecuteEnd PROVE OrderInv'
    BY <1>5, <2>3 DEF ExecuteEnd, SetRun
  <2>4. ASSUME ExecuteRefused \/ PollEnds PROVE OrderInv'
    BY <1>5, <2>4 DEF ExecuteRefused, PollEnds
  <2>5. ASSUME SchedulerStep PROVE OrderInv'
    BY <1>3, <1>4, <2>1, <2>2, <2>3, <2>4, <2>5 DEF SchedulerStep
  <2>6. ASSUME ExecuteSkips \/ LoopCancelled \/ SchedulerCrash \/ SchedulerRestart PROVE OrderInv'
    BY <1>5, <2>6 DEF ExecuteSkips, LoopCancelled, SchedulerCrash, SchedulerRestart
  <2>7. ASSUME NEW action, RunAsks(action) PROVE OrderInv'
    BY <1>2, <2>7 DEF RunAsks, SetRun
  <2>8. ASSUME NEW executing, ExecuteFails(executing) PROVE OrderInv'
    BY <1>5, <2>8 DEF ExecuteFails, Interrupt, SetRun
  <2>9. ASSUME NEW executing, NEW r, RecoverRun(r, executing) PROVE OrderInv'
    BY <1>2, <2>9 DEF RecoverRun, Interrupt, SetRun
  <2>10. ASSUME NEW r, NEW confirmed, OwnerDecides(r, confirmed) PROVE OrderInv'
    BY <1>2, <2>10 DEF OwnerDecides, SetRun
  <2>11. ASSUME NEW r, OwnerAcknowledges(r) PROVE OrderInv'
    BY <1>2, <2>11 DEF OwnerAcknowledges, schedVars
  <2>12. ASSUME NEW i, NoteAges(i) PROVE OrderInv'
    BY <1>2, <2>12 DEF NoteAges, schedVars
  <2> QED
    BY <1>9, <2>5, <2>6, <2>7, <2>8, <2>9, <2>10, <2>11, <2>12 DEF SchedulerNext
<1> QED
  BY <1>2, <1>8, <1>9 DEF Next, schedVars

LEMMA OrderInvariant == Spec => []OrderInv
<1>1. Init => OrderInv
  BY DEF Init, OrderInv, NoPass
<1>2. AwareInv /\ OrderInv /\ [Next]_vars => OrderInv'
  <2>1. ASSUME AwareInv, OrderInv, Next PROVE OrderInv'
    BY <2>1, OrderStep
  <2>2. ASSUME OrderInv, UNCHANGED vars PROVE OrderInv'
    BY <2>2 DEF OrderInv, vars, schedVars
  <2> QED
    BY <2>1, <2>2
<1> QED
  BY <1>1, <1>2, AwareInvariant, PTL DEF Spec

\* Ledger, outbox, tasks, runs and monitor rows keep the values their columns allow,
\* and a delivery only holds rows that are still pending.
THEOREM TypesHold == Spec => []TypeOK
<1>1. AwareInv /\ OrderInv => TypeOK
  <2> SUFFICES ASSUME AwareInv, OrderInv PROVE TypeOK
    OBVIOUS
  <2>1. /\ loops \in Deployments /\ Len(notes) <= MaxNotes /\ Len(runs) \in Nat
        /\ \A i \in DOMAIN notes : notes[i] \in NoteRow /\ notes[i].origin <= Len(runs)
        /\ attention \in [Items -> AttentionStates \cup {"none", "resolved", "dismissed"}]
    BY NotesFacts, RunsFacts DEF AwareInv, LedgerInv, NotesOK, AttentionOK
  <2>2. \A i \in DOMAIN notes :
          /\ notes[i].source \in {"authority", "model", "push", "units", "rdc"}
          /\ notes[i].severity \in Severities /\ notes[i].status \in Statuses
          /\ notes[i].push \in PushStatuses /\ notes[i].wake \in {"fresh", "old", "claimed"}
          /\ notes[i].origin \in 0..Len(runs)
    BY <2>1 DEF NoteRow, Sources
  <2>3. /\ subs \in [Devices -> {"absent", "enabled", "disabled"}]
        /\ \A x \in Dispatchers :
              /\ disp[x].left \subseteq disp[x].rows /\ disp[x].ok \subseteq disp[x].rows
              /\ disp[x].rows \subseteq Pending
              /\ disp[x].gone \subseteq disp[x].subs /\ disp[x].subs \subseteq Devices
    BY DEF AwareInv, DeliveryInv, DispatchersOK, Delivery
  <2>4. /\ task \in [Tasks -> TaskRow] /\ runs \in Seq(RunRow)
        /\ poll.run \in 0..Len(runs) /\ poll.at \in {"due", "events", "run", "dead"}
        /\ poll.queue \subseteq DOMAIN runs
    BY DEF AwareInv, RunsInv
  <2>5. known \in [Units -> {"none", "healthy", "unhealthy"}] /\ rdc.cursor \in 0..Len(journal.lines)
    BY SeqProperties DEF AwareInv, UnitInv, RdcInv, RdcState
  <2> QED
    BY <2>1, <2>2, <2>3, <2>4, <2>5 DEF TypeOK, TaskRow, RunRow, OrderInv
<1> QED
  BY <1>1, AwareInvariant, OrderInvariant, PTL

LEMMA NewestFacts ==
    ASSUME notes \in Ledgers, NEW t, NEW i \in DOMAIN notes, notes[i].thread = t
    PROVE  /\ NewestOf(t) \in DOMAIN notes /\ notes[NewestOf(t)].thread = t /\ NewestOf(t) # 0
           /\ \A j \in DOMAIN notes : notes[j].thread = t => j <= NewestOf(t)
<1> DEFINE S == {j \in DOMAIN notes : notes[j].thread = t}
<1>1. Len(notes) \in Nat /\ DOMAIN notes = 1..Len(notes)
  BY SeqProperties DEF Ledgers
<1>2. S \in SUBSET (0..Len(notes)) /\ S # {}
  BY <1>1
<1>3. NewestOf(t) = Max(S)
  BY <1>2 DEF NewestOf
<1>4. Max(S) \in S /\ \A y \in S : y <= Max(S)
  <2> HIDE DEF S
  <2> QED
    BY <1>1, <1>2, MaxProperty
<1> QED
  BY <1>1, <1>3, <1>4

\* The ledger tells the present state of every item, whatever emits, resolutions and
\* decisions of several processes interleave on its thread: the newest row of a thread
\* is not superseded and says what the item asks for.
THEOREM LedgerStaysCurrent == Spec => []LedgerIsCurrent
<1>1. AwareInv => LedgerIsCurrent
  <2> SUFFICES ASSUME AwareInv PROVE LedgerIsCurrent
    OBVIOUS
  <2>1. notes \in Ledgers /\ Orderly(notes) /\ AttentionOK(notes, attention)
        /\ Len(notes) \in Nat /\ DOMAIN notes = 1..Len(notes)
    BY NotesFacts DEF AwareInv, LedgerInv
  <2>2. ASSUME NEW i \in DOMAIN notes PROVE notes[NewestOf(notes[i].thread)].status # "superseded"
    <3>1. PICK t, n : t = notes[i].thread /\ n = NewestOf(t)
      OBVIOUS
    <3>2. /\ n \in DOMAIN notes /\ notes[n].thread = t
          /\ \A j \in DOMAIN notes : notes[j].thread = t => j <= n
      BY <2>1, <3>1, NewestFacts
    <3>3. \A j \in DOMAIN notes : j <= n => ~(n < j)
      BY <2>1, <3>2
    <3>4. notes[n].status # "superseded"
      BY <2>1, <3>2, <3>3 DEF Orderly
    <3> QED
      BY <3>1, <3>4
  <2>3. ASSUME NEW x \in Items, attention[x] \in AttentionStates
        PROVE  /\ NewestOf(ItemThread(x)) # 0
               /\ notes[NewestOf(ItemThread(x))].body = attention[x]
    <3>1. PICK t, n : t = ItemThread(x) /\ n = NewestOf(t)
      OBVIOUS
    <3>2. PICK i \in DOMAIN notes : /\ notes[i].thread = t /\ notes[i].body = attention[x]
                                    /\ \A j \in DOMAIN notes : i < j => notes[j].thread # t
      BY <2>1, <2>3, <3>1 DEF AttentionOK, Tells
    <3>3. /\ n \in DOMAIN notes /\ notes[n].thread = t /\ n # 0
          /\ \A j \in DOMAIN notes : notes[j].thread = t => j <= n
      BY <2>1, <3>1, <3>2, NewestFacts
    <3>4. n = i
      BY <2>1, <3>2, <3>3
    <3> QED
      BY <3>1, <3>2, <3>3, <3>4
  <2>4. \A x \in Items : attention[x] = "resolved" => OpenThread(notes, ItemThread(x)) = {}
    BY <2>1 DEF AttentionOK
  <2> QED
    BY <2>2, <2>3, <2>4 DEF LedgerIsCurrent
<1> QED
  BY <1>1, AwareInvariant, PTL

\* The dispatcher loop and the test request share the outbox: a row is sent once per
\* delivery that survives, and a device whose outbox was not disturbed shows the newest
\* of the rows that reached it, for each tag.
THEOREM DeliveryStaysOrderly == Spec => []DeliveryIsOrderly
<1>1. AwareInv => DeliveryIsOrderly
  <2> SUFFICES ASSUME AwareInv PROVE DeliveryIsOrderly
    OBVIOUS
  <2>1. OneSendPerDelivery
    BY DEF AwareInv, DeliveryInv, TriesOK, OneSendPerDelivery
  <2>2. ScreenIsLatest
    BY DEF AwareInv, DeliveryInv, ShownOK, ScreenIsLatest
  <2> QED
    BY <2>1, <2>2 DEF DeliveryIsOrderly
<1> QED
  BY <1>1, AwareInvariant, PTL

\* A set no two members of which differ.
LEMMA AtMostOne ==
    ASSUME NEW S, \A x, y \in S : x = y
    PROVE  Cardinality(S) <= 1
<1>1. CASE S = {}
  BY <1>1, FS_EmptySet
<1>2. ASSUME NEW x \in S PROVE Cardinality(S) <= 1
  <2>1. S = {x}
    BY <1>2
  <2>2. Cardinality(S) = 1
    BY <2>1, FS_Singleton
  <2> QED
    BY <2>2
<1> QED
  BY <1>1, <1>2

\* A task has one outstanding run at most, whether the clock or a notification queued
\* it, and shows the status of its newest run.
THEOREM RunsStaySingle == Spec => []OneRunAtATime
<1>1. AwareInv => OneRunAtATime
  <2> SUFFICES ASSUME AwareInv, NEW s \in Tasks
               PROVE  /\ Cardinality({r \in RunsOf(s) : runs[r].status \in OUTSTANDING}) <= 1
                      /\ RunsOf(s) # {} /\ task[s].kind # "none" =>
                            \/ task[s].last = runs[Max(RunsOf(s))].status
                            \/ task[s].last = "queued" /\ runs[Max(RunsOf(s))].status = "running"
    BY DEF OneRunAtATime
  <2>1. Len(runs) \in Nat /\ DOMAIN runs = 1..Len(runs)
    BY RunsFacts, SeqProperties DEF AwareInv, RunsInv
  <2>2. ASSUME NEW q \in RunsOf(s), NEW r \in RunsOf(s),
               runs[q].status \in OUTSTANDING, runs[r].status \in OUTSTANDING
        PROVE  q = r
    <3>1. q \in DOMAIN runs /\ r \in DOMAIN runs /\ runs[q].task = runs[r].task
      BY <2>2 DEF RunsOf
    <3>2. ~(q < r) /\ ~(r < q)
      BY <2>2, <3>1 DEF AwareInv, RunsInv
    <3> QED
      BY <2>1, <3>1, <3>2
  <2>3. Cardinality({r \in RunsOf(s) : runs[r].status \in OUTSTANDING}) <= 1
    BY <2>2, AtMostOne
  <2>4. ASSUME RunsOf(s) # {}, task[s].kind # "none"
        PROVE  \/ task[s].last = runs[Max(RunsOf(s))].status
               \/ task[s].last = "queued" /\ runs[Max(RunsOf(s))].status = "running"
    <3>1. RunsOf(s) \in SUBSET (0..Len(runs))
      BY <2>1 DEF RunsOf
    <3>2. PICK r : r = Max(RunsOf(s))
      OBVIOUS
    <3>3. r \in RunsOf(s) /\ \A q \in RunsOf(s) : q <= r
      BY <2>1, <2>4, <3>1, <3>2, MaxProperty
    <3>4. r \in DOMAIN runs /\ runs[r].task = s
      BY <3>3 DEF RunsOf
    <3>5. \A q \in DOMAIN runs : r < q => runs[q].task # s
      BY <2>1, <3>3, <3>4 DEF RunsOf
    <3>6. Shows(s, r)
      BY <2>4, <3>4, <3>5 DEF AwareInv, RunsInv
    <3> QED
      BY <3>2, <3>6 DEF Shows
  <2> QED
    BY <2>3, <2>4
<1> QED
  BY <1>1, AwareInvariant, PTL

\* A notification that is still news is claimed only by a poll after which every task it
\* wakes has a run for it, over any number of deferrals and crashes of the scheduler.
THEOREM ClaimsWait == Spec => ClaimedWhenServed
<1>1. AwareInv /\ [Next]_vars => [Served]_allVars
  BY AwareStep DEF vars, allVars
<1>2. [Served]_allVars =>
      [\A i \in DOMAIN notes :
          /\ notes[i].wake = "fresh" /\ notes'[i].wake = "claimed"
          => \A s \in Listeners : Wakes(s, i) =>
                \/ s \in poll'.skipped
                \/ \E r \in DOMAIN runs' : runs'[r].task = s /\ runs'[r].note = i]_allVars
  BY DEF Served
<1> QED
  BY <1>1, <1>2, AwareInvariant, PTL DEF Spec, ClaimedWhenServed

\* A unit recorded as healthy has no open alarm, and no unit has two: a pass commits its
\* record with its events, and a recovery closes the thread.
THEOREM AlarmsMatchRecord == Spec => []UnitAlarmsMatchRecord
<1>1. AwareInv => UnitAlarmsMatchRecord
  <2> SUFFICES ASSUME AwareInv, NEW u \in Units
               PROVE  LET open == OpenThread(notes, UnitThread(u))
                      IN  /\ Cardinality(open) <= 1
                          /\ open # {} => known[u] = "unhealthy" \/ u \in forgotten
    BY DEF UnitAlarmsMatchRecord
  <2>1. Orderly(notes) /\ Len(notes) \in Nat /\ DOMAIN notes = 1..Len(notes)
    BY NotesFacts DEF AwareInv, LedgerInv
  <2>2. PICK t, open : t = UnitThread(u) /\ open = OpenThread(notes, t)
    OBVIOUS
  <2>3. t \notin ModelThreads
    BY <2>2, ThreadsApart
  <2>4. ASSUME NEW i \in open, NEW j \in open PROVE i = j
    <3>1. /\ i \in DOMAIN notes /\ notes[i].thread = t /\ notes[i].status = "open"
          /\ j \in DOMAIN notes /\ notes[j].thread = t /\ notes[j].status = "open"
      BY <2>2, <2>4 DEF OpenThread
    <3>2. ~(i < j) /\ ~(j < i)
      BY <2>1, <2>3, <3>1 DEF Orderly
    <3> QED
      BY <2>1, <3>1, <3>2
  <2>5. Cardinality(open) <= 1
    BY <2>4, AtMostOne
  <2>6. open # {} => known[u] = "unhealthy" \/ u \in forgotten
    BY <2>2 DEF AwareInv, UnitInv
  <2> QED
    BY <2>2, <2>5, <2>6
<1> QED
  BY <1>1, AwareInvariant, PTL

(* The exact count of the announcements: the automaton waits for what the  *)
(* last line it read lets come next.                                       *)

Stage(line) ==
    CASE line = "received" -> "url" [] line = "url" -> "code" [] line = "code" -> "expiry"
      [] OTHER -> "none"

StageAt(lines, n) == IF n = 0 THEN "none" ELSE Stage(lines[n])

\* What stands before a line.
Chained(lines) ==
    \A n \in 1..Len(lines) :
       /\ lines[n] = "url" => n > 1 /\ lines[n - 1] = "received"
       /\ lines[n] = "code" => n > 1 /\ lines[n - 1] = "url"
       /\ lines[n] = "expires" => n > 1 /\ lines[n - 1] = "code"
       /\ lines[n] \in {"restored", "online"} => n > 1 /\ Stage(lines[n - 1]) = "none"

Reported(n) == n <= rdc.cursor /\ journal.lines[n] = "expires" /\ n \notin lapsed

CodeInv ==
    /\ Chained(journal.lines) /\ lapsed \subseteq 1..rdc.cursor
    /\ stale = 0 => /\ rdc.awaiting = StageAt(journal.lines, rdc.cursor)
                    /\ \A n \in 1..MaxLines : told[n] = IF Reported(n) THEN 1 ELSE 0

LEMMA ChainedAppend ==
    ASSUME NEW lines \in Seq(Lines), NEW line \in Lines, Chained(lines),
           LET last == IF lines = <<>> THEN "shutdown" ELSE lines[Len(lines)]
           IN  /\ line = "url" => last = "received"
               /\ line = "code" => last = "url"
               /\ line = "expires" => last = "code"
               /\ line \in {"restored", "online"} => last \in {"starting", "restored", "expires"}
    PROVE  Chained(Append(lines, line))
<1>1. PICK more, m : more = Append(lines, line) /\ m = Len(lines)
  OBVIOUS
<1>2. /\ m \in Nat /\ Len(more) = m + 1 /\ more[m + 1] = line
      /\ \A n \in 1..m : more[n] = lines[n]
  BY <1>1
<1>3. m > 0 \/ lines = <<>>
  BY <1>1
<1>4. ASSUME NEW n \in 1..m
      PROVE  /\ more[n] = "url" => n > 1 /\ more[n - 1] = "received"
             /\ more[n] = "code" => n > 1 /\ more[n - 1] = "url"
             /\ more[n] = "expires" => n > 1 /\ more[n - 1] = "code"
             /\ more[n] \in {"restored", "online"} => n > 1 /\ Stage(more[n - 1]) = "none"
  <2>1. n > 1 => more[n - 1] = lines[n - 1]
    BY <1>2
  <2>2. more[n] = lines[n]
    BY <1>2
  <2> QED
    BY <1>1, <2>1, <2>2 DEF Chained
<1>5. m > 0 => more[m] = lines[m]
  BY <1>2
<1>6. /\ line = "url" => m > 0 /\ lines[m] = "received"
      /\ line = "code" => m > 0 /\ lines[m] = "url"
      /\ line = "expires" => m > 0 /\ lines[m] = "code"
      /\ line \in {"restored", "online"} => m > 0 /\ lines[m] \in {"starting", "restored", "expires"}
  BY <1>1, <1>3
<1>7. \A x \in {"starting", "restored", "expires"} : Stage(x) = "none"
  BY DEF Stage
<1>8. /\ more[m + 1] = "url" => m + 1 > 1 /\ more[(m + 1) - 1] = "received"
      /\ more[m + 1] = "code" => m + 1 > 1 /\ more[(m + 1) - 1] = "url"
      /\ more[m + 1] = "expires" => m + 1 > 1 /\ more[(m + 1) - 1] = "code"
      /\ more[m + 1] \in {"restored", "online"} => m + 1 > 1 /\ Stage(more[(m + 1) - 1]) = "none"
  <2>1. (m + 1) - 1 = m /\ (m > 0 => m + 1 > 1)
    BY <1>2
  <2> QED
    BY <1>2, <1>5, <1>6, <1>7, <2>1
<1>9. \A n \in 1..Len(more) : n \in 1..m \/ n = m + 1
  BY <1>2
<1>10. Chained(more)
  BY <1>4, <1>8, <1>9 DEF Chained
<1> QED
  BY <1>1, <1>10

\* One line, when the automaton waits for what may come.
LEMMA LineExact ==
    ASSUME NEW st \in RdcState, Chained(journal.lines), NEW n \in 1..Len(journal.lines),
           journal.lines[n] \in Lines, st.awaiting = StageAt(journal.lines, n - 1), NEW expired
    PROVE  /\ ApplyLine(st, journal.lines[n]).awaiting = StageAt(journal.lines, n)
           /\ IF journal.lines[n] = "expires" /\ n \notin expired
              THEN LineEvents(st, n, journal.lines[n], expired)
                      = <<Event("rdc", AuthThread, "warning", n, 0)>>
              ELSE \/ LineEvents(st, n, journal.lines[n], expired) = <<>>
                   \/ \E e : /\ LineEvents(st, n, journal.lines[n], expired) = <<e>>
                            /\ e.severity # "warning"
<1>1. PICK line, back : line = journal.lines[n] /\ back = st.awaiting
  OBVIOUS
<1>2. /\ line = "url" => back = "url"
      /\ line = "code" => back = "code"
      /\ line = "expires" => back = "expiry"
      /\ line \in {"restored", "online"} => back = "none"
  <2>1. n > 1 => n - 1 # 0
    OBVIOUS
  <2>2. /\ line = "url" => n > 1 /\ journal.lines[n - 1] = "received"
        /\ line = "code" => n > 1 /\ journal.lines[n - 1] = "url"
        /\ line = "expires" => n > 1 /\ journal.lines[n - 1] = "code"
        /\ line \in {"restored", "online"} => n > 1 /\ Stage(journal.lines[n - 1]) = "none"
    BY <1>1 DEF Chained
  <2>3. n > 1 => back = Stage(journal.lines[n - 1])
    BY <1>1, <2>1 DEF StageAt
  <2>4. Stage("received") = "url" /\ Stage("url") = "code" /\ Stage("code") = "expiry"
    BY DEF Stage
  <2> QED
    BY <2>2, <2>3, <2>4
<1>3. StageAt(journal.lines, n) = Stage(line)
  BY <1>1 DEF StageAt
<1>4. ApplyLine(st, line).awaiting = Stage(line)
  <2>1. CASE line = "starting"
    BY <2>1 DEF ApplyLine, Stage, RdcState
  <2>2. CASE line = "restored"
    BY <1>1, <1>2, <2>2 DEF ApplyLine, Stage, RdcState
  <2>3. CASE line = "received"
    BY <2>3 DEF ApplyLine, Stage, RdcState
  <2>4. CASE line = "url"
    BY <1>1, <1>2, <2>4 DEF ApplyLine, Stage, RdcState
  <2>5. CASE line = "code"
    BY <1>1, <1>2, <2>5 DEF ApplyLine, Stage, RdcState
  <2>6. CASE line = "expires"
    BY <1>1, <1>2, <2>6 DEF ApplyLine, Stage, RdcState
  <2>7. CASE line = "online"
    BY <1>1, <1>2, <2>7 DEF ApplyLine, Stage, RdcState
  <2>8. CASE line = "shutdown"
    BY <2>8 DEF ApplyLine, Stage, RdcState
  <2> QED
    BY <1>1, <2>1, <2>2, <2>3, <2>4, <2>5, <2>6, <2>7, <2>8 DEF Lines
<1>5. CASE line = "expires" /\ n \notin expired
  <2>1. LineEvents(st, n, line, expired) = <<Event("rdc", AuthThread, "warning", n, 0)>>
    BY <1>1, <1>2, <1>5, Zenon DEF LineEvents
  <2> QED
    BY <1>1, <1>3, <1>4, <1>5, <2>1
<1>6. CASE ~(line = "expires" /\ n \notin expired)
  <2> DEFINE resolved == Event("rdc", AuthThread, "resolved", "online", 0)
             restart  == Event("rdc", RestartThread, "info", "restarted", 0)
  <2>1. LineEvents(st, n, line, expired) \in {<<>>, <<resolved>>, <<restart>>}
    BY <1>6 DEF LineEvents
  <2>2. resolved.severity # "warning" /\ restart.severity # "warning"
    BY DEF Event
  <2> HIDE DEF resolved, restart
  <2>3. \/ LineEvents(st, n, line, expired) = <<>>
        \/ \E e : LineEvents(st, n, line, expired) = <<e>> /\ e.severity # "warning"
    BY <2>1, <2>2
  <2> QED
    BY <1>1, <1>3, <1>4, <1>6, <2>3
<1> QED
  BY <1>5, <1>6

\* The journal read up to line n announces the codes that have not expired.
Warned(events, m) == \E j \in 1..Len(events) : events[j].severity = "warning" /\ events[j].body = m

ReadExact(p, from, n, expired) ==
    /\ p.state.awaiting = StageAt(journal.lines, n)
    /\ \A m \in from..n : Warned(p.events, m) <=> journal.lines[m] = "expires" /\ m \notin expired

LEMMA ReadLineExact ==
    ASSUME NEW from \in Nat, NEW n \in 1..Len(journal.lines), from <= n, NEW p, NEW expired,
           ReadOK(p, from, n - 1), ReadExact(p, from, n - 1, expired),
           Chained(journal.lines), journal.lines[n] \in Lines, n \in Nat
    PROVE  ReadExact(ReadLine(p, n, expired), from, n, expired)
<1>1. p \in Readings /\ p.events \in Seq(EventRow) /\ p.state \in RdcState
  BY DEF ReadOK, Readings
<1>2. PICK more, new, line :
         /\ more = LineEvents(p.state, n, line, expired) /\ new = ReadLine(p, n, expired)
         /\ line = journal.lines[n]
  OBVIOUS
<1>3. new.events = p.events \o more /\ new.state = ApplyLine(p.state, line)
  BY <1>2 DEF ReadLine
<1>4. /\ new.state.awaiting = StageAt(journal.lines, n)
      /\ IF line = "expires" /\ n \notin expired
         THEN more = <<Event("rdc", AuthThread, "warning", n, 0)>>
         ELSE more = <<>> \/ \E e : more = <<e>> /\ e.severity # "warning"
  <2>1. p.state.awaiting = StageAt(journal.lines, n - 1)
    BY DEF ReadExact
  <2>2. PICK st : st = p.state
    OBVIOUS
  <2>3. /\ ApplyLine(st, journal.lines[n]).awaiting = StageAt(journal.lines, n)
        /\ IF journal.lines[n] = "expires" /\ n \notin expired
           THEN LineEvents(st, n, journal.lines[n], expired)
                   = <<Event("rdc", AuthThread, "warning", n, 0)>>
           ELSE \/ LineEvents(st, n, journal.lines[n], expired) = <<>>
                \/ \E e : /\ LineEvents(st, n, journal.lines[n], expired) = <<e>>
                         /\ e.severity # "warning"
    <3>1. st \in RdcState /\ st.awaiting = StageAt(journal.lines, n - 1)
      BY <1>1, <2>1, <2>2
    <3> QED
      BY <3>1, LineExact
  <2>4. /\ more = LineEvents(st, n, journal.lines[n], expired) /\ line = journal.lines[n]
        /\ new.state = ApplyLine(st, journal.lines[n])
    BY <1>2, <1>3, <2>2
  <2> QED
    BY <2>3, <2>4, Zenon
<1>5. more \in Seq(EventRow)
  <2>1. more = <<>> \/ \E e : more = <<e>> /\ LineEvent(e, n)
    BY <1>1, <1>2, LineFacts
  <2>2. ASSUME NEW e, more = <<e>>, LineEvent(e, n) PROVE more \in Seq(EventRow)
    BY <2>2 DEF LineEvent
  <2>3. CASE more = <<>>
    BY <2>3
  <2> QED
    BY <2>1, <2>2, <2>3
<1>6. PICK old, ev, a, b : old = p.events /\ ev = new.events /\ a = Len(old) /\ b = Len(more)
  OBVIOUS
<1>7. /\ a \in Nat /\ b \in Nat /\ Len(ev) = a + b
      /\ \A j \in 1..a : ev[j] = old[j]
      /\ \A j \in 1..b : ev[a + j] = more[j]
  BY <1>1, <1>3, <1>5, <1>6, ConcatFacts, SeqProperties
<1>8. \A m : Warned(ev, m) <=> Warned(old, m) \/ Warned(more, m)
  <2>1. \A j \in 1..(a + b) : j \in 1..a \/ (j - a \in 1..b /\ a + (j - a) = j)
    BY <1>7
  <2>2. \A j \in 1..a : j \in 1..(a + b)
    BY <1>7
  <2>3. \A j \in 1..b : a + j \in 1..(a + b)
    BY <1>7
  <2>4. ASSUME NEW m, Warned(ev, m) PROVE Warned(old, m) \/ Warned(more, m)
    <3>1. PICK j \in 1..(a + b) : ev[j].severity = "warning" /\ ev[j].body = m
      BY <1>7, <2>4 DEF Warned
    <3>2. CASE j \in 1..a
      BY <1>6, <1>7, <3>1, <3>2 DEF Warned
    <3>3. CASE j - a \in 1..b /\ a + (j - a) = j
      <4>1. ev[j] = more[j - a]
        BY <1>7, <3>3
      <4> QED
        BY <1>6, <3>1, <3>3, <4>1 DEF Warned
    <3> QED
      BY <2>1, <3>2, <3>3
  <2>5. ASSUME NEW m, Warned(old, m) PROVE Warned(ev, m)
    BY <1>6, <1>7, <2>2, <2>5 DEF Warned
  <2>6. ASSUME NEW m, Warned(more, m) PROVE Warned(ev, m)
    <3>1. PICK j \in 1..b : more[j].severity = "warning" /\ more[j].body = m
      BY <1>6, <2>6 DEF Warned
    <3>2. ev[a + j] = more[j] /\ a + j \in 1..Len(ev)
      BY <1>7, <2>3
    <3> QED
      BY <3>1, <3>2 DEF Warned
  <2> QED
    BY <2>4, <2>5, <2>6
<1>9. \A m : Warned(more, m) <=> line = "expires" /\ n \notin expired /\ m = n
  <2>1. CASE line = "expires" /\ n \notin expired
    <3>1. PICK e : e = Event("rdc", AuthThread, "warning", n, 0)
      OBVIOUS
    <3>2. e.severity = "warning" /\ e.body = n
      BY <3>1 DEF Event
    <3>3. more = <<e>> /\ Len(more) = 1 /\ more[1] = e
      BY <1>4, <2>1, <3>1
    <3>4. 1..1 = {1}
      OBVIOUS
    <3> QED
      BY <2>1, <3>2, <3>3, <3>4 DEF Warned
  <2>2. CASE ~(line = "expires" /\ n \notin expired)
    <3>1. ASSUME more = <<>> PROVE \A m : ~Warned(more, m)
      BY <3>1 DEF Warned
    <3>2. ASSUME NEW e, more = <<e>>, e.severity # "warning" PROVE \A m : ~Warned(more, m)
      <4>1. Len(more) = 1 /\ more[1] = e
        BY <3>2
      <4>2. \A j \in 1..1 : j = 1
        OBVIOUS
      <4> QED
        BY <3>2, <4>1, <4>2 DEF Warned
    <3> QED
      BY <1>4, <2>2, <3>1, <3>2
  <2> QED
    BY <2>1, <2>2
<1>10. ~Warned(old, n)
  <2>1. \A j \in 1..Len(old) : old[j].severity = "warning" => old[j].body \in from..(n - 1)
    BY <1>6 DEF ReadOK
  <2>2. n \notin from..(n - 1)
    OBVIOUS
  <2> QED
    BY <2>1, <2>2 DEF Warned
<1>11. \A m \in from..n : m = n \/ m \in from..(n - 1)
  OBVIOUS
<1>12. \A m \in from..(n - 1) : m # n
  OBVIOUS
<1>13. \A m \in from..(n - 1) : Warned(old, m) <=> journal.lines[m] = "expires" /\ m \notin expired
  BY <1>6 DEF ReadExact
<1>14. \A m \in from..n : Warned(ev, m) <=> journal.lines[m] = "expires" /\ m \notin expired
  BY <1>2, <1>8, <1>9, <1>10, <1>11, <1>12, <1>13
<1> QED
  BY <1>2, <1>4, <1>6, <1>14 DEF ReadExact

LEMMA JournalExact ==
    ASSUME NEW st \in RdcState, NEW from \in Nat \ {0}, NEW to \in Nat, from - 1 <= to, NEW expired,
           \A n \in 1..to : journal.lines[n] \in Lines, to = Len(journal.lines),
           Chained(journal.lines), st.awaiting = StageAt(journal.lines, from - 1)
    PROVE  ReadExact(ApplyJournal(st, from, to, expired), from, to, expired)
<1>0. \A n \in from..to : journal.lines[n] \in Lines /\ n \in 1..Len(journal.lines)
  OBVIOUS
<1>10. \A n \in from..to : journal.lines[n] \in Lines
  BY <1>0
<1>1. PICK read : /\ read[to] = ApplyJournal(st, from, to, expired)
                  /\ read[from - 1] = [state |-> st, events |-> <<>>]
                  /\ \A n \in from..to : read[n] = ReadLine(read[n - 1], n, expired)
  BY ONLY <1>10, JournalDef, st \in RdcState, from \in Nat \ {0}, to \in Nat, from - 1 <= to, Zenon
<1> DEFINE m == to - (from - 1)
           Fine(n) == ReadOK(read[n], from, n) /\ ReadExact(read[n], from, n, expired)
           S == {k \in 0..m : Fine(k + (from - 1))}
<1>2. m \in Nat /\ m + (from - 1) = to
  OBVIOUS
<1>3. 0 \in S
  <2>1. PICK start : start = read[from - 1]
    OBVIOUS
  <2>2. start.events = <<>> /\ start.state = st /\ start \in Readings
    BY <1>1, <2>1 DEF Readings
  <2>3. 1..Len(<<>>) = {} /\ from..(from - 1) = {}
    OBVIOUS
  <2>4. ReadOK(start, from, from - 1)
    BY <2>2, <2>3 DEF ReadOK
  <2>5. ReadExact(start, from, from - 1, expired)
    BY <2>2, <2>3 DEF ReadExact
  <2>6. 0 + (from - 1) = from - 1 /\ 0 \in 0..m
    BY <1>2
  <2> QED
    BY <2>1, <2>4, <2>5, <2>6
<1>4. ASSUME NEW k \in 1..m, k - 1 \in S PROVE k \in S
  <2>1. PICK n : n = k + (from - 1)
    OBVIOUS
  <2>2. /\ n \in from..to /\ n \in Nat /\ from <= n /\ from \in Nat
        /\ (k - 1) + (from - 1) = n - 1 /\ k \in 0..m
    BY <1>2, <2>1
  <2>3. Fine(n - 1)
    <3>1. Fine((k - 1) + (from - 1))
      BY <1>4
    <3> QED
      BY <2>2, <3>1
  <2>4. ReadOK(read[n], from, n)
    BY <1>0, <1>1, <2>2, <2>3, ReadLineOK
  <2>5. ReadExact(read[n], from, n, expired)
    <3>1. ReadOK(read[n - 1], from, n - 1) /\ ReadExact(read[n - 1], from, n - 1, expired)
      BY <2>3
    <3>2. read[n] = ReadLine(read[n - 1], n, expired)
      BY <1>1, <2>2
    <3>3. n \in 1..Len(journal.lines) /\ journal.lines[n] \in Lines
      BY <1>0, <2>2
    <3>4. ReadExact(ReadLine(read[n - 1], n, expired), from, n, expired)
      BY <2>2, <3>1, <3>3, ReadLineExact
    <3> QED
      BY <3>2, <3>4
  <2> QED
    BY <2>1, <2>2, <2>4, <2>5
<1>5. m \in S
  <2> HIDE DEF S, m
  <2>1. m \in 0..m
    BY <1>2
  <2> QED
    BY <1>2, <1>3, <1>4, <2>1, UpTo
<1> QED
  BY <1>1, <1>2, <1>5

LEMMA LivenessAwaits ==
    ASSUME NEW st \in RdcState, NEW alive \in BOOLEAN, NEW outlasted \in BOOLEAN
    PROVE  ApplyLiveness(st, alive, outlasted).state.awaiting = st.awaiting
<1>1. CASE alive
  BY <1>1 DEF ApplyLiveness, RdcState
<1>2. CASE ~alive /\ ~st.missing
  BY <1>2 DEF ApplyLiveness, RdcState
<1>3. CASE ~alive /\ st.missing /\ ~st.alarm /\ outlasted
  BY <1>3 DEF ApplyLiveness, RdcState
<1>4. CASE ~alive /\ st.missing /\ (st.alarm \/ ~outlasted)
  BY <1>4 DEF ApplyLiveness
<1> QED
  BY <1>1, <1>2, <1>3, <1>4

LEMMA CodePass ==
    ASSUME AwareInv, CodeInv, NEW from \in 1..(rdc.cursor + 1), NEW expired, NEW outlasted \in BOOLEAN,
           RdcPassFrom(rdc, from, expired, outlasted), stale' \in Nat,
           \/ from = rdc.cursor + 1 /\ stale' = stale
           \/ stale' = stale + 1
    PROVE  CodeInv'
<1>1. PICK to, read : to = Len(journal.lines) /\ read = ApplyJournal(rdc, from, to, expired)
  OBVIOUS
<1>2. /\ journal \in [lines : Seq(Lines), alive : BOOLEAN] /\ to <= MaxLines /\ to \in Nat
      /\ rdc \in RdcState /\ rdc.cursor <= to /\ rdc.cursor \in Nat
      /\ told \in [1..MaxLines -> Nat] /\ stale \in Nat
      /\ \A n \in 1..to : journal.lines[n] \in Lines
  BY <1>1, SeqProperties DEF AwareInv, RdcInv, RdcState
<1>3. from \in Nat \ {0} /\ from \in Nat /\ from - 1 <= to /\ \A n \in from..to : n \in 1..to
  BY <1>2
<1>4. ReadOK(read, from, to) /\ read \in Readings /\ read.state \in RdcState
  <2>1. ReadOK(read, from, to)
    BY <1>1, <1>2, <1>3, JournalFacts
  <2> QED
    BY <2>1 DEF ReadOK, Readings
<1>5. PICK live, ev : live = ApplyLiveness(read.state, journal.alive, outlasted) /\ ev = read.events
  OBVIOUS
<1>6. live.state.awaiting = read.state.awaiting /\ live.state \in RdcState
  <2>1. journal.alive \in BOOLEAN
    BY <1>2
  <2>2. live.state.awaiting = read.state.awaiting
    BY <1>4, <1>5, <2>1, LivenessAwaits
  <2>3. PICK new, more :
           /\ ApplyLiveness(read.state, journal.alive, outlasted) = [state |-> new, events |-> more]
           /\ new \in RdcState /\ more \in Seq(EventRow)
           /\ \A k \in 1..Len(more) : more[k].origin = 0 /\ more[k].thread = ProcessThread
    BY <1>4, <2>1, LivenessFacts
  <2> QED
    BY <1>5, <2>2, <2>3
<1>7. /\ rdc' = [live.state EXCEPT !.cursor = to] /\ journal' = journal
      /\ told' = [n \in 1..MaxLines |-> told[n] + Cardinality(Calls(ev, n))]
      /\ lapsed' = lapsed \cup {n \in from..to : journal.lines[n] = "expires" /\ n \in expired}
  <2>1. DOMAIN ev = 1..Len(ev) /\ DOMAIN told = 1..MaxLines
    BY <1>2, <1>4, <1>5, SeqProperties DEF Readings
  <2> QED
    BY <1>1, <1>5, <2>1 DEF RdcPassFrom, Calls
<1>8. rdc'.cursor = to /\ rdc'.awaiting = read.state.awaiting
  BY <1>6, <1>7 DEF RdcState
<1>9. lapsed \subseteq 1..rdc.cursor /\ Chained(journal.lines)
  BY DEF CodeInv
<1>10. lapsed' \subseteq 1..rdc'.cursor
  <2>1. \A n \in 1..rdc.cursor : n \in 1..to
    BY <1>2
  <2> QED
    BY <1>3, <1>7, <1>8, <1>9, <2>1
<1>11. ASSUME stale' = 0
       PROVE  /\ rdc'.awaiting = StageAt(journal'.lines, rdc'.cursor)
              /\ \A n \in 1..MaxLines : told'[n] = IF Reported(n)' THEN 1 ELSE 0
  <2>1. from = rdc.cursor + 1 /\ stale = 0 /\ from - 1 = rdc.cursor
    BY <1>2, <1>11
  <2>2. /\ rdc.awaiting = StageAt(journal.lines, rdc.cursor)
        /\ \A n \in 1..MaxLines : told[n] = IF Reported(n) THEN 1 ELSE 0
    BY <2>1 DEF CodeInv
  <2>3. ReadExact(read, from, to, expired)
    <3>1. rdc.awaiting = StageAt(journal.lines, from - 1)
      BY <2>1, <2>2
    <3> QED
      BY <1>1, <1>2, <1>3, <1>9, <3>1, JournalExact
  <2>4. rdc'.awaiting = StageAt(journal'.lines, rdc'.cursor)
    BY <1>7, <1>8, <2>3 DEF ReadExact
  <2>5. \A n \in from..to : Warned(ev, n) <=> journal.lines[n] = "expires" /\ n \notin expired
    BY <1>5, <2>3 DEF ReadExact
  <2>6. ASSUME NEW n \in 1..MaxLines PROVE told'[n] = IF Reported(n)' THEN 1 ELSE 0
    <3>1. PICK c, t : c = Cardinality(Calls(ev, n)) /\ t = told[n]
      OBVIOUS
    <3>2. n \in Nat
      BY MonitorBounds DEF MonitorBounds
    <3>3. /\ c \in 0..1 /\ (n \notin from..to => c = 0)
          /\ c # 0 => Warned(ev, n)
      <4>1. /\ Cardinality(Calls(read.events, n)) \in 0..1
            /\ n \notin from..to => Cardinality(Calls(read.events, n)) = 0
            /\ Cardinality(Calls(read.events, n)) # 0 => \E k \in 1..Len(read.events) :
                  /\ read.events[k].severity = "warning" /\ read.events[k].thread = AuthThread
                  /\ read.events[k].body = n
        BY <1>2, <1>3, <1>4, <3>2, CallsFacts
      <4> QED
        BY <1>5, <3>1, <4>1 DEF Warned
    <3>4. Warned(ev, n) => c # 0
      <4>1. ev \in Seq(EventRow) /\ Len(ev) \in Nat
        BY <1>4, <1>5, SeqProperties DEF Readings
      <4>2. Calls(ev, n) \subseteq 1..Len(ev) /\ IsFiniteSet(1..Len(ev))
        <5>1. 1 \in Int /\ Len(ev) \in Int
          BY <4>1
        <5>2. IsFiniteSet(1..Len(ev))
          BY <5>1, FS_Interval
        <5> QED
          BY <5>2 DEF Calls
      <4>3. IsFiniteSet(Calls(ev, n))
        BY <4>2, FS_Subset
      <4>4. Warned(ev, n) => Calls(ev, n) # {}
        BY DEF Warned, Calls
      <4> QED
        BY <3>1, <4>3, <4>4, FS_EmptySet
    <3>5. told'[n] = t + c
      BY <1>7, <3>1
    <3>6. Reported(n)' <=> n <= to /\ journal.lines[n] = "expires" /\ n \notin lapsed'
      BY <1>7, <1>8 DEF Reported
    <3>7. CASE n \in from..to
      <4>1. n > rdc.cursor /\ n <= to /\ n \notin 1..rdc.cursor
        BY <1>2, <2>1, <3>7
      <4>2. t = 0
        BY <2>2, <3>1, <4>1, <1>2 DEF Reported
      <4>3. n \in lapsed' <=> journal.lines[n] = "expires" /\ n \in expired
        BY <1>7, <1>9, <3>7, <4>1
      <4>4. c # 0 <=> journal.lines[n] = "expires" /\ n \notin expired
        BY <2>5, <3>3, <3>4, <3>7
      <4>5. Reported(n)' <=> c # 0
        BY <3>6, <4>1, <4>3, <4>4
      <4>6. c # 0 => c = 1
        BY <3>3
      <4>7. t + c = IF c # 0 THEN 1 ELSE 0
        BY <3>3, <4>2, <4>6
      <4> QED
        BY <3>5, <4>5, <4>7
    <3>8. CASE n \notin from..to
      <4>1. c = 0
        BY <3>3, <3>8
      <4>2. n <= to <=> n <= rdc.cursor
        BY <1>2, <2>1, <3>2, <3>8
      <4>3. n \in lapsed' <=> n \in lapsed
        BY <1>7, <3>8
      <4>4. Reported(n)' <=> Reported(n)
        BY <3>6, <4>2, <4>3 DEF Reported
      <4>5. t = IF Reported(n) THEN 1 ELSE 0
        BY <2>2, <3>1
      <4>6. t + c = t
        BY <1>2, <3>1, <4>1
      <4> QED
        BY <3>5, <4>4, <4>5, <4>6
    <3> QED
      BY <3>7, <3>8
  <2> QED
    BY <2>4, <2>6
<1> QED
  BY <1>7, <1>9, <1>10, <1>11 DEF CodeInv

LEMMA CodeStep ==
    ASSUME AwareInv, CodeInv, Next
    PROVE  CodeInv'
<1>1. /\ rdc.cursor \in Nat /\ stale \in Nat /\ journal.lines \in Seq(Lines)
      /\ rdc.cursor <= Len(journal.lines) /\ Len(journal.lines) \in Nat
      /\ journal \in [lines : Seq(Lines), alive : BOOLEAN]
  BY SeqProperties DEF AwareInv, RdcInv, RdcState
<1>2. CASE UNCHANGED <<journal, rdc, told, lapsed, stale>>
  BY <1>2 DEF CodeInv, Reported
<1>3. ASSUME UNCHANGED <<rdc, told, lapsed, stale>>, Chained(journal'.lines),
             \A n \in 1..Len(journal.lines) : journal'.lines[n] = journal.lines[n]
      PROVE  CodeInv'
  <2>1. StageAt(journal'.lines, rdc.cursor) = StageAt(journal.lines, rdc.cursor)
    <3>1. rdc.cursor # 0 => rdc.cursor \in 1..Len(journal.lines)
      BY <1>1
    <3> QED
      BY <1>3, <3>1 DEF StageAt
  <2>2. ASSUME NEW n \in 1..MaxLines PROVE Reported(n)' <=> Reported(n)
    <3>1. n <= rdc.cursor => n \in 1..Len(journal.lines)
      BY <1>1, MonitorBounds DEF MonitorBounds
    <3> QED
      BY <1>3, <3>1 DEF Reported
  <2> QED
    BY <1>3, <2>1, <2>2 DEF CodeInv
<1>4. ASSUME NEW line \in Lines, ConnectorLogs(line) PROVE CodeInv'
  <2>1. /\ journal' = [journal EXCEPT !.lines = Append(@, line)] /\ line \in NextLines
        /\ UNCHANGED <<rdc, told, lapsed, stale>>
    BY <1>4 DEF ConnectorLogs
  <2>2. PICK last : last = IF journal.lines = <<>> THEN "shutdown" ELSE journal.lines[Len(journal.lines)]
    OBVIOUS
  <2>3. /\ line = "url" => last = "received"
        /\ line = "code" => last = "url"
        /\ line = "expires" => last = "code"
        /\ line \in {"restored", "online"} => last \in {"starting", "restored", "expires"}
    BY <2>1, <2>2 DEF NextLines, Last
  <2>4. journal'.lines = Append(journal.lines, line)
    BY <1>1, <2>1
  <2>5. Chained(Append(journal.lines, line))
    BY <1>1, <2>2, <2>3, ChainedAppend DEF CodeInv
  <2>6. \A n \in 1..Len(journal.lines) : journal'.lines[n] = journal.lines[n]
    BY <1>1, <2>4
  <2> QED
    BY <1>3, <2>1, <2>4, <2>5, <2>6
<1>5. ASSUME ConnectorStopsOrStarts PROVE CodeInv'
  <2>1. journal'.lines = journal.lines /\ UNCHANGED <<rdc, told, lapsed, stale>>
    BY <1>1, <1>5 DEF ConnectorStopsOrStarts
  <2> QED
    BY <1>3, <2>1 DEF CodeInv
<1>6. ASSUME NEW expired, NEW outlasted \in BOOLEAN, RdcPass(expired, outlasted) PROVE CodeInv'
  <2>1. PICK from : from = rdc.cursor + 1
    OBVIOUS
  <2>2. from \in 1..(rdc.cursor + 1)
    BY <1>1, <2>1
  <2>3. RdcPassFrom(rdc, from, expired, outlasted) /\ stale' = stale /\ stale' \in Nat
    BY <1>1, <1>6, <2>1 DEF RdcPass
  <2> QED
    BY <2>1, <2>2, <2>3, CodePass
<1>7. ASSUME NEW expired, NEW outlasted \in BOOLEAN, NEW w, RdcPassStale(w, expired, outlasted)
      PROVE  CodeInv'
  <2>1. /\ w \in 1..(rdc.cursor + 1) /\ RdcPassFrom(rdc, w, expired, outlasted)
        /\ stale' = stale + 1 /\ stale' \in Nat
    BY <1>1, <1>7 DEF RdcPassStale
  <2> QED
    BY <2>1, CodePass
<1>8. ASSUME WorldNext PROVE CodeInv'
  BY <1>2, <1>4, <1>5, <1>8 DEF WorldNext, UnitChanges, ListUnits, rdcVars
<1>9. ASSUME MonitorNext PROVE CodeInv'
  BY <1>2, <1>6, <1>7, <1>9 DEF MonitorNext, UnitsPass, rdcVars
<1> QED
  BY <1>2, <1>8, <1>9 DEF Next, monitorVars, rdcVars

LEMMA CodeInvariant == Spec => []CodeInv
<1>1. Init => CodeInv
  <2> SUFFICES ASSUME Init PROVE CodeInv
    OBVIOUS
  <2>1. /\ journal.lines = <<>> /\ rdc.cursor = 0 /\ rdc.awaiting = "none" /\ lapsed = {}
        /\ told = [n \in 1..MaxLines |-> 0]
    BY DEF Init, RdcInit
  <2>2. Chained(<<>>)
    BY DEF Chained
  <2>3. \A n \in 1..MaxLines : ~(n <= 0)
    BY MonitorBounds DEF MonitorBounds
  <2> QED
    BY <2>1, <2>2, <2>3 DEF CodeInv, StageAt, Reported
<1>2. AwareInv /\ CodeInv /\ [Next]_vars => CodeInv'
  <2>1. ASSUME AwareInv, CodeInv, Next PROVE CodeInv'
    BY <2>1, CodeStep
  <2>2. ASSUME CodeInv, UNCHANGED vars PROVE CodeInv'
    BY <2>2 DEF CodeInv, Reported, vars, monitorVars, rdcVars
  <2> QED
    BY <2>1, <2>2
<1> QED
  BY <1>1, <1>2, AwareInvariant, PTL DEF Spec

\* A device code is announced exactly once, over however many passes its four lines are
\* spread: every code that was read and had not expired, and no other line; and its
\* announcement is in the ledger.  Each cursor the journal lost may repeat it once.
THEOREM CodesStayAnnouncedOnce == Spec => []CodesAnnouncedOnce
<1>1. AwareInv /\ CodeInv => CodesAnnouncedOnce
  <2> SUFFICES ASSUME AwareInv, CodeInv PROVE CodesAnnouncedOnce
    OBVIOUS
  <2>1. /\ DOMAIN told = 1..MaxLines /\ rdc.cursor <= Len(journal.lines) /\ rdc.cursor \in Nat
        /\ Len(journal.lines) \in Nat /\ MaxLines \in Nat
        /\ \A n \in 1..MaxLines :
              /\ told[n] <= 1 + stale
              /\ told[n] # 0 =>
                    \E i \in DOMAIN notes : notes[i].thread = AuthThread /\ notes[i].body = n
    BY SeqProperties, MonitorBounds DEF AwareInv, RdcInv, RdcState, MonitorBounds
  <2>2. ASSUME NEW n \in 1..MaxLines
        PROVE  Reported(n) <=> n <= rdc.cursor /\ CodeAt(n) /\ n \notin lapsed
    <3>1. ASSUME n <= rdc.cursor, journal.lines[n] = "expires" PROVE CodeAt(n)
      <4>1. n \in 1..Len(journal.lines) /\ Chained(journal.lines)
        BY <2>1, <3>1 DEF CodeInv
      <4>2. n > 1 /\ journal.lines[n - 1] = "code"
        BY <3>1, <4>1 DEF Chained
      <4>3. n - 1 \in 1..Len(journal.lines) /\ (n - 1) - 1 = n - 2
        BY <2>1, <4>1, <4>2
      <4>4. n - 1 > 1 /\ journal.lines[n - 2] = "url"
        BY <4>1, <4>2, <4>3 DEF Chained
      <4>5. n - 2 \in 1..Len(journal.lines) /\ (n - 2) - 1 = n - 3
        BY <2>1, <4>1, <4>4
      <4>6. n - 2 > 1 /\ journal.lines[n - 3] = "received"
        BY <4>1, <4>4, <4>5 DEF Chained
      <4>7. n > 3
        BY <2>1, <4>6
      <4> QED
        BY <3>1, <4>2, <4>4, <4>6, <4>7 DEF CodeAt
    <3> QED
      BY <3>1 DEF Reported, CodeAt
  <2>3. ASSUME stale = 0, NEW n \in 1..MaxLines
        PROVE  told[n] = IF n <= rdc.cursor /\ CodeAt(n) /\ n \notin lapsed THEN 1 ELSE 0
    BY <2>2, <2>3, Zenon DEF CodeInv
  <2>4. \A n \in 1..MaxLines : told[n] = 1 =>
           \E i \in DOMAIN notes : notes[i].thread = AuthThread /\ notes[i].body = n
    <3>1. 1 # 0
      OBVIOUS
    <3> QED
      BY <2>1, <3>1
  <2> QED
    BY <2>1, <2>3, <2>4 DEF CodesAnnouncedOnce
<1> QED
  BY <1>1, AwareInvariant, CodeInvariant, PTL

=============================================================================
