---------------------------- MODULE HostMonitors ----------------------------
(***************************************************************************)
(* The two read-only monitors that feed the ledger.  Each pass holds its   *)
(* HostMonitorStateRow, applies a pure transition to the recorded state    *)
(* and commits the new state with the events it emitted.                   *)
(*                                                                         *)
(* The unit monitor compares the health of listed units with the recorded  *)
(* one.  The connector monitor reads the lines the connector's journal     *)
(* gained since its cursor.  A line is a member of Lines; url and code     *)
(* values are left out, the automaton that collects them is not.           *)
(***************************************************************************)
EXTENDS Notifications, SequencesExt

CONSTANTS
    Units,      \* systemd units that may be listed
    MaxLines,   \* bound on the connector's journal
    MaxChanges, \* bound on changes of the world the monitors watch
    MaxStale    \* bound on cursors the journal no longer knows

ASSUME MonitorBounds ==
    IsFiniteSet(Units) /\ MaxLines \in Nat /\ MaxChanges \in Nat /\ MaxStale \in Nat

VARIABLES
    watched,    \* host_watch_unit_list
    health,     \* [Units -> what systemctl show reports; "restarted" is active
                \*  with more restarts than recorded]
    known,      \* UnitsState: [Units -> recorded health or "none"]
    forgotten,  \* units delisted while an alarm was recorded (history)
    journal,    \* lines written by the connector, and whether it runs
    rdc,        \* RdcState, with the cursor of the row
    told,       \* [1..MaxLines -> announcements of that line] (history)
    lapsed,     \* lines whose code had expired when they were read (history)
    changes, stale

unitVars == <<watched, health, known, forgotten>>
rdcVars == <<journal, rdc, told, lapsed, stale>>
monitorVars == <<unitVars, rdcVars, changes>>

-----------------------------------------------------------------------------
(* Unit health. *)

UnitThread(u) == <<"unit", u>>
Healths == {"healthy", "restarted", "unhealthy", "unobservable"}
Healthy(h) == h \in {"healthy", "restarted"}

\* Mutant: a unit that comes back restarted is announced as a restart only.
UnitEventsSilent(u, now, before) ==
    CASE ~Healthy(now) /\ before # "unhealthy" ->
           <<Event("units", UnitThread(u), "warning", now, 0)>>
      [] now = "healthy" /\ before = "unhealthy" ->
           <<Event("units", UnitThread(u), "resolved", now, 0)>>
      [] now = "restarted" ->
           <<Event("units", <<"unit restart", u>>, "info", now, 0)>>
      [] OTHER -> <<>>

\* What one status adds to the events of the pass.
UnitEvents(u, now, before) ==
    CASE ~Healthy(now) /\ before # "unhealthy" ->
           <<Event("units", UnitThread(u), "warning", now, 0)>>
      [] Healthy(now) /\ before = "unhealthy" ->
           <<Event("units", UnitThread(u), "resolved", now, 0)>>
      [] now = "restarted" /\ before = "healthy" ->
           <<Event("units", <<"unit restart", u>>, "info", now, 0)>>
      [] OTHER -> <<>>

UnitChanges(u, h) ==
    /\ "units" \in loops /\ changes < MaxChanges
    /\ health[u] # h
    /\ health' = [health EXCEPT ![u] = h]
    /\ changes' = changes + 1
    /\ UNCHANGED <<noteVars, watched, known, forgotten, rdcVars>>

\* The service is restarted with another list.
ListUnits(W) ==
    /\ "units" \in loops /\ changes < MaxChanges
    /\ W # watched
    /\ watched' = W
    /\ changes' = changes + 1
    /\ UNCHANGED <<noteVars, health, known, forgotten, rdcVars>>

\* The units whose status gives an event in the present pass.
PassEvents(u) == UnitEvents(u, health[u], known[u])
Announced == {u \in watched : PassEvents(u) # <<>>}

\* One pass: an unobservable unit is recorded as unhealthy, and a unit that is no
\* longer listed is dropped from the record.
UnitsPass ==
    /\ "units" \in loops /\ watched # {}
    /\ LET order  == SetToSeq(Announced)
           events == [k \in DOMAIN order |-> Head(PassEvents(order[k]))]
       IN  /\ Len(notes) + Len(events) <= MaxNotes
           /\ \A k \in DOMAIN events : Lockable(OpenThread(notes, events[k].thread))
           /\ notes' = EmitAll(notes, events)
    /\ known' = [u \in Units |-> IF u \notin watched THEN "none"
                                 ELSE IF Healthy(health[u]) THEN "healthy" ELSE "unhealthy"]
    /\ health' = [u \in Units |-> IF u \in watched /\ Healthy(health[u]) THEN "healthy" ELSE health[u]]
    /\ forgotten' = forgotten \cup {u \in Units \ watched : known[u] = "unhealthy"}
    /\ <<known, health>>' # <<known, health>>
    /\ UNCHANGED <<loops, attention, drafts, deviceVars, deliveryVars, watched, rdcVars, changes>>

-----------------------------------------------------------------------------
(* The connector. *)

Lines == {"starting", "restored", "received", "url", "code", "expires", "online", "shutdown"}
AuthThread == <<"rdc", "auth">>
RestartThread == <<"rdc", "restart">>
ProcessThread == <<"rdc", "process">>

RdcInit == [phase |-> "unknown", awaiting |-> "none", restored |-> FALSE,
            missing |-> FALSE, alarm |-> FALSE, cursor |-> 0]

\* One journal line applied to the recorded state.
ApplyLine(st, line) ==
    CASE line = "starting" -> [st EXCEPT !.phase = "starting", !.awaiting = "none", !.restored = FALSE]
      [] line = "restored" -> [st EXCEPT !.restored = TRUE]
      [] line = "received" -> [st EXCEPT !.awaiting = "url"]
      [] line = "url" /\ st.awaiting = "url" -> [st EXCEPT !.awaiting = "code"]
      [] line = "code" /\ st.awaiting = "code" -> [st EXCEPT !.awaiting = "expiry"]
      [] line = "expires" /\ st.awaiting = "expiry" ->
            [st EXCEPT !.awaiting = "none", !.phase = "auth_required"]
      [] line = "online"   -> [st EXCEPT !.phase = "online"]
      [] line = "shutdown" -> [st EXCEPT !.phase = "stopped", !.awaiting = "none"]
      [] OTHER -> st

\* The events of line n: a code that has not expired, the end of an authorization,
\* or a restart that restored its session.
LineEvents(st, n, line, expired) ==
    CASE line = "expires" /\ st.awaiting = "expiry" /\ n \notin expired ->
           <<Event("rdc", AuthThread, "warning", n, 0)>>
      [] line = "online" /\ st.phase = "auth_required" ->
           <<Event("rdc", AuthThread, "resolved", "online", 0)>>
      [] line = "online" /\ st.phase = "starting" /\ st.restored ->
           <<Event("rdc", RestartThread, "info", "restarted", 0)>>
      [] OTHER -> <<>>

\* apply_journal over the lines from..to of the journal.
ApplyJournal(st, from, to, expired) ==
    LET read[n \in (from - 1)..to] ==
            IF n = from - 1 THEN [state |-> st, events |-> <<>>]
            ELSE LET before == read[n - 1]
                 IN  [state  |-> ApplyLine(before.state, journal.lines[n]),
                      events |-> before.events \o
                         LineEvents(before.state, n, journal.lines[n], expired)]
    IN  read[to]

\* apply_liveness: an absence is noted first and announced when it outlasts the
\* grace period.
ApplyLiveness(st, alive, outlasted) ==
    CASE alive -> [state  |-> [st EXCEPT !.missing = FALSE, !.alarm = FALSE],
                   events |-> IF st.alarm
                              THEN <<Event("rdc", ProcessThread, "resolved", "running", 0)>> ELSE <<>>]
      [] ~alive /\ ~st.missing -> [state |-> [st EXCEPT !.missing = TRUE], events |-> <<>>]
      [] ~alive /\ st.missing /\ ~st.alarm /\ outlasted ->
           [state  |-> [st EXCEPT !.alarm = TRUE],
            events |-> <<Event("rdc", ProcessThread, "warning", "missing", 0)>>]
      [] OTHER -> [state |-> st, events |-> <<>>]

\* What the connector may log next; it may die and start again in the middle of a code.
NextLines ==
    LET last == IF journal.lines = <<>> THEN "shutdown" ELSE Last(journal.lines)
    IN  CASE last = "shutdown" -> {"starting"}
          [] last = "starting" -> {"restored", "received"}
          [] last = "received" -> {"url", "starting"}
          [] last = "url"      -> {"code", "starting"}
          [] last = "code"     -> {"expires", "starting"}
          [] last = "expires"  -> {"online", "shutdown", "starting"}
          [] last = "restored" -> {"online"}
          [] OTHER             -> {"shutdown", "starting"}

ConnectorLogs(line) ==
    /\ "rdc" \in loops /\ journal.alive
    /\ Len(journal.lines) < MaxLines
    /\ line \in NextLines
    /\ journal' = [journal EXCEPT !.lines = Append(@, line)]
    /\ UNCHANGED <<noteVars, unitVars, rdc, told, lapsed, stale, changes>>

ConnectorStopsOrStarts ==
    /\ "rdc" \in loops /\ changes < MaxChanges
    /\ journal' = [journal EXCEPT !.alive = ~@]
    /\ changes' = changes + 1
    /\ UNCHANGED <<noteVars, unitVars, rdc, told, lapsed, stale>>

\* One pass from line `from`, on the recorded state st: the lines, then the liveness,
\* then the emits, with state and cursor in the same transaction.
RdcPassFrom(st, from, expired, outlasted) ==
    LET to    == Len(journal.lines)
        read  == ApplyJournal(st, from, to, expired)
        live  == ApplyLiveness(read.state, journal.alive, outlasted)
        all   == read.events \o live.events
    IN  /\ "rdc" \in loops
        /\ Len(notes) + Len(all) <= MaxNotes
        /\ \A k \in DOMAIN all : Lockable(OpenThread(notes, all[k].thread))
        /\ notes' = EmitAll(notes, all)
        /\ rdc' = [live.state EXCEPT !.cursor = to]
        /\ told' = [n \in DOMAIN told |->
                      told[n] + Cardinality({k \in DOMAIN read.events :
                         read.events[k].severity = "warning" /\ read.events[k].body = n})]
        /\ lapsed' = lapsed \cup {n \in from..to : journal.lines[n] = "expires" /\ n \in expired}
        /\ UNCHANGED <<loops, attention, drafts, deviceVars, deliveryVars, unitVars, journal, changes>>

\* Mutant: what the last pass was waiting for is not kept.
RdcPassForgets(expired, outlasted) ==
    /\ RdcPassFrom([rdc EXCEPT !.awaiting = "none"], rdc.cursor + 1, expired, outlasted)
    /\ rdc' # rdc
    /\ stale' = stale

RdcPass(expired, outlasted) ==
    /\ RdcPassFrom(rdc, rdc.cursor + 1, expired, outlasted)
    /\ rdc' # rdc
    /\ stale' = stale

\* journalctl refuses the cursor: the recent window is read instead, from line w.
RdcPassStale(w, expired, outlasted) ==
    /\ stale < MaxStale
    /\ rdc.cursor # 0 /\ w \in 1..(rdc.cursor + 1)
    /\ RdcPassFrom(rdc, w, expired, outlasted)
    /\ stale' = stale + 1

-----------------------------------------------------------------------------
(* What the monitors promise the owner. *)

\* A unit recorded as healthy has no open alarm in the ledger, and a unit has at
\* most one: record and events commit together and a recovery closes the whole
\* thread.  The exception is a unit that was delisted while it was down: its
\* record is dropped, and with it the memory that an alarm is open.
UnitAlarmsMatchRecord ==
    \A u \in Units :
        LET open == OpenThread(notes, UnitThread(u))
        IN  /\ Cardinality(open) <= 1
            /\ open # {} => known[u] = "unhealthy" \/ u \in forgotten

\* Line n completes the four lines of a device code.
CodeAt(n) ==
    /\ n > 3 /\ journal.lines[n - 3] = "received" /\ journal.lines[n - 2] = "url"
    /\ journal.lines[n - 1] = "code" /\ journal.lines[n] = "expires"

\* A device code is announced exactly once, whatever the number of passes that its
\* four lines are spread over: every code that was read, unless it had expired by
\* then, and nothing else.  Only a cursor the journal forgot can repeat it.
CodesAnnouncedOnce ==
    /\ \A n \in DOMAIN told : told[n] <= 1 + stale
    /\ stale = 0 => \A n \in DOMAIN told :
          /\ told[n] = IF n <= rdc.cursor /\ CodeAt(n) /\ n \notin lapsed THEN 1 ELSE 0
          /\ told[n] = 1 =>
                \E i \in DOMAIN notes : notes[i].thread = AuthThread /\ notes[i].body = n
=============================================================================
