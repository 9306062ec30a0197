---------------------------- MODULE SharedWrites ----------------------------
(***************************************************************************)
(* backend/atlas/persistence/shared_writes.py: the idempotent, versioned   *)
(* write every change of shared memory goes through.  A writer is one      *)
(* caller of SharedStateWriter.execute; its transaction takes the          *)
(* resource's advisory lock, claims the operation row, checks the version, *)
(* runs the mutation and commits.  Any number of writers run at once, a    *)
(* transaction may roll back at any point, and a caller may send the same  *)
(* operation id again (a retry) or by mistake with another envelope.       *)
(*                                                                         *)
(* PostgreSQL supplies the locks: pg_advisory_xact_lock is held to the end *)
(* of the transaction, and an INSERT ... ON CONFLICT of a key another      *)
(* transaction has inserted waits until that transaction ends.             *)
(***************************************************************************)
EXTENDS Integers, Sequences

CONSTANTS
    Writers,        \* concurrent callers
    Ops,            \* operation ids
    Resources,      \* (resource_type, resource_id) pairs
    Payloads,       \* the rest of an envelope's identity: operation, hash, actor, source
    None

VARIABLES
    stage,          \* stage[w]: how far w's transaction has come
    request,        \* request[w]: the envelope w is executing
    pending,        \* pending[w]: the operation row w has written and not committed
    version,        \* version[r]: SharedResourceVersionRow.version (0 if no row)
    effects,        \* effects[r]: the operations whose mutation is committed on r
    log,            \* log[o]: the committed SharedWriteOperationRow, or None
    reply           \* reply[w]: what the last execute of w returned or raised

vars == <<stage, request, pending, version, effects, log, reply>>

Stages == {"idle", "begun", "locked", "claimed", "written"}

Envelope == [op : Ops, res : Resources, expected : Nat \cup {None}, payload : Payloads]

Outcomes == {"applied", "no_change", "version_conflict"}

\* SharedWriteOperationRow; committed is None for a conflict.
Row == [res : Resources, expected : Nat \cup {None}, payload : Payloads,
        outcome : Outcomes, observed : Nat, committed : Nat \cup {None}]

\* SharedWriteReceipt; a reply without a row stands for a raised IdempotencyConflict.
Receipt == [op : Ops, row : Row \cup {None}, replayed : BOOLEAN]

\* A missing value is none of the values it stands in for.
ASSUME NoneAssumption == None \notin Nat \cup Envelope \cup Row \cup Receipt

Init ==
    /\ stage = [w \in Writers |-> "idle"]
    /\ request = [w \in Writers |-> None]
    /\ pending = [w \in Writers |-> None]
    /\ version = [r \in Resources |-> 0]
    /\ effects = [r \in Resources |-> <<>>]
    /\ log = [o \in Ops |-> None]
    /\ reply = [w \in Writers |-> None]

-----------------------------------------------------------------------------
(* Locks, as the stages of the transactions that hold them.                *)

\* Mutant: a lock given up before the commit.
HoldsLockHalf(w, r) ==
    stage[w] \in {"locked", "claimed"} /\ request[w].res = r

\* A transaction past the advisory lock of resource r.
HoldsLock(w, r) ==
    stage[w] \in {"locked", "claimed", "written"} /\ request[w].res = r

\* Mutant: the row is taken together with the advisory lock.
HoldsClaimEarly(w, o) ==
    stage[w] \in {"locked", "claimed", "written"} /\ request[w].op = o

\* A transaction that has inserted the row of operation o and not ended.
HoldsClaim(w, o) ==
    stage[w] \in {"claimed", "written"} /\ request[w].op = o

-----------------------------------------------------------------------------

\* A caller opens a transaction with an envelope.  What it expects is a version
\* it has read at some time, or nothing.
Submit(w) ==
    /\ stage[w] = "idle"
    /\ \E o \in Ops, r \in Resources, p \in Payloads :
        \E x \in {None} \cup 0..version[r] :
            request' = [request EXCEPT ![w] =
                [op |-> o, res |-> r, expected |-> x, payload |-> p]]
    /\ stage' = [stage EXCEPT ![w] = "begun"]
    /\ reply' = [reply EXCEPT ![w] = None]
    /\ UNCHANGED <<pending, version, effects, log>>

\* pg_advisory_xact_lock on the resource.
Lock(w) ==
    /\ stage[w] = "begun"
    /\ \A v \in Writers \ {w} : ~HoldsLock(v, request[w].res)
    /\ stage' = [stage EXCEPT ![w] = "locked"]
    /\ UNCHANGED <<request, pending, version, effects, log, reply>>

\* Mutant: only the resource is compared.
SameOperationLax(row, e) == row.res = e.res

SameOperation(row, e) ==
    /\ row.res = e.res
    /\ row.expected = e.expected
    /\ row.payload = e.payload

\* _claim inserts the row ...
Claim(w) ==
    /\ stage[w] = "locked"
    /\ \A v \in Writers \ {w} : ~HoldsClaim(v, request[w].op)
    /\ log[request[w].op] = None
    /\ stage' = [stage EXCEPT ![w] = "claimed"]
    /\ UNCHANGED <<request, pending, version, effects, log, reply>>

\* ... or finds a committed one: the same operation is answered with its
\* receipt, another one is refused, and nothing is written either way.
Replay(w) ==
    LET o == request[w].op IN
    /\ stage[w] = "locked"
    /\ \A v \in Writers \ {w} : ~HoldsClaim(v, o)
    /\ log[o] # None
    /\ reply' = [reply EXCEPT ![w] =
                    IF SameOperation(log[o], request[w])
                    THEN [op |-> o, row |-> log[o], replayed |-> TRUE]
                    ELSE [op |-> o, row |-> None, replayed |-> FALSE]]
    /\ stage' = [stage EXCEPT ![w] = "idle"]
    /\ UNCHANGED <<request, pending, version, effects, log>>

NewRow(e, outcome, observed, committed) ==
    [res |-> e.res, expected |-> e.expected, payload |-> e.payload,
     outcome |-> outcome, observed |-> observed, committed |-> committed]

\* Mutant: an older version passes.
StaleVersionOff(e) == e.expected # None /\ e.expected > version[e.res]

\* The expected version is stale: the row records a conflict, no mutation runs.
StaleVersion(e) == e.expected # None /\ e.expected # version[e.res]

\* Mutant: the row keeps the outcome it was inserted with.
RejectUnrecorded(w) ==
    LET e == request[w] IN
    /\ stage[w] = "claimed"
    /\ StaleVersion(e)
    /\ pending' = [pending EXCEPT ![w] = NewRow(e, "pending", version[e.res], None)]
    /\ stage' = [stage EXCEPT ![w] = "written"]
    /\ UNCHANGED <<request, version, effects, log, reply>>

Reject(w) ==
    LET e == request[w] IN
    /\ stage[w] = "claimed"
    /\ StaleVersion(e)
    /\ pending' = [pending EXCEPT ![w] =
                    NewRow(e, "version_conflict", version[e.res], None)]
    /\ stage' = [stage EXCEPT ![w] = "written"]
    /\ UNCHANGED <<request, version, effects, log, reply>>

\* The mutation runs on the current version and reports whether it changed
\* anything; a mutation that raises is a Rollback.
Mutate(w) ==
    LET e == request[w]
        now == version[e.res]
    IN
    /\ stage[w] = "claimed"
    /\ ~StaleVersion(e)
    /\ \/ pending' = [pending EXCEPT ![w] = NewRow(e, "applied", now, now + 1)]
       \/ pending' = [pending EXCEPT ![w] = NewRow(e, "no_change", now, now)]
    /\ stage' = [stage EXCEPT ![w] = "written"]
    /\ UNCHANGED <<request, version, effects, log, reply>>

\* Mutant: a mutation that changed nothing bumps the version all the same.
CommitBlind(w) ==
    LET e == request[w]
        row == pending[w]
    IN
    /\ stage[w] = "written"
    /\ log' = [log EXCEPT ![e.op] = row]
    /\ IF row.outcome # "version_conflict"
       THEN /\ version' = [version EXCEPT ![e.res] = @ + 1]
            /\ effects' = IF row.outcome = "applied"
                          THEN [effects EXCEPT ![e.res] = Append(@, e.op)]
                          ELSE effects
       ELSE UNCHANGED <<version, effects>>
    /\ pending' = [pending EXCEPT ![w] = None]
    /\ reply' = [reply EXCEPT ![w] = [op |-> e.op, row |-> row, replayed |-> FALSE]]
    /\ stage' = [stage EXCEPT ![w] = "idle"]
    /\ UNCHANGED request

\* The transaction commits: the row, the version and the mutation's writes
\* become visible together, and the caller gets its receipt.
Commit(w) ==
    LET e == request[w]
        row == pending[w]
    IN
    /\ stage[w] = "written"
    /\ log' = [log EXCEPT ![e.op] = row]
    /\ IF row.outcome = "applied"
       THEN /\ version' = [version EXCEPT ![e.res] = row.committed]
            /\ effects' = [effects EXCEPT ![e.res] = Append(@, e.op)]
       ELSE UNCHANGED <<version, effects>>
    /\ pending' = [pending EXCEPT ![w] = None]
    /\ reply' = [reply EXCEPT ![w] = [op |-> e.op, row |-> row, replayed |-> FALSE]]
    /\ stage' = [stage EXCEPT ![w] = "idle"]
    /\ UNCHANGED request

\* The mutation raises, or the process or the connection dies before the commit.
Rollback(w) ==
    /\ stage[w] # "idle"
    /\ stage' = [stage EXCEPT ![w] = "idle"]
    /\ pending' = [pending EXCEPT ![w] = None]
    /\ UNCHANGED <<request, version, effects, log, reply>>

Step(w) == Lock(w) \/ Claim(w) \/ Replay(w) \/ Reject(w) \/ Mutate(w) \/ Commit(w)

Next == \E w \in Writers : Submit(w) \/ Step(w) \/ Rollback(w)

Spec == Init /\ [][Next]_vars

-----------------------------------------------------------------------------

\* The columns of operation rows, versions and receipts stay in their domains, and
\* no committed row is left with a provisional outcome (execute).
TypeOK ==
    /\ stage \in [Writers -> Stages]
    /\ request \in [Writers -> Envelope \cup {None}]
    /\ pending \in [Writers -> Row \cup {None}]
    /\ version \in [Resources -> Nat]
    /\ effects \in [Resources -> Seq(Ops)]
    /\ log \in [Ops -> Row \cup {None}]
    /\ reply \in [Writers -> Receipt \cup {None}]

\* The version column counts the committed mutations, and the operation rows
\* number them: the v-th mutation of a resource is the one whose receipt says
\* committed_version v, so none is applied twice, lost, or numbered like another.
LinearHistory ==
    /\ \A r \in Resources :
        /\ version[r] = Len(effects[r])
        /\ \A v \in 1..Len(effects[r]) :
            /\ log[effects[r][v]] # None
            /\ log[effects[r][v]].outcome = "applied"
            /\ log[effects[r][v]].res = r
            /\ log[effects[r][v]].committed = v
    /\ \A o \in Ops :
        (log[o] # None /\ log[o].outcome = "applied") =>
            /\ log[o].committed \in 1..Len(effects[log[o].res])
            /\ effects[log[o].res][log[o].committed] = o

\* No lost update: a mutation that stated the version it had read was applied
\* to exactly that version, and one refused had really been overtaken.
NoLostUpdate ==
    \A o \in Ops :
        (log[o] # None /\ log[o].expected # None) =>
            IF log[o].outcome = "version_conflict"
            THEN log[o].expected < version[log[o].res]
            ELSE log[o].expected = log[o].observed

\* A receipt, first-hand or replayed, is the durable row of the very write the
\* caller asked for: a retry never gets another write's result.
ReceiptIsDurable ==
    \A w \in Writers :
        (stage[w] = "idle" /\ reply[w] # None /\ reply[w].row # None) =>
            /\ reply[w].op = request[w].op
            /\ reply[w].row = log[request[w].op]
            /\ \A f \in {"res", "expected", "payload"} :
                reply[w].row[f] = request[w][f]

\* The detailed transactions implement the atomic compare-and-set.
Atomic == INSTANCE AtomicWrites
    WITH history <- effects,
         verdict <- [o \in Ops |-> IF log[o] = None THEN None
                                   ELSE [res |-> log[o].res,
                                         expected |-> log[o].expected,
                                         outcome |-> log[o].outcome]]

WritesAreAtomic == Atomic!AtomicSpec

\* w stands at a lock that v holds until its transaction ends.
WaitsFor(w, v) ==
    /\ v # w
    /\ \/ stage[w] = "begun" /\ HoldsLock(v, request[w].res)
       \/ stage[w] = "locked" /\ HoldsClaim(v, request[w].op)

\* While any write is under way, one of them waits for nobody: writers of different
\* resources that share an operation id wait for each other's row while they hold
\* their advisory locks, and yet never in a circle (execute takes the lock first).
NoDeadlock ==
    (\E w \in Writers : stage[w] # "idle") =>
        \E w \in Writers : stage[w] # "idle" /\ \A v \in Writers : ~WaitsFor(w, v)

-----------------------------------------------------------------------------
(* What the proofs need besides the properties.                            *)

\* The advisory lock and the inserted row exclude other transactions, and a
\* row that is claimed has not been committed by anybody.
LockInv ==
    /\ \A w, v \in Writers : \A r \in Resources :
        HoldsLock(w, r) /\ HoldsLock(v, r) => w = v
    /\ \A w, v \in Writers : \A o \in Ops :
        HoldsClaim(w, o) /\ HoldsClaim(v, o) => w = v
    /\ \A w \in Writers : \A o \in Ops : HoldsClaim(w, o) => log[o] = None

\* What a transaction has read is still so when it commits.
RowIsCurrent(row, e) ==
    /\ row.res = e.res /\ row.expected = e.expected /\ row.payload = e.payload
    /\ row.observed = version[e.res]
    /\ row.outcome = "applied" => row.committed = version[e.res] + 1
    /\ row.outcome = "version_conflict" =>
        e.expected # None /\ e.expected # version[e.res]
    /\ row.outcome # "version_conflict" =>
        e.expected = None \/ e.expected = version[e.res]

TransactionInv ==
    \A w \in Writers :
        /\ request[w] # None =>
            request[w].expected = None \/ request[w].expected <= version[request[w].res]
        /\ stage[w] # "idle" => request[w] # None /\ reply[w] = None
        /\ stage[w] = "written" =>
            pending[w] # None /\ RowIsCurrent(pending[w], request[w])
=============================================================================
