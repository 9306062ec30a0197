---------------------------- MODULE AtomicWrites ----------------------------
(***************************************************************************)
(* What a shared-state write promises its caller: every operation id is    *)
(* decided at most once, in one atomic step, by a compare-and-set against  *)
(* the number of writes already applied to its resource.                   *)
(* SharedWrites, the model of backend/atlas/persistence/shared_writes.py,  *)
(* implements this specification.                                          *)
(***************************************************************************)
EXTENDS Naturals, Sequences

CONSTANTS Ops, Resources, None

VARIABLES
    history,    \* history[r]: the operations applied to resource r, in order
    verdict     \* verdict[o]: None, or what was decided for operation o

abstractVars == <<history, verdict>>

Verdict(r, expected, outcome) ==
    [res |-> r, expected |-> expected, outcome |-> outcome]

AtomicInit ==
    /\ history = [r \in Resources |-> <<>>]
    /\ verdict = [o \in Ops |-> None]

\* The write takes effect: its expectation, if it has one, is the current
\* version.
Apply(o, r, expected) ==
    /\ verdict[o] = None
    /\ expected \in {None, Len(history[r])}
    /\ history' = [history EXCEPT ![r] = Append(@, o)]
    /\ verdict' = [verdict EXCEPT ![o] = Verdict(r, expected, "applied")]

\* The mutation found nothing to change.
Skip(o, r, expected) ==
    /\ verdict[o] = None
    /\ expected \in {None, Len(history[r])}
    /\ verdict' = [verdict EXCEPT ![o] = Verdict(r, expected, "no_change")]
    /\ UNCHANGED history

\* The expectation, a version that was read before, is stale: the write is refused, for good.
Refuse(o, r, expected) ==
    /\ verdict[o] = None
    /\ expected \notin {None, Len(history[r])}
    /\ verdict' = [verdict EXCEPT ![o] = Verdict(r, expected, "version_conflict")]
    /\ UNCHANGED history

AtomicNext ==
    \E o \in Ops, r \in Resources :
    \E expected \in {None} \cup 0..Len(history[r]) :
        Apply(o, r, expected) \/ Skip(o, r, expected) \/ Refuse(o, r, expected)

AtomicSpec == AtomicInit /\ [][AtomicNext]_abstractVars
=============================================================================
