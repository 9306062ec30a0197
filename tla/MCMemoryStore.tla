--------------------------- MODULE MCMemoryStore ---------------------------
(* Instances of MemoryStore.  The parts of maintenance share only the      *)
(* conversation and the deletions, so they act in behaviours of their own. *)
EXTENDS MemoryStore

CONSTANTS x1, x2

FirstThenOther == [n \in 1..MaxTurns |-> IF n = 1 THEN x1 ELSE x2]

\* An empty table, or one unverified memory of either kind and a command less to give.
Old(kind) == [rows   |-> <<[BlankRow EXCEPT !.content = x1, !.source = 1, !.kind = kind]>>,
              orders |-> 1]
EmptyOrLegacy == {NothingYet, Old("derived"), Old("owner_directed")}

EachPart == {{"index", "embed"}, {"capsule"}, {"sweep"}, {"memory"}}
=============================================================================
