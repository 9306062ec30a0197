---------------------------- MODULE MemoryStore ----------------------------
(***************************************************************************)
(* One conversation, what maintenance derives from it and the memories     *)
(* that rest on it.  awake says which parts act in a behaviour: the steps  *)
(* of maintenance ("index", "embed", "capsule", "sweep"; every process     *)
(* that runs maintenance takes them one after the other, several processes *)
(* side by side), or publication and the owner's commands ("memory").      *)
(***************************************************************************)
EXTENDS DurableMemory

CONSTANTS
    Parts,          \* sets of parts that act together
    Heritage,       \* what the migration left behind
    Spoken          \* turns of the conversation memories are made of

ASSUME SpokenAssumption == Spoken \in 1..MaxTurns

\* The migration leaves active memories nobody has verified, one per wording.
LegacyRow(x, t, kind) == [BlankRow EXCEPT !.content = x, !.source = t, !.kind = kind]

LegacyRows ==
    {LegacyRow(x, t, kind) :
        x \in Contents, t \in 0..Spoken, kind \in {"derived", "owner_directed"}}

ASSUME HeritageAssumption ==
    \A past \in Heritage :
       /\ past.orders \in Nat
       /\ past.rows \in Seq(LegacyRows)
       /\ \A i, j \in DOMAIN past.rows : i # j => past.rows[i].content # past.rows[j].content

VARIABLE awake      \* never changes

vars == <<awake, derivVars, memoryVars>>

\* The conversation begins while maintenance runs; it is there when memories are made of it.
Init ==
    /\ awake \in Parts
    /\ IF "memory" \in awake
       THEN DerivInit(Spoken) /\ \E past \in Heritage : MemoryInit(past)
       ELSE DerivInit(1) /\ MemoryInit(NothingYet)

ConversationNext ==
    AppendTurn \/ CloseOrOpenChat \/ DeleteChat

\* memory.delete as maintenance sees it: some turns are redacted.
DeletionNext ==
    \/ \E redacted \in SUBSET Sequences : PurgeOpen(redacted)
    \/ PurgeClose \/ PurgeAborts

MaintenanceNext ==
    \/ "index" \in awake /\ (IndexBegin \/ IndexHold \/ IndexCommit \/ IndexFails)
    \/ "embed" \in awake /\ (EmbedRead \/ EmbedWrite)
    \/ "capsule" \in awake /\ (BuildRead \/ BuildPublish)
    \/ "sweep" \in awake /\ \E w \in Sweepers : SweepRead(w) \/ SweepAdvance(w)

Next ==
    /\ \/ /\ "memory" \notin awake
          /\ ConversationNext \/ DeletionNext \/ MaintenanceNext
          /\ UNCHANGED memoryVars
       \/ "memory" \in awake /\ MemoryNext
    /\ UNCHANGED awake

Spec == Init /\ [][Next]_vars
=============================================================================
