--------------------------- MODULE DurableMemory ---------------------------
(***************************************************************************)
(* Durable memory: what publication (reconciliation.py) and the owner's    *)
(* lifecycle commands (lifecycle.py) make of the table of memories, its    *)
(* provenance and the candidates behind it.  Every write goes through the  *)
(* shared write of the resource memory_state, and publication carries the  *)
(* revision it evaluated, so each is one step here (SharedWrites and       *)
(* MemoryCandidates model how it gets there).                              *)
(*                                                                         *)
(* All memories have one scope and one kind; the model's readings (the     *)
(* relation, the target, the wording, the event time) are free choices.    *)
(***************************************************************************)
EXTENDS TranscriptDerivatives

CONSTANTS
    Contents,       \* wordings of memories
    None,           \* no wording, no candidate
    Says,           \* what each turn of the conversation says
    MaxCandidates,  \* memory candidates
    MaxRows,        \* memories
    MaxOrders       \* owner commands

ASSUME MemoryAssumption ==
    /\ MaxCandidates \in Nat /\ None \notin Contents \cup (1..MaxCandidates) /\ Says \in [1..MaxTurns -> Contents]
    /\ MaxRows \in Nat /\ MaxOrders \in Nat

VARIABLES
    rows,           \* durable memories
    prov,           \* provenance: the memory, and the turn, candidate or memory it has it from
    cand,           \* candidates
    oaths,          \* owner assertion turns, each in a transcript of its own
    review,         \* memories with a pending memory_review
    orders          \* owner commands given

memoryVars == <<rows, prov, cand, oaths, review, orders>>

Ids == DOMAIN rows
Candidates == 1..MaxCandidates
\* record kinds that begin with "owner_"
OWNER == {"owner_directed", "owner_retire_guard", "owner_correction_guard",
          "owner_delete_tombstone"}

BlankRow ==
    [status |-> "active", kind |-> "derived", grounded |-> FALSE, content |-> None,
     hush |-> FALSE, source |-> 0, oath |-> 0, proof |-> None, origin |-> None,
     supersedes |-> 0, by |-> 0, from |-> 0, how |-> "legacy", back |-> FALSE]
NoCandidate ==
    [status |-> "none", content |-> None, evidence |-> {}, op |-> "upsert", target |-> 0,
     oath |-> 0, clash |-> 0]

\* Turn ids: the conversation's, then the assertion turns.
Turn(k) == MaxTurns + k
TurnLive(t) == IF t <= MaxTurns THEN t \in Standing ELSE oaths[t - MaxTurns].live
TurnPurged(t) ==
    IF t <= MaxTurns THEN t > 0 /\ turns[t] = "purged" ELSE ~oaths[t - MaxTurns].live
TurnSays(t) == IF t <= MaxTurns THEN Says[t] ELSE oaths[t - MaxTurns].says
AllTurns == Sequences \cup {Turn(k) : k \in DOMAIN oaths}

\* active_by_fingerprint and the verified rows that keep a wording from being published
Active(x) == {i \in Ids : rows[i].status = "active" /\ rows[i].content = x}
Restrictions(x) ==
    {i \in Ids : /\ rows[i].content = x /\ rows[i].grounded /\ rows[i].hush
                 /\ rows[i].status \in {"retired", "superseded"}}
\* Publication looks at the one updated last, which may be any; 0 if there is none.
Restriction(x) == IF Restrictions(x) = {} THEN {0} ELSE Restrictions(x)
OwnerDirected(i) == rows[i].kind \in OWNER

\* past: the memories and the commands of earlier.
NothingYet == [rows |-> <<>>, orders |-> 0]

MemoryInit(past) ==
    /\ rows = past.rows /\ orders = past.orders
    /\ review = DOMAIN rows
    /\ prov = {} /\ oaths = <<>>
    /\ cand = [c \in Candidates |-> NoCandidate]
-----------------------------------------------------------------------------
(* Intake.                                                                 *)

Fresh(c) == cand[c].status = "none" /\ \A b \in 1..(c - 1) : cand[b].status # "none"
Link(m, t, c, source) == [memory |-> m, turn |-> t, cand |-> c, source |-> source]

\* A candidate from the conversation or the sweep.
Propose(c, x, evidence) ==
    /\ Fresh(c) /\ evidence # {} /\ evidence \subseteq Standing
    /\ cand' = [cand EXCEPT ![c] = [NoCandidate EXCEPT !.status = "pending", !.content = x,
                                                       !.evidence = evidence]]
    /\ UNCHANGED <<rows, prov, oaths, review, orders, derivVars>>

\* The turn a command is given in: the last one of the open chat.
Latest == IF ~chat.deleted /\ Len(turns) > 0 THEN Len(turns) ELSE 0
Command == orders < MaxOrders /\ orders' = orders + 1

\* latest_owner_source does not ask whether the turn was removed: a guard on a turn
\* that was is blind.
Guard(x, status, kind) ==
    [BlankRow EXCEPT !.status = status, !.kind = kind, !.grounded = Latest # 0, !.content = x,
                     !.hush = TRUE, !.source = Latest, !.oath = Latest,
                     !.how = IF TurnPurged(Latest) THEN "blind" ELSE "guard"]
GuardsOf(x, status) ==
    {i \in Ids : rows[i].content = x /\ rows[i].status = status /\ rows[i].hush}

Correction(x, op, t) ==
    [NoCandidate EXCEPT !.status = "pending", !.content = x, !.evidence = {Latest},
                        !.op = op, !.target = t]

\* memory.correct of a memory (t), or of a wording nothing active has (old): then a guard
\* for the old wording is the target.  The target is looked up and the turn checked
\* without the lock of the resource, so by the time the command commits the memory may be
\* active no more, the wording published, a guard made or the turn removed.
OnceActive(t) == rows[t].back \/ rows[t].how \notin {"guard", "blind", "history"}
OnceFree(old) == \A i \in Active(old) : rows[i].how # "legacy"

Correct(c, x, t, old, op) ==
    /\ Command /\ Fresh(c) /\ Latest # 0
    /\ \/ /\ t # 0 /\ OnceActive(t) /\ UNCHANGED rows
          /\ cand' = [cand EXCEPT ![c] = Correction(x, op, t)]
       \/ /\ t = 0 /\ OnceFree(old)
          /\ GuardsOf(old, "superseded") # {} /\ UNCHANGED rows
          /\ cand' = [cand EXCEPT ![c] = Correction(x, op, Max(GuardsOf(old, "superseded")))]
       \/ /\ t = 0 /\ OnceFree(old) /\ Len(rows) < MaxRows
          /\ rows' = Append(rows, Guard(old, "superseded", "owner_correction_guard"))
          /\ cand' = [cand EXCEPT ![c] = Correction(x, op, Len(rows'))]
    /\ UNCHANGED <<prov, oaths, review, derivVars>>
-----------------------------------------------------------------------------
(* Publication.  d is the model's reading: relation, target, wording, time.*)

\* _related_memories_for: what the model may name as a target.
ActiveGraph == {i \in Ids : rows[i].status = "active" /\ rows[i].grounded}
LegacyGraph == {i \in Ids : rows[i].status = "active" /\ ~rows[i].grounded}

Corrects(c, t) == cand[c].op # "upsert" /\ cand[c].target = t
Horizon(c) == Max(cand[c].evidence)

\* Mutant: the model's relation is taken as it is.
ModelsOrder(c, d) == d.relation

EnforceTemporalOrder(c, d) ==
    IF d.relation \notin {"supersedes", "historical_predecessor"} THEN d.relation
    ELSE IF OwnerDirected(d.target) /\ ~Corrects(c, d.target) THEN "conflicts_with"
    ELSE IF d.time > Horizon(c) THEN "conflicts_with"
    ELSE IF Corrects(c, d.target) /\ d.relation = "supersedes" THEN "supersedes"
    ELSE IF d.time = 0 \/ rows[d.target].from = 0 \/ d.time = rows[d.target].from
         THEN "conflicts_with"
    ELSE IF d.time > rows[d.target].from THEN "supersedes"
    ELSE "historical_predecessor"

Readings(c) ==
    {d \in [relation : {"new", "duplicate_of", "narrows", "supersedes", "conflicts_with",
                        "historical_predecessor", "grounds_legacy"},
            target : Ids \cup {0}, content : Contents, time : 0..Len(turns)] :
        /\ d.target \in CASE d.relation = "new" -> {0}
                          [] d.relation = "grounds_legacy" -> LegacyGraph
                          [] OTHER -> ActiveGraph
        /\ d.relation \in {"new", "duplicate_of"} => d.content = cand[c].content}

\* What publish refuses, by decision (_publication_decision maps the relation); g is
\* the restriction on the wording.
Obstacle(c, d, relation, g) ==
    CASE relation = "new" ->
            \/ g # 0 \/ Active(d.content) # {}
            \/ cand[c].op # "upsert" /\ rows[cand[c].target].status = "active"
      [] relation \in {"narrows", "supersedes"} ->
            \/ g # 0 \/ Active(d.content) # {}
            \/ cand[c].op # "upsert" /\ cand[c].target # d.target
            \/ OwnerDirected(d.target) /\ ~Corrects(c, d.target)
      [] relation = "grounds_legacy" ->
            \/ g # 0 \/ Active(d.content) \ {d.target} # {}
            \/ OwnerDirected(d.target)
      [] relation = "historical_predecessor" ->
            /\ g # 0
            /\ \/ rows[g].status = "retired" \/ OwnerDirected(g)
               \/ ~(rows[g].by = d.target \/ rows[d.target].supersedes = g)
      [] OTHER -> FALSE

\* _add_candidate_lineage: only for evidence the memory does not have yet.
Lineage(m, c) ==
    LET has == {p.turn : p \in {q \in prov : q.memory = m /\ q.cand # None}}
        new == cand[c].evidence \ has
    IN IF new = {} THEN {}
       ELSE {Link(m, 0, c, 0)} \cup {Link(m, t, c, 0) : t \in new}

Settled(c, status) ==
    cand' = [cand EXCEPT ![c].status = status, ![c].op = "upsert", ![c].target = 0]

\* A fresh row of the publisher; a correction of an error dates nothing.
Published(c, d, how) ==
    [BlankRow EXCEPT
        !.grounded = TRUE, !.content = d.content, !.source = Min(cand[c].evidence),
        !.oath = cand[c].oath, !.proof = c, !.origin = c, !.how = how,
        !.from = IF cand[c].op = "correction" /\ how # "history" THEN 0 ELSE d.time]

PublishCreate(c, d) ==
    LET m == Len(rows) + 1
        t == cand[c].target
        fixes == cand[c].op # "upsert" /\ rows[t].kind = "owner_correction_guard"
                                      /\ rows[t].status \in {"retired", "superseded"}
        row == Published(c, d, "create")
    IN /\ Len(rows) < MaxRows
       /\ rows' = Append(IF fixes THEN [rows EXCEPT ![t].by = m] ELSE rows,
                         IF fixes THEN [row EXCEPT !.supersedes = t] ELSE row)
       /\ prov' = prov \cup Lineage(m, c) \cup (IF fixes THEN {Link(m, 0, None, t)} ELSE {})
       /\ Settled(c, "done")

PublishReplace(c, d, relation) ==
    LET m   == Len(rows) + 1
        how == IF cand[c].op # "upsert" THEN "correct"
               ELSE IF relation = "narrows" THEN "merge" ELSE "supersede"
    IN /\ Len(rows) < MaxRows
       /\ rows' = Append([rows EXCEPT ![d.target].status = "superseded",
                                      ![d.target].hush = TRUE, ![d.target].by = m],
                         [Published(c, d, how) EXCEPT !.supersedes = d.target])
       /\ prov' = prov \cup Lineage(m, c) \cup {Link(m, 0, None, d.target)}
       /\ Settled(c, "done")

PublishEquivalent(c, d) ==
    /\ prov' = prov \cup Lineage(d.target, c)
                    \cup (IF cand[c].oath # 0 THEN {Link(d.target, cand[c].oath, None, 0)} ELSE {})
    /\ rows' = IF cand[c].oath # 0 THEN [rows EXCEPT ![d.target].oath = cand[c].oath] ELSE rows
    /\ Settled(c, "done")

PublishGround(c, d) ==
    /\ rows' = [rows EXCEPT ![d.target] =
          [@ EXCEPT !.content = d.content, !.grounded = TRUE, !.proof = c,
                    !.oath = cand[c].oath, !.source = Min(cand[c].evidence), !.from = d.time]]
    /\ prov' = prov \cup Lineage(d.target, c)
    /\ Settled(c, "done")

PublishHistory(c, d, g) ==
    \/ /\ g # 0 /\ prov' = prov \cup Lineage(g, c) /\ UNCHANGED rows
       /\ Settled(c, "done")
    \/ LET m == Len(rows) + 1 IN
       /\ g = 0 /\ Len(rows) < MaxRows
       /\ rows' = Append(rows, [Published(c, d, "history") EXCEPT
                                   !.status = "superseded", !.hush = TRUE, !.by = d.target])
       /\ prov' = prov \cup Lineage(m, c) \cup {Link(m, 0, None, d.target)}
       /\ Settled(c, "done")

\* The conflict row names its target; the candidate waits for the owner.
PublishConflict(c, d) ==
    /\ cand' = [cand EXCEPT ![c].status = "awaiting", ![c].clash = d.target]
    /\ UNCHANGED <<rows, prov>>

Publish(c, d) ==
    /\ cand[c].status = "pending"
    /\ \A t \in cand[c].evidence : TurnLive(t)
    /\ \E g \in Restriction(d.content) :
          LET relation == EnforceTemporalOrder(c, d) IN
          IF Obstacle(c, d, relation, g)
          THEN Settled(c, "done") /\ UNCHANGED <<rows, prov>>       \* _block
          ELSE CASE relation = "new" -> PublishCreate(c, d)
                 [] relation \in {"narrows", "supersedes"} -> PublishReplace(c, d, relation)
                 [] relation = "duplicate_of" -> PublishEquivalent(c, d)
                 [] relation = "grounds_legacy" -> PublishGround(c, d)
                 [] relation = "historical_predecessor" -> PublishHistory(c, d, g)
                 [] OTHER -> PublishConflict(c, d)
    /\ review' = IF d.relation = "grounds_legacy" /\ rows' # rows
                 THEN review \ {d.target} ELSE review
    /\ UNCHANGED <<oaths, orders, derivVars>>

\* _live_evidence_rows finds a turn gone.
PublishWithoutEvidence(c) ==
    /\ cand[c].status = "pending" /\ \E t \in cand[c].evidence : ~TurnLive(t)
    /\ Settled(c, "invalidated")
    /\ UNCHANGED <<rows, prov, oaths, review, orders, derivVars>>

\* _owner_policy: a claim that is external, sensitive or imported needs the owner, once.
PublishAwaits(c) ==
    /\ cand[c].status = "pending" /\ cand[c].oath = 0
    /\ \A t \in cand[c].evidence : TurnLive(t)
    /\ cand' = [cand EXCEPT ![c].status = "awaiting"]
    /\ UNCHANGED <<rows, prov, oaths, review, orders, derivVars>>
-----------------------------------------------------------------------------
(* The owner's answers.                                                    *)

\* The owner confirms a candidate, in these or in other words.
ConfirmCandidate(c, x) ==
    LET t == Turn(Len(oaths) + 1) IN
    /\ Command /\ cand[c].status = "awaiting" /\ cand[c].clash = 0
    /\ oaths' = Append(oaths, [says |-> x, live |-> TRUE])
    /\ cand' = [cand EXCEPT ![c].status = "pending", ![c].oath = t,
                            ![c].evidence = @ \cup {t}]
    /\ UNCHANGED <<rows, prov, review, derivVars>>

\* Rejecting it, or answering a conflict; keep_current is put on record with the target,
\* the other answers queue a correction of it (Correct).
RejectCandidate(c) ==
    /\ Command /\ cand[c].status = "awaiting" /\ cand[c].clash = 0
    /\ Settled(c, "done")
    /\ UNCHANGED <<rows, prov, oaths, review, derivVars>>

AnswerConflict(c, keep) ==
    /\ Command /\ cand[c].clash # 0 /\ rows[cand[c].clash].status = "active"
    /\ prov' = IF keep THEN prov \cup {Link(cand[c].clash, 0, c, 0)} ELSE prov
    /\ cand' = [cand EXCEPT ![c].clash = 0,
                            ![c].status = IF @ = "awaiting" THEN "done" ELSE @]
    /\ UNCHANGED <<rows, oaths, review, derivVars>>

\* _resolve_memory_review: the wording is checked against the other active memories.
ConfirmMemory(i, x) ==
    LET t == Turn(Len(oaths) + 1) IN
    /\ Command /\ i \in review /\ rows[i].status # "deleted"
    /\ Active(x) \subseteq {i}
    /\ oaths' = Append(oaths, [says |-> x, live |-> TRUE])
    /\ rows' = [rows EXCEPT ![i] = [@ EXCEPT !.content = x, !.grounded = TRUE, !.proof = None,
                                             !.oath = t, !.source = t, !.back = TRUE]]
    /\ prov' = prov \cup {Link(i, t, None, 0)}
    /\ review' = review \ {i}
    /\ UNCHANGED <<cand, derivVars>>

RejectMemory(i) ==
    /\ Command /\ i \in review /\ rows[i].status # "deleted"
    /\ rows' = IF rows[i].status = "active"
               THEN [rows EXCEPT ![i].status = "retired", ![i].hush = TRUE] ELSE rows
    /\ review' = review \ {i}
    /\ UNCHANGED <<prov, cand, oaths, derivVars>>
-----------------------------------------------------------------------------
(* Lifecycle commands.                                                     *)

Derivatives == UNCHANGED <<turns, chat, index, indexer, embedder, builder, sweep, sweeper,
                           purge, raced>> /\ capsule' = NoCapsule

\* _invalidate_candidates: by turn, by name, by wording.
Touched(ts, cs, x) ==
    {c \in Candidates : cand[c].status # "none" /\
        (c \in cs \/ cand[c].evidence \cap ts # {} \/ (x # None /\ cand[c].content = x))}

Invalidated(cs) == cand' = [c \in Candidates |->
    IF c \in cs THEN [cand[c] EXCEPT !.status = "invalidated"] ELSE cand[c]]
\* With the wording; a purge resolves the conflict as well.
Wiped(cs, status) == cand' = [c \in Candidates |->
    IF c \in cs THEN [cand[c] EXCEPT !.status = status, !.content = None,
                                    !.clash = IF status = "purged" THEN 0 ELSE @]
    ELSE cand[c]]

RetireRow(i) ==
    /\ Command /\ rows[i].status = "active"
    /\ rows' = [rows EXCEPT ![i].status = "retired", ![i].hush = TRUE]
    /\ Invalidated(Touched({rows[i].source} \ {0}, {}, rows[i].content))
    /\ Derivatives /\ UNCHANGED <<prov, oaths, review>>

\* By wording, when nothing active has it: a guard stands for it.
RetireWording(x) ==
    /\ Command /\ Active(x) = {}
    /\ IF GuardsOf(x, "retired") # {}
       THEN /\ UNCHANGED rows
            /\ Invalidated(Touched({rows[Max(GuardsOf(x, "retired"))].source} \ {0}, {}, x))
       ELSE /\ Len(rows) < MaxRows
            /\ rows' = Append(rows, Guard(x, "retired", "owner_retire_guard"))
            /\ Invalidated(Touched({Latest} \ {0}, {}, x))
    /\ Derivatives /\ UNCHANGED <<prov, oaths, review>>

Restore(i) ==
    /\ Command /\ rows[i].status = "retired" /\ Active(rows[i].content) = {}
    /\ rows' = [rows EXCEPT ![i].status = "active", ![i].hush = FALSE, ![i].back = TRUE]
    /\ Derivatives /\ UNCHANGED <<prov, cand, oaths, review>>

-----------------------------------------------------------------------------
(* memory.delete.                                                          *)

\* _independent_owner_grounded_ids: the owner said so, in a turn that still stands.
Independent(i) ==
    /\ rows[i].status # "deleted" /\ rows[i].grounded
    /\ rows[i].oath # 0 /\ TurnLive(rows[i].oath)

\* The least set that has the first and, unless kept, whatever rests on a member or on one
\* of the candidates (_memory_descendants, _dependent_memory_closure).
Rests(first, cs, kept) ==
    LET Closed(X) == \A p \in prov :
                        (p.source \in X \/ p.cand \in cs) => p.memory \in X \cup kept
    IN {i \in Ids : \A X \in SUBSET Ids : first \subseteq X /\ Closed(X) => i \in X}

SourceTurns(ms, cs) ==
    ({rows[i].source : i \in ms} \cup {rows[i].oath : i \in ms}
        \cup {p.turn : p \in {q \in prov : q.memory \in ms}}
        \cup UNION {cand[c].evidence : c \in cs}) \ {0}

\* _redact_source_turns: the turns that hold the wording; _redact_value changes no other.
Redactable(ts, x) == {t \in ts : TurnLive(t) /\ TurnSays(t) = x}

\* What a deletion of the memories in target (one, or none if nothing has the wording x)
\* finds: the turns, the candidates and the memories that go, and the memories that stay.
Purged(target, x, withSources) ==
    LET independent == {i \in Ids : Independent(i)} \ target
        first  == Rests(target, {}, independent)
        named  == {p.cand : p \in {q \in prov : q.memory \in first}} \ {None}
        source == SourceTurns(first, named)
        redact == IF ~withSources THEN {}
                  ELSE Redactable(IF source # {} THEN source ELSE AllTurns, x)
        deps   == source \cup redact
        cs     == Touched(deps, named, IF deps = {} /\ named = {} THEN x ELSE None)
        \* judged again: an assertion that is redacted grounds nothing
        keeps  == {i \in independent : rows[i].oath \notin redact}
        more   == {i \in Ids : rows[i].status # "deleted" /\ {rows[i].source, rows[i].oath} \cap deps # {}}
                     \cup {p.memory : p \in {q \in prov : q.turn \in deps}}
        gone   == Rests((first \cup more) \ keeps, cs, keeps)
    IN [safe |-> ~withSources \/ source = {} \/ redact = source,
        turns |-> redact, cands |-> cs, gone |-> gone, keeps |-> keeps \ gone]

\* _detach_purged_dependencies, for what stays: it rests on the owner's word alone.
Detached(p, i) ==
    [rows[i] EXCEPT !.source = IF @ \in p.turns THEN rows[i].oath ELSE @,
                    !.proof = IF @ \in p.cands THEN None ELSE @]
\* Mutant: what stays is detached from the turns only.
CutTurns(p, link) == link.memory \in p.keeps /\ link.turn \in p.turns

Cut(p, link) == /\ link.memory \in p.keeps
                /\ link.turn \in p.turns \/ link.cand \in p.cands \/ link.source \in p.gone

Tombstone == [BlankRow EXCEPT !.status = "deleted", !.kind = "owner_delete_tombstone",
                              !.hush = TRUE, !.source = Latest, !.how = "guard"]

DeletedRows(p) ==
    [i \in Ids |-> IF i \in p.gone
                   THEN [rows[i] EXCEPT !.status = "deleted", !.content = None, !.hush = TRUE]
                   ELSE IF i \in p.keeps THEN Detached(p, i) ELSE rows[i]]

Delete(target, x, withSources) ==
    LET p == Purged(target, x, withSources) IN
    /\ Command /\ ~Deleting /\ p.safe
    /\ rows' = IF target = {} THEN Append(DeletedRows(p), Tombstone) ELSE DeletedRows(p)
    /\ target = {} => Len(rows) < MaxRows
    /\ prov' = {link \in prov : ~Cut(p, link)}
    /\ Wiped(p.cands, "purged")
    /\ oaths' = [k \in DOMAIN oaths |-> [oaths[k] EXCEPT !.live = @ /\ Turn(k) \notin p.turns]]
    /\ IF p.turns \cap Sequences = {}
       THEN Derivatives
       ELSE /\ PurgeWrites(PurgeReads(p.turns \cap Sequences))
            /\ UNCHANGED <<indexer, embedder, builder, sweeper, purge, raced>>
    /\ UNCHANGED review

DeleteRow(i, withSources) ==
    rows[i].status # "deleted" /\ Delete({i}, rows[i].content, withSources)

\* By wording: the active memory, else a retired one, else any other.
DeleteWording(x, withSources) ==
    LET having(S) == {i \in Ids : rows[i].content = x /\ rows[i].status \in S}
    IN IF having({"active", "retired", "superseded"}) = {}
       THEN Delete({}, x, withSources)
       ELSE \E i \in IF having({"active"}) # {} THEN having({"active"})
                     ELSE IF having({"retired"}) # {} THEN having({"retired"})
                     ELSE having({"superseded"}) :
               Delete({i}, x, withSources)

\* delete_owner_chat: the candidates of the chat go with it; the memories stay.
DeleteChatOfMemories ==
    /\ Command /\ DeleteChat
    /\ Wiped({c \in Candidates : cand[c].status # "none"}, "invalidated")
    /\ UNCHANGED <<rows, prov, oaths, review>>

-----------------------------------------------------------------------------
MemoryNext ==
    \/ \E c \in Candidates, x \in Contents :
          \/ \E evidence \in SUBSET Standing : Propose(c, x, evidence)
          \/ \E t \in Ids \cup {0}, old \in Contents, op \in {"correction", "change"} :
                Correct(c, x, t, old, op)
          \/ ConfirmCandidate(c, x)
    \/ \E c \in Candidates :
          \/ \E d \in Readings(c) : Publish(c, d)
          \/ PublishWithoutEvidence(c) \/ PublishAwaits(c) \/ RejectCandidate(c)
          \/ \E keep \in BOOLEAN : AnswerConflict(c, keep)
    \/ \E i \in Ids :
          \/ \E x \in Contents : ConfirmMemory(i, x)
          \/ RejectMemory(i) \/ RetireRow(i) \/ Restore(i)
          \/ \E withSources \in BOOLEAN : DeleteRow(i, withSources)
    \/ \E x \in Contents :
          \/ RetireWording(x)
          \/ \E withSources \in BOOLEAN : DeleteWording(x, withSources)
    \/ DeleteChatOfMemories
-----------------------------------------------------------------------------
Current == {i \in Ids : rows[i].status # "deleted"}

(* After memory.delete nothing that is kept rests on what it removed: no   *)
(* memory that is not deleted has a removed turn as its source or its      *)
(* owner's assertion, or in its provenance a removed turn, a candidate     *)
(* invalidated by the deletion or a deleted memory.  The exception is a    *)
(* guard made when its turn had been removed already, which retire writes  *)
(* as verified by that turn and restore makes an active memory             *)
(* (latest_owner_source takes removed turns as well).                      *)
NothingRestsOnRemoved ==
    \A i \in Current :
       /\ rows[i].how # "blind" => ~TurnPurged(rows[i].source) /\ ~TurnPurged(rows[i].oath)
       /\ \A p \in prov : p.memory = i =>
             /\ ~TurnPurged(p.turn)
             /\ p.cand # None => cand[p.cand].status # "purged"
             /\ p.source # 0 => rows[p.source].status # "deleted"

(* The table is consistent after any sequence of publications and owner    *)
(* commands: one active memory per wording, one memory per candidate, a    *)
(* verified memory names what verified it, a replacement is later and a    *)
(* historical predecessor earlier than the other memory in event time, and *)
(* a wording the owner retired is active again only in a memory the owner  *)
(* restored or put in these words.                                         *)
MemoryTableConsistent ==
    /\ \A i, j \in Current : i # j =>
          /\ rows[i].status = "active" /\ rows[j].status = "active" =>
                rows[i].content # rows[j].content
          /\ rows[i].origin # None => rows[i].origin # rows[j].origin
          /\ /\ rows[i].status = "active" /\ rows[i].content = rows[j].content
             /\ rows[j].status = "retired" /\ rows[j].grounded
             => rows[i].back
    /\ \A i \in Current :
          /\ rows[i].grounded => rows[i].proof # None \/ rows[i].oath # 0
          /\ rows[i].how = "supersede" => rows[i].from > rows[rows[i].supersedes].from
          /\ rows[i].how = "history" => rows[i].from < rows[rows[i].by].from
=============================================================================
