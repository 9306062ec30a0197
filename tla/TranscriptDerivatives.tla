----------------------- MODULE TranscriptDerivatives -----------------------
(***************************************************************************)
(* What the background maintenance derives from one conversation, and how  *)
(* the owner's deletions reach it: the search index (indexer.py), its      *)
(* vectors (embeddings.py), the continuity capsule (continuity.py), the    *)
(* cursor of the discovery sweep (discovery.py), the removal of turns by   *)
(* memory.delete (lifecycle.py) and of the chat (transcript/repository.py).*)
(*                                                                         *)
(* A worker reads in one transaction and writes in another; memory.delete  *)
(* is one transaction that reads without locks first (PurgeOpen) and       *)
(* writes when the transcript row is free (PurgeClose).                    *)
(***************************************************************************)
EXTENDS Integers, Sequences, FiniteSets, FiniteSetsExt

CONSTANTS
    Sweepers,       \* maintenance processes that sweep, unleased
    MaxTurns,       \* turns appended to the conversation
    MaxPurges,      \* deletions of content by the owner
    MaxPasses       \* indexing passes that publish

ASSUME DerivativesAssumption ==
    MaxTurns \in Nat \ {0} /\ MaxPurges \in Nat /\ MaxPasses \in Nat

VARIABLES
    turns,          \* the turns: "live", "purged" (content deleted), "erased" (chat deleted)
    chat,           \* transcript row: closed, deleted, rev (content_revision), live lock
    index,          \* cursor, chunks, number of passes that published
    indexer,        \* the indexing pass under way
    embedder,       \* number of the chunk whose vector is being computed, 0 if none
    capsule,        \* latest continuity capsule; n = 0: none
    builder,        \* the capsule being built
    sweep,          \* last_scanned_sequence and, as history, the turns read up to it
    sweeper,        \* the windows the sweepers hold
    purge,          \* the deletion transaction under way
    raced           \* history: what committed while a deletion was open

derivVars == <<turns, chat, index, indexer, embedder, capsule, builder, sweep, sweeper,
               purge, raced>>

Sequences == 1..Len(turns)
Standing == {n \in Sequences : turns[n] = "live"}
Removed == {n \in Sequences : turns[n] # "live"}

NoIndex == [cursor |-> 0, chunks |-> {}, passes |-> 0]
NotIndexing == [at |-> "idle", rev |-> 0, upto |-> 0, new |-> {}]
NoCapsule == [n |-> 0, end |-> 0, src |-> 0, copies |-> {}]
NotBuilding == [at |-> "idle", rev |-> 0, n |-> 0, end |-> 0, copies |-> {}]
NoWindow == [at |-> "idle", cursor |-> 0, window |-> {}]
NoPurge == [at |-> "idle", redacted |-> {}, first |-> 0, rebuild |-> 0, cursor |-> 0,
            sweep |-> 0, rev |-> 0, doomed |-> {}, count |-> 0]

DerivInit(n) ==
    /\ turns = [i \in 1..n |-> "live"]
    /\ chat = [closed |-> FALSE, deleted |-> FALSE, rev |-> n]
    /\ index = NoIndex /\ indexer = NotIndexing /\ embedder = 0
    /\ capsule = NoCapsule /\ builder = NotBuilding
    /\ sweep = [cursor |-> 0, read |-> {}]
    /\ sweeper = [w \in Sweepers |-> NoWindow]
    /\ purge = NoPurge /\ raced = {}

Deleting == purge.at = "open"
\* What another transaction commits while a deletion is open.
Meanwhile(what) == raced' = IF Deleting THEN raced \cup {what} ELSE raced
\* The indexing pass holds the transcript row and the index state row until it commits.
RowFree == indexer.at # "held"
-----------------------------------------------------------------------------
(* The conversation.  append_turn increments both counters in SQL, whether *)
(* or not the chat is the open one.                                        *)

AppendTurn ==
    /\ RowFree /\ ~chat.deleted /\ Len(turns) < MaxTurns
    /\ turns' = Append(turns, "live")
    /\ chat' = [chat EXCEPT !.rev = @ + 1]
    /\ Meanwhile("append")
    /\ UNCHANGED <<index, indexer, embedder, capsule, builder, sweep, sweeper, purge>>

\* create_owner_chat closes the open chat, activate_owner_chat opens one again.
CloseOrOpenChat ==
    /\ RowFree /\ ~chat.deleted
    /\ chat' = [chat EXCEPT !.closed = ~@]
    /\ UNCHANGED <<turns, index, indexer, embedder, capsule, builder, sweep, sweeper, purge,
                   raced>>

\* The chat row is locked first and the turns after it; a deletion that is open holds its
\* turns already, so this one would wait for it (and PostgreSQL ends one: PurgeAborts).
DeleteChat ==
    /\ RowFree /\ ~Deleting /\ ~chat.deleted
    /\ turns' = [n \in Sequences |-> "erased"]
    /\ chat' = [closed |-> TRUE, deleted |-> TRUE, rev |-> chat.rev + 1]
    /\ index' = [index EXCEPT !.cursor = 0, !.chunks = {}]
    /\ capsule' = NoCapsule
    /\ sweep' = [cursor |-> 0, read |-> {}]
    /\ UNCHANGED <<indexer, embedder, builder, sweeper, purge, raced>>
-----------------------------------------------------------------------------
(* The index.  run_once lists the transcripts without a lock, and the row  *)
(* index_transcript then locks is not read again: revision and cutoff are  *)
(* the listed ones.                                                        *)

\* _active_cutoff: everything of a closed chat, all but the active tail of the open one.
ActiveCutoff == IF chat.closed THEN Len(turns) ELSE Len(turns) - 1

IndexBegin ==
    /\ indexer.at = "idle" /\ ActiveCutoff > 0 /\ index.passes < MaxPasses
    /\ indexer' = [NotIndexing EXCEPT !.at = "begun", !.rev = chat.rev, !.upto = ActiveCutoff]
    /\ UNCHANGED <<turns, chat, index, embedder, capsule, builder, sweep, sweeper, purge, raced>>

\* _chunk_rows cuts the turns in order, wherever the text grows too long; every turn
\* of the model has text.
Chunkings(lo, hi) ==
    {{<<a, Min({b \in cuts : b >= a})>> : a \in {lo} \cup {b + 1 : b \in cuts \ {hi}}} :
        cuts \in {{hi} \cup c : c \in SUBSET (lo..(hi - 1))}}

\* The text of a turn removed and committed holds nothing of what was removed.
NewChunks(ranges) ==
    {[id |-> (index.passes * MaxTurns) + r[1], from |-> r[1], to |-> r[2], rev |-> indexer.rev,
      copies |-> (r[1]..r[2]) \cap Standing, vec |-> FALSE] : r \in ranges}

IndexHold ==
    /\ indexer.at = "begun"
    /\ IF indexer.upto <= index.cursor
       THEN indexer' = NotIndexing
       ELSE \E ranges \in Chunkings(index.cursor + 1, indexer.upto) :
               indexer' = [indexer EXCEPT !.at = "held", !.new = NewChunks(ranges)]
    /\ UNCHANGED <<turns, chat, index, embedder, capsule, builder, sweep, sweeper, purge, raced>>

\* uq_transcript_index_chunk_source_range: one chunk per range of turns.
Collides == \E c \in indexer.new, d \in index.chunks : c.from = d.from /\ c.to = d.to

IndexCommit ==
    /\ indexer.at = "held" /\ ~Collides
    /\ index' = [cursor |-> indexer.upto, chunks |-> index.chunks \cup indexer.new,
                 passes |-> index.passes + 1]
    /\ indexer' = NotIndexing
    /\ Meanwhile("index")
    /\ UNCHANGED <<turns, chat, embedder, capsule, builder, sweep, sweeper, purge>>

\* The insert fails and the whole pass is rolled back; so is one the process dies in.
IndexFails ==
    /\ indexer.at = "held"
    /\ indexer' = NotIndexing
    /\ UNCHANGED <<turns, chat, index, embedder, capsule, builder, sweep, sweeper, purge, raced>>

EmbedRead ==
    /\ embedder = 0
    /\ \E c \in index.chunks : ~c.vec /\ embedder' = c.id
    /\ UNCHANGED <<turns, chat, index, indexer, capsule, builder, sweep, sweeper, purge, raced>>

\* The update is by id and source_revision; a chunk that is gone takes nothing.
EmbedWrite ==
    /\ embedder # 0
    /\ index' = [index EXCEPT !.chunks =
                    {IF c.id = embedder THEN [c EXCEPT !.vec = TRUE] ELSE c : c \in @}]
    /\ embedder' = 0
    /\ UNCHANGED <<turns, chat, indexer, capsule, builder, sweep, sweeper, purge, raced>>
-----------------------------------------------------------------------------
(* The continuity capsule: built from the previous one and the turns after *)
(* it, published if the content revision is still the one that was read.   *)

BuildRead ==
    /\ builder.at = "idle" /\ chat.closed /\ ~chat.deleted
    /\ capsule.end < Len(turns)
    /\ builder' = [at |-> "asked", rev |-> chat.rev, n |-> capsule.n, end |-> Len(turns),
                   copies |-> capsule.copies \cup {n \in Standing : n > capsule.end}]
    /\ UNCHANGED <<turns, chat, index, indexer, embedder, capsule, sweep, sweeper, purge, raced>>

BuildPublish ==
    /\ builder.at = "asked" /\ RowFree
    /\ IF chat.closed /\ chat.rev = builder.rev /\ capsule.n = builder.n
       THEN capsule' = [n |-> builder.n + 1, end |-> builder.end, src |-> builder.rev,
                        copies |-> builder.copies]
       ELSE UNCHANGED capsule
    /\ builder' = NotBuilding
    /\ UNCHANGED <<turns, chat, index, indexer, embedder, sweep, sweeper, purge, raced>>

\* recent_continuity_context joins on the revision, so an old capsule is not handed over.
CapsuleShown == capsule.n > 0 /\ ~chat.deleted /\ capsule.src = chat.rev
-----------------------------------------------------------------------------
(* The discovery sweep.                                                    *)

SweepRead(w) ==
    /\ sweeper[w].at = "idle"
    /\ \E window \in {{n \in Standing : n > sweep.cursor /\ n <= last} : last \in Standing} :
          /\ window # {} /\ ~chat.deleted
          /\ sweeper' = [sweeper EXCEPT ![w] =
                            [at |-> "asked", cursor |-> sweep.cursor, window |-> window]]
    /\ UNCHANGED <<turns, chat, index, indexer, embedder, capsule, builder, sweep, purge, raced>>

\* Mutant: only the cursor is compared.
RefusedByCursor(s) == s.cursor # sweep.cursor

\* _advance: the cursor must be where it was read and every turn of the window live;
\* _touch moves nothing.
Refused(s) == s.cursor # sweep.cursor \/ ~(s.window \subseteq Standing)

SweepAdvance(w) ==
    /\ sweeper[w].at = "asked"
    /\ IF Refused(sweeper[w])
       THEN UNCHANGED <<sweep, raced>>
       ELSE /\ sweep' = [cursor |-> Max(sweeper[w].window),
                         read |-> sweep.read \cup sweeper[w].window]
            /\ Meanwhile("advance")
    /\ sweeper' = [sweeper EXCEPT ![w] = NoWindow]
    /\ UNCHANGED <<turns, chat, index, indexer, embedder, capsule, builder, purge>>
-----------------------------------------------------------------------------
(* memory.delete on the transcript: redact the turns, rewind and drop what *)
(* was derived from them.                                                  *)

\* Mutant: the index is rewound to the first turn redacted, not to where its chunk begins.
PurgeReadsToTurn(redacted) ==
    LET first == Min(redacted)
    IN [at |-> "open", redacted |-> redacted, first |-> first, rebuild |-> first,
        cursor |-> index.cursor, sweep |-> sweep.cursor, rev |-> chat.rev,
        doomed |-> {c.id : c \in {d \in index.chunks : d.to >= first}},
        count |-> purge.count + 1]

\* _invalidate_transcript_derivatives: what it reads, given the turns redacted.
PurgeReads(redacted) ==
    LET first == Min(redacted)
        hit   == {c \in index.chunks : c.to >= first}
        from  == Min({first} \cup {c.from : c \in hit})
    IN [at |-> "open", redacted |-> redacted, first |-> first, rebuild |-> from,
        cursor |-> index.cursor, sweep |-> sweep.cursor, rev |-> chat.rev,
        doomed |-> {c.id : c \in {d \in index.chunks : d.to >= from}},
        count |-> purge.count + 1]

\* A row that was loaded is written only where its value changed.
Written(loaded, value, current) == IF value = loaded THEN current ELSE value

PurgeWrites(p) ==
    /\ turns' = [n \in Sequences |-> IF n \in p.redacted THEN "purged" ELSE turns[n]]
    /\ chat' = [chat EXCEPT !.rev = p.rev + 1]
    /\ index' = [index EXCEPT
          !.cursor = Written(p.cursor, Min({p.cursor, p.rebuild - 1}), @),
          !.chunks = {c \in @ : c.id \notin p.doomed}]
    /\ LET c == Written(p.sweep, Min({p.sweep, p.first - 1}), sweep.cursor)
       IN sweep' = [cursor |-> c, read |-> {n \in sweep.read : n <= c}]
    /\ capsule' = NoCapsule

PurgeOpen(redacted) ==
    /\ ~Deleting /\ purge.count < MaxPurges
    /\ redacted # {} /\ redacted \subseteq Standing
    /\ purge' = PurgeReads(redacted)
    /\ UNCHANGED <<turns, chat, index, indexer, embedder, capsule, builder, sweep, sweeper, raced>>

PurgeClose ==
    /\ Deleting /\ RowFree
    /\ PurgeWrites(purge)
    /\ purge' = [NoPurge EXCEPT !.count = purge.count]
    /\ UNCHANGED <<indexer, embedder, builder, sweeper, raced>>

\* The victim of a deadlock with DeleteChat, or of an error later in the command.
PurgeAborts ==
    /\ Deleting
    /\ purge' = [NoPurge EXCEPT !.count = purge.count]
    /\ UNCHANGED <<turns, chat, index, indexer, embedder, capsule, builder, sweep, sweeper, raced>>
-----------------------------------------------------------------------------
Overlap(c, d) == c.id # d.id /\ c.from <= d.to /\ d.from <= c.to

(* The search index is a faithful cover of the conversation: every turn up *)
(* to the cursor is in exactly one chunk, so a deletion that drops a chunk *)
(* of several turns loses none of them, and no chunk holds removed text.   *)
(* The exception is an indexing pass that commits while a deletion is open:*)
(* the deletion has listed the chunks it drops and read the cursor before. *)
IndexIsFaithful ==
    "index" \notin raced =>
       /\ \A n \in 1..index.cursor : \E c \in index.chunks : c.from <= n /\ n <= c.to
       /\ \A c \in index.chunks :
             /\ c.copies \subseteq Standing /\ c.to <= index.cursor
             /\ \A d \in index.chunks : ~Overlap(c, d)

(* A worker that read before the owner's deletion does not publish after   *)
(* it: unless a turn was appended, or a sweep advanced, while the deletion *)
(* was open, the capsule handed to other chats and the turns the sweep has *)
(* behind it are free of removed text.                                     *)
WorkersAreFenced ==
    /\ CapsuleShown /\ "append" \notin raced => capsule.copies \subseteq Standing
    /\ "advance" \notin raced => sweep.read \subseteq Standing
    /\ \A n \in Standing : n <= sweep.cursor => n \in sweep.read
=============================================================================
