------------------------- MODULE MemoryStore_proofs -------------------------
(***************************************************************************)
(* Proofs about what maintenance derives from a conversation, for any      *)
(* number of turns, passes, deletions and sweepers, and beside any memory  *)
(* commands.  What an open deletion knows is what it read when it began;   *)
(* PurgeView says how far that is still true, given what has raced with it.*)
(***************************************************************************)
EXTENDS MemoryStore, NumberLemmas, TLAPS

Chunk == [id : Nat, from : Nat, to : Nat, rev : Nat, copies : SUBSET Nat, vec : BOOLEAN]
Window == [at : {"idle", "asked"}, cursor : Nat, window : SUBSET Nat]
Deletion == [at : {"idle", "open"}, redacted : SUBSET Nat, first : Nat, rebuild : Nat,
             cursor : Nat, sweep : Nat, rev : Nat, doomed : SUBSET Nat, count : Nat]

DerivType ==
    /\ turns \in Seq({"live", "purged", "erased"}) /\ Len(turns) <= MaxTurns
    /\ chat \in [closed : BOOLEAN, deleted : BOOLEAN, rev : Nat]
    /\ index \in [cursor : Nat, chunks : SUBSET Chunk, passes : Nat]
    /\ indexer \in [at : {"idle", "begun", "held"}, rev : Nat, upto : Nat, new : SUBSET Chunk]
    /\ embedder \in Nat
    /\ capsule \in [n : Nat, end : Nat, src : Nat, copies : SUBSET Nat]
    /\ builder \in [at : {"idle", "asked"}, rev : Nat, n : Nat, end : Nat, copies : SUBSET Nat]
    /\ sweep \in [cursor : Nat, read : SUBSET Nat]
    /\ sweeper \in [Sweepers -> Window]
    /\ purge \in Deletion

\* Maintenance rests while memories are made (see awake).
Apart == "memory" \in awake => indexer.at = "idle"

\* A sweeper holds every live turn between the cursor it read and the last turn
\* of its window, and what is behind the cursor was read.
SweepInv ==
    /\ sweep.cursor <= Len(turns)
    /\ \A n \in sweep.read : n <= sweep.cursor
    /\ "advance" \notin raced => sweep.read \subseteq Standing
    /\ \A n \in Standing : n <= sweep.cursor => n \in sweep.read
    /\ \A w \in Sweepers : sweeper[w].at = "asked" =>
          /\ sweeper[w].window # {}
          /\ \A n \in sweeper[w].window : sweeper[w].cursor < n /\ n <= Len(turns)
          /\ \A n \in Standing, m \in sweeper[w].window :
                sweeper[w].cursor < n /\ n <= m => n \in sweeper[w].window

\* The content revision grows with every change, unless a turn was appended while
\* a deletion was open; so a builder that finds the revision it read has read
\* what still stands.
CapsuleInv ==
    "append" \notin raced =>
       /\ capsule.copies \subseteq Standing
       /\ builder.at = "asked" =>
             /\ builder.rev <= chat.rev
             /\ builder.rev = chat.rev => builder.copies \subseteq Standing

\* Chunk ids are used once.
NumbersInv ==
    /\ \A c \in index.chunks : 1 <= c.from /\ c.id <= index.passes * MaxTurns
    /\ \A c, d \in index.chunks : c.id = d.id => c.from = d.from /\ c.to = d.to

\* A pass that holds the row has cut exactly the turns after the cursor.
PassInv ==
    /\ indexer.at # "idle" => indexer.upto <= Len(turns)
    /\ indexer.at = "held" =>
          /\ index.cursor < indexer.upto
          /\ \A c \in indexer.new :
                /\ index.cursor < c.from /\ c.from <= c.to /\ c.to <= indexer.upto
                /\ c.id = index.passes * MaxTurns + c.from
                /\ c.copies \subseteq Standing /\ c.copies \subseteq c.from..c.to
          /\ \A c, d \in indexer.new :
                (c.from = d.from => c.to = d.to) /\ (c.from < d.from => c.to < d.from)
          /\ \A n \in (index.cursor + 1)..indexer.upto :
                \E c \in indexer.new : c.from <= n /\ n <= c.to

\* Every turn up to the cursor is in one chunk, which holds text of its range.
CoverInv ==
    "index" \notin raced =>
       /\ index.cursor <= Len(turns)
       /\ \A n \in 1..index.cursor : \E c \in index.chunks : c.from <= n /\ n <= c.to
       /\ \A c \in index.chunks :
             /\ c.from <= c.to /\ c.to <= index.cursor
             /\ c.copies \subseteq Standing /\ c.copies \subseteq c.from..c.to
       /\ \A c, d \in index.chunks : ~Overlap(c, d)

IndexInv == NumbersInv /\ PassInv /\ CoverInv

\* What the deletion p read, compared with the present state.
PurgeView(p) ==
    /\ p.redacted \subseteq Sequences /\ p.first \in p.redacted
    /\ \A n \in p.redacted : p.first <= n
    /\ 1 <= p.rebuild /\ p.rebuild <= p.first
    /\ p.sweep <= sweep.cursor
    /\ "advance" \notin raced => p.sweep = sweep.cursor
    /\ "append" \notin raced => p.rev = chat.rev
    /\ "index" \notin raced =>
          /\ p.cursor = index.cursor
          /\ \A c \in index.chunks :
                /\ c.id \in p.doomed <=> c.to >= p.rebuild
                /\ c.to >= p.first => c.from >= p.rebuild
          /\ p.rebuild = p.first
             \/ \E d \in index.chunks : d.from = p.rebuild /\ d.to >= p.first

PurgeInv == Deleting => PurgeView(purge)

DerivInv == DerivType /\ Apart /\ SweepInv /\ CapsuleInv /\ IndexInv /\ PurgeInv

----------------------------------------------------------------------------
(* The steps, seen from the conversation.                                  *)

\* memory.delete as the memories see it: it reads and writes in one step.
Redact(S) ==
    /\ "memory" \in awake /\ ~Deleting /\ S # {} /\ S \subseteq Sequences
    /\ PurgeWrites(PurgeReads(S))
    /\ UNCHANGED <<indexer, embedder, builder, sweeper, purge, raced>>

\* A memory command leaves the conversation alone, drops the capsule, redacts
\* turns or deletes the chat.
LEMMA MemorySteps ==
    ASSUME MemoryNext, "memory" \in awake
    PROVE  UNCHANGED derivVars \/ Derivatives \/ DeleteChat \/ \E S : Redact(S)
<1>1. ASSUME NEW target, NEW x, NEW withSources, Delete(target, x, withSources)
      PROVE  Derivatives \/ \E S : Redact(S)
  <2> DEFINE S == Purged(target, x, withSources).turns \cap Sequences
  <2>1. CASE S = {}
    BY <1>1, <2>1 DEF Delete
  <2>2. CASE S # {}
    <3>1. S \subseteq Sequences
      OBVIOUS
    <3>2. /\ ~Deleting /\ PurgeWrites(PurgeReads(S))
          /\ UNCHANGED <<indexer, embedder, builder, sweeper, purge, raced>>
      BY <1>1, <2>2 DEF Delete
    <3> HIDE DEF S
    <3> QED
      BY <2>2, <3>1, <3>2 DEF Redact
  <2> QED
    BY <2>1, <2>2
<1>2. CASE \E c \in Candidates, x \in Contents :
              \/ \E evidence \in SUBSET Standing : Propose(c, x, evidence)
              \/ \E t \in Ids \cup {0}, old \in Contents, op \in {"correction", "change"} :
                    Correct(c, x, t, old, op)
              \/ ConfirmCandidate(c, x)
  <2>1. ASSUME NEW c, NEW x, NEW evidence, Propose(c, x, evidence) PROVE UNCHANGED derivVars
    BY <2>1 DEF Propose
  <2>2. ASSUME NEW c, NEW x, NEW t, NEW old, NEW op, Correct(c, x, t, old, op)
        PROVE  UNCHANGED derivVars
    BY <2>2, Zenon DEF Correct
  <2>3. ASSUME NEW c, NEW x, ConfirmCandidate(c, x) PROVE UNCHANGED derivVars
    BY <2>3 DEF ConfirmCandidate
  <2> QED
    BY <1>2, <2>1, <2>2, <2>3
<1>3. CASE \E c \in Candidates :
              \/ \E d \in Readings(c) : Publish(c, d)
              \/ PublishWithoutEvidence(c) \/ PublishAwaits(c) \/ RejectCandidate(c)
              \/ \E keep \in BOOLEAN : AnswerConflict(c, keep)
  <2>1. ASSUME NEW c, NEW d, Publish(c, d) PROVE UNCHANGED derivVars
    BY <2>1, Zenon DEF Publish
  <2>2. ASSUME NEW c, PublishWithoutEvidence(c) \/ PublishAwaits(c) \/ RejectCandidate(c)
        PROVE  UNCHANGED derivVars
    BY <2>2 DEF PublishWithoutEvidence, PublishAwaits, RejectCandidate
  <2>3. ASSUME NEW c, NEW keep, AnswerConflict(c, keep) PROVE UNCHANGED derivVars
    BY <2>3 DEF AnswerConflict
  <2> QED
    BY <1>3, <2>1, <2>2, <2>3
<1>4. CASE \E i \in Ids :
              \/ \E x \in Contents : ConfirmMemory(i, x)
              \/ RejectMemory(i) \/ RetireRow(i) \/ Restore(i)
  BY <1>4 DEF ConfirmMemory, RejectMemory, RetireRow, Restore
<1>5. CASE \E i \in Ids, withSources \in BOOLEAN : DeleteRow(i, withSources)
  BY <1>1, <1>5 DEF DeleteRow
<1>6. CASE \E x \in Contents : RetireWording(x)
  BY <1>6 DEF RetireWording
<1>7. CASE \E x \in Contents, withSources \in BOOLEAN : DeleteWording(x, withSources)
  <2>1. PICK x \in Contents, withSources \in BOOLEAN : DeleteWording(x, withSources)
    BY <1>7
  <2>2. \E target : Delete(target, x, withSources)
    BY <2>1 DEF DeleteWording
  <2> QED
    BY <1>1, <2>2
<1>8. CASE DeleteChatOfMemories
  BY <1>8 DEF DeleteChatOfMemories
<1> QED
  BY <1>2, <1>3, <1>4, <1>5, <1>6, <1>7, <1>8 DEF MemoryNext

\* The disjuncts of Next.
LEMMA StepCases ==
    ASSUME Next
    PROVE  /\ awake' = awake
           /\ \/ UNCHANGED derivVars \/ Derivatives \/ DeleteChat
              \/ \E S : Redact(S)
              \/ AppendTurn \/ CloseOrOpenChat
              \/ \E S \in SUBSET Sequences : PurgeOpen(S)
              \/ PurgeClose \/ PurgeAborts
              \/ "memory" \notin awake /\ IndexBegin
              \/ "memory" \notin awake /\ IndexHold
              \/ IndexCommit \/ IndexFails \/ EmbedRead \/ EmbedWrite
              \/ BuildRead \/ BuildPublish
              \/ \E w \in Sweepers : SweepRead(w)
              \/ \E w \in Sweepers : SweepAdvance(w)
  BY MemorySteps DEF Next, ConversationNext, DeletionNext, MaintenanceNext

\* What a step does to the turns that stand.
LEMMA Standing_Append ==
    ASSUME DerivType, AppendTurn
    PROVE  /\ turns' \in Seq({"live", "purged", "erased"})
           /\ Len(turns') = Len(turns) + 1
           /\ Standing' = Standing \cup {Len(turns) + 1}
<1> DEFINE k == Len(turns)
<1>1. /\ k \in Nat /\ turns \in Seq({"live", "purged", "erased"})
      /\ turns' = Append(turns, "live")
  BY DEF DerivType, AppendTurn
<1>2. /\ turns' \in Seq({"live", "purged", "erased"}) /\ Len(turns') = k + 1
      /\ turns'[k + 1] = "live" /\ \A n \in 1..k : turns'[n] = turns[n]
  BY <1>1
<1>3. ASSUME NEW n PROVE n \in Standing' <=> n \in Standing \cup {k + 1}
  BY <1>1, <1>2 DEF Standing, Sequences
<1> QED
  BY <1>2, <1>3

LEMMA Standing_Delete ==
    ASSUME DerivType, DeleteChat
    PROVE  /\ turns' \in Seq({"live", "purged", "erased"})
           /\ Len(turns') = Len(turns)
           /\ Standing' = {}
<1>1. Len(turns) \in Nat /\ turns' \in [1..Len(turns) -> {"live", "purged", "erased"}]
  BY DEF DerivType, DeleteChat, Sequences
<1>2. turns' \in Seq({"live", "purged", "erased"}) /\ Len(turns') = Len(turns)
  BY <1>1, FunctionIsSeq
<1> QED
  BY <1>2 DEF DeleteChat, Standing, Sequences

LEMMA Standing_Purge ==
    ASSUME DerivType, NEW p, PurgeWrites(p)
    PROVE  /\ turns' \in Seq({"live", "purged", "erased"})
           /\ Len(turns') = Len(turns)
           /\ Standing' = Standing \ p.redacted
<1>1. turns' = [n \in 1..Len(turns) |-> IF n \in p.redacted THEN "purged" ELSE turns[n]]
  BY Zenon DEF PurgeWrites, Sequences
<1>2. Len(turns) \in Nat /\ \A n \in 1..Len(turns) : turns[n] \in {"live", "purged", "erased"}
  <2>1. turns \in Seq({"live", "purged", "erased"})
    BY DEF DerivType
  <2> QED
    BY <2>1
<1>3. turns' \in [1..Len(turns) -> {"live", "purged", "erased"}]
  BY <1>1, <1>2
<1>4. turns' \in Seq({"live", "purged", "erased"}) /\ Len(turns') = Len(turns)
  BY <1>2, <1>3, FunctionIsSeq
<1>5. ASSUME NEW n PROVE n \in Standing' <=> n \in Standing \ p.redacted
  BY <1>1, <1>4 DEF Standing, Sequences
<1> QED
  BY <1>4, <1>5

\* The written values of a deletion: each cursor goes back or stays.
LEMMA PurgeEffects ==
    ASSUME DerivType, NEW p \in Deletion, 1 <= p.first, 1 <= p.rebuild, PurgeWrites(p)
    PROVE  /\ chat' = [chat EXCEPT !.rev = p.rev + 1]
           /\ index' = [cursor |-> IF p.cursor <= p.rebuild - 1 THEN index.cursor
                                   ELSE p.rebuild - 1,
                        chunks |-> {c \in index.chunks : c.id \notin p.doomed},
                        passes |-> index.passes]
           /\ sweep'.cursor = IF p.sweep <= p.first - 1 THEN sweep.cursor ELSE p.first - 1
           /\ sweep' = [cursor |-> sweep'.cursor,
                        read |-> {n \in sweep.read : n <= sweep'.cursor}]
           /\ capsule' = NoCapsule
<1>1. /\ p.cursor \in Nat /\ p.rebuild - 1 \in Nat /\ p.sweep \in Nat /\ p.first - 1 \in Nat
  BY DEF Deletion
<1>2. /\ Min({p.cursor, p.rebuild - 1}) = IF p.cursor <= p.rebuild - 1 THEN p.cursor
                                          ELSE p.rebuild - 1
      /\ Min({p.sweep, p.first - 1}) = IF p.sweep <= p.first - 1 THEN p.sweep ELSE p.first - 1
  BY <1>1, MinOfTwo
<1>3. index \in [cursor : Nat, chunks : SUBSET Chunk, passes : Nat]
  BY DEF DerivType
<1>4. index' = [cursor |-> IF p.cursor <= p.rebuild - 1 THEN index.cursor ELSE p.rebuild - 1,
                chunks |-> {c \in index.chunks : c.id \notin p.doomed},
                passes |-> index.passes]
  <2>1. index' = [index EXCEPT !.cursor = Written(p.cursor, Min({p.cursor, p.rebuild - 1}), @),
                               !.chunks = {c \in @ : c.id \notin p.doomed}]
    BY DEF PurgeWrites
  <2>2. Written(p.cursor, Min({p.cursor, p.rebuild - 1}), index.cursor)
          = IF p.cursor <= p.rebuild - 1 THEN index.cursor ELSE p.rebuild - 1
    BY <1>1, <1>2 DEF Written
  <2> QED
    BY <1>3, <2>1, <2>2
<1>5. Written(p.sweep, Min({p.sweep, p.first - 1}), sweep.cursor)
        = IF p.sweep <= p.first - 1 THEN sweep.cursor ELSE p.first - 1
  BY <1>1, <1>2 DEF Written
<1> QED
  BY <1>4, <1>5 DEF PurgeWrites

\* What a deletion reads is typed.
LEMMA PurgeReadsType ==
    ASSUME DerivType, NEW S \in SUBSET Sequences, S # {}
    PROVE  /\ PurgeReads(S) \in Deletion
           /\ PurgeReads(S).redacted = S
           /\ PurgeReads(S).first \in S /\ \A n \in S : PurgeReads(S).first <= n
           /\ 1 <= PurgeReads(S).rebuild \/ \E c \in index.chunks : c.from = 0
           /\ PurgeReads(S).rebuild <= PurgeReads(S).first
           /\ \A c \in index.chunks : c.to >= PurgeReads(S).first => c.from >= PurgeReads(S).rebuild
           /\ PurgeReads(S).rebuild = PurgeReads(S).first
              \/ \E d \in index.chunks : /\ d.from = PurgeReads(S).rebuild
                                         /\ d.to >= PurgeReads(S).first
           /\ PurgeReads(S).doomed = {c.id : c \in {d \in index.chunks :
                                                      d.to >= PurgeReads(S).rebuild}}
<1> DEFINE first == Min(S)
           hit   == {c \in index.chunks : c.to >= first}
           froms == {first} \cup {c.from : c \in hit}
           from  == Min(froms)
<1>1. S \in SUBSET Nat /\ \A n \in S : n >= 1
  <2>1. turns \in Seq({"live", "purged", "erased"})
    BY DEF DerivType
  <2> QED
    BY <2>1 DEF Sequences
<1>2. first \in S /\ first \in Nat /\ 1 <= first /\ \A n \in S : first <= n
  BY <1>1, MinProperty
<1> HIDE DEF first
<1>3. \A c \in index.chunks : c \in Chunk
  BY DEF DerivType
<1>4. froms \in SUBSET Nat /\ froms # {}
  BY <1>2, <1>3 DEF Chunk
<1>5. from \in froms /\ \A y \in froms : from <= y
  BY <1>4, MinProperty
<1>6. from \in Nat /\ from <= first /\ (from = first \/ \E c \in hit : c.from = from)
  BY <1>2, <1>4, <1>5
<1>7. \A c \in index.chunks : c.to >= first => c.from >= from
  BY <1>3, <1>5 DEF Chunk
<1> HIDE DEF from, froms
<1>8. PurgeReads(S) =
        [at |-> "open", redacted |-> S, first |-> first, rebuild |-> from,
         cursor |-> index.cursor, sweep |-> sweep.cursor, rev |-> chat.rev,
         doomed |-> {c.id : c \in {d \in index.chunks : d.to >= from}},
         count |-> purge.count + 1]
  BY DEF PurgeReads, first, from, froms
<1>9. {c.id : c \in {d \in index.chunks : d.to >= from}} \in SUBSET Nat
  BY <1>3 DEF Chunk
<1>10. index.cursor \in Nat /\ sweep.cursor \in Nat /\ chat.rev \in Nat /\ purge.count \in Nat
  BY DEF DerivType, Deletion
<1>11. PurgeReads(S) \in Deletion
  BY <1>1, <1>2, <1>6, <1>8, <1>9, <1>10 DEF Deletion
<1> QED
  BY <1>2, <1>3, <1>6, <1>7, <1>8, <1>11 DEF Chunk

\* A deletion begins where a turn is.
LEMMA PurgeReadsFirst ==
    ASSUME DerivType, IndexInv, NEW S \in SUBSET Sequences, S # {}
    PROVE  1 <= PurgeReads(S).first /\ 1 <= PurgeReads(S).rebuild
<1>1. turns \in Seq({"live", "purged", "erased"})
  BY DEF DerivType
<1>2. \A n \in S : n \in Nat /\ 1 <= n
  BY <1>1 DEF Sequences
<1>3. \A c \in index.chunks : c.from # 0
  BY DEF IndexInv, NumbersInv
<1>4. /\ PurgeReads(S).first \in S
      /\ 1 <= PurgeReads(S).rebuild \/ \E c \in index.chunks : c.from = 0
  BY PurgeReadsType
<1> QED
  BY <1>2, <1>3, <1>4

\* The ranges of _chunk_rows are the turns lo..hi, cut into consecutive pieces.
Pieces(cuts, lo, hi) ==
    {<<a, Min({b \in cuts : b >= a})>> : a \in {lo} \cup {b + 1 : b \in cuts \ {hi}}}

LEMMA CutsCover ==
    ASSUME NEW lo \in Nat, NEW hi \in Nat, lo <= hi,
           NEW cuts, hi \in cuts, \A b \in cuts : b \in Nat /\ lo <= b /\ b <= hi,
           NEW ranges, ranges = Pieces(cuts, lo, hi)
    PROVE  /\ \A r \in ranges : /\ r \in Nat \X Nat
                                /\ lo <= r[1] /\ r[1] <= r[2] /\ r[2] <= hi
           /\ \A r, q \in ranges : (r[1] = q[1] => r[2] = q[2]) /\ (r[1] < q[1] => r[2] < q[1])
           /\ \A n \in lo..hi : \E r \in ranges : r[1] <= n /\ n <= r[2]
<1> DEFINE starts == {lo} \cup {b + 1 : b \in cuts \ {hi}}
           rest(a) == {b \in cuts : b >= a}
           end(a) == Min(rest(a))
<1>2. ranges = {<<a, end(a)>> : a \in starts}
  BY DEF Pieces
<1>3. \A b \in cuts : b \in lo..hi
  OBVIOUS
<1>4. \A a \in starts : a \in Nat /\ lo <= a /\ a <= hi
  <2> SUFFICES ASSUME NEW a \in starts PROVE a \in Nat /\ lo <= a /\ a <= hi
    OBVIOUS
  <2>1. CASE a = lo
    BY <2>1
  <2>2. ASSUME NEW b \in cuts \ {hi}, a = b + 1 PROVE a \in Nat /\ lo <= a /\ a <= hi
    BY <2>2
  <2> QED
    BY <2>1, <2>2
<1>5. ASSUME NEW a \in starts
      PROVE  /\ end(a) \in cuts /\ end(a) \in Nat /\ a <= end(a) /\ end(a) <= hi
             /\ \A b \in cuts : b >= a => end(a) <= b
  <2>1. rest(a) \in SUBSET Nat
    OBVIOUS
  <2>3. hi \in rest(a)
    BY <1>4
  <2>2. end(a) \in rest(a) /\ \A y \in rest(a) : end(a) <= y
    BY <2>1, <2>3, MinProperty
  <2> QED
    BY <1>4, <2>1, <2>2
<1> HIDE DEF end
<1>6. ASSUME NEW a \in starts, NEW z \in starts, a < z
      PROVE  end(a) < z
  <2>1. PICK b \in cuts \ {hi} : z = b + 1
    BY <1>4, <1>6
  <2>2. b \in Nat /\ a \in Nat
    BY <1>4
  <2>3. b >= a
    BY <1>6, <2>1, <2>2
  <2> QED
    BY <1>5, <2>1, <2>2, <2>3
<1>7. ASSUME NEW n \in lo..hi
      PROVE  \E a \in starts : a <= n /\ n <= end(a)
  <2> DEFINE before == {a \in starts : a <= n}
  <2>1. before \in SUBSET (0..hi) /\ before # {}
    <3>1. before \in SUBSET (0..hi)
      BY <1>4
    <3>2. lo \in before
      OBVIOUS
    <3> QED
      BY <3>1, <3>2
  <2>2. Max(before) \in before /\ \A y \in before : y <= Max(before)
    BY <2>1, MaxProperty
  <2> DEFINE a == Max(before)
  <2> HIDE DEF a
  <2>3. a \in starts /\ a <= n /\ \A y \in starts : y <= n => y <= a
    BY <2>2 DEF a
  <2>4. ASSUME end(a) < n PROVE FALSE
    <3>1. end(a) \in cuts \ {hi} /\ end(a) + 1 \in starts /\ end(a) \in Nat
      BY <1>5, <2>3, <2>4
    <3>2. end(a) + 1 <= n
      BY <2>4, <3>1
    <3> QED
      BY <1>4, <1>5, <2>3, <3>1, <3>2
  <2>5. end(a) \in Nat
    BY <1>5, <2>3
  <2> QED
    BY <2>3, <2>4, <2>5
<1> HIDE DEF starts
<1>8. \A r \in ranges : \E a \in starts : r = <<a, end(a)>>
  BY <1>2
<1>9. \A a \in starts : <<a, end(a)>> \in ranges
  BY <1>2
<1>10. \A r \in ranges : r \in Nat \X Nat /\ lo <= r[1] /\ r[1] <= r[2] /\ r[2] <= hi
  <2> SUFFICES ASSUME NEW r \in ranges
               PROVE  r \in Nat \X Nat /\ lo <= r[1] /\ r[1] <= r[2] /\ r[2] <= hi
    OBVIOUS
  <2>1. PICK a \in starts : r = <<a, end(a)>>
    BY <1>8
  <2>2. a \in Nat /\ lo <= a /\ end(a) \in Nat /\ a <= end(a) /\ end(a) <= hi
    BY <1>4, <1>5
  <2> QED
    BY <2>1, <2>2
<1>11. \A r, q \in ranges : (r[1] = q[1] => r[2] = q[2]) /\ (r[1] < q[1] => r[2] < q[1])
  <2> SUFFICES ASSUME NEW r \in ranges, NEW q \in ranges
               PROVE  (r[1] = q[1] => r[2] = q[2]) /\ (r[1] < q[1] => r[2] < q[1])
    OBVIOUS
  <2>1. PICK a \in starts : r = <<a, end(a)>>
    BY <1>8
  <2>2. PICK z \in starts : q = <<z, end(z)>>
    BY <1>8
  <2> QED
    BY <1>6, <2>1, <2>2
<1>12. \A n \in lo..hi : \E r \in ranges : r[1] <= n /\ n <= r[2]
  <2> SUFFICES ASSUME NEW n \in lo..hi PROVE \E r \in ranges : r[1] <= n /\ n <= r[2]
    OBVIOUS
  <2>1. PICK a \in starts : a <= n /\ n <= end(a)
    BY <1>7
  <2>2. <<a, end(a)>> \in ranges
    BY <1>9
  <2> QED
    BY <2>1, <2>2
<1> QED
  BY <1>10, <1>11, <1>12

LEMMA ChunkingsCut ==
    ASSUME NEW lo \in Nat, NEW hi \in Nat, lo <= hi, NEW ranges \in Chunkings(lo, hi)
    PROVE  /\ \A r \in ranges : /\ r \in Nat \X Nat
                                /\ lo <= r[1] /\ r[1] <= r[2] /\ r[2] <= hi
           /\ \A r, q \in ranges : (r[1] = q[1] => r[2] = q[2]) /\ (r[1] < q[1] => r[2] < q[1])
           /\ \A n \in lo..hi : \E r \in ranges : r[1] <= n /\ n <= r[2]
<1>1. PICK cuts \in {{hi} \cup c : c \in SUBSET (lo..(hi - 1))} :
        ranges = Pieces(cuts, lo, hi)
  BY Zenon DEF Chunkings, Pieces
<1>2. PICK c \in SUBSET (lo..(hi - 1)) : cuts = {hi} \cup c
  BY Zenon
<1>3. hi \in cuts
  BY <1>2, Zenon
<1>4. \A b \in cuts : b \in Nat /\ lo <= b /\ b <= hi
  BY <1>2
<1> QED
  BY <1>1, <1>3, <1>4, CutsCover

----------------------------------------------------------------------------
(* The invariant is preserved, part by part.                               *)

\* What holds of a deletion's record whenever it is written.
LEMMA PurgeKnown ==
    ASSUME DerivType, PurgeInv, PurgeClose
    PROVE  /\ purge \in Deletion /\ 1 <= purge.first /\ 1 <= purge.rebuild
           /\ PurgeView(purge) /\ PurgeWrites(purge) /\ indexer.at # "held"
<1>1. purge \in Deletion /\ PurgeView(purge) /\ PurgeWrites(purge) /\ indexer.at # "held"
  BY DEF DerivType, PurgeInv, PurgeClose, RowFree
<1>2. turns \in Seq({"live", "purged", "erased"})
  BY DEF DerivType
<1>3. purge.first \in Sequences /\ 1 <= purge.rebuild
  BY <1>1 DEF PurgeView
<1> QED
  BY <1>1, <1>2, <1>3 DEF Sequences

LEMMA PurgeTypes ==
    ASSUME DerivType, NEW p \in Deletion, 1 <= p.first, 1 <= p.rebuild, PurgeWrites(p),
           UNCHANGED <<indexer, embedder, builder, sweeper>>, purge' \in Deletion
    PROVE  DerivType'
<1>0. /\ p.rev + 1 \in Nat /\ p.rebuild - 1 \in Nat /\ p.first - 1 \in Nat
  BY DEF Deletion
<1>1. turns' \in Seq({"live", "purged", "erased"}) /\ Len(turns') <= MaxTurns
  BY Standing_Purge DEF DerivType
<1>2. chat' \in [closed : BOOLEAN, deleted : BOOLEAN, rev : Nat]
  <2>1. chat \in [closed : BOOLEAN, deleted : BOOLEAN, rev : Nat]
    BY DEF DerivType
  <2> QED
    BY <1>0, <2>1, PurgeEffects
<1>3. index' \in [cursor : Nat, chunks : SUBSET Chunk, passes : Nat]
  <2>1. index \in [cursor : Nat, chunks : SUBSET Chunk, passes : Nat]
    BY DEF DerivType
  <2> QED
    BY <1>0, <2>1, PurgeEffects
<1>4. sweep' \in [cursor : Nat, read : SUBSET Nat]
  <2>1. sweep \in [cursor : Nat, read : SUBSET Nat]
    BY DEF DerivType
  <2>2. sweep'.cursor \in Nat
    BY <1>0, <2>1, PurgeEffects
  <2> QED
    BY <2>1, <2>2, PurgeEffects
<1>5. capsule' \in [n : Nat, end : Nat, src : Nat, copies : SUBSET Nat]
  BY PurgeEffects DEF NoCapsule
<1> QED
  BY <1>1, <1>2, <1>3, <1>4, <1>5 DEF DerivType

\* Types are kept.
LEMMA TypeStep ==
    ASSUME DerivInv, Next
    PROVE  DerivType'
<1> USE DEF DerivInv
<1>0. /\ Len(turns) \in Nat /\ MaxTurns \in Nat /\ chat.rev \in Nat
      /\ turns \in Seq({"live", "purged", "erased"})
  <2>1. turns \in Seq({"live", "purged", "erased"}) /\ chat.rev \in Nat
    BY DEF DerivType
  <2> QED
    BY <2>1, DerivativesAssumption
<1>s. Standing \in SUBSET Nat
  BY <1>0 DEF Standing, Sequences
<1>1. CASE UNCHANGED derivVars
  BY <1>1 DEF derivVars, DerivType
<1>2. CASE Derivatives
  BY <1>2 DEF Derivatives, DerivType, NoCapsule
<1>3. CASE DeleteChat
  <2>1. turns' \in Seq({"live", "purged", "erased"}) /\ Len(turns') <= MaxTurns
    BY <1>3, Standing_Delete DEF DerivType
  <2>2. chat' \in [closed : BOOLEAN, deleted : BOOLEAN, rev : Nat]
    BY <1>0, <1>3 DEF DeleteChat
  <2>3. index' \in [cursor : Nat, chunks : SUBSET Chunk, passes : Nat]
    <3>1. index \in [cursor : Nat, chunks : SUBSET Chunk, passes : Nat]
      BY DEF DerivType
    <3> QED
      BY <1>3, <3>1 DEF DeleteChat
  <2>4. /\ sweep' \in [cursor : Nat, read : SUBSET Nat]
        /\ capsule' \in [n : Nat, end : Nat, src : Nat, copies : SUBSET Nat]
    BY <1>3 DEF DeleteChat, NoCapsule
  <2> QED
    BY <1>3, <2>1, <2>2, <2>3, <2>4 DEF DeleteChat, DerivType
<1>4. ASSUME NEW S, Redact(S) PROVE DerivType'
  <2>1. S \in SUBSET Sequences /\ S # {}
    BY <1>4 DEF Redact
  <2>2. PurgeReads(S) \in Deletion
    BY <2>1, PurgeReadsType
  <2>3. 1 <= PurgeReads(S).first /\ 1 <= PurgeReads(S).rebuild
    BY <2>1, PurgeReadsFirst
  <2>4. /\ PurgeWrites(PurgeReads(S))
        /\ UNCHANGED <<indexer, embedder, builder, sweeper>> /\ purge' \in Deletion
    BY <1>4 DEF Redact, DerivType
  <2> QED
    BY <2>2, <2>3, <2>4, PurgeTypes
<1>5. CASE AppendTurn
  <2>1. turns' \in Seq({"live", "purged", "erased"}) /\ Len(turns') <= MaxTurns
    BY <1>0, <1>5, Standing_Append DEF AppendTurn
  <2>2. chat' \in [closed : BOOLEAN, deleted : BOOLEAN, rev : Nat]
    <3>1. chat \in [closed : BOOLEAN, deleted : BOOLEAN, rev : Nat]
      BY DEF DerivType
    <3> QED
      BY <1>5, <3>1 DEF AppendTurn
  <2> QED
    BY <1>5, <2>1, <2>2 DEF AppendTurn, DerivType
<1>6. CASE CloseOrOpenChat
  BY <1>6 DEF CloseOrOpenChat, DerivType
<1>7. ASSUME NEW S \in SUBSET Sequences, PurgeOpen(S) PROVE DerivType'
  <2>1. purge' \in Deletion
    BY <1>7, PurgeReadsType DEF PurgeOpen
  <2> QED
    BY <1>7, <2>1 DEF PurgeOpen, DerivType
<1>8. CASE PurgeClose
  <2>1. /\ UNCHANGED <<indexer, embedder, builder, sweeper>> /\ purge' \in Deletion
    BY <1>8 DEF PurgeClose, DerivType, Deletion, NoPurge
  <2> QED
    BY <1>8, <2>1, PurgeKnown, PurgeTypes
<1>9. CASE PurgeAborts
  <2>1. purge' \in Deletion
    BY <1>9 DEF PurgeAborts, DerivType, Deletion, NoPurge
  <2> QED
    BY <1>9, <2>1 DEF PurgeAborts, DerivType
<1>10. CASE IndexBegin
  <2>1. indexer' \in [at : {"idle", "begun", "held"}, rev : Nat, upto : Nat, new : SUBSET Chunk]
    <3>1. ActiveCutoff \in Nat
      BY <1>0, <1>10 DEF IndexBegin, ActiveCutoff
    <3> QED
      BY <1>0, <1>10, <3>1 DEF IndexBegin, NotIndexing
  <2> QED
    BY <1>10, <2>1 DEF IndexBegin, DerivType
<1>11. CASE IndexHold
  <2>1. CASE indexer.upto <= index.cursor
    <3>1. /\ indexer' = NotIndexing
          /\ UNCHANGED <<turns, chat, index, embedder, capsule, builder, sweep, sweeper, purge,
                         raced>>
      BY <1>11, <2>1, Zenon DEF IndexHold
    <3>2. NotIndexing \in [at : {"idle", "begun", "held"}, rev : Nat, upto : Nat,
                           new : SUBSET Chunk]
      BY DEF NotIndexing
    <3> QED
      BY <3>1, <3>2 DEF DerivType
  <2>2. CASE ~(indexer.upto <= index.cursor)
    <3>1. PICK ranges \in Chunkings(index.cursor + 1, indexer.upto) :
            indexer' = [indexer EXCEPT !.at = "held", !.new = NewChunks(ranges)]
      BY <1>11, <2>2 DEF IndexHold
    <3>2. /\ index.cursor + 1 \in Nat /\ indexer.upto \in Nat /\ indexer.rev \in Nat
          /\ index.cursor + 1 <= indexer.upto /\ index.passes \in Nat
      BY <2>2 DEF DerivType
    <3>3. \A r \in ranges : r[1] \in Nat /\ r[2] \in Nat
      BY <3>2, ChunkingsCut
    <3>4. \A r \in ranges : (index.passes * MaxTurns) + r[1] \in Nat
      BY <1>0, <3>2, <3>3
    <3>5. NewChunks(ranges) \in SUBSET Chunk
      <4> SUFFICES ASSUME NEW c \in NewChunks(ranges) PROVE c \in Chunk
        OBVIOUS
      <4>1. PICK r \in ranges :
              c = [id |-> (index.passes * MaxTurns) + r[1], from |-> r[1], to |-> r[2],
                   rev |-> indexer.rev, copies |-> (r[1]..r[2]) \cap Standing, vec |-> FALSE]
        BY DEF NewChunks
      <4>2. (r[1]..r[2]) \cap Standing \in SUBSET Nat
        BY <1>s
      <4>3. /\ (index.passes * MaxTurns) + r[1] \in Nat /\ r[1] \in Nat /\ r[2] \in Nat
            /\ indexer.rev \in Nat
        BY <3>2, <3>3, <3>4
      <4> QED
        BY <4>1, <4>2, <4>3, Zenon DEF Chunk
    <3> HIDE DEF DerivInv
    <3>6. indexer' \in [at : {"idle", "begun", "held"}, rev : Nat, upto : Nat,
                        new : SUBSET Chunk]
      BY <3>1, <3>5 DEF DerivType, DerivInv
    <3> QED
      BY <1>11, <3>6 DEF IndexHold, DerivType, DerivInv
  <2> QED
    BY <2>1, <2>2
<1>12. CASE IndexCommit
  BY <1>12 DEF IndexCommit, DerivType, NotIndexing
<1>13. CASE IndexFails
  BY <1>13 DEF IndexFails, DerivType, NotIndexing
<1>14. CASE EmbedRead
  <2>1. embedder' \in Nat
    BY <1>14 DEF EmbedRead, DerivType, Chunk
  <2> QED
    BY <1>14, <2>1 DEF EmbedRead, DerivType
<1>15. CASE EmbedWrite
  <2>1. index' \in [cursor : Nat, chunks : SUBSET Chunk, passes : Nat]
    <3>1. index \in [cursor : Nat, chunks : SUBSET Chunk, passes : Nat]
      BY DEF DerivType
    <3>2. \A c \in index.chunks : [c EXCEPT !.vec = TRUE] \in Chunk /\ c \in Chunk
      BY <3>1 DEF Chunk
    <3>3. {IF c.id = embedder THEN [c EXCEPT !.vec = TRUE] ELSE c : c \in index.chunks}
             \in SUBSET Chunk
      BY <3>2
    <3> QED
      BY <1>15, <3>1, <3>3 DEF EmbedWrite
  <2> QED
    BY <1>15, <2>1 DEF EmbedWrite, DerivType
<1>16. CASE BuildRead
  <2>1. builder' \in [at : {"idle", "asked"}, rev : Nat, n : Nat, end : Nat, copies : SUBSET Nat]
    <3>1. capsule \in [n : Nat, end : Nat, src : Nat, copies : SUBSET Nat]
      BY DEF DerivType
    <3> QED
      BY <1>0, <1>s, <1>16, <3>1 DEF BuildRead
  <2> QED
    BY <1>16, <2>1 DEF BuildRead, DerivType
<1>17. CASE BuildPublish
  BY <1>17 DEF BuildPublish, DerivType, NotBuilding
<1>18. ASSUME NEW w \in Sweepers, SweepRead(w) PROVE DerivType'
  <2>1. sweeper \in [Sweepers -> Window] /\ sweep.cursor \in Nat
    BY DEF DerivType
  <2>2. PICK window \in SUBSET Standing :
          sweeper' = [sweeper EXCEPT ![w] =
                        [at |-> "asked", cursor |-> sweep.cursor, window |-> window]]
    BY <1>18 DEF SweepRead
  <2>3. sweeper' \in [Sweepers -> Window]
    BY <1>s, <2>1, <2>2 DEF Window
  <2> QED
    BY <1>18, <2>3 DEF SweepRead, DerivType
<1>19. ASSUME NEW w \in Sweepers, SweepAdvance(w) PROVE DerivType'
  <2>1. sweeper \in [Sweepers -> Window] /\ sweep \in [cursor : Nat, read : SUBSET Nat]
    BY DEF DerivType
  <2>2. sweeper' \in [Sweepers -> Window]
    BY <1>19, <2>1 DEF SweepAdvance, Window, NoWindow
  <2>3. sweep' \in [cursor : Nat, read : SUBSET Nat]
    <3>1. CASE Refused(sweeper[w])
      BY <1>19, <2>1, <3>1 DEF SweepAdvance
    <3>2. CASE ~Refused(sweeper[w])
      <4>1. sweeper[w].window \in SUBSET (0..Len(turns)) /\ sweeper[w].window # {}
        BY <1>0, <1>19, <2>1 DEF SweepAdvance, SweepInv, Window
      <4>2. Max(sweeper[w].window) \in sweeper[w].window
        BY <1>0, <4>1, MaxProperty
      <4>3. sweeper[w].window \in SUBSET Nat
        BY <4>1
      <4> QED
        BY <1>19, <2>1, <3>2, <4>2, <4>3 DEF SweepAdvance
    <3> QED
      BY <3>1, <3>2
  <2> QED
    BY <1>19, <2>2, <2>3 DEF SweepAdvance, DerivType
<1> QED
  BY <1>1, <1>2, <1>3, <1>4, <1>5, <1>6, <1>7, <1>8, <1>9, <1>10, <1>11, <1>12, <1>13,
     <1>14, <1>15, <1>16, <1>17, <1>18, <1>19, StepCases

\* What a deletion reads agrees with the state it reads.
LEMMA ViewOfReads ==
    ASSUME DerivInv, NEW S \in SUBSET Sequences, S # {}
    PROVE  PurgeView(PurgeReads(S))
<1> DEFINE p == PurgeReads(S)
<1>1. DerivType /\ IndexInv
  BY DEF DerivInv
<1>2. /\ p \in Deletion /\ p.redacted = S /\ p.first \in S /\ \A n \in S : p.first <= n
      /\ p.rebuild <= p.first
      /\ \A c \in index.chunks : c.to >= p.first => c.from >= p.rebuild
      /\ p.rebuild = p.first \/ \E d \in index.chunks : d.from = p.rebuild /\ d.to >= p.first
      /\ p.doomed = {c.id : c \in {d \in index.chunks : d.to >= p.rebuild}}
  BY <1>1, PurgeReadsType
<1>3. 1 <= p.rebuild
  BY <1>1, PurgeReadsFirst
<1>4. p.sweep = sweep.cursor /\ p.rev = chat.rev /\ p.cursor = index.cursor
  BY DEF PurgeReads
<1>5. \A c \in index.chunks : c.id \in p.doomed <=> c.to >= p.rebuild
  BY <1>1, <1>2 DEF IndexInv, NumbersInv
<1>6. sweep.cursor \in Nat
  BY <1>1 DEF DerivType
<1> HIDE DEF p
<1>7. PurgeView(p)
  BY <1>2, <1>3, <1>4, <1>5, <1>6 DEF PurgeView
<1> QED
  BY <1>7 DEF p

\* A deletion leaves no trace of what it removes in the sweep, the capsule and
\* the index, unless something raced with it.
LEMMA PurgeKeeps ==
    ASSUME DerivInv, NEW p \in Deletion, PurgeView(p), PurgeWrites(p), indexer.at # "held",
           UNCHANGED <<indexer, builder, sweeper, raced>>
    PROVE  SweepInv' /\ CapsuleInv' /\ IndexInv'
<1>1. DerivType /\ SweepInv /\ CapsuleInv /\ IndexInv
  BY DEF DerivInv
<1>2. turns \in Seq({"live", "purged", "erased"}) /\ Len(turns) \in Nat
  <2>1. turns \in Seq({"live", "purged", "erased"})
    BY <1>1 DEF DerivType
  <2> QED
    BY <2>1
<1>3. /\ p.first \in Nat /\ 1 <= p.first /\ p.first <= Len(turns) /\ p.rebuild \in Nat
      /\ 1 <= p.rebuild /\ p.rebuild <= p.first /\ p.sweep \in Nat /\ p.cursor \in Nat
      /\ p.rev \in Nat
  BY <1>2 DEF PurgeView, Deletion, Sequences
<1>4. Len(turns') = Len(turns) /\ Standing' = Standing \ p.redacted
  BY <1>1, Standing_Purge
<1>5. \A n \in p.redacted : p.first <= n
  BY DEF PurgeView
<1>6. SweepInv'
  <2>1. sweep \in [cursor : Nat, read : SUBSET Nat] /\ sweeper \in [Sweepers -> Window]
    BY <1>1 DEF DerivType
  <2>2. /\ sweep'.cursor = IF p.sweep <= p.first - 1 THEN sweep.cursor ELSE p.first - 1
        /\ sweep'.read = {n \in sweep.read : n <= sweep'.cursor}
    BY <1>1, <1>3, PurgeEffects
  <2>3. p.sweep <= sweep.cursor /\ ("advance" \notin raced => p.sweep = sweep.cursor)
    BY DEF PurgeView
  <2>4. sweep'.cursor \in Nat /\ sweep'.cursor <= sweep.cursor
    BY <1>3, <2>1, <2>2, <2>3
  <2>5. sweep'.cursor <= Len(turns')
    BY <1>1, <1>2, <1>4, <2>1, <2>4 DEF SweepInv
  <2>6. ASSUME "advance" \notin raced PROVE sweep'.read \subseteq Standing'
    <3>1. sweep'.cursor < p.first
      BY <1>3, <2>1, <2>2, <2>3, <2>6
    <3>2. sweep.read \subseteq Standing
      BY <1>1, <2>6 DEF SweepInv
    <3> QED
      BY <1>3, <1>4, <1>5, <2>1, <2>2, <2>4, <3>1, <3>2
  <2>7. \A n \in Standing' : n <= sweep'.cursor => n \in sweep'.read
    <3>1. \A n \in Standing : n \in Nat /\ (n <= sweep.cursor => n \in sweep.read)
      BY <1>1, <1>2 DEF SweepInv, Standing, Sequences
    <3> QED
      BY <1>4, <2>1, <2>2, <2>4, <3>1
  <2> QED
    BY <1>1, <1>4, <2>2, <2>5, <2>6, <2>7 DEF SweepInv
<1>7. CapsuleInv'
  <2>1. chat'.rev = p.rev + 1 /\ capsule'.copies = {}
    <3>1. chat \in [closed : BOOLEAN, deleted : BOOLEAN, rev : Nat]
      BY <1>1 DEF DerivType
    <3> QED
      BY <1>1, <1>3, <3>1, PurgeEffects DEF NoCapsule
  <2>2. "append" \notin raced => p.rev = chat.rev
    BY DEF PurgeView
  <2>3. builder.rev \in Nat
    BY <1>1 DEF DerivType
  <2> QED
    BY <1>1, <1>3, <2>1, <2>2, <2>3 DEF CapsuleInv
<1>8. IndexInv'
  <2>1. index \in [cursor : Nat, chunks : SUBSET Chunk, passes : Nat]
    BY <1>1 DEF DerivType
  <2>2. /\ index'.cursor = IF p.cursor <= p.rebuild - 1 THEN index.cursor ELSE p.rebuild - 1
        /\ index'.chunks = {c \in index.chunks : c.id \notin p.doomed}
        /\ index'.passes = index.passes
    BY <1>1, <1>3, PurgeEffects
  <2>3. ASSUME "index" \notin raced
        PROVE  /\ index'.cursor <= Len(turns')
               /\ \A n \in 1..index'.cursor : \E c \in index'.chunks : c.from <= n /\ n <= c.to
               /\ \A c \in index'.chunks :
                     /\ c.from <= c.to /\ c.to <= index'.cursor
                     /\ c.copies \subseteq Standing' /\ c.copies \subseteq c.from..c.to
               /\ \A c, d \in index'.chunks : ~Overlap(c, d)
    <3>1. /\ p.cursor = index.cursor
          /\ \A c \in index.chunks :
                /\ c.id \in p.doomed <=> c.to >= p.rebuild
                /\ c.to >= p.first => c.from >= p.rebuild
          /\ p.rebuild = p.first \/ \E d \in index.chunks : d.from = p.rebuild /\ d.to >= p.first
      BY <2>3 DEF PurgeView
    <3>2. /\ index.cursor <= Len(turns)
          /\ \A n \in 1..index.cursor : \E c \in index.chunks : c.from <= n /\ n <= c.to
          /\ \A c \in index.chunks :
                /\ c.from <= c.to /\ c.to <= index.cursor
                /\ c.copies \subseteq Standing /\ c.copies \subseteq c.from..c.to
          /\ \A c, d \in index.chunks : ~Overlap(c, d)
      BY <1>1, <2>3 DEF IndexInv, CoverInv
    <3>3. \A c \in index.chunks : c.from \in Nat /\ c.to \in Nat /\ c.copies \in SUBSET Nat
      BY <2>1 DEF Chunk
    <3>4. index'.chunks = {c \in index.chunks : c.to < p.rebuild}
      BY <1>3, <2>2, <3>1, <3>3
    <3>5. /\ index'.cursor \in Nat /\ index'.cursor <= index.cursor
          /\ index'.cursor = index.cursor \/ index'.cursor = p.rebuild - 1
          /\ index'.cursor < p.rebuild
      BY <1>3, <2>1, <2>2, <3>1
    <3>6. index'.cursor <= Len(turns')
      BY <1>2, <1>4, <2>1, <3>2, <3>5
    <3>7. ASSUME NEW c \in index'.chunks
          PROVE  /\ c.from <= c.to /\ c.to <= index'.cursor
                 /\ c.copies \subseteq Standing' /\ c.copies \subseteq c.from..c.to
      <4>1. c \in index.chunks /\ c.to < p.rebuild
        BY <3>4
      <4>2. c.to <= index'.cursor
        BY <1>3, <2>1, <3>2, <3>3, <3>5, <4>1
      <4>3. \A n \in c.copies : n \in Standing /\ n \in Nat /\ n <= c.to
        BY <3>2, <3>3, <4>1
      <4>4. c.copies \subseteq Standing'
        BY <1>3, <1>4, <1>5, <3>3, <4>1, <4>3
      <4> QED
        BY <3>2, <4>1, <4>2, <4>4
    <3>8. ASSUME NEW n \in 1..index'.cursor
          PROVE  \E c \in index'.chunks : c.from <= n /\ n <= c.to
      <4>1. n \in 1..index.cursor /\ n \in Nat /\ n < p.rebuild
        BY <1>3, <2>1, <3>5
      <4>2. PICK c \in index.chunks : c.from <= n /\ n <= c.to
        BY <3>2, <4>1
      <4>3. ASSUME c.to >= p.rebuild PROVE FALSE
        <5>1. c.to < p.first
          BY <1>3, <3>1, <3>3, <4>1, <4>2
        <5>2. PICK d \in index.chunks : d.from = p.rebuild /\ d.to >= p.first
          BY <1>3, <3>1, <3>3, <4>3, <5>1
        <5>3. c.from <= d.to /\ d.from <= c.to
          BY <1>3, <3>3, <4>1, <4>2, <4>3, <5>1, <5>2
        <5>4. c.id = d.id
          BY <3>2, <5>3 DEF Overlap
        <5>5. c.to = d.to
          BY <1>1, <5>4 DEF IndexInv, NumbersInv
        <5> QED
          BY <1>3, <3>3, <5>1, <5>2, <5>5
      <4>4. c \in index'.chunks
        BY <1>3, <3>3, <3>4, <4>3
      <4> QED
        BY <4>2, <4>4
    <3>9. \A c, d \in index'.chunks : ~Overlap(c, d)
      BY <3>2, <3>4
    <3> QED
      BY <3>6, <3>7, <3>8, <3>9
  <2>4. /\ \A c \in index'.chunks : 1 <= c.from /\ c.id <= index'.passes * MaxTurns
        /\ \A c, d \in index'.chunks : c.id = d.id => c.from = d.from /\ c.to = d.to
    BY <1>1, <2>2 DEF IndexInv, NumbersInv
  <2>5. indexer.at # "idle" => indexer.upto <= Len(turns')
    BY <1>1, <1>4 DEF IndexInv, PassInv
  <2> HIDE DEF PurgeView, PurgeWrites
  <2> QED
    <3>1. NumbersInv' /\ PassInv'
      BY <2>4, <2>5 DEF NumbersInv, PassInv
    <3>2. CoverInv'
      BY <2>3, Zenon DEF CoverInv, Overlap
    <3> QED
      BY <3>1, <3>2 DEF IndexInv
<1> QED
  BY <1>6, <1>7, <1>8

\* A deletion in one step: the owner's command on memories, or the commit of one
\* that was open.
LEMMA PurgeSteps ==
    ASSUME DerivInv, NEW S, Redact(S) \/ PurgeClose
    PROVE  SweepInv' /\ CapsuleInv' /\ IndexInv' /\ PurgeInv'
<1>1. CASE Redact(S)
  <2>1. S \in SUBSET Sequences /\ S # {} /\ PurgeWrites(PurgeReads(S)) /\ ~Deleting'
        /\ UNCHANGED <<indexer, builder, sweeper, raced>> /\ indexer.at # "held"
    BY <1>1 DEF Redact, DerivInv, Apart, Deleting
  <2>2. PurgeReads(S) \in Deletion /\ PurgeView(PurgeReads(S))
    BY <2>1, PurgeReadsType, ViewOfReads DEF DerivInv
  <2> QED
    BY <2>1, <2>2, PurgeKeeps DEF PurgeInv
<1>2. CASE PurgeClose
  <2>1. purge \in Deletion /\ PurgeView(purge) /\ PurgeWrites(purge) /\ indexer.at # "held"
    BY <1>2, PurgeKnown DEF DerivInv
  <2>2. UNCHANGED <<indexer, builder, sweeper, raced>> /\ ~Deleting'
    BY <1>2 DEF PurgeClose, Deleting, NoPurge
  <2> QED
    BY <2>1, <2>2, PurgeKeeps DEF PurgeInv
<1> QED
  BY <1>1, <1>2

\* Nothing that raced is forgotten.
LEMMA RacedGrows ==
    ASSUME NEW what, Meanwhile(what)
    PROVE  raced \subseteq raced' /\ (Deleting => what \in raced')
  BY DEF Meanwhile

LEMMA SweepStep ==
    ASSUME DerivInv, Next
    PROVE  SweepInv'
<1>0. /\ DerivType /\ SweepInv
  BY DEF DerivInv
<1>t. /\ turns \in Seq({"live", "purged", "erased"}) /\ sweeper \in [Sweepers -> Window]
      /\ sweep \in [cursor : Nat, read : SUBSET Nat]
  BY <1>0 DEF DerivType
<1>l. Len(turns) \in Nat
  BY <1>t
<1>1. ASSUME UNCHANGED <<turns, sweep, sweeper>>, raced \subseteq raced' PROVE SweepInv'
  <2>1. Standing' = Standing
    BY <1>1 DEF Standing, Sequences
  <2> QED
    BY <1>0, <1>1, <2>1 DEF SweepInv
<1>2. CASE UNCHANGED derivVars \/ Derivatives
  BY <1>1, <1>2 DEF derivVars, Derivatives
<1>3. CASE DeleteChat
  <2>1. Len(turns') = Len(turns) /\ Standing' = {}
    BY <1>0, <1>3, Standing_Delete
  <2>2. sweep' = [cursor |-> 0, read |-> {}] /\ UNCHANGED <<sweeper, raced>>
    BY <1>3 DEF DeleteChat
  <2> QED
    BY <1>0, <1>l, <2>1, <2>2 DEF SweepInv
<1>4. ASSUME NEW S, Redact(S) \/ PurgeClose PROVE SweepInv'
  BY <1>4, PurgeSteps
<1>5. CASE AppendTurn
  <2>1. Len(turns') = Len(turns) + 1 /\ Standing' = Standing \cup {Len(turns) + 1}
    BY <1>0, <1>5, Standing_Append
  <2>2. UNCHANGED <<sweep, sweeper>> /\ raced \subseteq raced'
    BY <1>5, RacedGrows DEF AppendTurn
  <2>3. /\ sweep'.cursor <= Len(turns') /\ \A n \in sweep'.read : n <= sweep'.cursor
        /\ "advance" \notin raced' => sweep'.read \subseteq Standing'
    BY <1>0, <1>t, <1>l, <2>1, <2>2 DEF SweepInv
  <2>4. \A n \in Standing' : n <= sweep'.cursor => n \in sweep'.read
    BY <1>0, <1>t, <1>l, <2>1, <2>2 DEF SweepInv
  <2>5. ASSUME NEW w \in Sweepers, sweeper[w].at = "asked"
        PROVE  /\ sweeper[w].window # {}
               /\ \A n \in sweeper[w].window : sweeper[w].cursor < n /\ n <= Len(turns')
               /\ \A n \in Standing', m \in sweeper[w].window :
                     sweeper[w].cursor < n /\ n <= m => n \in sweeper[w].window
    <3>1. /\ sweeper[w].window # {}
          /\ \A n \in sweeper[w].window : sweeper[w].cursor < n /\ n <= Len(turns) /\ n \in Nat
          /\ \A n \in Standing, m \in sweeper[w].window :
                sweeper[w].cursor < n /\ n <= m => n \in sweeper[w].window
      BY <1>0, <1>t, <2>5 DEF SweepInv, Window
    <3> QED
      BY <1>l, <2>1, <3>1
  <2> QED
    BY <2>2, <2>3, <2>4, <2>5 DEF SweepInv
<1>6. CASE CloseOrOpenChat \/ PurgeAborts \/ \E S \in SUBSET Sequences : PurgeOpen(S)
  BY <1>1, <1>6 DEF CloseOrOpenChat, PurgeAborts, PurgeOpen
<1>7. CASE IndexBegin \/ IndexHold \/ IndexFails \/ EmbedRead \/ EmbedWrite
  BY <1>1, <1>7 DEF IndexBegin, IndexHold, IndexFails, EmbedRead, EmbedWrite
<1>8. CASE IndexCommit
  BY <1>1, <1>8, RacedGrows DEF IndexCommit
<1>9. CASE BuildRead \/ BuildPublish
  BY <1>1, <1>9 DEF BuildRead, BuildPublish
<1>10. ASSUME NEW w \in Sweepers, SweepRead(w) PROVE SweepInv'
  <2>1. PICK last \in Standing :
          /\ {n \in Standing : n > sweep.cursor /\ n <= last} # {}
          /\ sweeper' = [sweeper EXCEPT ![w] =
               [at |-> "asked", cursor |-> sweep.cursor,
                window |-> {n \in Standing : n > sweep.cursor /\ n <= last}]]
    BY <1>10 DEF SweepRead
  <2>2. UNCHANGED <<turns, sweep, raced>> /\ Standing' = Standing
    BY <1>10 DEF SweepRead, Standing, Sequences
  <2>3. \A n \in Standing : n \in Nat /\ n <= Len(turns)
    BY <1>t, <1>l DEF Standing, Sequences
  <2>4. \A v \in Sweepers : v # w => sweeper'[v] = sweeper[v]
    BY <1>t, <2>1
  <2>5. sweeper'[w] = [at |-> "asked", cursor |-> sweep.cursor,
                       window |-> {n \in Standing : n > sweep.cursor /\ n <= last}]
    BY <1>t, <2>1
  <2>6. /\ sweeper'[w].window # {}
        /\ \A n \in sweeper'[w].window : sweeper'[w].cursor < n /\ n <= Len(turns)
        /\ \A n \in Standing, m \in sweeper'[w].window :
              sweeper'[w].cursor < n /\ n <= m => n \in sweeper'[w].window
    BY <1>t, <1>l, <2>1, <2>3, <2>5
  <2> QED
    BY <1>0, <2>2, <2>4, <2>6 DEF SweepInv
<1>11. ASSUME NEW w \in Sweepers, SweepAdvance(w) PROVE SweepInv'
  <2>1. UNCHANGED turns /\ Standing' = Standing
    BY <1>11 DEF SweepAdvance, Standing, Sequences
  <2>2. \A v \in Sweepers : sweeper'[v].at = "asked" => sweeper'[v] = sweeper[v]
    BY <1>t, <1>11 DEF SweepAdvance, NoWindow
  <2>3. CASE Refused(sweeper[w])
    BY <1>0, <1>11, <2>1, <2>2, <2>3 DEF SweepAdvance, SweepInv
  <2>4. CASE ~Refused(sweeper[w])
    <3> DEFINE window == sweeper[w].window
    <3>1. /\ sweep' = [cursor |-> Max(window), read |-> sweep.read \cup window]
          /\ raced \subseteq raced'
      BY <1>11, <2>4, RacedGrows DEF SweepAdvance
    <3>2. window \subseteq Standing /\ sweeper[w].cursor = sweep.cursor
      BY <2>4 DEF Refused
    <3>3. /\ window # {}
          /\ \A n \in window : sweep.cursor < n /\ n <= Len(turns) /\ n \in Nat
          /\ \A n \in Standing, m \in window : sweep.cursor < n /\ n <= m => n \in window
      BY <1>0, <1>t, <1>11, <3>2 DEF SweepInv, SweepAdvance, Window
    <3>4. window \in SUBSET (0..Len(turns))
      BY <1>l, <3>3
    <3> HIDE DEF window
    <3>5. Max(window) \in window /\ \A y \in window : y <= Max(window)
      BY <1>l, <3>3, <3>4, MaxProperty
    <3>6. sweep'.cursor \in window /\ sweep.cursor < sweep'.cursor /\ sweep'.cursor \in Nat
          /\ sweep'.read = sweep.read \cup window /\ \A y \in window : y <= sweep'.cursor
          /\ sweep'.cursor <= Len(turns)
      BY <3>1, <3>3, <3>5
    <3>7. \A n \in sweep'.read : n <= sweep'.cursor
      BY <1>0, <1>t, <3>6 DEF SweepInv
    <3>8. "advance" \notin raced' => sweep'.read \subseteq Standing'
      BY <1>0, <2>1, <3>1, <3>2, <3>6 DEF SweepInv
    <3>9. \A n \in Standing' : n <= sweep'.cursor => n \in sweep'.read
      <4>1. \A n \in Standing : n \in Nat /\ (n <= sweep.cursor => n \in sweep.read)
        BY <1>0, <1>t DEF SweepInv, Standing, Sequences
      <4> QED
        BY <1>t, <2>1, <3>3, <3>6, <4>1
    <3> QED
      BY <1>0, <2>1, <2>2, <3>6, <3>7, <3>8, <3>9 DEF SweepInv
  <2> QED
    BY <2>3, <2>4
<1> QED
  BY <1>2, <1>3, <1>4, <1>5, <1>6, <1>7, <1>8, <1>9, <1>10, <1>11, StepCases

LEMMA CapsuleStep ==
    ASSUME DerivInv, Next
    PROVE  CapsuleInv'
<1>0. DerivType /\ CapsuleInv
  BY DEF DerivInv
<1>t. chat.rev \in Nat /\ builder.rev \in Nat
  BY <1>0 DEF DerivType
<1>1. ASSUME UNCHANGED <<turns, chat, capsule, builder>>, raced \subseteq raced'
      PROVE  CapsuleInv'
  <2>1. Standing' = Standing
    BY <1>1 DEF Standing, Sequences
  <2> QED
    BY <1>0, <1>1, <2>1 DEF CapsuleInv
<1>2. CASE UNCHANGED derivVars
  BY <1>1, <1>2 DEF derivVars
<1>3. CASE Derivatives
  <2>1. Standing' = Standing
    BY <1>3 DEF Derivatives, Standing, Sequences
  <2> QED
    BY <1>0, <1>3, <2>1 DEF CapsuleInv, Derivatives, NoCapsule
<1>4. CASE DeleteChat
  <2>1. chat'.rev = chat.rev + 1 /\ capsule'.copies = {} /\ UNCHANGED <<builder, raced>>
    BY <1>4 DEF DeleteChat, NoCapsule
  <2> QED
    BY <1>0, <1>t, <2>1 DEF CapsuleInv
<1>5. ASSUME NEW S, Redact(S) \/ PurgeClose PROVE CapsuleInv'
  BY <1>5, PurgeSteps
<1>6. CASE AppendTurn
  <2>1. Standing \subseteq Standing'
    BY <1>0, <1>6, Standing_Append
  <2>2. chat'.rev = chat.rev + 1 /\ UNCHANGED <<capsule, builder>> /\ raced \subseteq raced'
    <3>1. chat \in [closed : BOOLEAN, deleted : BOOLEAN, rev : Nat]
      BY <1>0 DEF DerivType
    <3> QED
      BY <1>6, <3>1, RacedGrows DEF AppendTurn
  <2> QED
    BY <1>0, <1>t, <2>1, <2>2 DEF CapsuleInv
<1>7. CASE CloseOrOpenChat
  <2>1. Standing' = Standing
    BY <1>7 DEF CloseOrOpenChat, Standing, Sequences
  <2>2. chat'.rev = chat.rev /\ UNCHANGED <<capsule, builder, raced>>
    <3>1. chat \in [closed : BOOLEAN, deleted : BOOLEAN, rev : Nat]
      BY <1>0 DEF DerivType
    <3> QED
      BY <1>7, <3>1 DEF CloseOrOpenChat
  <2> QED
    BY <1>0, <2>1, <2>2 DEF CapsuleInv
<1>8. CASE PurgeAborts \/ \E S \in SUBSET Sequences : PurgeOpen(S)
  BY <1>1, <1>8 DEF PurgeAborts, PurgeOpen
<1>9. CASE IndexBegin \/ IndexHold \/ IndexFails \/ EmbedRead \/ EmbedWrite
  BY <1>1, <1>9 DEF IndexBegin, IndexHold, IndexFails, EmbedRead, EmbedWrite
<1>10. CASE IndexCommit
  BY <1>1, <1>10, RacedGrows DEF IndexCommit
<1>11. CASE BuildRead
  <2>1. Standing' = Standing
    BY <1>11 DEF BuildRead, Standing, Sequences
  <2>2. builder'.copies = capsule.copies \cup {n \in Standing : n > capsule.end}
        /\ builder'.rev = chat.rev /\ UNCHANGED <<chat, capsule, raced>>
    BY <1>11 DEF BuildRead
  <2> QED
    BY <1>0, <1>t, <2>1, <2>2 DEF CapsuleInv
<1>12. CASE BuildPublish
  <2>1. Standing' = Standing
    BY <1>12 DEF BuildPublish, Standing, Sequences
  <2>2. builder.at = "asked" /\ builder'.at = "idle" /\ UNCHANGED <<chat, raced>>
    BY <1>12 DEF BuildPublish, NotBuilding
  <2>3. capsule' = capsule \/ (chat.rev = builder.rev /\ capsule'.copies = builder.copies)
    BY <1>12 DEF BuildPublish
  <2> QED
    BY <1>0, <2>1, <2>2, <2>3 DEF CapsuleInv
<1>13. CASE \E w \in Sweepers : SweepRead(w)
  BY <1>1, <1>13 DEF SweepRead
<1>14. CASE \E w \in Sweepers : SweepAdvance(w)
  BY <1>1, <1>14, RacedGrows DEF SweepAdvance
<1> QED
  BY <1>2, <1>3, <1>4, <1>5, <1>6, <1>7, <1>8, <1>9, <1>10, <1>11, <1>12, <1>13, <1>14,
     StepCases

\* A vector changes neither the range nor the text of a chunk.
LEMMA EmbedKeeps ==
    ASSUME DerivType, EmbedWrite
    PROVE  /\ index'.cursor = index.cursor /\ index'.passes = index.passes
           /\ UNCHANGED <<turns, chat, indexer, purge, sweep, raced>>
           /\ \A c \in index'.chunks : \E d \in index.chunks :
                 /\ c.id = d.id /\ c.from = d.from /\ c.to = d.to /\ c.copies = d.copies
           /\ \A d \in index.chunks : \E c \in index'.chunks :
                 /\ c.id = d.id /\ c.from = d.from /\ c.to = d.to
<1>1. index \in [cursor : Nat, chunks : SUBSET Chunk, passes : Nat]
  BY DEF DerivType
<1> DEFINE marked(c) == IF c.id = embedder THEN [c EXCEPT !.vec = TRUE] ELSE c
<1>2. \A c \in index.chunks : /\ marked(c).id = c.id /\ marked(c).from = c.from
                              /\ marked(c).to = c.to /\ marked(c).copies = c.copies
  BY <1>1 DEF Chunk
<1>3. /\ index' = [index EXCEPT !.chunks = {marked(c) : c \in @}]
      /\ UNCHANGED <<turns, chat, indexer, purge, sweep, raced>>
  BY DEF EmbedWrite
<1> HIDE DEF marked
<1>4. /\ index'.cursor = index.cursor /\ index'.passes = index.passes
      /\ index'.chunks = {marked(c) : c \in index.chunks}
  BY <1>1, <1>3
<1> QED
  BY <1>2, <1>3, <1>4

\* What an indexing pass that takes the row holds.
LEMMA HeldChunks ==
    ASSUME DerivType, IndexHold, index.cursor < indexer.upto
    PROVE  /\ indexer'.at = "held" /\ indexer'.upto = indexer.upto
           /\ \A c \in indexer'.new :
                 /\ index.cursor < c.from /\ c.from <= c.to /\ c.to <= indexer.upto
                 /\ c.id = index.passes * MaxTurns + c.from
                 /\ c.copies \subseteq Standing /\ c.copies \subseteq c.from..c.to
           /\ \A c, d \in indexer'.new :
                 (c.from = d.from => c.to = d.to) /\ (c.from < d.from => c.to < d.from)
           /\ \A n \in (index.cursor + 1)..indexer.upto :
                 \E c \in indexer'.new : c.from <= n /\ n <= c.to
<1>1. /\ indexer \in [at : {"idle", "begun", "held"}, rev : Nat, upto : Nat, new : SUBSET Chunk]
      /\ index.cursor \in Nat /\ indexer.upto \in Nat
  BY DEF DerivType
<1>2. PICK ranges \in Chunkings(index.cursor + 1, indexer.upto) :
        indexer' = [indexer EXCEPT !.at = "held", !.new = NewChunks(ranges)]
  <2>1. ~(indexer.upto <= index.cursor)
    BY <1>1
  <2> QED
    BY <2>1 DEF IndexHold
<1>3. /\ \A r \in ranges : /\ r \in Nat \X Nat /\ index.cursor + 1 <= r[1]
                            /\ r[1] <= r[2] /\ r[2] <= indexer.upto
      /\ \A r, q \in ranges : (r[1] = q[1] => r[2] = q[2]) /\ (r[1] < q[1] => r[2] < q[1])
      /\ \A n \in (index.cursor + 1)..indexer.upto : \E r \in ranges : r[1] <= n /\ n <= r[2]
  <2>1. index.cursor + 1 \in Nat /\ index.cursor + 1 <= indexer.upto
    BY <1>1
  <2> QED
    BY <1>1, <2>1, ChunkingsCut
<1> DEFINE piece(r) ==
             [id |-> (index.passes * MaxTurns) + r[1], from |-> r[1], to |-> r[2],
              rev |-> indexer.rev, copies |-> (r[1]..r[2]) \cap Standing, vec |-> FALSE]
<1>4. indexer'.at = "held" /\ indexer'.upto = indexer.upto
      /\ indexer'.new = {piece(r) : r \in ranges}
  BY <1>1, <1>2 DEF NewChunks
<1>5. \A r \in ranges : /\ piece(r).id = index.passes * MaxTurns + piece(r).from
                        /\ piece(r).from = r[1] /\ piece(r).to = r[2]
                        /\ piece(r).copies \subseteq Standing
                        /\ piece(r).copies \subseteq piece(r).from..piece(r).to
  OBVIOUS
<1> HIDE DEF piece
<1>6. \A r \in ranges : index.cursor < r[1]
  BY <1>1, <1>3
<1>7. \A c \in indexer'.new :
         /\ index.cursor < c.from /\ c.from <= c.to /\ c.to <= indexer.upto
         /\ c.id = index.passes * MaxTurns + c.from
         /\ c.copies \subseteq Standing /\ c.copies \subseteq c.from..c.to
  BY <1>3, <1>4, <1>5, <1>6
<1>8. \A c, d \in indexer'.new :
         (c.from = d.from => c.to = d.to) /\ (c.from < d.from => c.to < d.from)
  BY <1>3, <1>4, <1>5
<1>9. \A n \in (index.cursor + 1)..indexer.upto :
         \E c \in indexer'.new : c.from <= n /\ n <= c.to
  <2> SUFFICES ASSUME NEW n \in (index.cursor + 1)..indexer.upto
               PROVE  \E c \in indexer'.new : c.from <= n /\ n <= c.to
    OBVIOUS
  <2>1. PICK r \in ranges : r[1] <= n /\ n <= r[2]
    BY <1>3
  <2> QED
    BY <1>4, <1>5, <2>1
<1> QED
  BY <1>4, <1>7, <1>8, <1>9

\* A pass that publishes extends the cover, under numbers not used before.
LEMMA CommitStep ==
    ASSUME DerivInv, IndexCommit
    PROVE  IndexInv'
<1>1. DerivType /\ IndexInv
  BY DEF DerivInv
<1> DEFINE used == index.passes * MaxTurns
<1>2. /\ index \in [cursor : Nat, chunks : SUBSET Chunk, passes : Nat]
      /\ indexer \in [at : {"idle", "begun", "held"}, rev : Nat, upto : Nat, new : SUBSET Chunk]
      /\ turns \in Seq({"live", "purged", "erased"}) /\ Len(turns) <= MaxTurns
  BY <1>1 DEF DerivType
<1>3. /\ used \in Nat /\ (index.passes + 1) * MaxTurns = used + MaxTurns
      /\ MaxTurns \in Nat /\ Len(turns) \in Nat
  BY <1>2, DerivativesAssumption
<1>4. /\ index'.cursor = indexer.upto /\ index'.chunks = index.chunks \cup indexer.new
      /\ index'.passes = index.passes + 1 /\ indexer'.at = "idle"
      /\ raced \subseteq raced' /\ UNCHANGED turns /\ Standing' = Standing
  BY RacedGrows DEF IndexCommit, NotIndexing, Standing, Sequences
<1>5. /\ index.cursor < indexer.upto /\ indexer.upto <= Len(turns)
      /\ \A c \in indexer.new :
            /\ index.cursor < c.from /\ c.from <= c.to /\ c.to <= indexer.upto
            /\ c.id = used + c.from
            /\ c.copies \subseteq Standing /\ c.copies \subseteq c.from..c.to
      /\ \A c, d \in indexer.new :
            (c.from = d.from => c.to = d.to) /\ (c.from < d.from => c.to < d.from)
      /\ \A n \in (index.cursor + 1)..indexer.upto :
            \E c \in indexer.new : c.from <= n /\ n <= c.to
  BY <1>1 DEF IndexInv, PassInv, IndexCommit
<1>6. \A c \in index.chunks \cup indexer.new : c.id \in Nat /\ c.from \in Nat /\ c.to \in Nat
  BY <1>2 DEF Chunk
<1>7. /\ \A c \in index.chunks : 1 <= c.from /\ c.id <= used
      /\ \A c, d \in index.chunks : c.id = d.id => c.from = d.from /\ c.to = d.to
  BY <1>1 DEF IndexInv, NumbersInv
<1>n. index.cursor \in Nat /\ indexer.upto \in Nat
  BY <1>2
<1> HIDE DEF used
<1>8. \A c \in index'.chunks : 1 <= c.from /\ c.id <= index'.passes * MaxTurns
  <2>1. ASSUME NEW c \in index.chunks PROVE 1 <= c.from /\ c.id <= used + MaxTurns
    BY <1>3, <1>6, <1>7
  <2>2. ASSUME NEW c \in indexer.new PROVE 1 <= c.from /\ c.id <= used + MaxTurns
    <3>1. /\ index.cursor < c.from /\ c.from <= c.to /\ c.to <= indexer.upto
          /\ indexer.upto <= Len(turns) /\ Len(turns) <= MaxTurns /\ c.id = used + c.from
      BY <1>2, <1>5
    <3>2. c.from \in Nat /\ c.to \in Nat
      BY <1>6
    <3> QED
      BY <1>3, <1>n, <3>1, <3>2
  <2> QED
    BY <1>3, <1>4, <2>1, <2>2
<1>9. \A c, d \in index'.chunks : c.id = d.id => c.from = d.from /\ c.to = d.to
  <2>1. \A c \in indexer.new : c.id > used
    BY <1>3, <1>5, <1>6, <1>n
  <2>2. \A c, d \in indexer.new : c.id = d.id => c.from = d.from /\ c.to = d.to
    BY <1>3, <1>5, <1>6
  <2>3. \A c \in indexer.new, d \in index.chunks : c.id # d.id
    BY <1>3, <1>6, <1>7, <2>1
  <2> QED
    BY <1>4, <1>7, <2>2, <2>3
<1>10. ASSUME "index" \notin raced'
       PROVE  /\ index'.cursor <= Len(turns')
              /\ \A n \in 1..index'.cursor : \E c \in index'.chunks : c.from <= n /\ n <= c.to
              /\ \A c \in index'.chunks :
                    /\ c.from <= c.to /\ c.to <= index'.cursor
                    /\ c.copies \subseteq Standing' /\ c.copies \subseteq c.from..c.to
              /\ \A c, d \in index'.chunks : ~Overlap(c, d)
  <2>1. /\ \A n \in 1..index.cursor : \E c \in index.chunks : c.from <= n /\ n <= c.to
        /\ \A c \in index.chunks :
              /\ c.from <= c.to /\ c.to <= index.cursor
              /\ c.copies \subseteq Standing /\ c.copies \subseteq c.from..c.to
        /\ \A c, d \in index.chunks : ~Overlap(c, d)
    BY <1>1, <1>4, <1>10 DEF IndexInv, CoverInv
  <2>2. ASSUME NEW n \in 1..index'.cursor
        PROVE  \E c \in index'.chunks : c.from <= n /\ n <= c.to
    <3>1. CASE n <= index.cursor
      BY <1>4, <1>n, <2>1, <3>1
    <3>2. CASE n > index.cursor
      <4>1. n \in (index.cursor + 1)..indexer.upto
        BY <1>4, <1>n, <3>2
      <4> QED
        BY <1>4, <1>5, <4>1
    <3> QED
      BY <1>n, <3>1, <3>2
  <2>3. ASSUME NEW c \in index'.chunks
        PROVE  /\ c.from <= c.to /\ c.to <= index'.cursor
               /\ c.copies \subseteq Standing' /\ c.copies \subseteq c.from..c.to
    <3>1. CASE c \in index.chunks
      BY <1>4, <1>5, <1>6, <1>n, <2>1, <3>1
    <3>2. CASE c \in indexer.new
      BY <1>4, <1>5, <3>2
    <3> QED
      BY <1>4, <3>1, <3>2
  <2>4. ASSUME NEW c \in index'.chunks, NEW d \in index'.chunks PROVE ~Overlap(c, d)
    <3>1. CASE c \in index.chunks /\ d \in index.chunks
      BY <2>1, <3>1
    <3>2. CASE c \in indexer.new /\ d \in index.chunks
      BY <1>5, <1>6, <1>n, <2>1, <3>2 DEF Overlap
    <3>3. CASE c \in index.chunks /\ d \in indexer.new
      BY <1>5, <1>6, <1>n, <2>1, <3>3 DEF Overlap
    <3>4. CASE c \in indexer.new /\ d \in indexer.new
      BY <1>3, <1>5, <1>6, <3>4 DEF Overlap
    <3> QED
      BY <1>4, <3>1, <3>2, <3>3, <3>4
  <2> QED
    BY <1>4, <1>5, <2>2, <2>3, <2>4
<1> QED
  <2>1. NumbersInv' /\ PassInv'
    BY <1>4, <1>8, <1>9 DEF NumbersInv, PassInv
  <2>2. CoverInv'
    BY <1>4, <1>10, Zenon DEF CoverInv, Overlap
  <2> QED
    BY <2>1, <2>2 DEF IndexInv

LEMMA IndexStep ==
    ASSUME DerivInv, Next
    PROVE  IndexInv'
<1>0. DerivType /\ IndexInv
  BY DEF DerivInv
<1>t. turns \in Seq({"live", "purged", "erased"})
  BY <1>0 DEF DerivType
<1>l. Len(turns) \in Nat
  BY <1>t
<1>1. ASSUME UNCHANGED <<turns, index, indexer>>, raced \subseteq raced' PROVE IndexInv'
  <2>1. Standing' = Standing
    BY <1>1 DEF Standing, Sequences
  <2> QED
    BY <1>0, <1>1, <2>1 DEF IndexInv, NumbersInv, PassInv, CoverInv, Overlap
<1>2. CASE UNCHANGED derivVars \/ Derivatives
  BY <1>1, <1>2 DEF derivVars, Derivatives
<1>3. CASE DeleteChat
  <2>1. Len(turns') = Len(turns)
    BY <1>0, <1>3, Standing_Delete
  <2>2. /\ index'.cursor = 0 /\ index'.chunks = {} /\ UNCHANGED indexer
        /\ indexer.at # "held"
    <3>1. index \in [cursor : Nat, chunks : SUBSET Chunk, passes : Nat]
      BY <1>0 DEF DerivType
    <3> QED
      BY <1>3, <3>1 DEF DeleteChat, RowFree
  <2>3. 0 <= Len(turns) /\ 1..0 = {}
    BY <1>l
  <2> QED
    BY <1>0, <2>1, <2>2, <2>3 DEF IndexInv, NumbersInv, PassInv, CoverInv
<1>4. ASSUME NEW S, Redact(S) \/ PurgeClose PROVE IndexInv'
  BY <1>4, PurgeSteps
<1>5. CASE AppendTurn
  <2>1. Len(turns') = Len(turns) + 1 /\ Standing \subseteq Standing'
    BY <1>0, <1>5, Standing_Append
  <2>2. UNCHANGED <<index, indexer>> /\ raced \subseteq raced' /\ indexer.at # "held"
    BY <1>5, RacedGrows DEF AppendTurn, RowFree
  <2>3. index.cursor \in Nat /\ indexer.upto \in Nat
    BY <1>0 DEF DerivType
  <2>4. /\ indexer.upto <= Len(turns) => indexer.upto <= Len(turns')
        /\ index.cursor <= Len(turns) => index.cursor <= Len(turns')
    BY <1>l, <2>1, <2>3
  <2> QED
    BY <1>0, <2>1, <2>2, <2>4 DEF IndexInv, NumbersInv, PassInv, CoverInv, Overlap
<1>6. CASE CloseOrOpenChat \/ PurgeAborts \/ \E S \in SUBSET Sequences : PurgeOpen(S)
  BY <1>1, <1>6 DEF CloseOrOpenChat, PurgeAborts, PurgeOpen
<1>7. CASE IndexBegin
  <2>1. indexer'.at = "begun" /\ indexer'.upto <= Len(turns)
    BY <1>l, <1>7 DEF IndexBegin, NotIndexing, ActiveCutoff
  <2>2. UNCHANGED <<turns, index, raced>> /\ Standing' = Standing
    BY <1>7 DEF IndexBegin, Standing, Sequences
  <2> QED
    BY <1>0, <2>1, <2>2 DEF IndexInv, NumbersInv, PassInv, CoverInv, Overlap
<1>8. CASE IndexHold
  <2>1. UNCHANGED <<turns, index, raced>> /\ Standing' = Standing /\ indexer.at = "begun"
    BY <1>8 DEF IndexHold, Standing, Sequences
  <2>2. CASE indexer.upto <= index.cursor
    <3>1. indexer'.at = "idle"
      BY <1>8, <2>2 DEF IndexHold, NotIndexing
    <3> QED
      BY <1>0, <2>1, <3>1 DEF IndexInv, NumbersInv, PassInv, CoverInv, Overlap
  <2>3. CASE index.cursor < indexer.upto
    BY <1>0, <1>8, <2>1, <2>3, HeldChunks DEF IndexInv, NumbersInv, PassInv, CoverInv, Overlap
  <2>4. index.cursor \in Nat /\ indexer.upto \in Nat
    BY <1>0 DEF DerivType
  <2> QED
    BY <2>2, <2>3, <2>4
<1>9. CASE IndexCommit
  BY <1>9, CommitStep
<1>10. CASE IndexFails
  <2>1. UNCHANGED <<turns, index, raced>> /\ Standing' = Standing /\ indexer'.at = "idle"
    BY <1>10 DEF IndexFails, NotIndexing, Standing, Sequences
  <2> QED
    BY <1>0, <2>1 DEF IndexInv, NumbersInv, PassInv, CoverInv, Overlap
<1>11. CASE EmbedRead \/ BuildRead \/ BuildPublish \/ \E w \in Sweepers : SweepRead(w)
  BY <1>1, <1>11 DEF EmbedRead, BuildRead, BuildPublish, SweepRead
<1>12. CASE EmbedWrite
  <2>1. Standing' = Standing
    BY <1>12 DEF EmbedWrite, Standing, Sequences
  <2>2. /\ index'.cursor = index.cursor /\ index'.passes = index.passes
        /\ UNCHANGED <<turns, indexer, raced>>
        /\ \A c \in index'.chunks : \E d \in index.chunks :
              /\ c.id = d.id /\ c.from = d.from /\ c.to = d.to /\ c.copies = d.copies
        /\ \A d \in index.chunks : \E c \in index'.chunks :
              /\ c.id = d.id /\ c.from = d.from /\ c.to = d.to
    BY <1>0, <1>12, EmbedKeeps
  <2>3. /\ \A c \in index'.chunks : 1 <= c.from /\ c.id <= index'.passes * MaxTurns
        /\ \A c, d \in index'.chunks : c.id = d.id => c.from = d.from /\ c.to = d.to
    <3>1. /\ \A c \in index.chunks : 1 <= c.from /\ c.id <= index.passes * MaxTurns
          /\ \A c, d \in index.chunks : c.id = d.id => c.from = d.from /\ c.to = d.to
      BY <1>0 DEF IndexInv, NumbersInv
    <3>2. \A c \in index'.chunks : 1 <= c.from /\ c.id <= index'.passes * MaxTurns
      BY <2>2, <3>1
    <3>3. ASSUME NEW c \in index'.chunks, NEW d \in index'.chunks, c.id = d.id
          PROVE  c.from = d.from /\ c.to = d.to
      <4>1. PICK a \in index.chunks : c.id = a.id /\ c.from = a.from /\ c.to = a.to
        BY <2>2
      <4>2. PICK b \in index.chunks : d.id = b.id /\ d.from = b.from /\ d.to = b.to
        BY <2>2
      <4> QED
        BY <3>1, <3>3, <4>1, <4>2
    <3> QED
      BY <3>2, <3>3
  <2>4. ASSUME "index" \notin raced
        PROVE  /\ \A n \in 1..index'.cursor : \E c \in index'.chunks : c.from <= n /\ n <= c.to
               /\ \A c \in index'.chunks :
                     /\ c.from <= c.to /\ c.to <= index'.cursor
                     /\ c.copies \subseteq Standing' /\ c.copies \subseteq c.from..c.to
               /\ \A c, d \in index'.chunks : ~Overlap(c, d)
    <3>1. /\ \A n \in 1..index.cursor : \E c \in index.chunks : c.from <= n /\ n <= c.to
          /\ \A c \in index.chunks :
                /\ c.from <= c.to /\ c.to <= index.cursor
                /\ c.copies \subseteq Standing /\ c.copies \subseteq c.from..c.to
          /\ \A c, d \in index.chunks : ~Overlap(c, d)
      BY <1>0, <2>4 DEF IndexInv, CoverInv
    <3>2. \A n \in 1..index'.cursor : \E c \in index'.chunks : c.from <= n /\ n <= c.to
      BY <2>2, <3>1, Zenon
    <3>3. \A c \in index'.chunks :
             /\ c.from <= c.to /\ c.to <= index'.cursor
             /\ c.copies \subseteq Standing' /\ c.copies \subseteq c.from..c.to
      <4> SUFFICES ASSUME NEW c \in index'.chunks
                   PROVE  /\ c.from <= c.to /\ c.to <= index'.cursor
                          /\ c.copies \subseteq Standing' /\ c.copies \subseteq c.from..c.to
        OBVIOUS
      <4>1. PICK d \in index.chunks :
              /\ c.id = d.id /\ c.from = d.from /\ c.to = d.to /\ c.copies = d.copies
        BY <2>2
      <4> QED
        BY <2>1, <2>2, <3>1, <4>1
    <3>4. \A c, d \in index'.chunks : ~Overlap(c, d)
      <4> SUFFICES ASSUME NEW c \in index'.chunks, NEW d \in index'.chunks
                   PROVE  ~Overlap(c, d)
        OBVIOUS
      <4>1. PICK a \in index.chunks : c.id = a.id /\ c.from = a.from /\ c.to = a.to
        BY <2>2
      <4>2. PICK b \in index.chunks : d.id = b.id /\ d.from = b.from /\ d.to = b.to
        BY <2>2
      <4> QED
        BY <3>1, <4>1, <4>2 DEF Overlap
    <3> QED
      BY <3>2, <3>3, <3>4
  <2> QED
    <3>1. PassInv'
      BY <1>0, <2>1, <2>2 DEF IndexInv, PassInv
    <3>2. CoverInv'
      <4>1. "index" \notin raced => index.cursor <= Len(turns)
        BY <1>0 DEF IndexInv, CoverInv
      <4> QED
        BY <2>1, <2>2, <2>4, <4>1, Zenon DEF CoverInv, Overlap
    <3> QED
      BY <2>3, <3>1, <3>2 DEF IndexInv, NumbersInv
<1>13. CASE \E w \in Sweepers : SweepAdvance(w)
  BY <1>1, <1>13, RacedGrows DEF SweepAdvance
<1> QED
  BY <1>2, <1>3, <1>4, <1>5, <1>6, <1>7, <1>8, <1>9, <1>10, <1>11, <1>12, <1>13, StepCases

\* What an open deletion has read stays true of what it will write, but for what
\* raced with it.
LEMMA PurgeStep ==
    ASSUME DerivInv, Next
    PROVE  PurgeInv'
<1>0. DerivType /\ PurgeInv /\ SweepInv
  BY DEF DerivInv
<1>t. /\ turns \in Seq({"live", "purged", "erased"}) /\ sweep.cursor \in Nat
      /\ purge \in Deletion
  BY <1>0 DEF DerivType
<1>1. ASSUME UNCHANGED <<turns, chat, index, sweep, purge>>, raced \subseteq raced'
      PROVE  PurgeInv'
  BY <1>0, <1>1 DEF PurgeInv, PurgeView, Deleting, Sequences
<1>2. CASE UNCHANGED derivVars \/ Derivatives
  BY <1>1, <1>2 DEF derivVars, Derivatives
<1>3. CASE DeleteChat
  BY <1>3 DEF DeleteChat, PurgeInv, Deleting
<1>4. ASSUME NEW S, Redact(S) \/ PurgeClose PROVE PurgeInv'
  BY <1>4, PurgeSteps
<1>5. CASE AppendTurn
  <2>1. Sequences \subseteq Sequences'
    <3>1. Len(turns') = Len(turns) + 1 /\ Len(turns) \in Nat
      BY <1>0, <1>t, <1>5, Standing_Append
    <3> QED
      BY <3>1 DEF Sequences
  <2>2. UNCHANGED <<index, sweep, purge>> /\ raced \subseteq raced'
        /\ (Deleting => "append" \in raced')
    BY <1>5, RacedGrows DEF AppendTurn
  <2> QED
    BY <1>0, <2>1, <2>2 DEF PurgeInv, PurgeView, Deleting
<1>6. CASE CloseOrOpenChat
  <2>1. chat'.rev = chat.rev
    <3>1. chat \in [closed : BOOLEAN, deleted : BOOLEAN, rev : Nat]
      BY <1>0 DEF DerivType
    <3> QED
      BY <1>6, <3>1 DEF CloseOrOpenChat
  <2> QED
    BY <1>0, <1>6, <2>1 DEF CloseOrOpenChat, PurgeInv, PurgeView, Deleting, Sequences
<1>7. CASE PurgeAborts
  BY <1>7 DEF PurgeAborts, PurgeInv, Deleting, NoPurge
<1>8. ASSUME NEW S \in SUBSET Sequences, PurgeOpen(S) PROVE PurgeInv'
  <2>1. S # {} /\ purge' = PurgeReads(S) /\ UNCHANGED <<turns, chat, index, sweep, raced>>
    BY <1>8 DEF PurgeOpen
  <2>2. PurgeView(PurgeReads(S))
    BY <2>1, ViewOfReads
  <2> QED
    BY <2>1, <2>2 DEF PurgeInv, PurgeView, Sequences
<1>9. CASE IndexBegin \/ IndexHold \/ IndexFails \/ EmbedRead
  BY <1>1, <1>9 DEF IndexBegin, IndexHold, IndexFails, EmbedRead
<1>10. CASE IndexCommit
  <2>1. /\ UNCHANGED <<turns, chat, sweep, purge>> /\ raced \subseteq raced'
        /\ (Deleting => "index" \in raced')
    BY <1>10, RacedGrows DEF IndexCommit
  <2> QED
    BY <1>0, <2>1 DEF PurgeInv, PurgeView, Deleting, Sequences
<1>11. CASE EmbedWrite
  <2> SUFFICES ASSUME Deleting' PROVE PurgeView(purge)'
    BY DEF PurgeInv
  <2>1. /\ index'.cursor = index.cursor /\ UNCHANGED <<turns, chat, purge, sweep, raced>>
        /\ \A c \in index'.chunks : \E d \in index.chunks :
              /\ c.id = d.id /\ c.from = d.from /\ c.to = d.to /\ c.copies = d.copies
        /\ \A d \in index.chunks : \E c \in index'.chunks :
              /\ c.id = d.id /\ c.from = d.from /\ c.to = d.to
    BY <1>0, <1>11, EmbedKeeps
  <2>2. PurgeView(purge)
    BY <1>0, <2>1 DEF PurgeInv, Deleting
  <2>3. ASSUME "index" \notin raced
        PROVE  /\ \A c \in index'.chunks :
                     /\ c.id \in purge.doomed <=> c.to >= purge.rebuild
                     /\ c.to >= purge.first => c.from >= purge.rebuild
               /\ purge.rebuild = purge.first
                  \/ \E d \in index'.chunks : d.from = purge.rebuild /\ d.to >= purge.first
    <3>1. /\ \A c \in index.chunks :
                /\ c.id \in purge.doomed <=> c.to >= purge.rebuild
                /\ c.to >= purge.first => c.from >= purge.rebuild
          /\ purge.rebuild = purge.first
             \/ \E d \in index.chunks : d.from = purge.rebuild /\ d.to >= purge.first
      BY <2>2, <2>3 DEF PurgeView
    <3> QED
      BY <2>1, <3>1, Zenon
  <2> QED
    BY <2>1, <2>2, <2>3 DEF PurgeView, Sequences
<1>12. CASE BuildRead \/ BuildPublish \/ \E w \in Sweepers : SweepRead(w)
  BY <1>1, <1>12 DEF BuildRead, BuildPublish, SweepRead
<1>13. ASSUME NEW w \in Sweepers, SweepAdvance(w) PROVE PurgeInv'
  <2>1. CASE Refused(sweeper[w])
    BY <1>1, <1>13, <2>1 DEF SweepAdvance
  <2>2. CASE ~Refused(sweeper[w])
    <3> DEFINE window == sweeper[w].window
    <3>1. /\ sweep'.cursor = Max(window) /\ UNCHANGED <<turns, chat, index, purge>>
          /\ raced \subseteq raced' /\ (Deleting => "advance" \in raced')
      BY <1>13, <2>2, RacedGrows DEF SweepAdvance
    <3>2. /\ window # {}
          /\ \A n \in window : sweep.cursor < n /\ n <= Len(turns) /\ n \in Nat
      <4>1. sweeper \in [Sweepers -> Window]
        BY <1>0 DEF DerivType
      <4> QED
        BY <1>0, <1>13, <2>2, <4>1 DEF SweepInv, SweepAdvance, Window, Refused
    <3>3. Len(turns) \in Nat
      BY <1>t
    <3>4. window \in SUBSET (0..Len(turns))
      BY <3>2, <3>3
    <3> HIDE DEF window
    <3>5. sweep'.cursor \in window
      BY <3>1, <3>2, <3>3, <3>4, MaxProperty
    <3>6. Deleting => purge.sweep <= sweep'.cursor
      <4>1. sweep.cursor < sweep'.cursor /\ sweep'.cursor \in Nat
        BY <3>2, <3>5
      <4>2. purge.sweep \in Nat /\ (Deleting => purge.sweep <= sweep.cursor)
        BY <1>0, <1>t DEF PurgeInv, PurgeView, Deletion
      <4> QED
        BY <1>t, <4>1, <4>2
    <3> QED
      BY <1>0, <3>1, <3>6 DEF PurgeInv, PurgeView, Deleting, Sequences
  <2> QED
    BY <2>1, <2>2
<1> QED
  BY <1>2, <1>3, <1>4, <1>5, <1>6, <1>7, <1>8, <1>9, <1>10, <1>11, <1>12, <1>13, StepCases

LEMMA ApartStep ==
    ASSUME DerivInv, Next
    PROVE  Apart'
<1>0. Apart /\ awake' = awake
  BY StepCases DEF DerivInv
<1>1. CASE UNCHANGED indexer
  BY <1>0, <1>1 DEF Apart
<1>2. CASE "memory" \notin awake
  BY <1>0, <1>2 DEF Apart
<1>3. CASE IndexCommit \/ IndexFails
  BY <1>0, <1>3 DEF Apart, IndexCommit, IndexFails, NotIndexing
<1>4. \A S : PurgeOpen(S) \/ Redact(S) => UNCHANGED indexer
  BY DEF PurgeOpen, Redact
<1>5. \A w \in Sweepers : SweepRead(w) \/ SweepAdvance(w) => UNCHANGED indexer
  BY DEF SweepRead, SweepAdvance
<1>6. CASE \/ UNCHANGED derivVars \/ Derivatives \/ DeleteChat \/ AppendTurn \/ CloseOrOpenChat
           \/ PurgeClose \/ PurgeAborts \/ EmbedRead \/ EmbedWrite \/ BuildRead \/ BuildPublish
  BY <1>1, <1>6 DEF derivVars, Derivatives, DeleteChat, AppendTurn, CloseOrOpenChat,
     PurgeClose, PurgeAborts, EmbedRead, EmbedWrite, BuildRead, BuildPublish
<1> QED
  BY <1>1, <1>2, <1>3, <1>4, <1>5, <1>6, StepCases
----------------------------------------------------------------------------
LEMMA DerivInvStart ==
    ASSUME NEW k \in Nat, k <= MaxTurns, DerivInit(k)
    PROVE  DerivInv
<1>1. turns \in Seq({"live", "purged", "erased"}) /\ Len(turns) = k
  <2>1. turns \in [1..k -> {"live", "purged", "erased"}]
    BY DEF DerivInit
  <2> QED
    BY <2>1, FunctionIsSeq
<1>2. sweeper \in [Sweepers -> Window] /\ \A w \in Sweepers : sweeper[w].at = "idle"
  BY DEF DerivInit, Window, NoWindow
<1>3. purge \in Deletion /\ ~Deleting
  BY DEF DerivInit, NoPurge, Deletion, Deleting
<1>4. DerivType
  BY <1>1, <1>2, <1>3 DEF DerivInit, DerivType, NoIndex, NotIndexing, NoCapsule, NotBuilding
<1>5. SweepInv
  <2>1. sweep.cursor = 0 /\ sweep.read = {}
    BY DEF DerivInit
  <2>2. 0 <= Len(turns) /\ \A n \in Standing : ~(n <= 0)
    BY <1>1 DEF Standing, Sequences
  <2> QED
    BY <1>2, <2>1, <2>2 DEF SweepInv
<1>6. CapsuleInv
  BY DEF DerivInit, CapsuleInv, NoCapsule, NotBuilding
<1>7. IndexInv
  <2>1. index.cursor = 0 /\ index.chunks = {} /\ indexer.at = "idle"
    BY DEF DerivInit, NoIndex, NotIndexing
  <2>2. 0 <= Len(turns) /\ 1..0 = {}
    BY <1>1
  <2> QED
    BY <2>1, <2>2 DEF IndexInv, NumbersInv, PassInv, CoverInv
<1> QED
  BY <1>3, <1>4, <1>5, <1>6, <1>7 DEF DerivInv, Apart, PurgeInv, DerivInit, NotIndexing

\* The derivatives of a conversation keep the invariant.
THEOREM DerivInvariant == Spec => []DerivInv
<1>1. Init => DerivInv
  <2> SUFFICES ASSUME Init PROVE DerivInv
    OBVIOUS
  <2>1. DerivInit(1) \/ DerivInit(Spoken)
    BY DEF Init
  <2>2. 1 <= MaxTurns /\ Spoken \in Nat /\ Spoken <= MaxTurns
    BY DerivativesAssumption, SpokenAssumption
  <2> QED
    BY <2>1, <2>2, DerivInvStart
<1>2. DerivInv /\ [Next]_vars => DerivInv'
  <2> SUFFICES ASSUME DerivInv, [Next]_vars PROVE DerivInv'
    OBVIOUS
  <2>1. CASE Next
    <3>1. DerivType' /\ Apart' /\ SweepInv'
      BY <2>1, TypeStep, ApartStep, SweepStep
    <3>2. CapsuleInv' /\ IndexInv' /\ PurgeInv'
      BY <2>1, CapsuleStep, IndexStep, PurgeStep
    <3> QED
      BY <3>1, <3>2 DEF DerivInv
  <2>2. CASE UNCHANGED vars
    <3>1. UNCHANGED <<awake, turns, chat, index, indexer, embedder, capsule, builder, sweep,
                      sweeper, purge, raced>>
      BY <2>2 DEF vars, derivVars
    <3> QED
      BY <3>1 DEF DerivInv, DerivType, Apart, SweepInv, CapsuleInv, IndexInv, NumbersInv,
         PassInv, CoverInv, PurgeInv, PurgeView, Standing, Sequences, Deleting, Overlap
  <2> QED
    BY <2>1, <2>2
<1> QED
  BY <1>1, <1>2, PTL DEF Spec

(* However workers, appends and deletions interleave, the index covers     *)
(* exactly the turns behind its cursor, each once, and holds no removed    *)
(* text, unless a pass committed inside a deletion.                        *)
THEOREM IndexStaysFaithful == Spec => []IndexIsFaithful
<1>1. DerivInv => IndexIsFaithful
  BY DEF DerivInv, IndexInv, CoverInv, IndexIsFaithful
<1> QED
  BY <1>1, DerivInvariant, PTL

(* A capsule or a sweep that read before a deletion does not publish what  *)
(* it removed, and the sweep skips no turn that stands.                    *)
THEOREM WorkersStayFenced == Spec => []WorkersAreFenced
<1>1. DerivInv => WorkersAreFenced
  BY DEF DerivInv, SweepInv, CapsuleInv, WorkersAreFenced
<1> QED
  BY <1>1, DerivInvariant, PTL

=============================================================================
