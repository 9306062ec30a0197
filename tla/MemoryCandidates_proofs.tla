----------------------- MODULE MemoryCandidates_proofs -----------------------
(***************************************************************************)
(* Proofs about memory candidates, for any number of candidates, requests, *)
(* workers and evidence sets and any budgets.  Purging and releasing write *)
(* back rows read earlier, so the invariant says what an old copy of a row *)
(* still tells of the present one.                                         *)
(***************************************************************************)
EXTENDS MemoryCandidates, NumberLemmas, TLAPS

\* A row of the table.  A purge leaves invalidated_at behind for good: the owner
\* may confirm the candidate again, but nobody leases it.
RowOK(r) ==
    /\ r.status \in Reconcilable => (r.status = "leased" <=> r.token # 0)
    /\ r.status = "retained_short_term" => r.tries = 0
    /\ r.status = "invalidated" \/ r.scrubbed => r.invalidated
    /\ r.invalidated => r.status \in Terminal \cup {"pending"}

Row == {r \in CandidateRow : RowOK(r)}

RowsInv ==
    /\ cand \in [Candidates -> Row]
    /\ attempts \in [Candidates -> Seq(AttemptRow)]
    /\ \A c \in Candidates : cand[c].token <= Len(attempts[c])

\* The rows a purge has read: what was invalidated then is invalidated now.
ReadInv ==
    purge # None =>
        /\ DOMAIN purge.rows \subseteq Candidates
        /\ purge.scrub \in BOOLEAN
        /\ \A c \in DOMAIN purge.rows :
              /\ purge.rows[c] \in Row
              /\ purge.rows[c].invalidated => cand[c].invalidated

\* A busy worker has a claim, tries left where it is about to publish, and in a
\* release the leased row it has read.
WorkerOK(state) ==
    /\ state.stage # "idle" => state.claim \in Claims
    /\ state.stage \in {"refreshed", "reconciled", "policed"} => state.tries < PublishTries
    /\ state.stage = "releasing" => state.seen \in Row /\ state.seen.status = "leased"

WorkersInv == work \in [Workers -> WorkerState] /\ \A w \in Workers : WorkerOK(work[w])

\* A request and the candidate it waits for name each other.
Links(rows, reqs, asks) ==
    /\ \A c \in Candidates : \A i \in DOMAIN asks[c] :
          /\ reqs[asks[c][i]].status # "unasked" /\ reqs[asks[c][i]].cand = c
          /\ rows[c].status # "absent" /\ rows[c].key = KeyOf[asks[c][i]]
    /\ \A q \in Requests :
          /\ reqs[q].status # "resolved" => reqs[q].failures < OwnerRetryBudget
          /\ reqs[q].status = "pending" =>
                /\ reqs[q].cand \in Candidates
                /\ \E i \in DOMAIN asks[reqs[q].cand] : asks[reqs[q].cand][i] = q

LinksInv == Links(cand, req, asked)

TableInv ==
    /\ asked \in [Candidates -> Seq(Requests)]
    /\ req \in [Requests -> RequestRow]
    /\ review \in [Candidates -> Nat]
    /\ conflicts \in [Candidates -> Nat]
    /\ live \in [Keys -> BOOLEAN]
    /\ memory \in [Candidates -> {"none", "stored", "deleted"}]

CandidateInv == RowsInv /\ ReadInv /\ WorkersInv /\ TableInv /\ LinksInv

----------------------------------------------------------------------------
(* Rows                                                                    *)

\* The flush of a stale row, column by column.
LEMMA FlushedRow ==
    ASSUME NEW now \in CandidateRow, NEW seen \in CandidateRow, NEW new \in CandidateRow
    PROVE  /\ Flushed(now, seen, new) \in CandidateRow
           /\ Flushed(now, seen, new).status = IF new.status = seen.status THEN now.status
                                              ELSE new.status
           /\ Flushed(now, seen, new).token = IF new.token = seen.token THEN now.token
                                             ELSE new.token
           /\ Flushed(now, seen, new).tries = IF new.tries = seen.tries THEN now.tries
                                             ELSE new.tries
           /\ Flushed(now, seen, new).key = IF new.key = seen.key THEN now.key ELSE new.key
           /\ Flushed(now, seen, new).invalidated =
                 IF new.invalidated = seen.invalidated THEN now.invalidated ELSE new.invalidated
           /\ Flushed(now, seen, new).scrubbed =
                 IF new.scrubbed = seen.scrubbed THEN now.scrubbed ELSE new.scrubbed
<1> DEFINE F == {"status", "token", "overdue", "tries", "retentions", "key", "asserted",
                 "grant", "verified", "invalidated", "scrubbed"}
           row == [f \in DOMAIN now |-> IF new[f] = seen[f] THEN now[f] ELSE new[f]]
           pick(f) == IF new[f] = seen[f] THEN now[f] ELSE new[f]
<1>1. DOMAIN now = F
  BY DEF CandidateRow
<1>2. \A f \in F : row[f] = pick(f)
  BY <1>1
<1>3. row \in CandidateRow
  <2>1. row = [f \in F |-> pick(f)]
    BY <1>1
  <2>2. /\ pick("status") \in Reconcilable \cup Terminal \cup {"absent"}
        /\ pick("token") \in Nat /\ pick("overdue") \in BOOLEAN
        /\ pick("tries") \in 0..MaxAttempts /\ pick("retentions") \in 0..MaxRetentions
        /\ pick("key") \in Keys \cup {None} /\ pick("asserted") \in Nat
        /\ pick("grant") \in BOOLEAN /\ pick("verified") \in BOOLEAN
        /\ pick("invalidated") \in BOOLEAN /\ pick("scrubbed") \in BOOLEAN
    BY DEF CandidateRow
  <2> HIDE DEF pick, row
  <2> QED
    BY <2>1, <2>2 DEF CandidateRow
<1>4. Flushed(now, seen, new) = [row EXCEPT !.overdue = @ /\ row.token # 0]
  BY DEF Flushed
<1> HIDE DEF row
<1>5. Flushed(now, seen, new) \in CandidateRow
  BY <1>3, <1>4 DEF CandidateRow
<1>6. \A f \in F \ {"overdue"} : Flushed(now, seen, new)[f] = pick(f)
  BY <1>2, <1>3, <1>4 DEF CandidateRow
<1> QED
  BY <1>5, <1>6

\* A row that gives up its lease.
LEMMA UnleasedRow ==
    ASSUME NEW r \in Row, NEW s \in {"pending", "awaiting_owner"} \cup Terminal,
           s = "awaiting_owner" => ~r.invalidated, s = "invalidated" => r.invalidated
    PROVE  /\ Unleased(r, s) \in Row /\ Unleased(r, s).status = s /\ Unleased(r, s).token = 0
           /\ Unleased(r, s).key = r.key /\ Unleased(r, s).invalidated = r.invalidated
           /\ Decided(r, s) \in Row /\ Decided(r, s).status = s /\ Decided(r, s).token = 0
           /\ Decided(r, s).key = r.key /\ Decided(r, s).invalidated = r.invalidated
           /\ Ended(r, s) = Decided(r, s)
<1>1. r \in CandidateRow /\ RowOK(r)
  BY DEF Row
<1>2. s \in Reconcilable \cup Terminal
  BY DEF Reconcilable
<1>3. /\ Unleased(r, s) \in CandidateRow /\ Decided(r, s) \in CandidateRow
      /\ Ended(r, s) = Decided(r, s)
  BY <1>1, <1>2 DEF CandidateRow, Unleased, Decided, Ended
<1>4. /\ Unleased(r, s).status = s /\ Unleased(r, s).token = 0
      /\ Unleased(r, s).key = r.key /\ Unleased(r, s).invalidated = r.invalidated
      /\ Unleased(r, s).scrubbed = r.scrubbed
  BY <1>1 DEF CandidateRow, Unleased
<1>5. /\ Decided(r, s).status = s /\ Decided(r, s).token = 0
      /\ Decided(r, s).key = r.key /\ Decided(r, s).invalidated = r.invalidated
      /\ Decided(r, s).scrubbed = r.scrubbed
  BY <1>1 DEF CandidateRow, Unleased, Decided
<1>6. RowOK(Unleased(r, s)) /\ RowOK(Decided(r, s))
  BY <1>1, <1>4, <1>5 DEF RowOK, Reconcilable, Terminal
<1> QED
  BY <1>3, <1>4, <1>5, <1>6 DEF Row

\* A row that is invalidated.
LEMMA InvalidatedRow ==
    ASSUME NEW r \in Row, NEW row \in CandidateRow,
           row.status = "invalidated", row.invalidated
    PROVE  row \in Row
  BY DEF Row, RowOK, Reconcilable, Terminal

\* Attempts keep their numbers.
LEMMA AttemptsSeq ==
    ASSUME NEW as \in Seq(AttemptRow), NEW f \in [DOMAIN as -> AttemptRow]
    PROVE  f \in Seq(AttemptRow) /\ Len(f) = Len(as) /\ DOMAIN f = DOMAIN as
  BY SeqProperties, FunctionIsSeq

LEMMA BumpedSeq ==
    ASSUME NEW as \in Seq(AttemptRow)
    PROVE  /\ Bumped(as) \in Seq(AttemptRow) /\ Len(Bumped(as)) = Len(as)
           /\ Closed(as) \in Seq(AttemptRow) /\ Len(Closed(as)) = Len(as)
           /\ \A n, a : a \in AttemptRow =>
                 /\ [Bumped(as) EXCEPT ![n] = a] \in Seq(AttemptRow)
                 /\ Len([Bumped(as) EXCEPT ![n] = a]) = Len(as)
<1>1. \A i \in DOMAIN as : as[i] \in AttemptRow
  BY SeqProperties
<1>2. Bumped(as) \in [DOMAIN as -> AttemptRow]
  BY <1>1 DEF Bumped, AttemptRow
<1>3. Closed(as) \in [DOMAIN as -> AttemptRow]
  BY DEF Closed, AttemptRow
<1>4. \A n, a : a \in AttemptRow => [Bumped(as) EXCEPT ![n] = a] \in [DOMAIN as -> AttemptRow]
  BY <1>2
<1> QED
  BY <1>2, <1>3, <1>4, AttemptsSeq

\* What every step does to the rows.
RowsStep ==
    /\ cand' \in [Candidates -> Row]
    /\ attempts' \in [Candidates -> Seq(AttemptRow)]
    /\ \A c \in Candidates :
          /\ cand'[c].token <= Len(attempts'[c])
          /\ cand[c].invalidated => cand'[c].invalidated
          /\ cand[c].status # "absent" =>
                cand'[c].status # "absent" /\ cand'[c].key = cand[c].key

LEMMA OneRow ==
    ASSUME RowsInv, NEW c \in Candidates, NEW row \in Row, NEW as \in Seq(AttemptRow),
           cand' = [cand EXCEPT ![c] = row], attempts' = [attempts EXCEPT ![c] = as],
           row.token <= Len(as), cand[c].invalidated => row.invalidated,
           cand[c].status # "absent" => row.status # "absent" /\ row.key = cand[c].key
    PROVE  RowsStep
  BY DEF RowsStep, RowsInv

\* A row of which only another column changes.
LEMMA SameRows ==
    ASSUME RowsInv, UNCHANGED attempts, cand' \in [Candidates -> CandidateRow],
           \A c \in Candidates :
              /\ cand'[c].status = cand[c].status /\ cand'[c].token = cand[c].token
              /\ cand'[c].tries = cand[c].tries /\ cand'[c].key = cand[c].key
              /\ cand'[c].invalidated = cand[c].invalidated
              /\ cand'[c].scrubbed = cand[c].scrubbed
    PROVE  RowsStep
<1>1. \A c \in Candidates : cand[c] \in CandidateRow /\ RowOK(cand[c])
  BY DEF RowsInv, Row
<1>2. \A c \in Candidates : RowOK(cand'[c])
  BY <1>1 DEF RowOK
<1>3. cand' \in [Candidates -> Row]
  BY <1>2 DEF Row
<1> QED
  BY <1>3 DEF RowsStep, RowsInv

\* A token is a number of an attempt.
LEMMA ZeroToken ==
    ASSUME NEW as \in Seq(AttemptRow)
    PROVE  0 <= Len(as)
<1> DEFINE n == Len(as)
<1>1. n \in Nat
  BY SeqProperties
<1> HIDE DEF n
<1>2. 0 <= n
  BY <1>1
<1> QED
  BY <1>2 DEF n

----------------------------------------------------------------------------
(* The steps                                                               *)

\* The disjuncts of Next.
LEMMA NextCases ==
    ASSUME Next
    PROVE  \/ \E q \in Requests : Ask(q) \/ AskFails(q) \/ Retry(q)
           \/ \E c \in Candidates : Confirm(c) \/ Reject(c) \/ AnswerExpired(c) \/ KeepCurrent(c)
           \/ \E c \in Candidates, q \in Requests : AcceptCompeting(c, q)
           \/ \E k \in Keys : SourceGrows(k) \/ DeleteChat(k) \/ Discover(k)
           \/ \E scrub \in BOOLEAN : PurgeRead(scrub)
           \/ \E redact \in BOOLEAN : PurgeWrite(redact)
           \/ MemoryChanges
           \/ \E c \in Candidates : LeaseExpires(c)
           \/ \E w \in Workers : WorkerStep(w) \/ Crash(w)
           \/ \E w \in Workers, clock \in [Candidates -> Clock] : Sweep(w, clock)
  BY DEF Next, OwnerStep

\* A worker at work holds a claim.
LEMMA ClaimTypes ==
    ASSUME WorkersInv, NEW w \in Workers, work[w].stage # "idle"
    PROVE  ClaimOf(w) \in Candidates /\ NumberOf(w) \in Nat
  BY DEF WorkersInv, WorkerOK, ClaimOf, NumberOf, Claims

\* The worker's own attempt advances with the row.
LEMMA AdvanceStep ==
    ASSUME RowsInv, WorkersInv, NEW w \in Workers, work[w].stage # "idle",
           NEW r \in Row, NEW a \in AttemptRow, Advance(w, r, a),
           r.token = 0 \/ r.token = RowOf(w).token,
           RowOf(w).invalidated => r.invalidated,
           RowOf(w).status # "absent" => r.status # "absent" /\ r.key = RowOf(w).key
    PROVE  RowsStep
<1> DEFINE c  == ClaimOf(w)
           as == [Bumped(attempts[c]) EXCEPT ![NumberOf(w)] = a]
<1>1. c \in Candidates
  BY ClaimTypes
<1>2. attempts[c] \in Seq(AttemptRow) /\ cand[c].token <= Len(attempts[c])
  BY <1>1 DEF RowsInv
<1>3. as \in Seq(AttemptRow) /\ Len(as) = Len(attempts[c])
  BY <1>2, BumpedSeq
<1>4. cand' = [cand EXCEPT ![c] = r] /\ attempts' = [attempts EXCEPT ![c] = as]
  BY DEF Advance
<1>5. r.token <= Len(as)
  BY <1>2, <1>3, ZeroToken DEF RowOf
<1> HIDE DEF as, c
<1> QED
  BY <1>1, <1>3, <1>4, <1>5, OneRow DEF RowOf, c

\* A row of its own, and its attempts fall behind.
LEMMA BumpedStep ==
    ASSUME RowsInv, NEW c \in Candidates, NEW r \in Row,
           cand' = [cand EXCEPT ![c] = r], attempts' = BumpedOf({c}),
           r.token = 0 \/ r.token = cand[c].token, cand[c].invalidated => r.invalidated,
           cand[c].status # "absent" => r.status # "absent" /\ r.key = cand[c].key
    PROVE  RowsStep
<1>1. attempts \in [Candidates -> Seq(AttemptRow)] /\ cand[c].token <= Len(attempts[c])
  BY DEF RowsInv
<1>2. Bumped(attempts[c]) \in Seq(AttemptRow) /\ Len(Bumped(attempts[c])) = Len(attempts[c])
  BY <1>1, BumpedSeq
<1>3. attempts' = [attempts EXCEPT ![c] = Bumped(attempts[c])]
  BY <1>1 DEF BumpedOf
<1>4. r.token <= Len(Bumped(attempts[c]))
  BY <1>1, <1>2, ZeroToken
<1> QED
  BY <1>2, <1>3, <1>4, OneRow

\* A worker that writes through its live claim, or not at all.
LEMMA WorkerRows ==
    ASSUME RowsInv, WorkersInv, NEW w \in Workers,
           \/ PersistReading(w) \/ PersistComparison(w) \/ EpistemicRejection(w)
           \/ PersistReconciliation(w) \/ PersistPolicy(w) \/ PolicyBlock(w)
    PROVE  RowsStep
<1>0. ASSUME UNCHANGED <<cand, attempts>> PROVE RowsStep
  BY <1>0 DEF RowsStep, RowsInv
<1>1. work[w].stage # "idle"
  BY DEF PersistReading, PersistComparison, EpistemicRejection, PersistReconciliation,
     PersistPolicy, PolicyBlock, Persist
<1>2. CASE ~LiveClaim(w)
  BY <1>0, <1>2 DEF PersistReading, PersistComparison, EpistemicRejection,
     PersistReconciliation, PersistPolicy, PolicyBlock, Persist, Conclude
<1>3. CASE LiveClaim(w)
  <2>1. RowOf(w) \in Row /\ ~RowOf(w).invalidated
    BY <1>1, <1>3, ClaimTypes DEF RowsInv, RowOf, LiveClaim, Purged
  <2>2. CASE Advance(w, RowOf(w), "current")
    BY <1>1, <2>1, <2>2, AdvanceStep DEF AttemptRow
  <2>3. CASE Advance(w, [RowOf(w) EXCEPT !.verified = work[w].source], "current")
    <3> DEFINE r == [RowOf(w) EXCEPT !.verified = work[w].source]
    <3>1. work[w].source \in BOOLEAN
      BY DEF WorkersInv, WorkerState
    <3>2. r \in CandidateRow /\ RowOK(r)
      BY <2>1, <3>1 DEF Row, RowOK, CandidateRow
    <3>3. r.token = RowOf(w).token /\ r.status = RowOf(w).status /\ r.key = RowOf(w).key
      BY <2>1 DEF Row, CandidateRow
    <3>4. r \in Row /\ "current" \in AttemptRow
      BY <3>2 DEF Row, AttemptRow
    <3>5. Advance(w, r, "current")
      BY <2>3
    <3> HIDE DEF r
    <3> QED
      BY <1>1, <2>1, <3>3, <3>4, <3>5, AdvanceStep
  <2>4. ASSUME NEW s \in {"discarded", "blocked"}, Advance(w, Decided(RowOf(w), s), "closed")
        PROVE  RowsStep
    <3>1. s \in {"pending", "awaiting_owner"} \cup Terminal /\ "closed" \in AttemptRow
          /\ s # "absent" /\ s # "awaiting_owner" /\ s # "invalidated"
      BY DEF Terminal, AttemptRow
    <3> QED
      BY <1>1, <2>1, <2>4, <3>1, UnleasedRow, AdvanceStep
  <2> QED
    BY <1>3, <2>2, <2>3, <2>4 DEF PersistReading, PersistComparison, EpistemicRejection,
       PersistReconciliation, PersistPolicy, PolicyBlock, Persist, Conclude
<1> QED
  BY <1>2, <1>3

\* What a publication and its retries do to the rows.
LEMMA PublishRows ==
    ASSUME RowsInv, WorkersInv, NEW w \in Workers,
           \/ PublishSourceConflict(w) \/ PublishRetained(w) \/ PublishAwaitOwner(w)
           \/ PublishConflict(w) \/ PublishBlocked(w) \/ PublishEquivalent(w)
           \/ PublishMemory(w) \/ RequeueAfterConflict(w)
    PROVE  RowsStep
<1>0. ASSUME UNCHANGED <<cand, attempts>> PROVE RowsStep
  BY <1>0 DEF RowsStep, RowsInv
<1>1. work[w].stage # "idle"
  BY DEF PublishSourceConflict, PublishRetained, PublishAwaitOwner, PublishConflict,
     PublishBlocked, PublishEquivalent, PublishMemory, PublishEnds, Publishing,
     RequeueAfterConflict
<1>2. RowOf(w) \in Row
  BY <1>1, ClaimTypes DEF RowsInv, RowOf
<1>3. ASSUME MayPublish(w) PROVE ~RowOf(w).invalidated
  BY <1>3 DEF MayPublish, Purged
<1>a. "closed" \in AttemptRow
  BY DEF AttemptRow
<1>4. ASSUME NEW s \in {"pending", "awaiting_owner", "discarded", "blocked", "reconciled"},
             s = "awaiting_owner" => ~RowOf(w).invalidated,
             Advance(w, Decided(RowOf(w), s), "closed") \/ Advance(w, Unleased(RowOf(w), s), "closed")
      PROVE  RowsStep
  <2>1. s \in {"pending", "awaiting_owner"} \cup Terminal /\ s # "absent" /\ s # "invalidated"
    BY DEF Terminal
  <2> QED
    BY <1>1, <1>2, <1>a, <1>4, <2>1, UnleasedRow, AdvanceStep
<1>5. CASE PublishSourceConflict(w)
  BY <1>4, <1>5 DEF PublishSourceConflict
<1>6. CASE PublishRetained(w)
  <2> DEFINE r == [Decided(RowOf(w), "retained_short_term") EXCEPT !.tries = 0,
                                                                  !.retentions = @ + 1]
  <2>1. RowOf(w) \in CandidateRow /\ ~RowOf(w).invalidated /\ RowOK(RowOf(w))
    BY <1>2, <1>3, <1>6 DEF PublishRetained, Row
  <2>2. RowOf(w).retentions + 1 \in 0..MaxRetentions /\ 0 \in 0..MaxAttempts
    BY <1>6, <2>1, MemoryAssumption DEF PublishRetained, CandidateRow
  <2>3. /\ r.status = "retained_short_term" /\ r.tries = 0 /\ r.token = 0
        /\ r.invalidated = RowOf(w).invalidated /\ r.scrubbed = RowOf(w).scrubbed
        /\ r.key = RowOf(w).key
    BY <2>1 DEF Decided, Unleased, CandidateRow
  <2>4. r \in CandidateRow
    BY <2>1, <2>2 DEF Decided, Unleased, CandidateRow, Reconcilable
  <2>5. Advance(w, r, "closed")
    BY <1>6 DEF PublishRetained
  <2> HIDE DEF r
  <2>6. r \in Row
    BY <2>1, <2>3, <2>4 DEF Row, RowOK
  <2> QED
    BY <1>1, <1>a, <2>1, <2>3, <2>5, <2>6, AdvanceStep
<1>7. CASE PublishAwaitOwner(w) \/ PublishConflict(w)
  BY <1>3, <1>4, <1>7 DEF PublishAwaitOwner, PublishConflict
<1>8. CASE PublishBlocked(w) \/ PublishEquivalent(w) \/ PublishMemory(w)
  BY <1>4, <1>8 DEF PublishBlocked, PublishEquivalent, PublishMemory, PublishEnds
<1>9. CASE RequeueAfterConflict(w)
  BY <1>0, <1>4, <1>9 DEF RequeueAfterConflict
<1> QED
  BY <1>5, <1>6, <1>7, <1>8, <1>9

\* A publication that finds the candidate taken or invalidated.
LEMMA RefusedRows ==
    ASSUME RowsInv, WorkersInv, NEW w \in Workers, PublishRefused(w) \/ PublishInvalidated(w)
    PROVE  RowsStep
<1> DEFINE c == ClaimOf(w)
           r == RowOf(w)
           n == NumberOf(w)
<1>1. work[w].stage # "idle"
  BY DEF PublishRefused, PublishInvalidated, Publishing
<1>2. c \in Candidates /\ r \in Row /\ r = cand[c]
  BY <1>1, ClaimTypes DEF RowsInv, RowOf
<1>3. attempts[c] \in Seq(AttemptRow) /\ cand[c].token <= Len(attempts[c])
      /\ attempts \in [Candidates -> Seq(AttemptRow)] /\ cand \in [Candidates -> Row]
  BY <1>2 DEF RowsInv
<1>4. ASSUME NEW a \in AttemptRow \cup {attempts[c][n]}
      PROVE  /\ [attempts[c] EXCEPT ![n] = a] \in Seq(AttemptRow)
             /\ Len([attempts[c] EXCEPT ![n] = a]) = Len(attempts[c])
  <2>1. [attempts[c] EXCEPT ![n] = a] \in [DOMAIN attempts[c] -> AttemptRow]
    BY <1>3, SeqProperties
  <2> QED
    BY <1>3, <2>1, AttemptsSeq
<1> HIDE DEF c, r, n
<1>5. CASE PublishRefused(w)
  <2>1. PICK a \in AttemptRow \cup {attempts[c][n]} :
          attempts' = [attempts EXCEPT ![c] = [attempts[c] EXCEPT ![n] = a]]
    BY <1>5 DEF PublishRefused, AttemptRow, c, n
  <2>2. cand' = [cand EXCEPT ![c] = r]
    BY <1>2, <1>3, <1>5 DEF PublishRefused
  <2> QED
    BY <1>2, <1>3, <1>4, <2>1, <2>2, OneRow
<1>6. CASE PublishInvalidated(w)
  <2> DEFINE row == IF Purged(r)
                    THEN IF r.token = n THEN Unleased(r, "invalidated") ELSE r
                    ELSE [Decided(r, "invalidated") EXCEPT !.invalidated = TRUE]
  <2>1. cand' = [cand EXCEPT ![c] = row]
        /\ attempts' = [attempts EXCEPT ![c] = [attempts[c] EXCEPT ![n] = "closed"]]
    BY <1>6 DEF PublishInvalidated, c, r, n
  <2>2. r \in CandidateRow /\ RowOK(r)
    BY <1>2 DEF Row
  <2>3. CASE Purged(r)
    <3>1. r.invalidated
      BY <2>2, <2>3 DEF Purged, RowOK
    <3>2. /\ row \in Row
          /\ row.token = 0 \/ row.token = r.token
          /\ row.invalidated /\ row.key = r.key
          /\ r.status # "absent" => row.status # "absent"
      BY <1>2, <2>3, <3>1, UnleasedRow DEF Terminal
    <3>3. row.token <= Len([attempts[c] EXCEPT ![n] = "closed"]) /\ "closed" \in AttemptRow
          /\ row \in Row
      BY <1>2, <1>3, <1>4, <3>2, ZeroToken DEF AttemptRow
    <3> HIDE DEF row
    <3> QED
      BY <1>2, <1>4, <2>1, <3>2, <3>3, OneRow
  <2>4. CASE ~Purged(r)
    <3>1. row = [Decided(r, "invalidated") EXCEPT !.invalidated = TRUE]
      BY <2>4
    <3>2. /\ row \in CandidateRow /\ row.status = "invalidated" /\ row.invalidated
          /\ row.token = 0 /\ row.key = r.key
      BY <2>2, <3>1 DEF CandidateRow, Decided, Unleased, Terminal
    <3>3. row \in Row
      BY <1>2, <3>2, InvalidatedRow
    <3>4. row.token <= Len([attempts[c] EXCEPT ![n] = "closed"]) /\ "closed" \in AttemptRow
      BY <1>3, <1>4, <3>2, ZeroToken DEF AttemptRow
    <3> HIDE DEF row
    <3> QED
      BY <1>2, <1>4, <2>1, <3>2, <3>3, <3>4, OneRow
  <2> QED
    BY <2>3, <2>4
<1> QED
  BY <1>5, <1>6

\* A release writes back the leased row it has read: requeued, or failed.
LEMMA ReleasedRow ==
    ASSUME NEW now \in Row, NEW seen \in Row, seen.status = "leased",
           NEW s \in {"pending", "failed"}, NEW new \in {Unleased(seen, s), Decided(seen, s)}
    PROVE  /\ Flushed(now, seen, new) \in Row /\ Flushed(now, seen, new).status = s
           /\ Flushed(now, seen, new).token = 0 /\ Flushed(now, seen, new).key = now.key
           /\ Flushed(now, seen, new).invalidated = now.invalidated
<1> DEFINE row == Flushed(now, seen, new)
<1>1. now \in CandidateRow /\ seen \in CandidateRow /\ RowOK(now) /\ RowOK(seen)
  BY DEF Row
<1>2. /\ new \in CandidateRow /\ new.status = s /\ new.token = 0 /\ new.key = seen.key
      /\ new.invalidated = seen.invalidated /\ new.scrubbed = seen.scrubbed
      /\ new.tries = seen.tries
  <2>1. CASE new = Unleased(seen, s)
    BY <1>1, <2>1 DEF Unleased, CandidateRow, Reconcilable, Terminal
  <2>2. CASE new = Decided(seen, s)
    BY <1>1, <2>2 DEF Unleased, Decided, CandidateRow, Reconcilable, Terminal
  <2> QED
    BY <2>1, <2>2
<1>3. seen.token # 0
  BY <1>1 DEF RowOK, Reconcilable
<1>4. /\ row \in CandidateRow /\ row.status = s /\ row.token = 0 /\ row.tries = now.tries
      /\ row.key = now.key /\ row.invalidated = now.invalidated /\ row.scrubbed = now.scrubbed
  BY <1>1, <1>2, <1>3, FlushedRow
<1> HIDE DEF row
<1>5. RowOK(row)
  BY <1>1, <1>4 DEF RowOK, Reconcilable, Terminal
<1> QED
  BY <1>4, <1>5 DEF Row, row

\* A recomputed state_version leaves the attempts their numbers.
LEMMA RecomputedSeq ==
    ASSUME RowsInv, NEW c \in Candidates, NEW K
    PROVE  /\ Recomputed(c, K) \in Seq(AttemptRow)
           /\ Len(Recomputed(c, K)) = Len(attempts[c])
           /\ \A n : /\ [Recomputed(c, K) EXCEPT ![n] = "closed"] \in Seq(AttemptRow)
                     /\ Len([Recomputed(c, K) EXCEPT ![n] = "closed"]) = Len(attempts[c])
<1>1. attempts[c] \in Seq(AttemptRow)
  BY DEF RowsInv
<1>2. Recomputed(c, K) \in [DOMAIN attempts[c] -> AttemptRow]
  BY Zenon DEF Recomputed, AttemptRow
<1>3. \A n : [Recomputed(c, K) EXCEPT ![n] = "closed"] \in [DOMAIN attempts[c] -> AttemptRow]
  BY <1>2 DEF AttemptRow
<1> QED
  BY <1>1, <1>2, <1>3, AttemptsSeq

LEMMA ReleaseRows ==
    ASSUME RowsInv, WorkersInv, NEW w \in Workers, ReleaseWrite(w)
    PROVE  RowsStep
<1> DEFINE c == ClaimOf(w)
           seen == work[w].seen
           released == IF seen.tries >= MaxAttempts THEN Decided(seen, "failed")
                       ELSE Unleased(seen, "pending")
           row == Flushed(cand[c], seen, released)
<1>1. c \in Candidates /\ seen \in Row /\ seen.status = "leased" /\ cand[c] \in Row
  BY ClaimTypes DEF ReleaseWrite, WorkersInv, WorkerOK, RowsInv
<1>2. /\ row \in Row /\ row.status # "absent" /\ row.token = 0 /\ row.key = cand[c].key
      /\ row.invalidated = cand[c].invalidated
  BY <1>1, ReleasedRow
<1>3. CASE UNCHANGED <<cand, attempts>>
  BY <1>3 DEF RowsStep, RowsInv
<1>4. CASE ~UNCHANGED <<cand, attempts>>
  <2>1. cand' = [cand EXCEPT ![c] = row] /\
        \E K : attempts' = [attempts EXCEPT ![c] =
                              [Recomputed(c, K) EXCEPT ![NumberOf(w)] = "closed"]]
    BY <1>4 DEF ReleaseWrite
  <2>2. PICK K : attempts' = [attempts EXCEPT ![c] =
                               [Recomputed(c, K) EXCEPT ![NumberOf(w)] = "closed"]]
    BY <2>1
  <2> DEFINE as == [Recomputed(c, K) EXCEPT ![NumberOf(w)] = "closed"]
  <2>3. as \in Seq(AttemptRow)
    BY <1>1, RecomputedSeq
  <2>4. row.token <= Len(as)
    BY <1>2, <2>3, ZeroToken
  <2> HIDE DEF as, row, c
  <2> QED
    BY <1>1, <1>2, <2>1, <2>2, <2>3, <2>4, OneRow DEF as
<1> QED
  BY <1>3, <1>4

\* A purge writes back rows it has read: whatever happened to the candidate since,
\* the result is a row of the table.
LEMMA PurgedRow ==
    ASSUME NEW now \in Row, NEW seen \in Row, seen.invalidated => now.invalidated,
           NEW scrub \in BOOLEAN
    PROVE  LET row == Flushed(now, seen, Invalidated(seen, scrub))
           IN  /\ row \in Row /\ row.invalidated /\ row.key = now.key
               /\ row.token = 0 \/ row.token = now.token
               /\ now.status # "absent" => row.status # "absent"
<1> DEFINE new == Invalidated(seen, scrub)
           row == Flushed(now, seen, new)
<1>1. now \in CandidateRow /\ seen \in CandidateRow /\ RowOK(now) /\ RowOK(seen)
  BY DEF Row
<1>2. /\ new \in CandidateRow /\ new.status = "invalidated" /\ new.token = 0
      /\ new.key = seen.key /\ new.invalidated = TRUE /\ new.tries = seen.tries
      /\ new.scrubbed = IF scrub THEN TRUE ELSE seen.scrubbed
  BY <1>1 DEF Invalidated, CandidateRow, Terminal
<1> HIDE DEF new
<1>3. /\ row \in CandidateRow
      /\ row.status = IF seen.status = "invalidated" THEN now.status ELSE "invalidated"
      /\ row.token = IF seen.token = 0 THEN now.token ELSE 0
      /\ row.tries = now.tries /\ row.key = now.key
      /\ row.invalidated = IF seen.invalidated THEN now.invalidated ELSE TRUE
  <2>1. /\ row \in CandidateRow /\ row.tries = now.tries /\ row.key = now.key
        /\ row.status = IF seen.status = "invalidated" THEN now.status ELSE "invalidated"
        /\ row.token = IF seen.token = 0 THEN now.token ELSE 0
    BY <1>1, <1>2, FlushedRow
  <2>2. row.invalidated = IF new.invalidated = seen.invalidated THEN now.invalidated
                          ELSE new.invalidated
    BY <1>1, <1>2, FlushedRow
  <2>3. seen.invalidated \in BOOLEAN
    BY <1>1 DEF CandidateRow
  <2>4. CASE seen.invalidated = TRUE
    BY <1>2, <2>1, <2>2, <2>4
  <2>5. CASE seen.invalidated = FALSE
    BY <1>2, <2>1, <2>2, <2>5
  <2> QED
    BY <2>3, <2>4, <2>5
<1> HIDE DEF row
<1>4. row.invalidated
  BY <1>3
<1>5. CASE seen.status # "invalidated"
  <2>1. row.status = "invalidated"
    BY <1>3, <1>5
  <2>2. row \in Row
    BY <1>3, <1>4, <2>1, InvalidatedRow
  <2>3. row.token = 0 \/ row.token = now.token
    BY <1>3
  <2> QED
    BY <1>3, <1>4, <2>1, <2>2, <2>3 DEF row, new
<1>6. CASE seen.status = "invalidated"
  <2>1. now.invalidated
    BY <1>1, <1>6 DEF RowOK
  <2>2. row.status = now.status /\ now.status \in Terminal \cup {"pending"}
    BY <1>1, <1>3, <1>6, <2>1 DEF RowOK
  <2>3. row.token = 0 \/ row.token = now.token
    BY <1>3
  <2>4. RowOK(row)
    BY <1>1, <1>3, <1>4, <2>2, <2>3 DEF RowOK, Reconcilable, Terminal
  <2> QED
    BY <1>3, <1>4, <2>2, <2>3, <2>4 DEF Row, row, new
<1> QED
  BY <1>5, <1>6

LEMMA SomeRows ==
    ASSUME RowsInv, cand' \in [Candidates -> Row],
           attempts' \in [Candidates -> Seq(AttemptRow)],
           \A c \in Candidates :
              /\ Len(attempts'[c]) = Len(attempts[c])
              /\ cand'[c].token = 0 \/ cand'[c].token = cand[c].token
              /\ cand[c].invalidated => cand'[c].invalidated
              /\ cand[c].status # "absent" =>
                    cand'[c].status # "absent" /\ cand'[c].key = cand[c].key
    PROVE  RowsStep
<1> SUFFICES ASSUME NEW c \in Candidates PROVE cand'[c].token <= Len(attempts'[c])
  BY DEF RowsStep
<1>1. attempts[c] \in Seq(AttemptRow) /\ cand[c].token <= Len(attempts[c])
  BY DEF RowsInv
<1>2. 0 <= Len(attempts[c])
  BY <1>1, ZeroToken
<1> QED
  BY <1>1, <1>2

\* The attempts of some candidates fall behind.
LEMMA BumpedOfSeq ==
    ASSUME RowsInv, NEW S
    PROVE  /\ BumpedOf(S) \in [Candidates -> Seq(AttemptRow)]
           /\ \A c \in Candidates : Len(BumpedOf(S)[c]) = Len(attempts[c])
<1>1. \A c \in Candidates : attempts[c] \in Seq(AttemptRow)
  BY DEF RowsInv
<1>2. \A c \in Candidates : Bumped(attempts[c]) \in Seq(AttemptRow)
                           /\ Len(Bumped(attempts[c])) = Len(attempts[c])
  BY <1>1, BumpedSeq
<1> QED
  BY <1>1, <1>2 DEF BumpedOf

LEMMA PurgeRows ==
    ASSUME RowsInv, ReadInv, NEW redact \in BOOLEAN, PurgeWrite(redact)
    PROVE  RowsStep
<1> DEFINE S == DOMAIN purge.rows
           K == IF redact THEN {cand[c].key : c \in S} ELSE {}
           row(c) == IF c \in S
                     THEN Flushed(cand[c], purge.rows[c], Invalidated(purge.rows[c], purge.scrub))
                     ELSE cand[c]
           written(c) == [row(c) EXCEPT !.verified = @ /\ row(c).key \notin K]
<1>1. /\ S \subseteq Candidates /\ purge.scrub \in BOOLEAN
      /\ \A c \in S : purge.rows[c] \in Row /\ (purge.rows[c].invalidated => cand[c].invalidated)
  BY DEF ReadInv, PurgeWrite
<1>2. \A c \in Candidates : cand[c] \in Row /\ attempts[c] \in Seq(AttemptRow)
  BY DEF RowsInv
<1>3. cand' = [c \in Candidates |-> written(c)]
  <2>1. \A c \in Candidates :
          (IF c \in S THEN Flushed(cand[c], purge.rows[c],
                 [d \in S |-> Invalidated(purge.rows[d], purge.scrub)][c]) ELSE cand[c]) = row(c)
    OBVIOUS
  <2> HIDE DEF row
  <2> QED
    BY <2>1 DEF PurgeWrite, Unverified
<1>4. ASSUME NEW c \in Candidates
      PROVE  /\ row(c) \in Row /\ row(c).key = cand[c].key
             /\ row(c).token = 0 \/ row(c).token = cand[c].token
             /\ cand[c].invalidated => row(c).invalidated
             /\ cand[c].status # "absent" => row(c).status # "absent"
  <2>1. CASE c \in S
    BY <1>1, <1>2, <2>1, PurgedRow
  <2>2. CASE c \notin S
    BY <1>2, <2>2
  <2> QED
    BY <2>1, <2>2
<1> HIDE DEF row
<1>5. ASSUME NEW c \in Candidates
      PROVE  /\ written(c) \in Row /\ written(c).key = row(c).key
             /\ written(c).token = row(c).token /\ written(c).invalidated = row(c).invalidated
             /\ written(c).status = row(c).status
  <2>1. row(c) \in CandidateRow /\ RowOK(row(c))
    BY <1>4 DEF Row
  <2>2. /\ written(c) \in CandidateRow /\ written(c).key = row(c).key
        /\ written(c).token = row(c).token /\ written(c).invalidated = row(c).invalidated
        /\ written(c).status = row(c).status /\ written(c).tries = row(c).tries
        /\ written(c).scrubbed = row(c).scrubbed
    BY <2>1 DEF CandidateRow
  <2> HIDE DEF written
  <2>3. RowOK(written(c))
    BY <2>1, <2>2 DEF RowOK
  <2> QED
    BY <2>2, <2>3 DEF Row
<1>6. /\ attempts' \in [Candidates -> Seq(AttemptRow)]
      /\ \A c \in Candidates : Len(attempts'[c]) = Len(attempts[c])
  <2>1. CASE purge.scrub
    <3>1. attempts' = [c \in Candidates |-> IF c \in S THEN Closed(attempts[c]) ELSE attempts[c]]
      BY <2>1 DEF PurgeWrite
    <3>2. \A c \in Candidates : Closed(attempts[c]) \in Seq(AttemptRow)
                               /\ Len(Closed(attempts[c])) = Len(attempts[c])
      BY <1>2, BumpedSeq
    <3> QED
      BY <1>2, <3>1, <3>2
  <2>2. CASE ~purge.scrub
    <3>1. PICK carried : attempts' = [c \in Candidates |->
                    IF c \in S /\ ~purge.rows[c].invalidated THEN Recomputed(c, carried)
                    ELSE attempts[c]]
      BY <2>2 DEF PurgeWrite
    <3>2. \A c \in Candidates : Recomputed(c, carried) \in Seq(AttemptRow)
                               /\ Len(Recomputed(c, carried)) = Len(attempts[c])
      BY RecomputedSeq
    <3> QED
      BY <1>2, <3>1, <3>2
  <2> QED
    BY <2>1, <2>2
<1> HIDE DEF written
<1>7. cand' \in [Candidates -> Row] /\ \A c \in Candidates : cand'[c] = written(c)
  BY <1>3, <1>5
<1> QED
  BY <1>4, <1>5, <1>6, <1>7, SomeRows

LEMMA SweepRows ==
    ASSUME RowsInv, NEW w \in Workers, NEW clock \in [Candidates -> Clock], Sweep(w, clock)
    PROVE  RowsStep
<1>0. /\ cand' = [c \in Candidates |-> SweptRow(c, clock[c])]
      /\ attempts' = [c \in Candidates |-> SweptAttempts(c, clock[c])]
  BY DEF Sweep
<1> SUFFICES ASSUME NEW c \in Candidates
             PROVE  LET r == SweptRow(c, clock[c])
                        as == SweptAttempts(c, clock[c])
                    IN  /\ r \in Row /\ as \in Seq(AttemptRow) /\ r.token <= Len(as)
                        /\ cand[c].invalidated => r.invalidated
                        /\ cand[c].status # "absent" => r.status # "absent" /\ r.key = cand[c].key
  BY <1>0 DEF RowsStep
<1> DEFINE r == cand[c]
           t == clock[c]
<1>1. r \in Row /\ r \in CandidateRow /\ RowOK(r) /\ attempts[c] \in Seq(AttemptRow)
      /\ r.token <= Len(attempts[c])
  BY DEF RowsInv, Row
<1>2. Len(attempts[c]) \in Nat
  BY <1>1, SeqProperties
<1>3. ASSUME NEW as, as \in {Closed(attempts[c]), Bumped(attempts[c]), attempts[c]}
      PROVE  /\ as \in Seq(AttemptRow) /\ Len(as) = Len(attempts[c])
             /\ Append(as, "current") \in Seq(AttemptRow)
             /\ Len(Append(as, "current")) = Len(attempts[c]) + 1
  <2>1. as \in Seq(AttemptRow) /\ Len(as) = Len(attempts[c])
    BY <1>1, <1>3, BumpedSeq
  <2>2. "current" \in AttemptRow
    BY DEF AttemptRow
  <2>3. Append(as, "current") \in Seq(AttemptRow) /\ Len(Append(as, "current")) = Len(as) + 1
    BY <2>1, <2>2, SeqAppend
  <2> QED
    BY <2>1, <2>3
<1>4. CASE NewlyLeased(c, t)
  <2>1. Eligible(c, t) /\ EvidenceLive(r)
    BY <1>4 DEF NewlyLeased
  <2>2. ~r.invalidated /\ ~r.scrubbed /\ r.status # "absent" /\ r.tries + 1 \in 0..MaxAttempts
    BY <1>1, <2>1, MemoryAssumption DEF Eligible, Purged, Reclaimable, RowOK, CandidateRow
  <2>3. /\ ~(r.status = "awaiting_owner" /\ LapsedReview(c, t))
        /\ ~(r.status = "retained_short_term" /\ t = "lapsed") /\ ~Exhausted(c, t)
    <3>1. r.tries \in Nat /\ MaxAttempts \in Nat
      BY <1>1, MemoryAssumption DEF CandidateRow
    <3> QED
      BY <2>1, <3>1 DEF Eligible, Exhausted, Reclaimable
  <2>4. SweptRow(c, t) = [r EXCEPT !.status = "leased", !.token = Len(attempts[c]) + 1,
                                   !.overdue = FALSE, !.tries = @ + 1]
    BY <2>1, <2>3, Zenon DEF SweptRow
  <2>5. PICK as \in {Closed(attempts[c]), Bumped(attempts[c]), attempts[c]} :
          SweptAttempts(c, t) = Append(as, "current")
    <3> DEFINE late == \/ Exhausted(c, t)
                       \/ (Eligible(c, t) /\ (cand[c].status = "leased" \/ ~EvidenceLive(cand[c])))
               kept == CASE late -> Closed(attempts[c])
                         [] ~late /\ SweptRow(c, t) # cand[c] -> Bumped(attempts[c])
                         [] OTHER -> attempts[c]
    <3>1. SweptAttempts(c, t) = Append(kept, "current")
      BY <1>4 DEF SweptAttempts
    <3> HIDE DEF late
    <3>2. kept \in {Closed(attempts[c]), Bumped(attempts[c]), attempts[c]}
      BY Zenon
    <3> QED
      BY <3>1, <3>2
  <2>6. /\ SweptAttempts(c, t) \in Seq(AttemptRow)
        /\ Len(SweptAttempts(c, t)) = Len(attempts[c]) + 1
    BY <1>3, <2>5
  <2>7. /\ SweptRow(c, t) \in CandidateRow /\ SweptRow(c, t).token = Len(attempts[c]) + 1
        /\ SweptRow(c, t).status = "leased" /\ SweptRow(c, t).key = r.key
        /\ SweptRow(c, t).invalidated = r.invalidated /\ SweptRow(c, t).scrubbed = r.scrubbed
    <3>1. Len(attempts[c]) + 1 \in Nat
      BY <1>2
    <3>2. SweptRow(c, t) \in CandidateRow
      BY <1>1, <2>2, <2>4, <3>1 DEF CandidateRow, Reconcilable
    <3> QED
      BY <1>1, <2>4, <3>2 DEF CandidateRow
  <2>8. SweptRow(c, t) \in Row
    BY <1>2, <2>2, <2>7 DEF Row, RowOK
  <2> QED
    BY <1>2, <2>2, <2>6, <2>7, <2>8
<1>5. CASE ~NewlyLeased(c, t)
  <2>1. SweptAttempts(c, t) \in {Closed(attempts[c]), Bumped(attempts[c]), attempts[c]}
    <3> DEFINE late == \/ Exhausted(c, t)
                       \/ (Eligible(c, t) /\ (cand[c].status = "leased" \/ ~EvidenceLive(cand[c])))
               kept == CASE late -> Closed(attempts[c])
                         [] ~late /\ SweptRow(c, t) # cand[c] -> Bumped(attempts[c])
                         [] OTHER -> attempts[c]
    <3>1. SweptAttempts(c, t) = kept
      BY <1>5 DEF SweptAttempts
    <3> HIDE DEF late
    <3>2. kept \in {Closed(attempts[c]), Bumped(attempts[c]), attempts[c]}
      BY Zenon
    <3> QED
      BY <3>1, <3>2
  <2>2. /\ SweptAttempts(c, t) \in Seq(AttemptRow)
        /\ Len(SweptAttempts(c, t)) = Len(attempts[c])
    BY <1>3, <2>1
  <2> DEFINE gone == [Ended(r, "invalidated") EXCEPT !.invalidated = TRUE]
  <2>3. SweptRow(c, t) \in {Ended(r, "expired"), Ended(r, "failed"), gone, r}
    <3>1. ~(Eligible(c, t) /\ EvidenceLive(r))
      BY <1>5 DEF NewlyLeased
    <3> QED
      BY <3>1, Zenon DEF SweptRow
  <2>4. \A row \in {Ended(r, "expired"), Ended(r, "failed"), r} :
          /\ row \in Row /\ (row.token = 0 \/ row.token = r.token)
          /\ row.invalidated = r.invalidated /\ row.key = r.key
          /\ r.status # "absent" => row.status # "absent"
    BY <1>1, UnleasedRow DEF Terminal
  <2>5. /\ gone \in CandidateRow /\ gone.status = "invalidated" /\ gone.invalidated
        /\ gone.token = 0 /\ gone.key = r.key
    BY <1>1 DEF Ended, CandidateRow, Terminal
  <2> HIDE DEF gone
  <2>6. gone \in Row
    BY <1>1, <2>5, InvalidatedRow
  <2>7. SweptRow(c, t).token = 0 \/ SweptRow(c, t).token = r.token
    BY <2>3, <2>4, <2>5
  <2>8. SweptRow(c, t).token <= Len(attempts[c])
    BY <1>1, <2>7, ZeroToken
  <2> QED
    BY <2>2, <2>3, <2>4, <2>5, <2>6, <2>8
<1> QED
  BY <1>4, <1>5

\* The row an intake finds or makes.
LEMMA EnqueuedRows ==
    ASSUME RowsInv, NEW k \in Keys, NEW c \in Target(k)
    PROVE  /\ c \in Candidates /\ Enqueued(c, k) \in [Candidates -> Row]
           /\ Enqueued(c, k)[c].key = k /\ Enqueued(c, k)[c].status \in Reconcilable
           /\ \A d \in Candidates :
                 /\ Enqueued(c, k)[d].token = 0 \/ Enqueued(c, k)[d].token = cand[d].token
                 /\ Enqueued(c, k)[d].invalidated = cand[d].invalidated
                 /\ d # c => Enqueued(c, k)[d] = cand[d]
                 /\ cand[d].status # "absent" => Enqueued(c, k)[d] = cand[d]
<1> DEFINE new == [Absent EXCEPT !.status = "pending", !.key = k]
<1>1. c \in Candidates /\ (c \in Holders(k) \/ cand[c].status = "absent")
  BY DEF Target, Holders
<1>2. \A d \in Candidates : cand[d] \in CandidateRow /\ RowOK(cand[d])
  BY DEF RowsInv, Row
<1>3. 0 \in 0..MaxAttempts /\ 0 \in 0..MaxRetentions
  BY MemoryAssumption
<1>4. /\ new \in CandidateRow /\ new.status = "pending" /\ new.key = k /\ new.token = 0
      /\ new.invalidated = FALSE /\ new.scrubbed = FALSE /\ new.tries = 0
  BY <1>3 DEF CandidateRow, Absent, Reconcilable
<1> HIDE DEF new
<1>5. new \in Row
  BY <1>4 DEF Row, RowOK, Reconcilable
<1>6. CASE c \in Holders(k)
  <2>1. Enqueued(c, k) = cand
    BY <1>6 DEF Enqueued
  <2>2. cand[c].key = k /\ cand[c].status \in Reconcilable
    BY <1>6 DEF Holders
  <2> QED
    BY <1>1, <2>1, <2>2 DEF RowsInv
<1>7. CASE c \notin Holders(k)
  <2>1. Enqueued(c, k) = [cand EXCEPT ![c] = new] /\ cand[c].status = "absent"
    BY <1>1, <1>7 DEF Enqueued, new
  <2>2. cand[c].invalidated = FALSE
    BY <1>1, <1>2, <2>1 DEF RowOK, Terminal, CandidateRow
  <2>3. "pending" \in Reconcilable
    BY DEF Reconcilable
  <2> QED
    BY <1>1, <1>4, <1>5, <2>1, <2>2, <2>3 DEF RowsInv
<1> QED
  BY <1>6, <1>7

LEMMA IntakeRows ==
    ASSUME RowsInv, NEW k \in Keys, NEW c \in Target(k), cand' = Enqueued(c, k),
           UNCHANGED attempts
    PROVE  RowsStep
  BY EnqueuedRows, SomeRows DEF RowsInv

\* What the owner's answers do to the rows.
LEMMA AnswerRows ==
    ASSUME RowsInv, NEW c \in Candidates,
           Confirm(c) \/ Reject(c) \/ AnswerExpired(c) \/ KeepCurrent(c)
    PROVE  RowsStep
<1> DEFINE r == cand[c]
<1>1. r \in Row /\ r \in CandidateRow /\ RowOK(r)
  BY DEF RowsInv, Row
<1>2. CASE Confirm(c)
  <2> DEFINE row == [r EXCEPT !.status = "pending", !.token = 0, !.overdue = FALSE, !.tries = 0,
                      !.asserted = @ + 1, !.grant = TRUE, !.verified = FALSE]
  <2>1. 0 \in 0..MaxAttempts /\ r.asserted + 1 \in Nat
    BY <1>1, MemoryAssumption DEF CandidateRow
  <2>2. /\ row.status = "pending" /\ row.token = 0 /\ row.tries = 0 /\ row.key = r.key
        /\ row.invalidated = r.invalidated /\ row.scrubbed = r.scrubbed
    BY <1>1 DEF CandidateRow
  <2>3. row \in CandidateRow
    BY <1>1, <2>1 DEF CandidateRow, Reconcilable
  <2>4. cand' = [cand EXCEPT ![c] = row] /\ attempts' = BumpedOf({c}) /\ ~r.scrubbed
    BY <1>2, Zenon DEF Confirm
  <2> HIDE DEF row
  <2>5. row \in Row
    BY <1>1, <2>2, <2>3, <2>4 DEF Row, RowOK
  <2> QED
    BY <2>2, <2>4, <2>5, BumpedStep
<1>3. ASSUME NEW s \in {"rejected", "expired", "pending"}
      PROVE  /\ Ended(r, s) \in Row /\ Ended(r, s).status = s /\ Ended(r, s).token = 0
             /\ Ended(r, s).key = r.key /\ Ended(r, s).invalidated = r.invalidated
  <2>1. s \in {"pending", "awaiting_owner"} \cup Terminal /\ s # "awaiting_owner"
        /\ s # "invalidated"
    BY DEF Terminal
  <2> QED
    BY <1>1, <2>1, UnleasedRow
<1>4. CASE Reject(c)
  BY <1>3, <1>4, BumpedStep DEF Reject, ReviewEnds
<1>5. CASE AnswerExpired(c)
  <2> DEFINE row == [r EXCEPT !.status = "expired", !.grant = FALSE]
  <2>1. /\ row \in CandidateRow /\ row.status = "expired" /\ row.token = r.token
        /\ row.key = r.key /\ row.invalidated = r.invalidated /\ row.scrubbed = r.scrubbed
    BY <1>1 DEF CandidateRow, Terminal
  <2>2. cand' = [cand EXCEPT ![c] = row] /\ attempts' = BumpedOf({c})
    BY <1>5 DEF AnswerExpired, ReviewEnds
  <2> HIDE DEF row
  <2>3. row \in Row
    BY <1>1, <2>1 DEF Row, RowOK, Reconcilable, Terminal
  <2> QED
    BY <2>1, <2>2, <2>3, BumpedStep
<1>6. CASE KeepCurrent(c)
  <2>1. cand' = [cand EXCEPT ![c] = Rejected(r)] /\ attempts' = AttemptsOfRejected(c)
    BY <1>6 DEF KeepCurrent
  <2>2. CASE r.status = "awaiting_owner"
    <3>1. Rejected(r) = Ended(r, "rejected")
      BY <2>2 DEF Rejected
    <3>2. {d \in {c} : cand[d].status = "awaiting_owner"} = {c}
      BY <2>2
    <3>3. attempts' = BumpedOf({c})
      BY <2>1, <3>2 DEF AttemptsOfRejected
    <3> QED
      BY <1>3, <2>1, <3>1, <3>3, BumpedStep
  <2>3. CASE r.status # "awaiting_owner"
    <3>1. Rejected(r) = r
      BY <2>3 DEF Rejected
    <3>2. {d \in {c} : cand[d].status = "awaiting_owner"} = {}
      BY <2>3
    <3>3. attempts' = attempts
      BY <2>1, <3>2 DEF AttemptsOfRejected, BumpedOf, RowsInv
    <3>4. cand' = cand
      BY <2>1, <3>1 DEF RowsInv
    <3> QED
      BY <3>3, <3>4 DEF RowsStep, RowsInv
  <2> QED
    BY <2>2, <2>3
<1> QED
  BY <1>2, <1>4, <1>5, <1>6

LEMMA AcceptRows ==
    ASSUME RowsInv, NEW c \in Candidates, NEW q \in Requests, AcceptCompeting(c, q)
    PROVE  RowsStep
<1>1. KeyOf[q] \in Keys
  BY MemoryAssumption
<1>2. PICK d \in Target(KeyOf[q]) :
        cand' = [Enqueued(d, KeyOf[q]) EXCEPT ![c] = Rejected(@)]
  BY DEF AcceptCompeting
<1> DEFINE rows == Enqueued(d, KeyOf[q])
<1>3. /\ rows \in [Candidates -> Row]
      /\ \A e \in Candidates :
            /\ rows[e].token = 0 \/ rows[e].token = cand[e].token
            /\ rows[e].invalidated = cand[e].invalidated
            /\ cand[e].status # "absent" => rows[e] = cand[e]
  BY <1>1, EnqueuedRows
<1> HIDE DEF rows
<1>4. \A s : s = "rejected" => s \in {"pending", "awaiting_owner"} \cup Terminal
  BY DEF Terminal
<1>5. /\ Ended(rows[c], "rejected") \in Row /\ Ended(rows[c], "rejected").status = "rejected"
      /\ Ended(rows[c], "rejected").token = 0 /\ Ended(rows[c], "rejected").key = rows[c].key
      /\ Ended(rows[c], "rejected").invalidated = rows[c].invalidated
  BY <1>3, <1>4, UnleasedRow
<1>6. /\ Rejected(rows[c]) \in Row
      /\ Rejected(rows[c]).token = 0 \/ Rejected(rows[c]).token = rows[c].token
      /\ Rejected(rows[c]).key = rows[c].key
      /\ Rejected(rows[c]).invalidated = rows[c].invalidated
      /\ rows[c].status # "absent" => Rejected(rows[c]).status # "absent"
  BY <1>3, <1>5 DEF Rejected
<1>7. cand' = [rows EXCEPT ![c] = Rejected(rows[c])]
  BY <1>2 DEF rows
<1>8. /\ cand' \in [Candidates -> Row]
      /\ \A e \in Candidates :
            /\ cand'[e].token = 0 \/ cand'[e].token = cand[e].token
            /\ cand[e].invalidated => cand'[e].invalidated
            /\ cand[e].status # "absent" =>
                  cand'[e].status # "absent" /\ cand'[e].key = cand[e].key
  BY <1>3, <1>6, <1>7
<1>9. attempts' = AttemptsOfRejected(c)
  BY DEF AcceptCompeting
<1> QED
  BY <1>8, <1>9, BumpedOfSeq, SomeRows DEF AttemptsOfRejected

LEMMA RetryRows ==
    ASSUME RowsInv, LinksInv, NEW q \in Requests, Retry(q)
    PROVE  RowsStep
<1> DEFINE c == req[q].cand
           r == cand[c]
           gone == [Ended(r, "invalidated") EXCEPT !.invalidated = TRUE]
           again == [Ended(r, "pending") EXCEPT !.tries = 0]
<1>1. c \in Candidates
  BY DEF LinksInv, Links, Retry
<1>2. r \in Row /\ r \in CandidateRow /\ RowOK(r)
  BY <1>1 DEF RowsInv, Row
<1>3. attempts' = BumpedOf({c}) /\ r.status # "absent"
  BY DEF Retry
<1>4. 0 \in 0..MaxAttempts
  BY MemoryAssumption
<1>5. /\ gone \in CandidateRow /\ gone.status = "invalidated" /\ gone.invalidated = TRUE
      /\ gone.token = 0 /\ gone.key = r.key
  BY <1>2 DEF Ended, CandidateRow, Terminal
<1>6. /\ again \in CandidateRow /\ again.status = "pending" /\ again.invalidated = r.invalidated
      /\ again.scrubbed = r.scrubbed /\ again.token = 0 /\ again.key = r.key
  BY <1>2, <1>4 DEF Ended, CandidateRow, Reconcilable
<1>7. \/ cand' = [cand EXCEPT ![c] = gone]
      \/ cand' = [cand EXCEPT ![c] = again] /\ ~r.scrubbed
  BY DEF Retry
<1> HIDE DEF gone, again, c
<1>8. gone \in Row
  BY <1>2, <1>5, InvalidatedRow
<1>9. ~r.scrubbed => again \in Row
  BY <1>2, <1>6 DEF Row, RowOK
<1> QED
  BY <1>1, <1>3, <1>5, <1>6, <1>7, <1>8, <1>9, BumpedStep

LEMMA SourceRows ==
    ASSUME RowsInv, NEW k \in Keys, SourceGrows(k) \/ DeleteChat(k)
    PROVE  RowsStep
<1>1. \A c \in Candidates : cand[c] \in Row /\ cand[c] \in CandidateRow
  BY DEF RowsInv, Row
<1>2. CASE SourceGrows(k)
  <2> DEFINE row(c) == [cand[c] EXCEPT !.verified = @ /\ cand[c].key \notin {k}]
  <2>1. cand' = [c \in Candidates |-> row(c)] /\ UNCHANGED attempts
    BY <1>2 DEF SourceGrows, Unverified
  <2>2. ASSUME NEW c \in Candidates
        PROVE  /\ row(c) \in CandidateRow
               /\ row(c).status = cand[c].status /\ row(c).token = cand[c].token
               /\ row(c).tries = cand[c].tries /\ row(c).key = cand[c].key
               /\ row(c).invalidated = cand[c].invalidated
               /\ row(c).scrubbed = cand[c].scrubbed
    BY <1>1 DEF CandidateRow
  <2> HIDE DEF row
  <2> QED
    BY <2>1, <2>2, SameRows
<1>3. CASE DeleteChat(k)
  <2> DEFINE S == {c \in Candidates : cand[c].key = k}
             gone(c) == [Ended(cand[c], "invalidated") EXCEPT !.invalidated = TRUE,
                            !.scrubbed = TRUE, !.verified = FALSE]
  <2>1. cand' = [c \in Candidates |-> IF c \in S THEN gone(c) ELSE cand[c]]
        /\ attempts' = BumpedOf(S)
    BY <1>3 DEF DeleteChat
  <2>2. ASSUME NEW c \in Candidates
        PROVE  /\ gone(c) \in CandidateRow /\ gone(c).status = "invalidated"
               /\ gone(c).invalidated = TRUE /\ gone(c).token = 0 /\ gone(c).key = cand[c].key
    BY <1>1 DEF Ended, CandidateRow, Terminal
  <2> HIDE DEF gone, S
  <2>3. \A c \in Candidates : gone(c) \in Row
    BY <1>1, <2>2, InvalidatedRow
  <2>4. /\ attempts' \in [Candidates -> Seq(AttemptRow)]
        /\ \A c \in Candidates : Len(attempts'[c]) = Len(attempts[c])
    BY <2>1, BumpedOfSeq
  <2>5. /\ cand' \in [Candidates -> Row]
        /\ \A c \in Candidates :
              /\ cand'[c].token = 0 \/ cand'[c].token = cand[c].token
              /\ cand[c].invalidated => cand'[c].invalidated
              /\ cand[c].status # "absent" =>
                    cand'[c].status # "absent" /\ cand'[c].key = cand[c].key
    BY <1>1, <2>1, <2>2, <2>3
  <2> QED
    BY <2>4, <2>5, SomeRows
<1> QED
  BY <1>2, <1>3

LEMMA ExpiryRows ==
    ASSUME RowsInv, NEW c \in Candidates, LeaseExpires(c)
    PROVE  RowsStep
<1> DEFINE row == [cand[c] EXCEPT !.overdue = TRUE]
<1>1. cand \in [Candidates -> Row] /\ \A d \in Candidates : cand[d] \in CandidateRow
  BY DEF RowsInv, Row
<1>2. /\ row \in CandidateRow
      /\ row.status = cand[c].status /\ row.token = cand[c].token
      /\ row.tries = cand[c].tries /\ row.key = cand[c].key
      /\ row.invalidated = cand[c].invalidated /\ row.scrubbed = cand[c].scrubbed
  BY <1>1 DEF CandidateRow
<1>3. cand' = [cand EXCEPT ![c] = row] /\ UNCHANGED attempts
  BY DEF LeaseExpires
<1> HIDE DEF row
<1>4. cand' \in [Candidates -> CandidateRow]
  BY <1>1, <1>2, <1>3
<1>5. \A d \in Candidates : IF d = c THEN cand'[d] = row ELSE cand'[d] = cand[d]
  BY <1>1, <1>3
<1> QED
  BY <1>2, <1>3, <1>4, <1>5, SameRows

\* The rows keep their shape, the purge leaves its mark, and a candidate its evidence,
\* whatever happens.
LEMMA RowsChange ==
    ASSUME CandidateInv, Next
    PROVE  RowsStep
<1> USE DEF CandidateInv
<1>0. ASSUME UNCHANGED <<cand, attempts>> PROVE RowsStep
  BY <1>0 DEF RowsStep, RowsInv
<1>1. ASSUME NEW q \in Requests, Ask(q) PROVE RowsStep
  <2>1. KeyOf[q] \in Keys
    BY MemoryAssumption
  <2>2. PICK c \in Target(KeyOf[q]) : cand' = Enqueued(c, KeyOf[q])
    BY <1>1 DEF Ask
  <2>3. UNCHANGED attempts
    BY <1>1 DEF Ask
  <2> QED
    BY <2>1, <2>2, <2>3, IntakeRows
<1>2. ASSUME NEW k \in Keys, Discover(k) PROVE RowsStep
  BY <1>2, IntakeRows DEF Discover
<1>3. ASSUME NEW w \in Workers, WorkerStep(w) \/ Crash(w) PROVE RowsStep
  BY <1>0, <1>3, WorkerRows, PublishRows, RefusedRows, ReleaseRows DEF WorkerStep, Crash,
     LoadSnapshot, RefreshSnapshot, StageFails, VersionConflict, ReleaseRead
<1>4. ASSUME NEW q \in Requests, AskFails(q) PROVE RowsStep
  BY <1>0, <1>4 DEF AskFails
<1>5. ASSUME NEW scrub \in BOOLEAN, PurgeRead(scrub) PROVE RowsStep
  BY <1>0, <1>5 DEF PurgeRead
<1>6. CASE MemoryChanges
  BY <1>0, <1>6 DEF MemoryChanges
<1> QED
  BY <1>1, <1>2, <1>3, <1>4, <1>5, <1>6, NextCases, RetryRows, AnswerRows, AcceptRows,
     SourceRows, PurgeRows, ExpiryRows, SweepRows

----------------------------------------------------------------------------
(* The workers                                                             *)

LEMMA IdleWorker ==
    Idle \in WorkerState /\ WorkerOK(Idle)
<1>1. 0 \in 0..PublishTries
  BY MemoryAssumption
<1> QED
  BY <1>1 DEF Idle, WorkerState, WorkerOK

\* A claim that is done or given up.
LEMMA FinishedWorker ==
    ASSUME NEW s \in WorkerState, NEW cl \in Claims
    PROVE  /\ Finished(s) \in WorkerState /\ WorkerOK(Finished(s))
           /\ GivenUp(s, cl) \in WorkerState /\ WorkerOK(GivenUp(s, cl))
<1>1. 0 \in 0..PublishTries
  BY MemoryAssumption
<1>2. Finished(s) \in WorkerState /\ WorkerOK(Finished(s))
  BY <1>1 DEF Finished, Idle, WorkerState, WorkerOK
<1>3. GivenUp(s, cl) \in WorkerState /\ WorkerOK(GivenUp(s, cl))
  BY <1>1 DEF GivenUp, Finished, Idle, WorkerState, WorkerOK
<1> QED
  BY <1>2, <1>3

\* A snapshot that is no longer fresh, or a source that has moved.
LEMMA StaleWorker ==
    ASSUME NEW s \in WorkerState, WorkerOK(s), NEW b \in BOOLEAN
    PROVE  /\ [s EXCEPT !.fresh = FALSE] \in WorkerState /\ WorkerOK([s EXCEPT !.fresh = FALSE])
           /\ [s EXCEPT !.source = @ /\ b] \in WorkerState /\ WorkerOK([s EXCEPT !.source = @ /\ b])
  BY DEF WorkerState, WorkerOK

LEMMA StaleWorkers ==
    ASSUME NEW state \in [Workers -> WorkerState], \A w \in Workers : WorkerOK(state[w]), NEW K
    PROVE  /\ Stale(state) \in [Workers -> WorkerState]
           /\ \A w \in Workers : WorkerOK(Stale(state)[w])
           /\ SourceMoved(state, K) \in [Workers -> WorkerState]
           /\ \A w \in Workers : WorkerOK(SourceMoved(state, K)[w])
<1> DEFINE b(w) == state[w].claim # None /\ cand[state[w].claim[1]].key \notin K
<1>1. ASSUME NEW w \in Workers
      PROVE  /\ [state[w] EXCEPT !.fresh = FALSE] \in WorkerState
             /\ WorkerOK([state[w] EXCEPT !.fresh = FALSE])
             /\ [state[w] EXCEPT !.source = @ /\ b(w)] \in WorkerState
             /\ WorkerOK([state[w] EXCEPT !.source = @ /\ b(w)])
  <2>1. b(w) \in BOOLEAN
    OBVIOUS
  <2> HIDE DEF b
  <2> QED
    BY <2>1, StaleWorker
<1>2. SourceMoved(state, K) = [w \in Workers |-> [state[w] EXCEPT !.source = @ /\ b(w)]]
  BY DEF SourceMoved
<1> HIDE DEF b
<1> QED
  BY <1>1, <1>2 DEF Stale

\* One worker moves on.
LEMMA OneWorker ==
    ASSUME WorkersInv, NEW w \in Workers, NEW s \in WorkerState, WorkerOK(s),
           work' = [work EXCEPT ![w] = s]
    PROVE  WorkersInv'
  BY DEF WorkersInv, WorkerOK, Claims

LEMMA WorkerMoves ==
    ASSUME CandidateInv, NEW w \in Workers, WorkerStep(w) \/ Crash(w)
    PROVE  WorkersInv'
<1> DEFINE s == work[w]
<1>0. /\ WorkersInv /\ s \in WorkerState /\ WorkerOK(s)
      /\ PublishTries \in Nat /\ 0 \in 0..PublishTries
  BY MemoryAssumption DEF CandidateInv, WorkersInv
<1>1. ASSUME Finish(w) PROVE WorkersInv'
  <2>1. Finished(s) \in WorkerState /\ WorkerOK(Finished(s))
    BY <1>0 DEF Finished, Idle, WorkerState, WorkerOK
  <2> QED
    BY <1>0, <1>1, <2>1, OneWorker DEF Finish
<1>2. ASSUME GiveUp(w), s.stage # "idle" PROVE WorkersInv'
  <2>1. s.claim \in Claims
    BY <1>0, <1>2 DEF WorkerOK
  <2> QED
    BY <1>0, <1>2, <2>1, FinishedWorker, OneWorker DEF GiveUp
<1>3. ASSUME NEW stage \in {"read", "compared"} , s.stage # "idle", Goto(w, stage)
      PROVE  WorkersInv'
  <2>1. [s EXCEPT !.stage = stage] \in WorkerState /\ WorkerOK([s EXCEPT !.stage = stage])
    BY <1>0, <1>3 DEF WorkerState, WorkerOK
  <2> QED
    BY <1>0, <1>3, <2>1, OneWorker DEF Goto
<1>4. ASSUME NEW stage \in {"reconciled", "policed"} , s.stage \in {"refreshed", "reconciled"},
             Goto(w, stage)
      PROVE  WorkersInv'
  <2>1. [s EXCEPT !.stage = stage] \in WorkerState /\ WorkerOK([s EXCEPT !.stage = stage])
    BY <1>0, <1>4 DEF WorkerState, WorkerOK
  <2> QED
    BY <1>0, <1>4, <2>1, OneWorker DEF Goto
<1>5. CASE LoadSnapshot(w)
  <2>1. PICK cl \in s.batch :
          \/ work' = [work EXCEPT ![w] = GivenUp(s, cl)]
          \/ \E stage \in {"loaded", "compared"} : work' = [work EXCEPT ![w] =
                [s EXCEPT !.claim = cl, !.batch = @ \ {cl}, !.source = TRUE, !.stage = stage]]
    BY <1>5 DEF LoadSnapshot
  <2>2. cl \in Claims
    BY <1>0 DEF WorkerState
  <2>3. CASE work' = [work EXCEPT ![w] = GivenUp(s, cl)]
    BY <1>0, <2>2, <2>3, FinishedWorker, OneWorker
  <2>4. ASSUME NEW stage \in {"loaded", "compared"}, work' = [work EXCEPT ![w] =
                [s EXCEPT !.claim = cl, !.batch = @ \ {cl}, !.source = TRUE, !.stage = stage]]
        PROVE  WorkersInv'
    <3> DEFINE t == [s EXCEPT !.claim = cl, !.batch = @ \ {cl}, !.source = TRUE, !.stage = stage]
    <3>1. t \in WorkerState /\ WorkerOK(t)
      BY <1>0, <2>2 DEF WorkerState, WorkerOK
    <3> HIDE DEF t
    <3> QED
      BY <1>0, <2>4, <3>1, OneWorker DEF t
  <2> QED
    BY <2>1, <2>3, <2>4
<1>6. CASE RefreshSnapshot(w)
  <2>1. s.stage # "idle"
    BY <1>6 DEF RefreshSnapshot
  <2>2. CASE GiveUp(w)
    BY <1>2, <2>1, <2>2
  <2>3. CASE ~GiveUp(w)
    <3> DEFINE t == [s EXCEPT !.fresh = TRUE,
                      !.stage = IF s.tries < PublishTries THEN "refreshed" ELSE "requeue"]
    <3>1. work' = [work EXCEPT ![w] = t]
      BY <1>0, <1>6, <2>3 DEF RefreshSnapshot, WorkersInv
    <3>2. t \in WorkerState /\ WorkerOK(t)
      BY <1>0, <2>1 DEF WorkerState, WorkerOK
    <3> HIDE DEF t
    <3> QED
      BY <1>0, <3>1, <3>2, OneWorker
  <2> QED
    BY <2>2, <2>3
<1>7. CASE VersionConflict(w)
  <2> DEFINE t == [s EXCEPT !.stage = "conflicted", !.tries = @ + 1]
  <2>1. s.stage = "policed" /\ work' = [work EXCEPT ![w] = t]
    BY <1>0, <1>7 DEF VersionConflict, WorkersInv
  <2>2. s.tries + 1 \in 0..PublishTries
    BY <1>0, <2>1 DEF WorkerState, WorkerOK
  <2>3. t \in WorkerState /\ WorkerOK(t)
    BY <1>0, <2>1, <2>2 DEF WorkerState, WorkerOK
  <2> HIDE DEF t
  <2> QED
    BY <1>0, <2>1, <2>3, OneWorker
<1>8. CASE ReleaseRead(w)
  <2>1. CASE Finish(w)
    BY <1>1, <2>1
  <2>2. CASE ~Finish(w)
    <3> DEFINE t == [s EXCEPT !.stage = "releasing", !.seen = RowOf(w)]
    <3>1. work' = [work EXCEPT ![w] = t] /\ Holds(w) /\ s.stage = "failing"
      BY <1>0, <1>8, <2>2 DEF ReleaseRead, WorkersInv
    <3>2. RowOf(w) \in Row /\ RowOf(w) \in CandidateRow /\ RowOf(w).status = "leased"
      BY <1>0, <3>1, ClaimTypes DEF Holds, RowOf, CandidateInv, RowsInv, Row
    <3>3. t \in WorkerState /\ WorkerOK(t)
      BY <1>0, <3>1, <3>2 DEF WorkerState, WorkerOK
    <3> HIDE DEF t
    <3> QED
      BY <1>0, <3>1, <3>3, OneWorker
  <2> QED
    BY <2>1, <2>2
<1>9. CASE PublishAwaitOwner(w) \/ PublishConflict(w) \/ PublishBlocked(w)
           \/ PublishEquivalent(w) \/ PublishMemory(w)
  <2> DEFINE done == [work EXCEPT ![w] = Finished(s)]
  <2>1. work' = Stale(done) \/ work' = done
    BY <1>9 DEF PublishAwaitOwner, PublishConflict, PublishBlocked, PublishEquivalent,
       PublishMemory, PublishEnds
  <2>2. Finished(s) \in WorkerState /\ WorkerOK(Finished(s))
    BY <1>0 DEF Finished, Idle, WorkerState, WorkerOK
  <2>3. done \in [Workers -> WorkerState] /\ \A v \in Workers : WorkerOK(done[v])
    BY <1>0, <2>2 DEF WorkersInv
  <2> HIDE DEF done
  <2>4. work' \in [Workers -> WorkerState] /\ \A v \in Workers : WorkerOK(work'[v])
    BY <2>1, <2>3, StaleWorkers
  <2> QED
    BY <2>4 DEF WorkersInv, WorkerOK, Claims
<1>10. CASE Crash(w)
  BY <1>0, <1>10, IdleWorker, OneWorker DEF Crash
<1>11. CASE PersistReading(w)
  BY <1>2, <1>3, <1>11 DEF PersistReading, Persist
<1>12. CASE PersistComparison(w)
  BY <1>2, <1>3, <1>12 DEF PersistComparison
<1>13. CASE EpistemicRejection(w) \/ PolicyBlock(w)
  BY <1>1, <1>2, <1>13 DEF EpistemicRejection, PolicyBlock, Conclude
<1>14. CASE PersistReconciliation(w) \/ PersistPolicy(w)
  BY <1>2, <1>4, <1>14 DEF PersistReconciliation, PersistPolicy, Persist
<1>15. CASE StageFails(w)
  BY <1>2, <1>15 DEF StageFails
<1>16. CASE PublishRefused(w) \/ PublishInvalidated(w) \/ PublishSourceConflict(w)
            \/ PublishRetained(w) \/ RequeueAfterConflict(w)
  BY <1>1, <1>16 DEF PublishRefused, PublishInvalidated, PublishSourceConflict,
     PublishRetained, RequeueAfterConflict
<1>17. CASE ReleaseWrite(w)
  BY <1>0, <1>1, <1>17, IdleWorker, OneWorker DEF ReleaseWrite
<1> QED
  BY <1>5, <1>6, <1>7, <1>8, <1>9, <1>10, <1>11, <1>12, <1>13, <1>14, <1>15, <1>16, <1>17
  DEF WorkerStep

LEMMA WorkersChange ==
    ASSUME CandidateInv, Next
    PROVE  WorkersInv'
<1>0. /\ RowsInv /\ WorkersInv /\ work \in [Workers -> WorkerState]
      /\ \A w \in Workers : WorkerOK(work[w])
  BY DEF CandidateInv, WorkersInv
<1>1. ASSUME work' \in [Workers -> WorkerState], \A w \in Workers : WorkerOK(work'[w])
      PROVE  WorkersInv'
  BY <1>1 DEF WorkersInv, WorkerOK, Claims
<1>2. ASSUME UNCHANGED work PROVE WorkersInv'
  BY <1>0, <1>1, <1>2
<1>3. ASSUME work' = Stale(work) PROVE WorkersInv'
  BY <1>0, <1>1, <1>3, StaleWorkers
<1>4. ASSUME NEW K, work' = SourceMoved(work, K) PROVE WorkersInv'
  BY <1>0, <1>1, <1>4, StaleWorkers
<1>5. ASSUME NEW redact \in BOOLEAN, PurgeWrite(redact) PROVE WorkersInv'
  <2>1. \E K : work' = SourceMoved(Stale(work), K)
    BY <1>5 DEF PurgeWrite
  <2>2. Stale(work) \in [Workers -> WorkerState] /\ \A w \in Workers : WorkerOK(Stale(work)[w])
    BY <1>0, StaleWorkers
  <2> QED
    BY <1>1, <2>1, <2>2, StaleWorkers
<1>6. ASSUME NEW w \in Workers, NEW clock \in [Candidates -> Clock], Sweep(w, clock)
      PROVE  WorkersInv'
  <2> DEFINE B == {<<c, Len(attempts[c]) + 1>> :
                      c \in {d \in Candidates : NewlyLeased(d, clock[d])}}
             t == [work[w] EXCEPT !.batch = B]
  <2>1. \A c \in Candidates : Len(attempts[c]) \in Nat
    BY <1>0, SeqProperties DEF RowsInv
  <2>a. \A n \in Nat : n + 1 \in Nat \ {0}
    OBVIOUS
  <2>2. \A c \in Candidates : Len(attempts[c]) + 1 \in Nat \ {0}
    BY <2>1, <2>a, Zenon
  <2>3. B \in SUBSET Claims
    BY <2>2 DEF Claims
  <2>4. work' = [work EXCEPT ![w] = t] /\ work[w].stage = "idle"
    BY <1>0, <1>6 DEF Sweep
  <2> HIDE DEF B
  <2>5. t \in WorkerState /\ WorkerOK(t)
    BY <1>0, <2>3, <2>4 DEF WorkerState, WorkerOK
  <2> HIDE DEF t
  <2> QED
    BY <1>0, <2>4, <2>5, OneWorker
<1>7. ASSUME NEW q \in Requests, Ask(q) \/ AskFails(q) \/ Retry(q) PROVE WorkersInv'
  BY <1>2, <1>7 DEF Ask, AskFails, Retry
<1>8. ASSUME NEW c \in Candidates,
             Confirm(c) \/ Reject(c) \/ AnswerExpired(c) \/ KeepCurrent(c) \/ LeaseExpires(c)
      PROVE  WorkersInv'
  BY <1>2, <1>3, <1>8 DEF Confirm, Reject, AnswerExpired, ReviewEnds, KeepCurrent, LeaseExpires
<1>9. ASSUME NEW c \in Candidates, NEW q \in Requests, AcceptCompeting(c, q) PROVE WorkersInv'
  BY <1>3, <1>9 DEF AcceptCompeting
<1>10. ASSUME NEW k \in Keys, SourceGrows(k) \/ DeleteChat(k) \/ Discover(k) PROVE WorkersInv'
  BY <1>2, <1>4, <1>10 DEF SourceGrows, DeleteChat, Discover
<1>11. ASSUME NEW scrub \in BOOLEAN, PurgeRead(scrub) PROVE WorkersInv'
  BY <1>2, <1>11 DEF PurgeRead
<1>12. CASE MemoryChanges
  BY <1>3, <1>12 DEF MemoryChanges
<1> QED
  BY <1>5, <1>6, <1>7, <1>8, <1>9, <1>10, <1>11, <1>12, NextCases, WorkerMoves

----------------------------------------------------------------------------
(* The requests                                                            *)

\* How a pending obligation takes the end of its candidate.
LEMMA ResolutionRow ==
    ASSUME NEW o \in RequestRow, o.status = "pending", o.failures < OwnerRetryBudget,
           NEW status, NEW code \in {"refused", "evidence_purged"}
    PROVE  LET new == Resolution(o, status, code)
           IN  /\ new \in RequestRow /\ new.cand = o.cand
               /\ new.status \in {"pending", "resolved"}
               /\ new.status = "pending" =>
                     /\ new.failures < OwnerRetryBudget
                     /\ status \notin Terminal \ {"failed"}
<1> DEFINE more == o.failures + 1 < OwnerRetryBudget
           last == o.failures + 1 >= OwnerRetryBudget
           a == [o EXCEPT !.status = "resolved", !.outcome = "published"]
           b == [o EXCEPT !.failures = @ + 1]
           d == [o EXCEPT !.failures = @ + 1, !.status = "resolved", !.outcome = "exhausted"]
           e == [o EXCEPT !.status = "resolved", !.outcome = code]
<1>0. OwnerRetryBudget \in Nat /\ o.failures \in Nat /\ o.failures + 1 \in 0..OwnerRetryBudget
      /\ more = ~last
  BY MemoryAssumption DEF RequestRow
<1>1. a \in RequestRow /\ a.cand = o.cand /\ a.status = "resolved"
  BY DEF RequestRow
<1>2. b \in RequestRow /\ b.cand = o.cand /\ b.status = "pending"
      /\ b.failures = o.failures + 1
  BY <1>0 DEF RequestRow
<1>3. d \in RequestRow /\ d.cand = o.cand /\ d.status = "resolved"
  BY <1>0 DEF RequestRow
<1>4. e \in RequestRow /\ e.cand = o.cand /\ e.status = "resolved"
  BY DEF RequestRow
<1>5. /\ status = "reconciled" => Resolution(o, status, code) = a
      /\ status = "failed" /\ more => Resolution(o, status, code) = b
      /\ status = "failed" /\ last => Resolution(o, status, code) = d
      /\ status \in Terminal \ {"reconciled", "failed"} => Resolution(o, status, code) = e
      /\ status \notin Terminal => Resolution(o, status, code) = o
  <2>1. "reconciled" \in Terminal /\ "failed" \in Terminal /\ "reconciled" # "failed"
    BY DEF Terminal
  <2> HIDE DEF a, b, d, e, more, last
  <2>2. Resolution(o, status, code) =
          CASE status = "reconciled" -> a
            [] status = "failed" /\ more -> b
            [] status = "failed" /\ last -> d
            [] status \in Terminal \ {"reconciled", "failed"} -> e
            [] OTHER -> o
    BY DEF Resolution, a, b, d, e, more, last
  <2>3. more = ~last
    BY <1>0
  <2>4. CASE status = "reconciled"
    BY <2>1, <2>2, <2>4, Zenon
  <2>5. CASE status = "failed" /\ more
    BY <2>1, <2>2, <2>3, <2>5, Zenon
  <2>6. CASE status = "failed" /\ last
    BY <2>1, <2>2, <2>3, <2>6, Zenon
  <2>7. CASE status \in Terminal \ {"reconciled", "failed"}
    BY <2>1, <2>2, <2>7, Zenon
  <2>8. CASE status \notin Terminal
    BY <2>1, <2>2, <2>8, Zenon
  <2> QED
    BY <2>3, <2>4, <2>5, <2>6, <2>7, <2>8
<1> HIDE DEF a, b, d, e
<1>6. CASE status = "failed" /\ more
  BY <1>0, <1>2, <1>5, <1>6
<1>7. CASE ~(status = "failed" /\ more)
  <2> HIDE DEF more, last
  <2> QED
    BY <1>0, <1>1, <1>3, <1>4, <1>5, <1>7
<1> QED
  BY <1>6, <1>7

\* The requests new follow from the requests old by settling.
Follows(new, old) ==
    /\ new \in [Requests -> RequestRow]
    /\ \A q \in Requests :
          /\ new[q].cand = old[q].cand
          /\ new[q].status = "pending" =>
                old[q].status = "pending" /\ new[q].failures < OwnerRetryBudget
          /\ new[q].status = "unasked" => new[q] = old[q]

LEMMA SettledFollows ==
    ASSUME NEW reqs \in [Requests -> RequestRow], NEW asks, NEW S, NEW rows, NEW cands,
           NEW code \in {"refused", "evidence_purged"}, Links(cands, reqs, asks)
    PROVE  Follows(SettledIn(reqs, asks, S, rows, code), reqs)
<1> DEFINE new == SettledIn(reqs, asks, S, rows, code)
<1>1. ASSUME NEW q \in Requests
      PROVE  /\ new[q] \in RequestRow /\ new[q].cand = reqs[q].cand
             /\ new[q].status = "pending" =>
                    reqs[q].status = "pending" /\ new[q].failures < OwnerRetryBudget
             /\ new[q].status = "unasked" => new[q] = reqs[q]
  <2>1. CASE \E c \in S : IsOldestPending(q, c, reqs, asks)
    <3>1. new[q] = Resolution(reqs[q], rows[reqs[q].cand].status, code)
      BY <2>1 DEF SettledIn
    <3>2. reqs[q].status = "pending" /\ reqs[q].failures < OwnerRetryBudget
      BY <2>1 DEF IsOldestPending, Links
    <3> QED
      BY <3>1, <3>2, ResolutionRow
  <2>2. CASE ~\E c \in S : IsOldestPending(q, c, reqs, asks)
    <3>1. new[q] = reqs[q]
      BY <2>2 DEF SettledIn
    <3> QED
      BY <3>1 DEF Links
  <2> QED
    BY <2>1, <2>2
<1>2. new = [q \in Requests |-> new[q]]
  BY DEF SettledIn
<1> QED
  BY <1>1, <1>2 DEF Follows

\* The links survive what steps do to rows and requests.
LEMMA LinksKept ==
    ASSUME NEW asks \in [Candidates -> Seq(Requests)], NEW reqs, NEW new, Follows(new, reqs),
           RowsStep, Links(cand, reqs, asks) \/ Links(cand', reqs, asks)
    PROVE  Links(cand', new, asks)
<1>1. \A c \in Candidates : \A i \in DOMAIN asks[c] : asks[c][i] \in Requests
  BY SeqProperties
<1>2. Links(cand', reqs, asks)
  BY DEF RowsStep, Links
<1>3. \A q \in Requests : new[q] \in RequestRow
  BY DEF Follows
<1>4. \A q \in Requests : new[q].status # "resolved" => new[q].failures < OwnerRetryBudget
  BY <1>2, <1>3 DEF Follows, Links, RequestRow
<1>5. ASSUME NEW c \in Candidates, NEW i \in DOMAIN asks[c]
      PROVE  /\ new[asks[c][i]].status # "unasked" /\ new[asks[c][i]].cand = c
             /\ cand'[c].status # "absent" /\ cand'[c].key = KeyOf[asks[c][i]]
  <2>1. asks[c][i] \in Requests
    BY <1>1
  <2>2. /\ reqs[asks[c][i]].status # "unasked" /\ reqs[asks[c][i]].cand = c
        /\ cand'[c].status # "absent" /\ cand'[c].key = KeyOf[asks[c][i]]
    BY <1>2 DEF Links
  <2> QED
    BY <2>1, <2>2 DEF Follows
<1>6. ASSUME NEW q \in Requests, new[q].status = "pending"
      PROVE  /\ new[q].cand \in Candidates
             /\ \E i \in DOMAIN asks[new[q].cand] : asks[new[q].cand][i] = q
  <2>1. reqs[q].status = "pending" /\ new[q].cand = reqs[q].cand
    BY <1>6 DEF Follows
  <2> QED
    BY <1>2, <2>1 DEF Links
<1> QED
  BY <1>4, <1>5, <1>6 DEF Links

\* A request is attached to its candidate.
LEMMA AttachedLinks ==
    ASSUME TableInv, RowsStep, LinksInv, NEW q \in Requests, NEW c \in Candidates,
           req[q].status = "unasked", cand'[c].status # "absent", cand'[c].key = KeyOf[q]
    PROVE  /\ Attached(q, c) \in [Requests -> RequestRow]
           /\ [asked EXCEPT ![c] = Append(@, q)] \in [Candidates -> Seq(Requests)]
           /\ Links(cand', Attached(q, c), [asked EXCEPT ![c] = Append(@, q)])
<1> DEFINE reqs == Attached(q, c)
           asks == [asked EXCEPT ![c] = Append(asked[c], q)]
<1>0. asked \in [Candidates -> Seq(Requests)] /\ req \in [Requests -> RequestRow]
  BY DEF TableInv
<1>1. /\ reqs \in [Requests -> RequestRow]
      /\ reqs[q].status = "pending" /\ reqs[q].cand = c /\ reqs[q].failures = req[q].failures
      /\ \A p \in Requests \ {q} : reqs[p] = req[p]
  BY <1>0 DEF Attached, RequestRow
<1>2. Append(asked[c], q) \in Seq(Requests) /\ Len(Append(asked[c], q)) = Len(asked[c]) + 1
  BY <1>0, SeqAppend
<1>3. asks \in [Candidates -> Seq(Requests)] /\ asks[c] = Append(asked[c], q)
      /\ \A d \in Candidates \ {c} : asks[d] = asked[d]
  BY <1>0, <1>2
<1>4. asked[c] \in Seq(Requests) /\ Len(asked[c]) \in Nat /\ DOMAIN asked[c] = 1..Len(asked[c])
  BY <1>0, SeqProperties
<1>5. /\ DOMAIN asks[c] = DOMAIN asked[c] \cup {Len(asked[c]) + 1}
      /\ \A i \in DOMAIN asked[c] : asks[c][i] = asked[c][i]
      /\ asks[c][Len(asked[c]) + 1] = q
  BY <1>3, <1>4, AppendProperties
<1>6. Links(cand', req, asked)
  BY DEF LinksInv, RowsStep, Links
<1>7. \A d \in Candidates : \A i \in DOMAIN asked[d] : asked[d][i] \in Requests \ {q}
  BY <1>0, <1>6, SeqProperties DEF Links
<1> HIDE DEF reqs, asks
<1>8. ASSUME NEW d \in Candidates, NEW i \in DOMAIN asks[d]
      PROVE  /\ reqs[asks[d][i]].status # "unasked" /\ reqs[asks[d][i]].cand = d
             /\ cand'[d].status # "absent" /\ cand'[d].key = KeyOf[asks[d][i]]
  <2>1. CASE d = c /\ i = Len(asked[c]) + 1
    BY <1>1, <1>5, <2>1
  <2>2. CASE ~(d = c /\ i = Len(asked[c]) + 1)
    <3>1. i \in DOMAIN asked[d] /\ asks[d][i] = asked[d][i]
      BY <1>3, <1>5, <2>2
    <3> QED
      BY <1>1, <1>6, <1>7, <3>1 DEF Links
  <2> QED
    BY <2>1, <2>2
<1>9. ASSUME NEW p \in Requests
      PROVE  /\ reqs[p].status # "resolved" => reqs[p].failures < OwnerRetryBudget
             /\ reqs[p].status = "pending" =>
                /\ reqs[p].cand \in Candidates
                /\ \E i \in DOMAIN asks[reqs[p].cand] : asks[reqs[p].cand][i] = p
  <2>1. CASE p = q
    BY <1>1, <1>5, <1>6, <2>1 DEF Links
  <2>2. CASE p # q
    <3>1. reqs[p] = req[p]
      BY <1>1, <2>2
    <3>2. \A d \in Candidates : \A i \in DOMAIN asked[d] :
             i \in DOMAIN asks[d] /\ asks[d][i] = asked[d][i]
      BY <1>3, <1>5
    <3> QED
      BY <1>6, <3>1, <3>2 DEF Links
  <2> QED
    BY <2>1, <2>2
<1>10. Links(cand', reqs, asks)
  BY <1>8, <1>9 DEF Links
<1>11. asks = [asked EXCEPT ![c] = Append(@, q)]
  BY DEF asks
<1> QED
  BY <1>1, <1>3, <1>10, <1>11 DEF reqs

\* What every step does to the requests and their links.
RequestsStep ==
    /\ asked' \in [Candidates -> Seq(Requests)]
    /\ req' \in [Requests -> RequestRow]
    /\ LinksInv'

LEMMA SettledStep ==
    ASSUME CandidateInv, RowsStep, asked' = asked, Follows(req', req)
    PROVE  RequestsStep
<1>1. Links(cand', req', asked)
  BY LinksKept DEF CandidateInv, TableInv, LinksInv
<1>2. LinksInv'
  BY <1>1 DEF LinksInv, Links
<1> QED
  BY <1>2 DEF RequestsStep, Follows, CandidateInv, TableInv

\* Settling, or leaving the requests alone, is following.
LEMMA SettlingFollows ==
    ASSUME CandidateInv
    PROVE  /\ Follows(req, req)
           /\ \A S, rows : \A code \in {"refused", "evidence_purged"} :
                 Follows(Settled(S, rows, code), req)
<1>1. req \in [Requests -> RequestRow] /\ Links(cand, req, asked)
  BY DEF CandidateInv, TableInv, LinksInv
<1>2. Follows(req, req)
  BY <1>1 DEF Follows, Links
<1>3. ASSUME NEW S, NEW rows, NEW code \in {"refused", "evidence_purged"}
      PROVE  Follows(Settled(S, rows, code), req)
  BY <1>1, SettledFollows DEF Settled
<1> QED
  BY <1>2, <1>3

LEMMA WorkerAsks ==
    ASSUME NEW w \in Workers, WorkerStep(w) \/ Crash(w)
    PROVE  asked' = asked
  BY DEF WorkerStep, Crash, LoadSnapshot, PersistReading, PersistComparison, Persist,
     EpistemicRejection, RefreshSnapshot, PersistReconciliation, PersistPolicy, PolicyBlock,
     Conclude, StageFails, VersionConflict, PublishRefused, PublishInvalidated,
     PublishSourceConflict, PublishRetained, PublishAwaitOwner, PublishConflict,
     PublishBlocked, PublishEquivalent, PublishMemory, PublishEnds, RequeueAfterConflict,
     ReleaseRead, ReleaseWrite

LEMMA WorkerRequests ==
    ASSUME CandidateInv, RowsStep, NEW w \in Workers, WorkerStep(w) \/ Crash(w)
    PROVE  RequestsStep
<1>1. asked' = asked
  BY WorkerAsks
<1>2. req' = req \/ \E S, rows : req' = Settled(S, rows, "refused")
  <2>1. CASE EpistemicRejection(w) \/ PolicyBlock(w)
    BY <2>1 DEF EpistemicRejection, PolicyBlock, Conclude
  <2>2. CASE PublishInvalidated(w)
    BY <2>2 DEF PublishInvalidated
  <2>3. CASE PublishBlocked(w) \/ PublishEquivalent(w) \/ PublishMemory(w)
    BY <2>3 DEF PublishBlocked, PublishEquivalent, PublishMemory, PublishEnds
  <2>4. CASE ReleaseWrite(w)
    BY <2>4 DEF ReleaseWrite
  <2> QED
    BY <2>1, <2>2, <2>3, <2>4 DEF WorkerStep, Crash, LoadSnapshot, PersistReading,
       PersistComparison, Persist, RefreshSnapshot, PersistReconciliation, PersistPolicy,
       StageFails, VersionConflict, PublishRefused, PublishSourceConflict, PublishRetained,
       PublishAwaitOwner, PublishConflict, RequeueAfterConflict, ReleaseRead
<1>3. Follows(req', req)
  BY <1>2, SettlingFollows
<1> QED
  BY <1>1, <1>3, SettledStep

\* A deletion also resolves the requests that share a candidate it scrubs.
LEMMA PurgeRequests ==
    ASSUME CandidateInv, RowsStep, NEW redact \in BOOLEAN, PurgeWrite(redact)
    PROVE  /\ RequestsStep
           /\ \A q \in Requests : req'[q].status = "pending" =>
                 req'[q] = Settled(DOMAIN purge.rows,
                                   [c \in Candidates |-> IF c \in DOMAIN purge.rows
                                        THEN Invalidated(purge.rows[c], purge.scrub) ELSE cand[c]],
                                   "evidence_purged")[q]
<1> DEFINE S == DOMAIN purge.rows
           rows == [c \in Candidates |->
                      IF c \in S THEN Invalidated(purge.rows[c], purge.scrub) ELSE cand[c]]
           settled == Settled(S, rows, "evidence_purged")
<1>1. asked' = asked
  BY DEF PurgeWrite
<1>2. rows = [c \in Candidates |->
                IF c \in S THEN [d \in S |-> Invalidated(purge.rows[d], purge.scrub)][c]
                ELSE cand[c]]
  OBVIOUS
<1>3. \/ req' = settled
      \/ req' = [q \in Requests |->
                    IF settled[q].status = "pending" /\ settled[q].cand \in S
                    THEN [settled[q] EXCEPT !.status = "resolved", !.outcome = "evidence_purged"]
                    ELSE settled[q]]
  <2> HIDE DEF rows
  <2> QED
    BY <1>2, Zenon DEF PurgeWrite
<1>4. Follows(settled, req)
  BY SettlingFollows
<1> HIDE DEF settled
<1>5. \A q \in Requests :
        LET o == [settled[q] EXCEPT !.status = "resolved", !.outcome = "evidence_purged"]
        IN  o \in RequestRow /\ o.cand = settled[q].cand /\ o.status = "resolved"
  BY <1>4 DEF Follows, RequestRow
<1>6. Follows(req', req)
  <2>1. CASE req' = settled
    BY <1>4, <2>1
  <2>2. CASE req' # settled
    <3> DEFINE o(q) == [settled[q] EXCEPT !.status = "resolved", !.outcome = "evidence_purged"]
    <3>1. req' = [q \in Requests |->
                    IF settled[q].status = "pending" /\ settled[q].cand \in S
                    THEN o(q) ELSE settled[q]]
      BY <1>3, <2>2
    <3>2. \A q \in Requests : /\ o(q) \in RequestRow /\ o(q).cand = settled[q].cand
                              /\ o(q).status = "resolved"
      BY <1>5
    <3> HIDE DEF o, S
    <3>3. ASSUME NEW q \in Requests
          PROVE  /\ req'[q] \in RequestRow /\ req'[q].cand = req[q].cand
                 /\ req'[q].status = "pending" =>
                       req[q].status = "pending" /\ req'[q].failures < OwnerRetryBudget
                 /\ req'[q].status = "unasked" => req'[q] = req[q]
      <4>1. req'[q] = o(q) \/ req'[q] = settled[q]
        BY <3>1
      <4>2. /\ settled[q] \in RequestRow /\ settled[q].cand = req[q].cand
            /\ settled[q].status = "pending" =>
                  req[q].status = "pending" /\ settled[q].failures < OwnerRetryBudget
            /\ settled[q].status = "unasked" => settled[q] = req[q]
        BY <1>4 DEF Follows
      <4> QED
        BY <3>2, <4>1, <4>2
    <3> QED
      BY <3>1, <3>3 DEF Follows
  <2> QED
    BY <2>1, <2>2
<1>7. \A q \in Requests : req'[q].status = "pending" => req'[q] = settled[q]
  BY <1>3, <1>5
<1>8. RequestsStep
  BY <1>1, <1>6, SettledStep
<1> QED
  BY <1>7, <1>8 DEF settled

\* An owner's choice of the competing claim: the correction is attached, then the
\* candidate settles.
LEMMA AcceptRequests ==
    ASSUME CandidateInv, RowsStep, NEW c \in Candidates, NEW q \in Requests,
           AcceptCompeting(c, q)
    PROVE  \E d \in Target(KeyOf[q]) :
              LET reqs == Attached(q, d)
                  asks == [asked EXCEPT ![d] = Append(@, q)]
              IN  /\ d \in Candidates /\ cand'[d].key = KeyOf[q]
                  /\ d # c => cand'[d].status \in Reconcilable
                  /\ cand' = [Enqueued(d, KeyOf[q]) EXCEPT ![c] = Rejected(@)]
                  /\ reqs \in [Requests -> RequestRow]
                  /\ Links(cand', reqs, asks)
                  /\ asked' = asks /\ asks \in [Candidates -> Seq(Requests)]
                  /\ req' = IF cand[c].status = "awaiting_owner"
                            THEN SettledIn(reqs, asks, {c}, cand', "refused") ELSE reqs
                  /\ Follows(req', reqs)
<1>1. KeyOf[q] \in Keys /\ req[q].status = "unasked"
  BY MemoryAssumption DEF AcceptCompeting
<1>2. PICK d \in Target(KeyOf[q]) :
        /\ cand' = [Enqueued(d, KeyOf[q]) EXCEPT ![c] = Rejected(@)]
        /\ asked' = [asked EXCEPT ![d] = Append(@, q)]
        /\ req' = IF cand[c].status = "awaiting_owner"
                  THEN SettledIn(Attached(q, d), [asked EXCEPT ![d] = Append(@, q)],
                                 {c}, cand', "refused")
                  ELSE Attached(q, d)
  BY Zenon DEF AcceptCompeting
<1> DEFINE rows == Enqueued(d, KeyOf[q])
           reqs == Attached(q, d)
           asks == [asked EXCEPT ![d] = Append(@, q)]
<1>3. /\ d \in Candidates /\ rows \in [Candidates -> Row]
      /\ rows[d].key = KeyOf[q] /\ rows[d].status \in Reconcilable
  BY <1>1, EnqueuedRows DEF CandidateInv
<1> HIDE DEF rows
<1>4. rows[c] \in CandidateRow /\ "rejected" # "absent"
  BY <1>3 DEF Row
<1>5. Rejected(rows[c]).key = rows[c].key
      /\ (rows[c].status # "absent" => Rejected(rows[c]).status # "absent")
  BY <1>4 DEF Rejected, Ended, CandidateRow
<1>6. cand' = [rows EXCEPT ![c] = Rejected(rows[c])]
  BY <1>2 DEF rows
<1>7. /\ cand'[d].key = KeyOf[q] /\ cand'[d].status # "absent"
      /\ d # c => cand'[d].status \in Reconcilable
  BY <1>3, <1>5, <1>6 DEF Reconcilable
<1>8. /\ reqs \in [Requests -> RequestRow] /\ asks \in [Candidates -> Seq(Requests)]
      /\ Links(cand', reqs, asks)
  BY <1>1, <1>3, <1>7, AttachedLinks DEF CandidateInv
<1>9. Follows(reqs, reqs)
  BY <1>8 DEF Follows, Links
<1>10. Follows(SettledIn(reqs, asks, {c}, cand', "refused"), reqs)
  <2> HIDE DEF reqs, asks
  <2> QED
    BY <1>8, SettledFollows
<1>11. Follows(req', reqs)
  BY <1>2, <1>9, <1>10
<1> QED
  BY <1>2, <1>3, <1>7, <1>8, <1>11

LEMMA RequestsChange ==
    ASSUME CandidateInv, Next, RowsStep
    PROVE  RequestsStep
<1>1. ASSUME asked' = asked, req' = req \/ \E S, rows : req' = Settled(S, rows, "refused")
      PROVE  RequestsStep
  BY <1>1, SettlingFollows, SettledStep
<1>2. ASSUME NEW q \in Requests, Ask(q) PROVE RequestsStep
  <2>1. KeyOf[q] \in Keys /\ req[q].status = "unasked"
    BY <1>2, MemoryAssumption DEF Ask
  <2>2. PICK c \in Target(KeyOf[q]) :
           /\ cand' = Enqueued(c, KeyOf[q]) /\ req' = Attached(q, c)
           /\ asked' = [asked EXCEPT ![c] = Append(@, q)]
    BY <1>2 DEF Ask
  <2>3. c \in Candidates /\ cand'[c].key = KeyOf[q] /\ cand'[c].status # "absent"
    BY <2>1, <2>2, EnqueuedRows DEF CandidateInv, Reconcilable
  <2>4. /\ req' \in [Requests -> RequestRow] /\ asked' \in [Candidates -> Seq(Requests)]
        /\ Links(cand', req', asked')
    BY <2>1, <2>2, <2>3, AttachedLinks DEF CandidateInv
  <2> QED
    BY <2>4 DEF RequestsStep, LinksInv, Links
<1>3. ASSUME NEW q \in Requests, AskFails(q) PROVE RequestsStep
  <2>1. req \in [Requests -> RequestRow] /\ Links(cand, req, asked)
    BY DEF CandidateInv, TableInv, LinksInv
  <2> DEFINE o == [req[q] EXCEPT !.status = "resolved", !.outcome = "intake_failed"]
  <2>2. o \in RequestRow /\ o.cand = req[q].cand /\ o.status = "resolved"
    BY <2>1 DEF RequestRow
  <2>3. req' = [req EXCEPT ![q] = o] /\ asked' = asked
    BY <1>3, <2>1 DEF AskFails
  <2> HIDE DEF o
  <2>4. Follows(req', req)
    BY <2>1, <2>2, <2>3 DEF Follows, Links
  <2> QED
    BY <2>3, <2>4, SettledStep
<1>4. ASSUME NEW q \in Requests, Retry(q) PROVE RequestsStep
  BY <1>1, <1>4 DEF Retry
<1>5. ASSUME NEW c \in Candidates,
             Confirm(c) \/ Reject(c) \/ AnswerExpired(c) \/ KeepCurrent(c) \/ LeaseExpires(c)
      PROVE  RequestsStep
  BY <1>1, <1>5 DEF Confirm, Reject, AnswerExpired, ReviewEnds, KeepCurrent, LeaseExpires
<1>6. ASSUME NEW c \in Candidates, NEW q \in Requests, AcceptCompeting(c, q) PROVE RequestsStep
  <2>1. PICK d \in Target(KeyOf[q]) :
          LET reqs == Attached(q, d)
              asks == [asked EXCEPT ![d] = Append(@, q)]
          IN  /\ Links(cand', reqs, asks)
              /\ asked' = asks /\ asks \in [Candidates -> Seq(Requests)]
              /\ Follows(req', reqs)
    BY <1>6, AcceptRequests
  <2> DEFINE reqs == Attached(q, d)
             asks == [asked EXCEPT ![d] = Append(@, q)]
  <2>2. /\ Links(cand', reqs, asks) /\ asked' = asks /\ asks \in [Candidates -> Seq(Requests)]
        /\ Follows(req', reqs)
    BY <2>1
  <2> HIDE DEF reqs, asks
  <2>3. Links(cand', req', asks)
    BY <2>2, LinksKept
  <2> QED
    BY <2>2, <2>3 DEF RequestsStep, LinksInv, Links, Follows
<1>7. ASSUME NEW k \in Keys, SourceGrows(k) \/ DeleteChat(k) \/ Discover(k) PROVE RequestsStep
  BY <1>1, <1>7 DEF SourceGrows, DeleteChat, Discover
<1>8. ASSUME NEW scrub \in BOOLEAN, PurgeRead(scrub) PROVE RequestsStep
  BY <1>1, <1>8 DEF PurgeRead
<1>9. CASE MemoryChanges
  BY <1>1, <1>9 DEF MemoryChanges
<1>10. ASSUME NEW w \in Workers, NEW clock \in [Candidates -> Clock], Sweep(w, clock)
       PROVE  RequestsStep
  BY <1>1, <1>10 DEF Sweep
<1> QED
  BY <1>2, <1>3, <1>4, <1>5, <1>6, <1>7, <1>8, <1>9, <1>10, NextCases, WorkerRequests,
     PurgeRequests

----------------------------------------------------------------------------
(* Reviews, conflicts, chats and memories                                  *)

MarksStep ==
    /\ review' \in [Candidates -> Nat]
    /\ conflicts' \in [Candidates -> Nat]
    /\ live' \in [Keys -> BOOLEAN]
    /\ \A k \in Keys : live'[k] => live[k]
    /\ memory' \in [Candidates -> {"none", "stored", "deleted"}]
    /\ \A c \in Candidates :
          (cand[c].invalidated \/ cand[c].scrubbed) /\ memory[c] # "stored"
              => memory'[c] # "stored"

LEMMA WorkerMarks ==
    ASSUME CandidateInv, NEW w \in Workers, WorkerStep(w) \/ Crash(w)
    PROVE  MarksStep
<1>0. /\ review \in [Candidates -> Nat] /\ conflicts \in [Candidates -> Nat]
      /\ live \in [Keys -> BOOLEAN] /\ memory \in [Candidates -> {"none", "stored", "deleted"}]
  BY DEF CandidateInv, TableInv
<1>1. CASE UNCHANGED <<review, conflicts, live, memory>>
  BY <1>0, <1>1 DEF MarksStep
<1>2. CASE PublishMemory(w)
  <2>1. /\ work[w].stage # "idle" /\ ~Purged(RowOf(w))
        /\ UNCHANGED <<review, conflicts, live>>
        /\ memory' = [memory EXCEPT ![ClaimOf(w)] = "stored"]
    BY <1>2 DEF PublishMemory, PublishEnds, Publishing, MayPublish
  <2>2. ClaimOf(w) \in Candidates
    BY <2>1, ClaimTypes DEF CandidateInv
  <2>3. ~cand[ClaimOf(w)].invalidated /\ ~cand[ClaimOf(w)].scrubbed
    BY <2>1 DEF Purged, RowOf
  <2> QED
    BY <1>0, <2>1, <2>2, <2>3 DEF MarksStep
<1>3. CASE PublishAwaitOwner(w) \/ PublishConflict(w)
  <2>1. /\ work[w].stage # "idle" /\ UNCHANGED <<live, memory>>
        /\ \/ conflicts' = conflicts /\ review' = [review EXCEPT ![ClaimOf(w)] = @ + 1]
           \/ review' = review /\ conflicts' = [conflicts EXCEPT ![ClaimOf(w)] = @ + 1]
    BY <1>3 DEF PublishAwaitOwner, PublishConflict, Publishing
  <2>2. ClaimOf(w) \in Candidates
    BY <2>1, ClaimTypes DEF CandidateInv
  <2>3. review[ClaimOf(w)] + 1 \in Nat /\ conflicts[ClaimOf(w)] + 1 \in Nat
    BY <1>0, <2>2
  <2> QED
    BY <1>0, <2>1, <2>2, <2>3 DEF MarksStep
<1>4. CASE ~(PublishMemory(w) \/ PublishAwaitOwner(w) \/ PublishConflict(w))
  BY <1>1, <1>4 DEF WorkerStep, Crash, LoadSnapshot, PersistReading, PersistComparison, Persist,
     EpistemicRejection, RefreshSnapshot, PersistReconciliation, PersistPolicy, PolicyBlock,
     Conclude, StageFails, VersionConflict, PublishRefused, PublishInvalidated,
     PublishSourceConflict, PublishRetained, PublishBlocked, PublishEquivalent, PublishEnds,
     RequeueAfterConflict, ReleaseRead, ReleaseWrite
<1> QED
  BY <1>2, <1>3, <1>4

LEMMA MarksChange ==
    ASSUME CandidateInv, Next
    PROVE  MarksStep
<1>0. /\ review \in [Candidates -> Nat] /\ conflicts \in [Candidates -> Nat]
      /\ live \in [Keys -> BOOLEAN] /\ memory \in [Candidates -> {"none", "stored", "deleted"}]
  BY DEF CandidateInv, TableInv
<1>1. ASSUME UNCHANGED <<review, conflicts, live, memory>> PROVE MarksStep
  BY <1>0, <1>1 DEF MarksStep
<1>2. ASSUME NEW q \in Requests, Ask(q) \/ AskFails(q) \/ Retry(q) PROVE MarksStep
  BY <1>1, <1>2 DEF Ask, AskFails, Retry
<1>3. ASSUME NEW c \in Candidates, Confirm(c) \/ Reject(c) \/ AnswerExpired(c) PROVE MarksStep
  <2>1. /\ review[c] > 0 /\ UNCHANGED <<conflicts, live, memory>>
        /\ review' = [review EXCEPT ![c] = @ - 1]
    BY <1>3 DEF Confirm, Reject, AnswerExpired, ReviewEnds
  <2>2. review[c] - 1 \in Nat
    BY <1>0, <2>1
  <2> QED
    BY <1>0, <2>1, <2>2 DEF MarksStep
<1>4. ASSUME NEW c \in Candidates, conflicts[c] > 0, UNCHANGED <<review, live, memory>>,
             conflicts' = [conflicts EXCEPT ![c] = @ - 1]
      PROVE  MarksStep
  <2>1. conflicts[c] - 1 \in Nat
    BY <1>0, <1>4
  <2> QED
    BY <1>0, <1>4, <2>1 DEF MarksStep
<1>5. ASSUME NEW c \in Candidates, KeepCurrent(c) \/ \E q \in Requests : AcceptCompeting(c, q)
      PROVE  MarksStep
  BY <1>4, <1>5 DEF KeepCurrent, AcceptCompeting
<1>6. ASSUME NEW k \in Keys, SourceGrows(k) \/ Discover(k) PROVE MarksStep
  BY <1>1, <1>6 DEF SourceGrows, Discover
<1>7. ASSUME NEW k \in Keys, DeleteChat(k) PROVE MarksStep
  <2>1. UNCHANGED <<review, conflicts, memory>> /\ live' = [live EXCEPT ![k] = FALSE]
    BY <1>7 DEF DeleteChat
  <2> QED
    BY <1>0, <2>1 DEF MarksStep
<1>8. ASSUME NEW redact \in BOOLEAN, PurgeWrite(redact) PROVE MarksStep
  <2> DEFINE S == DOMAIN purge.rows
  <2>1. \E K : live' = [k \in Keys |-> live[k] /\ k \notin K]
    BY <1>8 DEF PurgeWrite
  <2>2. live' \in [Keys -> BOOLEAN] /\ \A k \in Keys : live'[k] => live[k]
    BY <1>0, <2>1
  <2>3. \/ UNCHANGED <<review, conflicts, memory>>
        \/ /\ review' = [c \in Candidates |-> IF c \in S THEN 0 ELSE review[c]]
           /\ conflicts' = [c \in Candidates |-> IF c \in S THEN 0 ELSE conflicts[c]]
           /\ memory' = [c \in Candidates |->
                    IF c \in S /\ memory[c] = "stored" THEN "deleted" ELSE memory[c]]
    BY <1>8 DEF PurgeWrite
  <2> HIDE DEF S
  <2> QED
    BY <1>0, <2>2, <2>3 DEF MarksStep
<1>9. ASSUME NEW w \in Workers, NEW clock \in [Candidates -> Clock], Sweep(w, clock)
      PROVE  MarksStep
  <2>1. /\ UNCHANGED <<live, memory>>
        /\ \E S : /\ review' = [c \in Candidates |-> IF c \in S THEN 0 ELSE review[c]]
                  /\ conflicts' = [c \in Candidates |-> IF c \in S THEN 0 ELSE conflicts[c]]
    BY <1>9 DEF Sweep
  <2> QED
    BY <1>0, <2>1 DEF MarksStep
<1>10. ASSUME NEW scrub \in BOOLEAN, PurgeRead(scrub) PROVE MarksStep
  BY <1>1, <1>10 DEF PurgeRead
<1>11. CASE MemoryChanges
  BY <1>1, <1>11 DEF MemoryChanges
<1>12. ASSUME NEW c \in Candidates, LeaseExpires(c) PROVE MarksStep
  BY <1>1, <1>12 DEF LeaseExpires
<1> QED
  BY <1>2, <1>3, <1>5, <1>6, <1>7, <1>8, <1>9, <1>10, <1>11, <1>12, NextCases, WorkerMarks

\* What a purge has read stays what it was, but for what is invalidated since.
LEMMA ReadChange ==
    ASSUME CandidateInv, Next, RowsStep
    PROVE  ReadInv'
<1>1. ASSUME UNCHANGED purge PROVE ReadInv'
  BY <1>1 DEF CandidateInv, ReadInv, RowsStep, Row
<1>2. ASSUME NEW redact \in BOOLEAN, PurgeWrite(redact) PROVE ReadInv'
  BY <1>2 DEF PurgeWrite, ReadInv
<1>3. ASSUME NEW scrub \in BOOLEAN, PurgeRead(scrub) PROVE ReadInv'
  <2>1. PICK S \in SUBSET Candidates : purge' = [rows |-> [c \in S |-> cand[c]], scrub |-> scrub]
    BY <1>3 DEF PurgeRead
  <2>2. /\ DOMAIN purge'.rows = S /\ purge'.scrub = scrub
        /\ \A c \in S : purge'.rows[c] = cand[c]
    BY <2>1
  <2>3. UNCHANGED cand /\ \A c \in Candidates : cand[c] \in Row
    BY <1>3 DEF PurgeRead, CandidateInv, RowsInv
  <2> QED
    BY <2>2, <2>3 DEF ReadInv, Row
<1>4. ASSUME NEW w \in Workers, WorkerStep(w) \/ Crash(w) PROVE ReadInv'
  BY <1>1, <1>4 DEF WorkerStep, Crash, LoadSnapshot, PersistReading, PersistComparison, Persist,
     EpistemicRejection, RefreshSnapshot, PersistReconciliation, PersistPolicy, PolicyBlock,
     Conclude, StageFails, VersionConflict, PublishRefused, PublishInvalidated,
     PublishSourceConflict, PublishRetained, PublishAwaitOwner, PublishConflict,
     PublishBlocked, PublishEquivalent, PublishMemory, PublishEnds, RequeueAfterConflict,
     ReleaseRead, ReleaseWrite
<1>5. ASSUME NEW q \in Requests, Ask(q) \/ AskFails(q) \/ Retry(q) PROVE ReadInv'
  BY <1>1, <1>5 DEF Ask, AskFails, Retry
<1>6. ASSUME NEW c \in Candidates,
             Confirm(c) \/ Reject(c) \/ AnswerExpired(c) \/ KeepCurrent(c) \/ LeaseExpires(c)
             \/ \E q \in Requests : AcceptCompeting(c, q)
      PROVE  ReadInv'
  BY <1>1, <1>6 DEF Confirm, Reject, AnswerExpired, ReviewEnds, KeepCurrent, LeaseExpires,
     AcceptCompeting
<1>7. ASSUME NEW k \in Keys, SourceGrows(k) \/ DeleteChat(k) \/ Discover(k) PROVE ReadInv'
  BY <1>1, <1>7 DEF SourceGrows, DeleteChat, Discover
<1>8. CASE MemoryChanges
  BY <1>1, <1>8 DEF MemoryChanges
<1>9. ASSUME NEW w \in Workers, NEW clock \in [Candidates -> Clock], Sweep(w, clock)
      PROVE  ReadInv'
  BY <1>1, <1>9 DEF Sweep
<1> QED
  BY <1>2, <1>3, <1>4, <1>5, <1>6, <1>7, <1>8, <1>9, NextCases

----------------------------------------------------------------------------
(* Theorems                                                                *)

LEMMA InitCandidates ==
    ASSUME Init
    PROVE  CandidateInv
<1>0. 0 \in 0..MaxAttempts /\ 0 \in 0..MaxRetentions /\ 0 \in 0..OwnerRetryBudget
      /\ 0 < OwnerRetryBudget
  BY MemoryAssumption
<1>1. Absent \in CandidateRow /\ RowOK(Absent) /\ Absent.token = 0
  BY <1>0 DEF Absent, CandidateRow, RowOK, Reconcilable, Terminal
<1>2. \A S : <<>> \in Seq(S) /\ Len(<<>>) = 0 /\ DOMAIN <<>> = {}
  OBVIOUS
<1>3. RowsInv
  <2>1. \A c \in Candidates : attempts[c] = <<>> /\ cand[c] = Absent
    BY DEF Init
  <2>a. Absent.token <= Len(<<>>)
    BY <1>1
  <2>2. \A c \in Candidates : cand[c].token <= Len(attempts[c])
    BY <2>1, <2>a, Zenon
  <2>3. cand \in [Candidates -> Row] /\ attempts \in [Candidates -> Seq(AttemptRow)]
    BY <1>1, <1>2 DEF Init, Row
  <2> QED
    BY <2>2, <2>3 DEF RowsInv
<1>4. ReadInv
  BY DEF Init, ReadInv
<1>5. WorkersInv
  BY IdleWorker DEF Init, WorkersInv
<1> DEFINE o == [status |-> "unasked", cand |-> None, failures |-> 0, outcome |-> None]
<1>6. o \in RequestRow /\ o.failures < OwnerRetryBudget /\ o.status = "unasked"
  BY <1>0 DEF RequestRow
<1>7. req = [q \in Requests |-> o]
  BY DEF Init
<1> HIDE DEF o
<1>8. TableInv
  BY <1>2, <1>6, <1>7 DEF Init, TableInv
<1>9. LinksInv
  BY <1>2, <1>6, <1>7 DEF Init, LinksInv, Links
<1> QED
  BY <1>3, <1>4, <1>5, <1>8, <1>9 DEF CandidateInv

LEMMA NextCandidates ==
    ASSUME CandidateInv, [Next]_vars
    PROVE  CandidateInv'
<1>1. CASE Next
  <2>1. RowsStep
    BY <1>1, RowsChange
  <2>2. RowsInv'
    BY <2>1 DEF RowsStep, RowsInv, Row, CandidateRow, RowOK, Reconcilable, Terminal
  <2>3. ReadInv' /\ WorkersInv'
    BY <1>1, <2>1, ReadChange, WorkersChange
  <2>4. RequestsStep /\ MarksStep
    BY <1>1, <2>1, RequestsChange, MarksChange
  <2> QED
    BY <2>2, <2>3, <2>4 DEF CandidateInv, TableInv, RequestsStep, MarksStep
<1>2. CASE UNCHANGED vars
  BY <1>2 DEF CandidateInv, RowsInv, ReadInv, WorkersInv, WorkerOK, Claims, TableInv, LinksInv,
     Links, vars
<1> QED
  BY <1>1, <1>2

\* The invariant the other theorems rest on: whatever the interleaving of workers,
\* owner and purges, the rows read earlier still fit the rows of the table.
THEOREM CandidateInvariant == Spec => []CandidateInv
<1> QED
  BY InitCandidates, NextCandidates, PTL DEF Spec

\* Every row and every worker has its shape, and a live row carries a lease token
\* exactly while it is leased (MemoryCandidateRow, MemoryReconciliationAttemptRow).
THEOREM CandidatesTypeCorrect == Spec => []TypeOK
<1>1. CandidateInv => TypeOK
  <2> SUFFICES ASSUME CandidateInv PROVE TypeOK
    OBVIOUS
  <2>1. \A r \in Row : r \in CandidateRow /\ RowOK(r)
    BY DEF Row
  <2>2. cand \in [Candidates -> CandidateRow]
    BY <2>1 DEF CandidateInv, RowsInv
  <2>3. \A c \in Candidates :
          /\ attempts[c] \in Seq(AttemptRow) /\ asked[c] \in Seq(Requests)
          /\ cand[c].token <= Len(attempts[c])
          /\ cand[c].status \in Reconcilable => (cand[c].status = "leased" <=> cand[c].token # 0)
    BY <2>1 DEF CandidateInv, RowsInv, RowOK, TableInv
  <2>4. purge # None => /\ DOMAIN purge.rows \subseteq Candidates
                        /\ \A c \in DOMAIN purge.rows : purge.rows[c] \in CandidateRow
    BY <2>1 DEF CandidateInv, ReadInv
  <2> QED
    BY <2>2, <2>3, <2>4 DEF CandidateInv, TableInv, WorkersInv, TypeOK
<1> QED
  BY <1>1, CandidateInvariant, PTL

\* No memory is stored from a candidate that a retirement, a deletion or the loss of
\* its chat has invalidated, whatever a worker had verified before (publish).
THEOREM PurgedStaysUnpublished == Spec => NoMemoryFromPurged
<1>1. CandidateInv /\ [Next]_vars =>
        [\A c \in Candidates :
            (cand[c].invalidated \/ cand[c].scrubbed) /\ memory[c] # "stored"
                => memory'[c] # "stored"]_vars
  BY MarksChange DEF MarksStep, vars
<1> QED
  BY <1>1, CandidateInvariant, PTL DEF Spec, NoMemoryFromPurged

----------------------------------------------------------------------------
(* Obligations are answered                                                *)

\* The statuses in which somebody can still bring a candidate to an outcome.
Open == Reconcilable \cup {"failed"}

\* A candidate that settles settles the first of its requests: when that one is left
\* pending the candidate is still open.
LEMMA AnswerKept ==
    ASSUME RowsStep, LinksInv', NEW reqs \in [Requests -> RequestRow],
           asked' \in [Candidates -> Seq(Requests)], Links(cand', reqs, asked'),
           NEW S, NEW rows, NEW code \in {"refused", "evidence_purged"},
           \A q \in Requests : req'[q].status = "pending" =>
                req'[q] = SettledIn(reqs, asked', S, rows, code)[q],
           \A c \in S \cap Candidates :
                \/ rows[c].status \in Terminal \ {"failed"}
                \/ cand'[c].status \in {rows[c].status, "pending", "failed"},
           \A q \in Requests :
                /\ reqs[q].status = "pending" /\ live'[KeyOf[q]]
                /\ reqs[q].cand \notin S /\ asked'[reqs[q].cand][1] = q
                => cand'[reqs[q].cand].status \in Open
    PROVE  AnsweredWhileChatStands'
<1> SUFFICES ASSUME NEW q \in Requests, req'[q].status = "pending", live'[KeyOf[q]],
                    asked'[req'[q].cand][1] = q
             PROVE  cand'[req'[q].cand].status \in Open /\ req'[q].failures < OwnerRetryBudget
  BY DEF AnsweredWhileChatStands, Answerable, Behind, Open
<1>1. req'[q].failures < OwnerRetryBudget
  BY DEF LinksInv, Links
<1> DEFINE new == SettledIn(reqs, asked', S, rows, code)
           c == reqs[q].cand
<1>2. /\ req'[q] = new[q] /\ reqs[q].status = "pending" /\ new[q].cand = c
  <2>1. Follows(new, reqs)
    BY SettledFollows
  <2>2. req'[q] = new[q]
    OBVIOUS
  <2> HIDE DEF new
  <2> QED
    BY <2>1, <2>2 DEF Follows
<1>3. c \in Candidates /\ \E i \in DOMAIN asked'[c] : asked'[c][i] = q
  BY <1>2 DEF Links
<1>4. asked'[c][1] = q
  BY <1>2
<1>5. CASE c \notin S
  BY <1>1, <1>2, <1>4, <1>5
<1>6. CASE c \in S
  <2>1. PICK i \in DOMAIN asked'[c] : asked'[c][i] = q
    BY <1>3
  <2>2. Len(asked'[c]) \in Nat /\ DOMAIN asked'[c] = 1..Len(asked'[c])
        /\ \A j \in 1..Len(asked'[c]) : asked'[c][j] \in Requests
    BY <1>3, SeqProperties
  <2>3. 1 \in DOMAIN asked'[c]
    <3>1. \A n \in Nat : \A j \in 1..n : 1 \in 1..n
      OBVIOUS
    <3> QED
      BY <2>1, <2>2, <3>1, Zenon
  <2>5. IsOldestPending(q, c, reqs, asked')
    <3>1. \A j \in 1..(1 - 1) : FALSE
      OBVIOUS
    <3> QED
      BY <1>2, <1>4, <2>3, <3>1 DEF IsOldestPending
  <2>6. new[q] = Resolution(reqs[q], rows[c].status, code)
    BY <1>6, <2>5 DEF SettledIn
  <2>7. reqs[q] \in RequestRow /\ reqs[q].failures < OwnerRetryBudget
    BY <1>2 DEF Links
  <2>8. rows[c].status \notin Terminal \ {"failed"}
    BY <1>2, <2>6, <2>7, ResolutionRow
  <2>9. cand'[c].status \in {rows[c].status, "pending", "failed"}
    BY <1>3, <1>6, <2>8
  <2>10. cand'[c].status \in Reconcilable \cup Terminal /\ cand'[c].status # "absent"
    BY <1>3, <2>1 DEF RowsStep, Row, CandidateRow, Links
  <2>11. cand'[c].status \in Open
    BY <2>8, <2>9, <2>10 DEF Open, Reconcilable
  <2> QED
    BY <1>1, <1>2, <2>11
<1> QED
  BY <1>5, <1>6

\* The same for a step that attaches no request.
LEMMA AnswerKeptBy ==
    ASSUME CandidateInv, RowsStep, RequestsStep, MarksStep, AnsweredWhileChatStands,
           asked' = asked, NEW S, NEW rows, NEW code \in {"refused", "evidence_purged"},
           \A q \in Requests : req'[q].status = "pending" =>
                req'[q] = Settled(S, rows, code)[q],
           \A c \in S \cap Candidates :
                \/ rows[c].status \in Terminal \ {"failed"}
                \/ cand'[c].status \in {rows[c].status, "pending", "failed"},
           \A c \in Candidates \ S :
                \/ cand'[c].status \in {cand[c].status} \cup Open
                \/ ~live'[cand[c].key]
    PROVE  AnsweredWhileChatStands'
<1>1. /\ req \in [Requests -> RequestRow] /\ asked \in [Candidates -> Seq(Requests)]
      /\ Links(cand, req, asked)
  BY DEF CandidateInv, TableInv, LinksInv
<1>2. Links(cand', req, asked)
  BY <1>1, SettlingFollows, LinksKept
<1>3. ASSUME NEW q \in Requests, req[q].status = "pending", live'[KeyOf[q]], req[q].cand \notin S,
             asked[req[q].cand][1] = q
      PROVE  cand'[req[q].cand].status \in Open
  <2>1. KeyOf[q] \in Keys
    BY MemoryAssumption
  <2>2. live[KeyOf[q]]
    BY <1>3, <2>1 DEF MarksStep
  <2>3. cand[req[q].cand].status \in Open
    BY <1>3, <2>2 DEF AnsweredWhileChatStands, Answerable, Behind, Open
  <2>4. req[q].cand \in Candidates /\ cand[req[q].cand].key = KeyOf[q]
    BY <1>1, <1>3 DEF Links
  <2> QED
    BY <1>3, <2>3, <2>4
<1>4. Settled(S, rows, code) = SettledIn(req, asked', S, rows, code)
  BY DEF Settled
<1>5. LinksInv' /\ asked' \in [Candidates -> Seq(Requests)] /\ Links(cand', req, asked')
  BY <1>1, <1>2 DEF RequestsStep
<1>6. ASSUME NEW q \in Requests, req[q].status = "pending", live'[KeyOf[q]], req[q].cand \notin S,
             asked'[req[q].cand][1] = q
      PROVE  cand'[req[q].cand].status \in Open
  BY <1>3, <1>6
<1> QED
  BY <1>1, <1>4, <1>5, <1>6, AnswerKept

\* A step that leaves the requests alone.
LEMMA AnswerKeptQuietly ==
    ASSUME CandidateInv, RowsStep, RequestsStep, MarksStep,
           AnsweredWhileChatStands, UNCHANGED <<req, asked>>,
           \A c \in Candidates :
                \/ cand'[c].status \in {cand[c].status} \cup Open
                \/ ~live'[cand[c].key]
    PROVE  AnsweredWhileChatStands'
<1> DEFINE S == {}
<1>1. \A q \in Requests : req'[q] = Settled(S, cand, "refused")[q]
  BY DEF Settled, SettledIn
<1>2. S \cap Candidates = {} /\ Candidates \ S = Candidates
  OBVIOUS
<1> HIDE DEF S
<1> QED
  BY <1>1, <1>2, AnswerKeptBy

\* The first request of a candidate is the first before another is attached.
LEMMA FirstStays ==
    ASSUME CandidateInv, NEW q \in Requests, NEW d \in Candidates, NEW p \in Requests,
           req[p].status = "pending", [asked EXCEPT ![d] = Append(@, q)][req[p].cand][1] = p
    PROVE  asked[req[p].cand][1] = p
<1>1. asked \in [Candidates -> Seq(Requests)] /\ req[p].cand \in Candidates
      /\ \E i \in DOMAIN asked[req[p].cand] : asked[req[p].cand][i] = p
  BY DEF CandidateInv, TableInv, LinksInv, Links
<1>2. CASE req[p].cand # d
  BY <1>1, <1>2
<1>3. CASE req[p].cand = d
  <2>1. asked[d] \in Seq(Requests) /\ Len(asked[d]) \in Nat /\ DOMAIN asked[d] = 1..Len(asked[d])
    BY <1>1, SeqProperties
  <2>2. Append(asked[d], q)[1] = p
    BY <1>1, <1>3
  <2>3. 1 \in DOMAIN asked[d]
    BY <1>1, <1>3, <2>1
  <2> QED
    BY <1>3, <2>1, <2>2, <2>3, AppendProperties
<1> QED
  BY <1>2, <1>3

LEMMA WorkerAnswers ==
    ASSUME CandidateInv, RowsStep, RequestsStep, MarksStep,
           AnsweredWhileChatStands, NEW w \in Workers, WorkerStep(w) \/ Crash(w)
    PROVE  AnsweredWhileChatStands'
<1> DEFINE c == ClaimOf(w)
<1>0. cand \in [Candidates -> Row] /\ RowsInv /\ WorkersInv
  BY DEF CandidateInv, RowsInv
<1>a. asked' = asked
  BY WorkerAsks
<1>1. ASSUME UNCHANGED <<cand, req>> PROVE AnsweredWhileChatStands'
  BY <1>1, <1>a, AnswerKeptQuietly
<1>2. ASSUME NEW r, NEW a, Advance(w, r, a), req' = req, r.status \in {RowOf(w).status} \cup Open
      PROVE  AnsweredWhileChatStands'
  <2>1. \A d \in Candidates : cand'[d].status \in {cand[d].status} \cup Open
    BY <1>0, <1>2 DEF Advance, RowOf
  <2> QED
    BY <1>2, <2>1, <1>a, AnswerKeptQuietly
<1>3. ASSUME NEW s \in {"discarded", "blocked", "reconciled"}, NEW r, NEW a, Advance(w, r, a),
             req' = Settled({c}, [d \in Candidates |-> [status |-> s]], "refused")
      PROVE  AnsweredWhileChatStands'
  <2> DEFINE rows == [d \in Candidates |-> [status |-> s]]
  <2>1. \A d \in {c} \cap Candidates : rows[d].status \in Terminal \ {"failed"}
    BY DEF Terminal
  <2>2. \A d \in Candidates \ {c} : cand'[d].status = cand[d].status
    BY <1>0, <1>3 DEF Advance
  <2> HIDE DEF rows, c
  <2> QED
    BY <1>3, <2>1, <2>2, <1>a, AnswerKeptBy DEF rows
<1>4. CASE PersistReading(w) \/ PersistReconciliation(w) \/ PersistPolicy(w)
  BY <1>1, <1>2, <1>4 DEF PersistReading, PersistReconciliation, PersistPolicy, Persist
<1>5. CASE PersistComparison(w)
  <2>1. CASE LiveClaim(w)
    <3> DEFINE r == [RowOf(w) EXCEPT !.verified = work[w].source]
    <3>1. work[w].stage # "idle"
      BY <1>5 DEF PersistComparison
    <3>2. RowOf(w) \in CandidateRow
      BY <1>0, <3>1, ClaimTypes DEF RowOf, Row
    <3>3. r.status = RowOf(w).status
      BY <3>2 DEF CandidateRow
    <3>4. Advance(w, r, "current") /\ req' = req
      BY <1>5, <2>1 DEF PersistComparison
    <3> HIDE DEF r
    <3> QED
      BY <1>2, <3>3, <3>4
  <2>2. CASE ~LiveClaim(w)
    BY <1>1, <1>5, <2>2 DEF PersistComparison
  <2> QED
    BY <2>1, <2>2
<1>6. CASE EpistemicRejection(w) \/ PolicyBlock(w)
  BY <1>1, <1>3, <1>6 DEF EpistemicRejection, PolicyBlock, Conclude
<1>7. CASE PublishBlocked(w) \/ PublishEquivalent(w) \/ PublishMemory(w)
  BY <1>3, <1>7 DEF PublishBlocked, PublishEquivalent, PublishMemory, PublishEnds
<1>8. CASE PublishSourceConflict(w) \/ PublishAwaitOwner(w) \/ PublishConflict(w)
           \/ RequeueAfterConflict(w) \/ PublishRetained(w)
  <2>1. work[w].stage # "idle"
    BY <1>8 DEF PublishSourceConflict, PublishAwaitOwner, PublishConflict, PublishRetained,
       RequeueAfterConflict, Publishing
  <2>2. RowOf(w) \in CandidateRow
    BY <1>0, <2>1, ClaimTypes DEF RowOf, Row
  <2>3. \A s \in {"pending", "awaiting_owner", "retained_short_term"} :
          /\ s \in Open /\ Unleased(RowOf(w), s).status = s /\ Decided(RowOf(w), s).status = s
          /\ [Decided(RowOf(w), s) EXCEPT !.tries = 0, !.retentions = @ + 1].status = s
    BY <2>2 DEF Open, Reconcilable, Unleased, Decided, CandidateRow
  <2>4. CASE PublishSourceConflict(w)
    BY <1>2, <2>3, <2>4 DEF PublishSourceConflict
  <2>5. CASE PublishAwaitOwner(w) \/ PublishConflict(w)
    BY <1>2, <2>3, <2>5 DEF PublishAwaitOwner, PublishConflict
  <2>6. CASE PublishRetained(w)
    BY <1>2, <2>3, <2>6 DEF PublishRetained
  <2>7. CASE RequeueAfterConflict(w)
    BY <1>1, <1>2, <2>3, <2>7 DEF RequeueAfterConflict
  <2> QED
    BY <1>8, <2>4, <2>5, <2>6, <2>7
<1>9. CASE PublishInvalidated(w)
  <2>1. PICK row : cand' = [cand EXCEPT ![c] = row]
                   /\ req' = Settled({c}, [cand EXCEPT ![c] = row], "refused")
    BY <1>9 DEF PublishInvalidated
  <2>2. req' = Settled({c}, cand', "refused")
    BY <2>1
  <2>3. \A d \in Candidates \ {c} : cand'[d].status = cand[d].status
    BY <1>0, <2>1
  <2> QED
    BY <2>2, <2>3, <1>a, AnswerKeptBy
<1>10. CASE ReleaseWrite(w)
  <2> DEFINE seen == work[w].seen
             released == IF seen.tries >= MaxAttempts THEN Decided(seen, "failed")
                         ELSE Unleased(seen, "pending")
             row == Flushed(cand[c], seen, released)
  <2>1. CASE UNCHANGED <<cand, req>>
    BY <1>1, <2>1
  <2>2. CASE ~UNCHANGED <<cand, req>>
    <3>1. /\ cand' = [cand EXCEPT ![c] = row]
          /\ req' = Settled({c}, [cand EXCEPT ![c] = released], "refused")
      BY <1>10, <2>2 DEF ReleaseWrite
    <3>2. c \in Candidates /\ seen \in Row /\ seen.status = "leased" /\ cand[c] \in Row
      BY <1>0, <1>10, ClaimTypes DEF ReleaseWrite, WorkersInv, WorkerOK, RowsInv
    <3>3. row.status \in {"pending", "failed"}
      BY <3>2, ReleasedRow
    <3> HIDE DEF row, released, c
    <3>4. cand'[c].status \in {"pending", "failed"}
          /\ \A d \in Candidates \ {c} : cand'[d].status = cand[d].status
      BY <1>0, <3>1, <3>2, <3>3
    <3> QED
      BY <3>1, <3>4, <1>a, AnswerKeptBy
  <2> QED
    BY <2>1, <2>2
<1> QED
  BY <1>1, <1>4, <1>5, <1>6, <1>7, <1>8, <1>9, <1>10 DEF WorkerStep, Crash, LoadSnapshot,
     RefreshSnapshot, StageFails, VersionConflict, PublishRefused, ReleaseRead

LEMMA OwnerAnswers ==
    ASSUME CandidateInv, RowsStep, RequestsStep, MarksStep,
           AnsweredWhileChatStands, NEW c \in Candidates,
           Confirm(c) \/ Reject(c) \/ AnswerExpired(c) \/ KeepCurrent(c) \/ LeaseExpires(c)
    PROVE  AnsweredWhileChatStands'
<1>0. cand \in [Candidates -> Row] /\ \A d \in Candidates : cand[d] \in CandidateRow
  BY DEF CandidateInv, RowsInv, Row
<1>a. asked' = asked
  BY DEF Confirm, Reject, AnswerExpired, ReviewEnds, KeepCurrent, LeaseExpires
<1>1. ASSUME NEW r, cand' = [cand EXCEPT ![c] = r], req' = Settled({c}, cand', "refused")
      PROVE  AnsweredWhileChatStands'
  <2>1. \A d \in Candidates \ {c} : cand'[d].status = cand[d].status
    BY <1>0, <1>1
  <2> QED
    BY <1>1, <2>1, <1>a, AnswerKeptBy
<1>2. ASSUME NEW r, cand' = [cand EXCEPT ![c] = r], req' = req,
             r.status \in {cand[c].status} \cup Open
      PROVE  AnsweredWhileChatStands'
  <2>1. \A d \in Candidates : cand'[d].status \in {cand[d].status} \cup Open
    BY <1>0, <1>2
  <2> QED
    BY <1>2, <2>1, <1>a, AnswerKeptQuietly
<1>3. CASE Confirm(c)
  <2> DEFINE r == [cand[c] EXCEPT !.status = "pending", !.token = 0, !.overdue = FALSE,
                      !.tries = 0, !.asserted = @ + 1, !.grant = TRUE, !.verified = FALSE]
  <2>1. r.status = "pending" /\ "pending" \in Open
    BY <1>0 DEF CandidateRow, Open, Reconcilable
  <2>2. cand' = [cand EXCEPT ![c] = r] /\ req' = req
    BY <1>3, Zenon DEF Confirm
  <2> HIDE DEF r
  <2> QED
    BY <1>2, <2>1, <2>2
<1>4. CASE Reject(c) \/ AnswerExpired(c)
  BY <1>1, <1>4 DEF Reject, AnswerExpired, ReviewEnds
<1>5. CASE KeepCurrent(c)
  <2>1. cand' = [cand EXCEPT ![c] = Rejected(cand[c])]
    BY <1>5 DEF KeepCurrent
  <2>2. CASE cand[c].status = "awaiting_owner"
    BY <1>1, <1>5, <2>1, <2>2 DEF KeepCurrent
  <2>3. CASE cand[c].status # "awaiting_owner"
    BY <1>2, <1>5, <2>1, <2>3 DEF KeepCurrent, Rejected
  <2> QED
    BY <2>2, <2>3
<1>6. CASE LeaseExpires(c)
  <2> DEFINE r == [cand[c] EXCEPT !.overdue = TRUE]
  <2>1. r.status = cand[c].status
    BY <1>0 DEF CandidateRow
  <2>2. cand' = [cand EXCEPT ![c] = r] /\ req' = req
    BY <1>6 DEF LeaseExpires
  <2> HIDE DEF r
  <2> QED
    BY <1>2, <2>1, <2>2
<1> QED
  BY <1>3, <1>4, <1>5, <1>6

\* The correction the owner chose waits for a candidate of its own, or is settled with
\* the candidate it shares.
LEMMA AcceptAnswers ==
    ASSUME CandidateInv, RowsStep, RequestsStep, MarksStep,
           AnsweredWhileChatStands, NEW c \in Candidates, NEW q \in Requests,
           AcceptCompeting(c, q)
    PROVE  AnsweredWhileChatStands'
<1>1. PICK d \in Target(KeyOf[q]) :
          LET reqs == Attached(q, d)
              asks == [asked EXCEPT ![d] = Append(@, q)]
          IN  /\ d \in Candidates /\ cand'[d].key = KeyOf[q]
              /\ d # c => cand'[d].status \in Reconcilable
              /\ cand' = [Enqueued(d, KeyOf[q]) EXCEPT ![c] = Rejected(@)]
              /\ reqs \in [Requests -> RequestRow]
              /\ Links(cand', reqs, asks)
              /\ asked' = asks /\ asks \in [Candidates -> Seq(Requests)]
              /\ req' = IF cand[c].status = "awaiting_owner"
                        THEN SettledIn(reqs, asks, {c}, cand', "refused") ELSE reqs
              /\ Follows(req', reqs)
  BY AcceptRequests
<1> DEFINE reqs == Attached(q, d)
           asks == [asked EXCEPT ![d] = Append(@, q)]
           rows == Enqueued(d, KeyOf[q])
           S == IF cand[c].status = "awaiting_owner" THEN {c} ELSE {}
<1>2. /\ d \in Candidates /\ (d # c => cand'[d].status \in Reconcilable)
      /\ reqs \in [Requests -> RequestRow] /\ Links(cand', reqs, asks)
      /\ asks \in [Candidates -> Seq(Requests)] /\ asked' = asks
  BY <1>1
<1>3. KeyOf[q] \in Keys /\ req \in [Requests -> RequestRow]
  BY MemoryAssumption DEF CandidateInv, TableInv
<1>4. /\ rows \in [Candidates -> Row] /\ rows[d].status \in Reconcilable
      /\ \A e \in Candidates : (e # d \/ cand[e].status # "absent") => rows[e] = cand[e]
  BY <1>3, EnqueuedRows DEF CandidateInv
<1>5. cand' = [rows EXCEPT ![c] = Rejected(rows[c])]
  BY <1>1
<1>6. reqs[q].cand = d /\ \A p \in Requests \ {q} : reqs[p] = req[p]
  BY <1>3 DEF Attached, RequestRow
<1>7. req' = SettledIn(reqs, asks, S, cand', "refused")
  <2>1. CASE cand[c].status = "awaiting_owner"
    BY <1>1, <2>1
  <2>2. CASE cand[c].status # "awaiting_owner"
    <3>1. S = {} /\ req' = reqs
      BY <1>1, <2>2
    <3> HIDE DEF S, reqs, asks
    <3>2. SettledIn(reqs, asks, S, cand', "refused") = [p \in Requests |-> reqs[p]]
      BY <3>1 DEF SettledIn
    <3> QED
      BY <1>2, <3>1, <3>2
  <2> QED
    BY <2>1, <2>2
<1>a. \A p \in Requests : req[p].status = "pending" /\ asks[req[p].cand][1] = p =>
          asked[req[p].cand][1] = p
  BY <1>2, FirstStays
<1> HIDE DEF reqs, asks, rows
<1>8. ASSUME NEW e \in Candidates, e \notin S
      PROVE  cand'[e] = rows[e]
  <2>1. CASE e = c
    <3>1. cand[c].status # "awaiting_owner"
      BY <1>8, <2>1
    <3>2. rows[c].status # "awaiting_owner" \/ rows[c] # cand[c]
      BY <3>1
    <3>3. rows[c] = cand[c] \/ (d = c /\ cand[c].status = "absent")
      BY <1>4
    <3>4. rows[c].status # "awaiting_owner"
      <4>1. CASE rows[c] = cand[c]
        BY <3>1, <4>1
      <4>2. CASE d = c /\ cand[c].status = "absent"
        <5>1. c \notin Holders(KeyOf[q])
          BY <4>2 DEF Holders, Reconcilable
        <5>2. rows[c] = [Absent EXCEPT !.status = "pending", !.key = KeyOf[q]]
          BY <4>2, <5>1 DEF rows, Enqueued, CandidateInv, RowsInv
        <5> QED
          BY <5>2 DEF Absent
      <4> QED
        BY <3>3, <4>1, <4>2
    <3> QED
      BY <1>4, <1>5, <2>1, <3>4 DEF Rejected
  <2>2. CASE e # c
    BY <1>4, <1>5, <2>2
  <2> QED
    BY <2>1, <2>2
<1>9. ASSUME NEW p \in Requests, reqs[p].status = "pending", live'[KeyOf[p]], reqs[p].cand \notin S,
             asks[reqs[p].cand][1] = p
      PROVE  cand'[reqs[p].cand].status \in Open
  <2>1. reqs[p].cand \in Candidates
    BY <1>2, <1>9 DEF Links
  <2>2. cand'[reqs[p].cand] = rows[reqs[p].cand]
    BY <1>8, <1>9, <2>1
  <2>3. CASE p = q
    BY <1>4, <1>6, <2>2, <2>3 DEF Open
  <2>4. CASE p # q
    <3>1. req[p].status = "pending" /\ reqs[p].cand = req[p].cand
      BY <1>6, <1>9, <2>4
    <3>2. live[KeyOf[p]]
      BY <1>9, MemoryAssumption DEF MarksStep
    <3>3. cand[req[p].cand].status \in Open
      BY <1>9, <1>a, <3>1, <3>2 DEF AnsweredWhileChatStands, Answerable, Behind, Open
    <3>4. cand[req[p].cand].status # "absent"
      BY <3>3 DEF Open, Reconcilable
    <3>5. rows[req[p].cand] = cand[req[p].cand]
      BY <1>4, <2>1, <3>1, <3>4
    <3> QED
      BY <2>2, <3>1, <3>3, <3>5
  <2> QED
    BY <2>3, <2>4
<1>10. LinksInv'
  BY DEF RequestsStep
<1> HIDE DEF S
<1>11. ASSUME NEW p \in Requests, reqs[p].status = "pending", live'[KeyOf[p]],
              reqs[p].cand \notin S, asked'[reqs[p].cand][1] = p
       PROVE  cand'[reqs[p].cand].status \in Open
  BY <1>2, <1>9, <1>11
<1>12. req' = SettledIn(reqs, asked', S, cand', "refused") /\ Links(cand', reqs, asked')
  BY <1>2, <1>7
<1> QED
  BY <1>2, <1>10, <1>11, <1>12, AnswerKept

LEMMA PurgeAnswers ==
    ASSUME CandidateInv, RowsStep, RequestsStep, MarksStep,
           AnsweredWhileChatStands, NEW redact \in BOOLEAN, PurgeWrite(redact)
    PROVE  AnsweredWhileChatStands'
<1> DEFINE S == DOMAIN purge.rows
           rows == [c \in Candidates |->
                      IF c \in S THEN Invalidated(purge.rows[c], purge.scrub) ELSE cand[c]]
<1>1. \A q \in Requests : req'[q].status = "pending" =>
          req'[q] = Settled(S, rows, "evidence_purged")[q]
  BY PurgeRequests
<1>2. \A c \in S : purge.rows[c] \in CandidateRow
  BY DEF CandidateInv, ReadInv, PurgeWrite, Row
<1>3. \A c \in S : Invalidated(purge.rows[c], purge.scrub).status = "invalidated"
  BY <1>2 DEF Invalidated, CandidateRow
<1>4. \A c \in S \cap Candidates : rows[c].status \in Terminal \ {"failed"}
  BY <1>3 DEF Terminal
<1>5. \A c \in Candidates \ S : cand'[c].status = cand[c].status
  <2>1. \A c \in Candidates : cand[c] \in CandidateRow
    BY DEF CandidateInv, RowsInv, Row
  <2>2. \E K : \A c \in Candidates \ S :
           cand'[c] = [cand[c] EXCEPT !.verified = @ /\ cand[c].key \notin K]
    BY DEF PurgeWrite, Unverified
  <2> QED
    BY <2>1, <2>2 DEF CandidateRow
<1>6. asked' = asked
  BY DEF PurgeWrite
<1> HIDE DEF S, rows
<1> QED
  BY <1>1, <1>4, <1>5, <1>6, AnswerKeptBy

LEMMA SweepAnswers ==
    ASSUME CandidateInv, RowsStep, RequestsStep, MarksStep,
           AnsweredWhileChatStands, NEW w \in Workers, NEW clock \in [Candidates -> Clock],
           Sweep(w, clock)
    PROVE  AnsweredWhileChatStands'
<1> DEFINE S == {c \in Candidates : cand'[c] # cand[c] /\ cand'[c].status \in Terminal}
<1>1. req' = Settled(S, cand', "refused")
  <2> DEFINE rows == [c \in Candidates |-> SweptRow(c, clock[c])]
             T == {c \in Candidates : rows[c] # cand[c] /\ rows[c].status \in Terminal}
  <2>1. cand' = rows /\ req' = Settled(T, rows, "refused")
    BY Zenon DEF Sweep
  <2> HIDE DEF rows
  <2> QED
    BY <2>1
<1>2. ASSUME NEW c \in Candidates \ S
      PROVE  cand'[c].status \in {cand[c].status} \cup Open
  <2>1. cand'[c] = cand[c] \/ cand'[c].status \notin Terminal
    BY <1>2
  <2>2. cand'[c].status \in Reconcilable \cup Terminal \cup {"absent"}
    BY DEF RowsStep, Row, CandidateRow
  <2>3. cand'[c].status = "absent" => cand[c].status = "absent"
    BY DEF RowsStep
  <2> QED
    BY <2>1, <2>2, <2>3 DEF Open
<1>3. asked' = asked
  BY DEF Sweep
<1> HIDE DEF S
<1> QED
  BY <1>1, <1>2, <1>3, AnswerKeptBy

\* No step leaves an obligation pending on a candidate that has ended.
LEMMA NextAnswers ==
    ASSUME CandidateInv, Next, AnsweredWhileChatStands
    PROVE  AnsweredWhileChatStands'
<1>0. RowsStep /\ RequestsStep /\ MarksStep
  BY RowsChange, RequestsChange, MarksChange
<1>1. cand \in [Candidates -> Row] /\ \A d \in Candidates : cand[d] \in CandidateRow
  BY DEF CandidateInv, RowsInv, Row
<1>2. ASSUME UNCHANGED <<cand, req, asked>> PROVE AnsweredWhileChatStands'
  BY <1>0, <1>2, AnswerKeptQuietly
<1>3. ASSUME NEW k \in Keys, NEW d \in Target(k), cand' = Enqueued(d, k)
      PROVE  \A c \in Candidates : cand'[c].status \in {cand[c].status} \cup Open
  BY <1>3, EnqueuedRows DEF CandidateInv, Open
<1>4. ASSUME NEW q \in Requests, Ask(q) PROVE AnsweredWhileChatStands'
  <2>1. KeyOf[q] \in Keys /\ req \in [Requests -> RequestRow]
    BY MemoryAssumption DEF CandidateInv, TableInv
  <2>2. PICK c \in Target(KeyOf[q]) :
            /\ cand' = Enqueued(c, KeyOf[q]) /\ req' = Attached(q, c)
            /\ asked' = [asked EXCEPT ![c] = Append(@, q)]
    BY <1>4 DEF Ask
  <2>3. cand'[c].status \in Reconcilable /\ c \in Candidates
    BY <2>1, <2>2, EnqueuedRows DEF CandidateInv
  <2>4. \A d \in Candidates : cand'[d].status \in {cand[d].status} \cup Open
    BY <1>3, <2>1, <2>2
  <2>5. req'[q].cand = c /\ \A p \in Requests \ {q} : req'[p] = req[p]
    BY <2>1, <2>2 DEF Attached, RequestRow
  <2>6. ASSUME NEW p \in Requests, req'[p].status = "pending", live'[KeyOf[p]],
               asked'[req'[p].cand][1] = p
        PROVE  cand'[req'[p].cand].status \in Open /\ req'[p].failures < OwnerRetryBudget
    <3>1. req'[p].failures < OwnerRetryBudget
      BY <1>0, <2>6 DEF RequestsStep, LinksInv, Links
    <3>2. CASE p = q
      BY <2>3, <2>5, <3>1, <3>2 DEF Open
    <3>3. CASE p # q
      <4>1. req[p] = req'[p] /\ live[KeyOf[p]]
        BY <1>0, <2>5, <2>6, <3>3, MemoryAssumption DEF MarksStep
      <4>2. cand[req[p].cand].status \in Open /\ req[p].cand \in Candidates
        <5>1. asked[req[p].cand][1] = p
          BY <2>2, <2>3, <2>6, <4>1, FirstStays
        <5> QED
          BY <2>6, <4>1, <5>1 DEF AnsweredWhileChatStands, Answerable, Behind, Open, CandidateInv,
             LinksInv, Links
      <4> QED
        BY <2>4, <3>1, <4>1, <4>2
    <3> QED
      BY <3>2, <3>3
  <2> QED
    BY <2>6 DEF AnsweredWhileChatStands, Answerable, Behind, Open
<1>5. ASSUME NEW q \in Requests, AskFails(q) PROVE AnsweredWhileChatStands'
  <2>1. req' = [req EXCEPT ![q] = [req[q] EXCEPT !.status = "resolved",
                                                 !.outcome = "intake_failed"]]
        /\ req \in [Requests -> RequestRow] /\ UNCHANGED <<cand, live, asked>>
    BY <1>5 DEF AskFails, CandidateInv, TableInv
  <2>2. req'[q].status = "resolved" /\ \A p \in Requests \ {q} : req'[p] = req[p]
    BY <2>1 DEF RequestRow
  <2> QED
    BY <2>1, <2>2 DEF AnsweredWhileChatStands, Answerable, Behind
<1>6. ASSUME NEW q \in Requests, Retry(q) PROVE AnsweredWhileChatStands'
  <2>1. \E row : cand' = [cand EXCEPT ![req[q].cand] = row]
    BY <1>6 DEF Retry
  <2>2. req' = Settled({req[q].cand}, cand', "refused") /\ asked' = asked
    BY <1>6 DEF Retry
  <2>3. \A d \in Candidates \ {req[q].cand} : cand'[d].status = cand[d].status
    BY <1>1, <2>1
  <2> QED
    BY <1>0, <2>2, <2>3, AnswerKeptBy
<1>7. ASSUME NEW k \in Keys, Discover(k) PROVE AnsweredWhileChatStands'
  <2>1. UNCHANGED <<req, asked>> /\ \A c \in Candidates : cand'[c].status \in {cand[c].status} \cup Open
    BY <1>3, <1>7 DEF Discover
  <2> QED
    BY <1>0, <2>1, AnswerKeptQuietly
<1>8. ASSUME NEW k \in Keys, SourceGrows(k) PROVE AnsweredWhileChatStands'
  <2>1. UNCHANGED <<req, asked>> /\ \A c \in Candidates :
           cand'[c] = [cand[c] EXCEPT !.verified = @ /\ cand[c].key \notin {k}]
    BY <1>8 DEF SourceGrows, Unverified
  <2>2. \A c \in Candidates : cand'[c].status = cand[c].status
    BY <1>1, <2>1 DEF CandidateRow
  <2> QED
    BY <1>0, <2>1, <2>2, AnswerKeptQuietly
<1>9. ASSUME NEW k \in Keys, DeleteChat(k) PROVE AnsweredWhileChatStands'
  <2>1. live \in [Keys -> BOOLEAN]
    BY DEF CandidateInv, TableInv
  <2>2. UNCHANGED <<req, asked>> /\ ~live'[k]
    BY <1>9, <2>1 DEF DeleteChat
  <2>3. \A c \in Candidates : cand[c].key = k \/ cand'[c] = cand[c]
    BY <1>9 DEF DeleteChat
  <2> QED
    BY <1>0, <2>2, <2>3, AnswerKeptQuietly
<1>10. ASSUME NEW scrub \in BOOLEAN, PurgeRead(scrub) PROVE AnsweredWhileChatStands'
  BY <1>2, <1>10 DEF PurgeRead
<1>11. CASE MemoryChanges
  BY <1>2, <1>11 DEF MemoryChanges
<1> QED
  BY <1>0, <1>4, <1>5, <1>6, <1>7, <1>8, <1>9, <1>10, <1>11, NextCases, WorkerAnswers,
     OwnerAnswers, AcceptAnswers, PurgeAnswers, SweepAnswers

\* An explicit obligation whose chat stands is pending only while its candidate is in
\* the pipeline, or has failed with retries left, or another request was attached to
\* that candidate first: every handler that ends a candidate settles its first request
\* (settle_explicit_obligation).
THEOREM ObligationsAreAnswered == Spec => []AnsweredWhileChatStands
<1>1. Init => AnsweredWhileChatStands
  BY DEF Init, AnsweredWhileChatStands
<1>2. CandidateInv /\ AnsweredWhileChatStands /\ [Next]_vars => AnsweredWhileChatStands'
  <2>1. ASSUME CandidateInv, AnsweredWhileChatStands, Next PROVE AnsweredWhileChatStands'
    BY <2>1, NextAnswers
  <2>2. ASSUME AnsweredWhileChatStands, UNCHANGED vars PROVE AnsweredWhileChatStands'
    BY <2>2 DEF AnsweredWhileChatStands, Answerable, Behind, vars
  <2> QED
    BY <2>1, <2>2
<1> QED
  BY <1>1, <1>2, CandidateInvariant, PTL DEF Spec

=============================================================================
