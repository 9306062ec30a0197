-------------------------- MODULE MemoryCandidates --------------------------
(***************************************************************************)
(* The life of a memory candidate: backend/atlas/memory/candidates.py,     *)
(* explicit.py, reconciliation.py and the commands of lifecycle.py that    *)
(* touch candidates.  A candidate carries a claim and its evidence; a      *)
(* worker of the maintenance service leases it, verifies it in persisted   *)
(* stages and publishes it through the shared write contract.  The owner   *)
(* asks for memories explicitly (a request is an explicit_remember or      *)
(* explicit_correct obligation with its command), answers reviews and      *)
(* conflicts, retries, retires and deletes, all while workers run.         *)
(*                                                                         *)
(* One step is one transaction.  Two handlers read candidates without a    *)
(* row lock and write them back, so they are two steps each: releasing a   *)
(* failed attempt and purging the candidates of a retired or deleted       *)
(* memory.  What the model says, what the claims mean and which memory a   *)
(* decision targets is data: every outcome the code has is possible.       *)
(***************************************************************************)
EXTENDS Integers, Sequences

CONSTANTS
    Candidates,         \* candidate rows, created on demand
    Requests,           \* explicit owner requests
    Workers,            \* processes that run the reconciliation pass
    Keys,               \* evidence sets, as evidence_set_hash tells them apart
    KeyOf,              \* the evidence a request cites: the owner's latest turn
    MaxAttempts,        \* max_attempts of the lease repository
    OwnerRetryBudget,   \* OWNER_RETRY_BUDGET
    MaxRetentions,      \* bound on how often a claim is retained before it expires
    PublishTries,       \* publications tried before a requeue
    MaxPurges,          \* bound on the retirements and deletions of a behaviour
    None

ASSUME MemoryAssumption ==
    /\ KeyOf \in [Requests -> Keys]
    /\ {MaxAttempts, OwnerRetryBudget, PublishTries} \subseteq Nat \ {0}
    /\ {MaxRetentions, MaxPurges} \subseteq Nat

VARIABLES
    cand,       \* cand[c]: MemoryCandidateRow
    attempts,   \* attempts[c]: its MemoryReconciliationAttemptRows, by attempt_number
    req,        \* req[q]: the obligation and command of a request
    asked,      \* asked[c]: the requests attached to c, oldest first
    review,     \* review[c]: pending memory_confirmation / memory_review obligations
    conflicts,  \* conflicts[c]: open conflicts with their obligations
    live,       \* live[k]: no turn of the evidence set has been deleted
    memory,     \* memory[c]: the durable memory derived from c
    work,       \* work[w]: what a worker holds in its process
    purge,      \* the purge in flight, under the memory resource's advisory lock
    purges      \* how many there have been

vars == <<cand, attempts, req, asked, review, conflicts, live, memory, work, purge, purges>>

Reconcilable == {"pending", "leased", "retained_short_term", "awaiting_owner"}

Terminal == {"reconciled", "discarded", "blocked", "expired", "failed", "invalidated", "rejected"}

\* state_version is not a field: all that is ever asked of it is whether an attempt
\* still carries the candidate's, so the attempts say it.  token 0 is no lease; overdue says leased_until has passed; grant that
\* decision_json records the owner's confirmation and its assertion turn;
\* asserted how many assertion turns are evidence; verified that a reading and
\* comparison of the present evidence and source revision can be reused.
CandidateRow ==
    [status : Reconcilable \cup Terminal \cup {"absent"}, token : Nat, overdue : BOOLEAN,
     tries : 0..MaxAttempts, retentions : 0..MaxRetentions, key : Keys \cup {None}, asserted : Nat, grant : BOOLEAN, verified : BOOLEAN,
     invalidated : BOOLEAN, scrubbed : BOOLEAN]

\* An open attempt carries the candidate's state_version or an older one.
AttemptRow == {"current", "stale", "closed"}

RequestRow ==
    [status : {"unasked", "pending", "resolved"}, cand : Candidates \cup {None},
     failures : 0..OwnerRetryBudget,
     outcome : {None, "published", "refused", "exhausted", "evidence_purged", "intake_failed"}]

Claims == Candidates \X (Nat \ {0})

\* batch holds the leases claimed and not processed yet; seen the row a
\* release has read.
WorkerState ==
    [stage : {"idle", "loaded", "read", "compared", "refreshed", "reconciled", "policed",
              "conflicted", "requeue", "failing", "releasing"},
     batch : SUBSET Claims, claim : Claims \cup {None},
     fresh : BOOLEAN, source : BOOLEAN, tries : 0..PublishTries,
     seen : CandidateRow \cup {None}]

Idle == [stage |-> "idle", batch |-> {}, claim |-> None, fresh |-> FALSE,
         source |-> FALSE, tries |-> 0, seen |-> None]

Absent == [status |-> "absent", token |-> 0, overdue |-> FALSE,
           tries |-> 0, retentions |-> 0, key |-> None, asserted |-> 0, grant |-> FALSE,
           verified |-> FALSE, invalidated |-> FALSE, scrubbed |-> FALSE]

Init ==
    /\ cand = [c \in Candidates |-> Absent]
    /\ attempts = [c \in Candidates |-> <<>>]
    /\ req = [q \in Requests |->
                [status |-> "unasked", cand |-> None, failures |-> 0, outcome |-> None]]
    /\ asked = [c \in Candidates |-> <<>>]
    /\ review = [c \in Candidates |-> 0]
    /\ conflicts = [c \in Candidates |-> 0]
    /\ live = [k \in Keys |-> TRUE]
    /\ memory = [c \in Candidates |-> "none"]
    /\ work = [w \in Workers |-> Idle]
    /\ purge = None
    /\ purges = 0

-----------------------------------------------------------------------------
(* Evidence and explicit obligations                                       *)

\* _evidence_turn_admissible for every turn: the chat's own turns are live, and
\* an assertion turn, which lives elsewhere, is the one decision_json records.
EvidenceLive(r) ==
    live[r.key] /\ (r.asserted = 0 \/ (r.asserted = 1 /\ r.grant))

\* Mutant: the status alone tells that a candidate was purged.
PurgedByStatus(r) == r.status = "invalidated"

\* invalidated_at is set or the payload is gone, whatever the status says by now.
Purged(r) == r.invalidated \/ r.scrubbed \/ r.status = "invalidated"

\* pending_explicit_obligation: the oldest pending request of c, of the
\* requests in ask with the rows in rows.
IsOldestPending(q, c, rows, ask) ==
    \E i \in DOMAIN ask[c] :
        /\ ask[c][i] = q
        /\ rows[q].status = "pending"
        /\ \A j \in 1..(i - 1) : rows[ask[c][j]].status # "pending"

\* settle_explicit_obligation: how the status of the candidate reflects on it.
Resolution(o, status, code) ==
    CASE status = "reconciled" -> [o EXCEPT !.status = "resolved", !.outcome = "published"]
      [] status = "failed" /\ o.failures + 1 < OwnerRetryBudget ->
            [o EXCEPT !.failures = @ + 1]
      [] status = "failed" /\ o.failures + 1 >= OwnerRetryBudget ->
            [o EXCEPT !.failures = @ + 1, !.status = "resolved", !.outcome = "exhausted"]
      [] status \in Terminal \ {"reconciled", "failed"} ->
            [o EXCEPT !.status = "resolved", !.outcome = code]
      [] OTHER -> o

\* The requests of reqs, attached as in asks, after every candidate of S settles
\* with its row of rows.
SettledIn(reqs, asks, S, rows, code) ==
    [q \in Requests |->
        IF \E c \in S : IsOldestPending(q, c, reqs, asks)
        THEN Resolution(reqs[q], rows[reqs[q].cand].status, code)
        ELSE reqs[q]]

Settled(S, rows, code) == SettledIn(req, asked, S, rows, code)

-----------------------------------------------------------------------------
(* Intake                                                                  *)

\* The live row with this evidence: the partial unique index admits one.
Holders(k) == {c \in Candidates :
    cand[c].status \in Reconcilable /\ cand[c].key = k /\ cand[c].asserted = 0}

\* enqueue returns the holder of the evidence, or inserts a row.
Target(k) == IF Holders(k) # {} THEN Holders(k)
             ELSE {c \in Candidates : cand[c].status = "absent"}

Enqueued(c, k) ==
    IF c \in Holders(k) THEN cand
    ELSE [cand EXCEPT ![c] = [Absent EXCEPT !.status = "pending", !.key = k]]

Attached(q, c) ==
    [req EXCEPT ![q] = [@ EXCEPT !.status = "pending", !.cand = c]]

\* remember and correct: command, candidate and obligation in one transaction.
Ask(q) ==
    /\ req[q].status = "unasked"
    /\ live[KeyOf[q]]
    /\ \E c \in Target(KeyOf[q]) :
        /\ cand' = Enqueued(c, KeyOf[q])
        /\ req' = Attached(q, c)
        /\ asked' = [asked EXCEPT ![c] = Append(@, q)]
    /\ UNCHANGED <<attempts, review, conflicts, live, memory, work, purge, purges>>

\* An intake that raises, for want of the turn or otherwise, is recorded as a
\* resolved obligation of its own.
AskFails(q) ==
    /\ req[q].status = "unasked"
    /\ req' = [req EXCEPT ![q].status = "resolved", ![q].outcome = "intake_failed"]
    /\ UNCHANGED <<cand, attempts, asked, review, conflicts, live, memory, work, purge, purges>>

\* A candidate proposed from the conversation cites spans of it, a request the whole
\* turn, so their evidence differs.
Discover(k) ==
    /\ k \notin {KeyOf[q] : q \in Requests}
    /\ live[k] /\ Holders(k) = {}
    /\ \E c \in Target(k) : cand' = Enqueued(c, k)
    /\ UNCHANGED <<attempts, req, asked, review, conflicts, live, memory, work, purge, purges>>

-----------------------------------------------------------------------------
(* claim_batch                                                             *)

\* What the transaction finds for a row: skipped (locked by another one, or past
\* the batch limit), nothing due, the review of a retained claim due, or the
\* expiry of a retained claim or of an obligation passed.
Clock == {"skipped", "nothing", "due", "lapsed"}

\* Mutant: a lease whose worker is gone is never taken over.
ReclaimableNot(r) == r.status = "pending"

Reclaimable(r) == r.status = "pending" \/ (r.status = "leased" /\ r.overdue)

LapsedReview(c, t) == t = "lapsed" /\ review[c] + conflicts[c] > 0

Exhausted(c, t) ==
    t # "skipped" /\ Reclaimable(cand[c]) /\ cand[c].tries >= MaxAttempts

Eligible(c, t) ==
    LET r == cand[c] IN
    /\ t # "skipped"
    /\ \/ Reclaimable(r) /\ r.tries < MaxAttempts
       \/ r.status = "retained_short_term" /\ t = "due"
    /\ ~Purged(r)

Ended(r, status) == [r EXCEPT !.status = status, !.token = 0, !.overdue = FALSE,
                              !.grant = FALSE]

\* A handler bumps state_version: no attempt carries it any more.
Bumped(as) == [i \in DOMAIN as |-> IF as[i] = "current" THEN "stale" ELSE as[i]]

\* A state_version computed from a row read before: any open attempts K may carry it.
OpenAttempts(S) ==
    UNION {{<<c, i>> : i \in {j \in DOMAIN attempts[c] : attempts[c][j] # "closed"}} : c \in S}

Recomputed(c, K) ==
    [i \in DOMAIN attempts[c] |->
        CASE attempts[c][i] = "closed" -> "closed"
          [] attempts[c][i] # "closed" /\ <<c, i>> \in K -> "current"
          [] OTHER -> "stale"]

BumpedOf(S) == [c \in Candidates |-> IF c \in S THEN Bumped(attempts[c]) ELSE attempts[c]]

Closed(as) == [i \in DOMAIN as |-> "closed"]

\* The row after the pass.
SweptRow(c, t) ==
    LET r == cand[c] IN
    CASE r.status = "awaiting_owner" /\ LapsedReview(c, t) -> Ended(r, "expired")
      [] r.status = "retained_short_term" /\ t = "lapsed" -> Ended(r, "expired")
      [] Exhausted(c, t) -> Ended(r, "failed")
      [] Eligible(c, t) /\ ~EvidenceLive(r) ->
            [Ended(r, "invalidated") EXCEPT !.invalidated = TRUE]
      [] Eligible(c, t) /\ EvidenceLive(r) ->
            [r EXCEPT !.status = "leased", !.token = Len(attempts[c]) + 1,
                      !.overdue = FALSE, !.tries = @ + 1]
      [] OTHER -> r

NewlyLeased(c, t) == Eligible(c, t) /\ EvidenceLive(cand[c])

\* _close_stale_attempts, and the attempt of a new lease.
SweptAttempts(c, t) ==
    LET stale == Exhausted(c, t)
                 \/ (Eligible(c, t) /\ (cand[c].status = "leased" \/ ~EvidenceLive(cand[c])))
        kept == CASE stale -> Closed(attempts[c])
                  [] ~stale /\ SweptRow(c, t) # cand[c] -> Bumped(attempts[c])
                  [] OTHER -> attempts[c]
    IN IF NewlyLeased(c, t) THEN Append(kept, "current") ELSE kept

\* One transaction: lapsed obligations and claims expire, exhausted candidates
\* fail, those without evidence are invalidated, and the rest are leased.
Sweep(w, clock) ==
    LET rows == [c \in Candidates |-> SweptRow(c, clock[c])]
        ended == {c \in Candidates : rows[c] # cand[c] /\ rows[c].status \in Terminal}
        lapsed == {c \in Candidates : LapsedReview(c, clock[c])}
    IN
    /\ work[w].stage = "idle" /\ work[w].batch = {}
    /\ cand' = rows
    /\ attempts' = [c \in Candidates |-> SweptAttempts(c, clock[c])]
    /\ req' = Settled(ended, rows, "refused")
    /\ review' = [c \in Candidates |-> IF c \in lapsed THEN 0 ELSE review[c]]
    /\ conflicts' = [c \in Candidates |-> IF c \in lapsed THEN 0 ELSE conflicts[c]]
    /\ work' = [work EXCEPT ![w].batch =
            {<<c, Len(attempts[c]) + 1>> : c \in {d \in Candidates : NewlyLeased(d, clock[d])}}]
    /\ UNCHANGED <<asked, live, memory, purge, purges>>

\* leased_until passes.
LeaseExpires(c) ==
    /\ cand[c].status = "leased" /\ ~cand[c].overdue
    /\ cand' = [cand EXCEPT ![c].overdue = TRUE]
    /\ UNCHANGED <<attempts, req, asked, review, conflicts, live, memory, work, purge, purges>>

-----------------------------------------------------------------------------
(* run_once: the stages of one claim                                       *)

ClaimOf(w) == work[w].claim[1]

NumberOf(w) == work[w].claim[2]

RowOf(w) == cand[ClaimOf(w)]

AttemptOf(w) == attempts[ClaimOf(w)][NumberOf(w)]

Holds(w) == RowOf(w).status = "leased" /\ RowOf(w).token = NumberOf(w)

\* The attempt is open and no one has advanced the candidate since.
AttemptCurrent(w) == AttemptOf(w) = "current"

\* _locked_live_claim
LiveClaim(w) ==
    /\ Holds(w)
    /\ AttemptCurrent(w)
    /\ ~RowOf(w).overdue
    /\ ~Purged(RowOf(w))
    /\ EvidenceLive(RowOf(w))

\* The worker moves to a stage; a claim that is done leaves the worker idle.
Goto(w, stage) == work' = [work EXCEPT ![w].stage = stage]

Finished(state) ==
    [Idle EXCEPT !.batch = state.batch]

Finish(w) == work' = [work EXCEPT ![w] = Finished(@)]

\* The claim is given up: _release_failed comes next.
GivenUp(state, cl) ==
    [Finished(state) EXCEPT !.stage = "failing", !.claim = cl, !.batch = @ \ {cl}]

GiveUp(w) == work' = [work EXCEPT ![w] = GivenUp(@, @.claim)]

\* The candidate gets row r through the worker's own attempt: _advance_candidate_state
\* for both, and the attempt is closed unless it goes on.
Advance(w, r, attempt) ==
    /\ cand' = [cand EXCEPT ![ClaimOf(w)] = r]
    /\ attempts' = [attempts EXCEPT ![ClaimOf(w)] =
                        [Bumped(@) EXCEPT ![NumberOf(w)] = attempt]]

\* Mutant: a row leaves its lease and keeps the token.
UnleasedKeepingToken(r, status) == [r EXCEPT !.status = status, !.overdue = FALSE]

\* A row that gives up its lease for a status.
Unleased(r, status) == [r EXCEPT !.status = status, !.token = 0, !.overdue = FALSE]

\* The same, with a decision_json of its own.
Decided(r, status) == [Unleased(r, status) EXCEPT !.grant = FALSE]

\* _load_snapshot of the next claim of the batch; _reusable_verification skips the
\* reading and the comparison.
LoadSnapshot(w) ==
    /\ work[w].stage = "idle"
    /\ \E cl \in work[w].batch :
        LET r == cand[cl[1]]
            current == /\ r.status = "leased" /\ r.token = cl[2] /\ ~r.overdue
                       /\ ~Purged(r) /\ EvidenceLive(r)
        IN work' = [work EXCEPT ![w] =
                IF current
                THEN [work[w] EXCEPT !.claim = cl, !.batch = @ \ {cl}, !.source = TRUE,
                                     !.stage = IF r.verified THEN "compared" ELSE "loaded"]
                ELSE GivenUp(@, cl)]
    /\ UNCHANGED <<cand, attempts, req, asked, review, conflicts, live, memory, purge, purges>>

\* A stage is persisted under the live claim, or the claim is given up.
Persist(w, from, to) ==
    /\ work[w].stage = from
    /\ IF LiveClaim(w)
       THEN Advance(w, RowOf(w), "current") /\ Goto(w, to)
       ELSE GiveUp(w) /\ UNCHANGED <<cand, attempts>>
    /\ UNCHANGED <<req, asked, review, conflicts, live, memory, purge, purges>>

PersistReading(w) == Persist(w, "loaded", "read")

\* The comparison makes the verification reusable, if the source stands as it was read.
PersistComparison(w) ==
    /\ work[w].stage = "read"
    /\ IF LiveClaim(w)
       THEN /\ Advance(w, [RowOf(w) EXCEPT !.verified = work[w].source], "current")
            /\ Goto(w, "compared")
       ELSE GiveUp(w) /\ UNCHANGED <<cand, attempts>>
    /\ UNCHANGED <<req, asked, review, conflicts, live, memory, purge, purges>>

\* A verdict that ends the candidate under the live claim.
Conclude(w, status) ==
    /\ IF LiveClaim(w)
       THEN /\ Advance(w, Decided(RowOf(w), status), "closed")
            /\ req' = Settled({ClaimOf(w)}, [c \in Candidates |-> [status |-> status]], "refused")
            /\ Finish(w)
       ELSE GiveUp(w) /\ UNCHANGED <<cand, attempts, req>>
    /\ UNCHANGED <<asked, review, conflicts, live, memory, purge, purges>>

EpistemicRejection(w) == work[w].stage = "compared" /\ Conclude(w, "discarded")

\* _refresh_memory_snapshot, before the first try and after every conflict.
RefreshSnapshot(w) ==
    /\ work[w].stage \in {"compared", "conflicted"}
    /\ IF LiveClaim(w) /\ work[w].source
       THEN work' = [work EXCEPT ![w].fresh = TRUE,
                ![w].stage = IF work[w].tries < PublishTries THEN "refreshed" ELSE "requeue"]
       ELSE GiveUp(w)
    /\ UNCHANGED <<cand, attempts, req, asked, review, conflicts, live, memory, purge, purges>>

PersistReconciliation(w) == Persist(w, "refreshed", "reconciled")

PersistPolicy(w) == Persist(w, "reconciled", "policed")

PolicyBlock(w) == work[w].stage = "policed" /\ Conclude(w, "blocked")

\* A model call, a validation or a write raises.
StageFails(w) ==
    /\ work[w].stage \in {"loaded", "read", "compared", "refreshed", "policed"}
    /\ GiveUp(w)
    /\ UNCHANGED <<cand, attempts, req, asked, review, conflicts, live, memory, purge, purges>>

\* systemd stops the pass at its time limit, or a deployment does.
Crash(w) ==
    /\ work[w] # Idle
    /\ work' = [work EXCEPT ![w] = Idle]
    /\ UNCHANGED <<cand, attempts, req, asked, review, conflicts, live, memory, purge, purges>>

-----------------------------------------------------------------------------
(* Publication: one shared write on the memory resource, which expects the *)
(* revision the worker refreshed from                                      *)

\* A write that changed the memory state: every snapshot taken before is stale.
Stale(state) == [v \in Workers |-> [state[v] EXCEPT !.fresh = FALSE]]

\* The expected revision is stale, or PostgreSQL aborts the transaction as
\* unserializable.
VersionConflict(w) ==
    /\ work[w].stage = "policed" /\ purge = None
    /\ work' = [work EXCEPT ![w].stage = "conflicted", ![w].tries = @ + 1]
    /\ UNCHANGED <<cand, attempts, req, asked, review, conflicts, live, memory, purge, purges>>

\* The write runs on the revision it expects.
Publishing(w) == work[w].stage = "policed" /\ purge = None /\ work[w].fresh

\* All that publish rechecks before it advances the candidate.
MayPublish(w) ==
    /\ AttemptCurrent(w)
    /\ ~Purged(RowOf(w))
    /\ Holds(w) /\ ~RowOf(w).overdue
    /\ EvidenceLive(RowOf(w))

\* lease_conflict: somebody else has the candidate, or the lease has run out.
PublishRefused(w) ==
    /\ Publishing(w)
    /\ ~AttemptCurrent(w) \/ (~Purged(RowOf(w)) /\ (~Holds(w) \/ RowOf(w).overdue))
    /\ attempts' = [attempts EXCEPT ![ClaimOf(w)][NumberOf(w)] =
                        IF AttemptCurrent(w) THEN "closed" ELSE @]
    /\ Finish(w)
    /\ UNCHANGED <<cand, req, asked, review, conflicts, live, memory, purge, purges>>

\* The candidate was invalidated meanwhile, or its evidence is gone.
PublishInvalidated(w) ==
    LET c == ClaimOf(w)
        r == RowOf(w)
        row == IF Purged(r)
               THEN IF r.token = NumberOf(w) THEN Unleased(r, "invalidated") ELSE r
               ELSE [Decided(r, "invalidated") EXCEPT !.invalidated = TRUE]
    IN
    /\ Publishing(w)
    /\ AttemptCurrent(w)
    /\ Purged(r) \/ (Holds(w) /\ ~r.overdue /\ ~EvidenceLive(r))
    /\ cand' = [cand EXCEPT ![c] = row]
    /\ attempts' = [attempts EXCEPT ![c][NumberOf(w)] = "closed"]
    /\ req' = Settled({c}, [cand EXCEPT ![c] = row], "refused")
    /\ Finish(w)
    /\ UNCHANGED <<asked, review, conflicts, live, memory, purge, purges>>

\* source_conflict: the transcript has changed; back to the queue.
PublishSourceConflict(w) ==
    /\ Publishing(w) /\ MayPublish(w)
    /\ ~work[w].source
    /\ Advance(w, Unleased(RowOf(w), "pending"), "closed")
    /\ Finish(w)
    /\ UNCHANGED <<req, asked, review, conflicts, live, memory, purge, purges>>

\* Kept without publication until its review; expires_at is set once and ends it.
PublishRetained(w) ==
    /\ Publishing(w) /\ MayPublish(w) /\ work[w].source
    /\ RowOf(w).retentions < MaxRetentions
    /\ Advance(w, [Decided(RowOf(w), "retained_short_term") EXCEPT !.tries = 0,
                        !.retentions = @ + 1], "closed")
    /\ Finish(w)
    /\ UNCHANGED <<req, asked, review, conflicts, live, memory, purge, purges>>

\* require_owner_confirmation, unless the owner has confirmed.
PublishAwaitOwner(w) ==
    /\ Publishing(w) /\ MayPublish(w) /\ work[w].source
    /\ ~RowOf(w).grant
    /\ Advance(w, Decided(RowOf(w), "awaiting_owner"), "closed")
    /\ review' = [review EXCEPT ![ClaimOf(w)] = @ + 1]
    /\ work' = Stale([work EXCEPT ![w] = Finished(@)])
    /\ UNCHANGED <<req, asked, conflicts, live, memory, purge, purges>>

PublishConflict(w) ==
    /\ Publishing(w) /\ MayPublish(w) /\ work[w].source
    /\ Advance(w, Decided(RowOf(w), "awaiting_owner"), "closed")
    /\ conflicts' = [conflicts EXCEPT ![ClaimOf(w)] = @ + 1]
    /\ work' = Stale([work EXCEPT ![w] = Finished(@)])
    /\ UNCHANGED <<req, asked, review, live, memory, purge, purges>>

\* A decision that ends the candidate in status; mutated says whether the
\* memory state changed.
PublishEnds(w, status, mutated) ==
    /\ Publishing(w) /\ MayPublish(w) /\ work[w].source
    /\ Advance(w, Decided(RowOf(w), status), "closed")
    /\ req' = Settled({ClaimOf(w)}, [c \in Candidates |-> [status |-> status]], "refused")
    /\ work' = LET done == [work EXCEPT ![w] = Finished(@)]
               IN IF mutated THEN Stale(done) ELSE done
    /\ UNCHANGED <<asked, review, conflicts, live, purge, purges>>

\* A discard, a target that does not fit, an unpublishable scope, a lifecycle
\* restriction.
PublishBlocked(w) ==
    /\ \E status \in {"discarded", "blocked"} : PublishEnds(w, status, FALSE)
    /\ UNCHANGED memory

\* equivalent: the claim is represented already; at most its lineage is added.
PublishEquivalent(w) ==
    /\ \E added \in BOOLEAN : PublishEnds(w, "reconciled", added)
    /\ UNCHANGED memory

\* create, merge, supersede, historical_predecessor and ground_legacy: a durable
\* memory derived from the candidate.
PublishMemory(w) ==
    /\ PublishEnds(w, "reconciled", TRUE)
    /\ memory' = [memory EXCEPT ![ClaimOf(w)] = "stored"]

\* _requeue_after_version_conflict: the tries are used up.
RequeueAfterConflict(w) ==
    /\ work[w].stage = "requeue"
    /\ IF Holds(w) /\ AttemptCurrent(w)
       THEN Advance(w, Decided(RowOf(w), "pending"), "closed")
       ELSE UNCHANGED <<cand, attempts>>
    /\ Finish(w)
    /\ UNCHANGED <<req, asked, review, conflicts, live, memory, purge, purges>>

-----------------------------------------------------------------------------
(* Handlers that read rows without locking them                            *)

\* What the flush of a stale row object does: the columns it changed are
\* written, the others keep the value another transaction gave them.
Flushed(now, seen, new) ==
    LET row == [f \in DOMAIN now |-> IF new[f] = seen[f] THEN now[f] ELSE new[f]]
    IN [row EXCEPT !.overdue = @ /\ row.token # 0]

\* The database refuses a reconcilable row without payload, or with the evidence
\* of another reconcilable row.
Storable(c, row) ==
    row.status \in Reconcilable =>
        ~row.scrubbed /\ (row.asserted # 0 \/ Holders(row.key) \subseteq {c})

\* _release_failed reads the candidate and its attempt ...
ReleaseRead(w) ==
    /\ work[w].stage = "failing"
    /\ IF Holds(w) /\ AttemptCurrent(w)
       THEN work' = [work EXCEPT ![w].stage = "releasing", ![w].seen = RowOf(w)]
       ELSE Finish(w)
    /\ UNCHANGED <<cand, attempts, req, asked, review, conflicts, live, memory, purge, purges>>

\* ... and requeues or fails the candidate it has read; an error of the
\* database ends the pass.
ReleaseWrite(w) ==
    LET c == ClaimOf(w)
        seen == work[w].seen
        released == IF seen.tries >= MaxAttempts THEN Decided(seen, "failed")
                    ELSE Unleased(seen, "pending")
        row == Flushed(cand[c], seen, released)
    IN
    /\ work[w].stage = "releasing"
    /\ IF Storable(c, row)
       THEN /\ cand' = [cand EXCEPT ![c] = row]
            /\ \E K \in SUBSET (OpenAttempts({c}) \ {work[w].claim}) :
                    attempts' = [attempts EXCEPT ![c] =
                                    [Recomputed(c, K) EXCEPT ![NumberOf(w)] = "closed"]]
            /\ req' = Settled({c}, [cand EXCEPT ![c] = released], "refused")
            /\ Finish(w)
       ELSE /\ work' = [work EXCEPT ![w] = Idle]
            /\ UNCHANGED <<cand, attempts, req>>
    /\ UNCHANGED <<asked, review, conflicts, live, memory, purge, purges>>

\* retire and delete select the candidates of the memory's turns or content ...
PurgeRead(scrub) ==
    /\ purge = None /\ purges < MaxPurges
    /\ \E S \in SUBSET {c \in Candidates : cand[c].status # "absent"} \ {{}} :
        purge' = [rows |-> [c \in S |-> cand[c]], scrub |-> scrub]
    /\ purges' = purges + 1
    /\ UNCHANGED <<cand, attempts, req, asked, review, conflicts, live, memory, work>>

\* _invalidate_candidates on a row as it was read.
Invalidated(seen, scrub) ==
    LET row == [seen EXCEPT !.status = "invalidated", !.token = 0, !.invalidated = TRUE]
    IN IF scrub THEN [row EXCEPT !.scrubbed = TRUE, !.grant = FALSE, !.verified = FALSE]
       ELSE row

\* The chat's content revision moves on: snapshots and verifications of the
\* candidates with this evidence no longer match.
SourceMoved(state, K) ==
    [w \in Workers |-> [state[w] EXCEPT
        !.source = @ /\ state[w].claim # None /\ cand[state[w].claim[1]].key \notin K]]

Unverified(rows, K) ==
    [c \in Candidates |-> [rows[c] EXCEPT !.verified = @ /\ rows[c].key \notin K]]

\* ... invalidate them and settle their requests.  A delete also closes attempts
\* and obligations, removes derived memories, and may redact the source turns.
PurgeWrite(redact) ==
    LET S == DOMAIN purge.rows
        K == IF redact THEN {cand[c].key : c \in S} ELSE {}
        new == [c \in S |-> Invalidated(purge.rows[c], purge.scrub)]
        rows == [c \in Candidates |->
                    IF c \in S THEN Flushed(cand[c], purge.rows[c], new[c]) ELSE cand[c]]
        settled == Settled(S, [c \in Candidates |-> IF c \in S THEN new[c] ELSE cand[c]],
                           "evidence_purged")
    IN
    /\ purge # None
    /\ redact => purge.scrub
    /\ cand' = Unverified(rows, K)
    /\ live' = [k \in Keys |-> live[k] /\ k \notin K]
    /\ work' = SourceMoved(Stale(work), K)
    /\ IF purge.scrub
       THEN /\ attempts' = [c \in Candidates |->
                    IF c \in S THEN Closed(attempts[c]) ELSE attempts[c]]
            /\ req' = [q \in Requests |->
                    IF settled[q].status = "pending" /\ settled[q].cand \in S
                    THEN [settled[q] EXCEPT !.status = "resolved", !.outcome = "evidence_purged"]
                    ELSE settled[q]]
            /\ review' = [c \in Candidates |-> IF c \in S THEN 0 ELSE review[c]]
            /\ conflicts' = [c \in Candidates |-> IF c \in S THEN 0 ELSE conflicts[c]]
            /\ memory' = [c \in Candidates |->
                    IF c \in S /\ memory[c] = "stored" THEN "deleted" ELSE memory[c]]
       ELSE /\ \E carried \in SUBSET OpenAttempts(S) :
                attempts' = [c \in Candidates |->
                    IF c \in S /\ ~purge.rows[c].invalidated THEN Recomputed(c, carried)
                    ELSE attempts[c]]
            /\ req' = settled
            /\ UNCHANGED <<review, conflicts, memory>>
    /\ purge' = None
    /\ UNCHANGED <<asked, purges>>

-----------------------------------------------------------------------------
(* The sources                                                             *)

\* append_turn in the chat of the evidence.
SourceGrows(k) ==
    /\ live[k]
    /\ cand' = Unverified(cand, {k})
    /\ work' = SourceMoved(work, {k})
    /\ UNCHANGED <<attempts, req, asked, review, conflicts, live, memory, purge, purges>>

\* delete_owner_chat: the turns of the evidence and the candidates sourced there
\* are tombstoned; obligations and attempts are left as they are.
DeleteChat(k) ==
    LET gone == {c \in Candidates : cand[c].key = k}
    IN
    /\ live[k]
    /\ live' = [live EXCEPT ![k] = FALSE]
    /\ cand' = [c \in Candidates |->
            IF c \in gone
            THEN [Ended(cand[c], "invalidated") EXCEPT !.invalidated = TRUE,
                        !.scrubbed = TRUE, !.verified = FALSE]
            ELSE cand[c]]
    /\ attempts' = BumpedOf(gone)
    /\ work' = SourceMoved(work, {k})
    /\ UNCHANGED <<req, asked, review, conflicts, memory, purge, purges>>

\* Any other committed shared write on the memory resource.
MemoryChanges ==
    /\ purge = None
    /\ work' = Stale(work)
    /\ UNCHANGED <<cand, attempts, req, asked, review, conflicts, live, memory, purge, purges>>

-----------------------------------------------------------------------------
(* Answers of the owner.  Each names the review version of the row it was  *)
(* shown; an answer to an older version changes nothing.                   *)

\* resolve_obligation, confirm: the assertion becomes evidence.
Confirm(c) ==
    /\ review[c] > 0
    /\ ~cand[c].scrubbed
    /\ review' = [review EXCEPT ![c] = @ - 1]
    /\ cand' = [cand EXCEPT ![c] =
            [cand[c] EXCEPT !.status = "pending", !.token = 0, !.overdue = FALSE, !.tries = 0,
                      !.asserted = @ + 1, !.grant = TRUE, !.verified = FALSE]]
    /\ attempts' = BumpedOf({c})
    /\ UNCHANGED <<req, asked, conflicts, live, memory, work, purge, purges>>

\* Mutant: the owner's answer forgets the request the candidate came from.
ReviewEndsQuietly(c, row) ==
    /\ review[c] > 0
    /\ ~cand[c].scrubbed
    /\ review' = [review EXCEPT ![c] = @ - 1]
    /\ cand' = [cand EXCEPT ![c] = row]
    /\ attempts' = BumpedOf({c})
    /\ UNCHANGED <<req, asked, conflicts, live, memory, work, purge, purges>>

\* The candidate ends, as row, with its review.
ReviewEnds(c, row) ==
    /\ review[c] > 0
    /\ ~cand[c].scrubbed
    /\ review' = [review EXCEPT ![c] = @ - 1]
    /\ cand' = [cand EXCEPT ![c] = row]
    /\ attempts' = BumpedOf({c})
    /\ req' = Settled({c}, cand', "refused")
    /\ UNCHANGED <<asked, conflicts, live, memory, work, purge, purges>>

Reject(c) == ReviewEnds(c, Ended(cand[c], "rejected"))

\* The answer comes after expires_at.
AnswerExpired(c) ==
    ReviewEnds(c, [cand[c] EXCEPT !.status = "expired", !.grant = FALSE])

\* _retry_explicit_obligation of a failed candidate.
Retry(q) ==
    LET c == req[q].cand
        r == cand[c]
        usable == live[r.key] /\ ~r.scrubbed
        row == IF usable THEN [Ended(r, "pending") EXCEPT !.tries = 0]
               ELSE [Ended(r, "invalidated") EXCEPT !.invalidated = TRUE]
    IN
    /\ req[q].status = "pending"
    /\ r.status = "failed"
    /\ Storable(c, row)
    /\ cand' = [cand EXCEPT ![c] = row]
    /\ attempts' = BumpedOf({c})
    /\ req' = Settled({c}, cand', "refused")
    /\ UNCHANGED <<asked, review, conflicts, live, memory, work, purge, purges>>

\* The competing candidate of a conflict the owner has resolved.
Rejected(r) == IF r.status = "awaiting_owner" THEN Ended(r, "rejected") ELSE r

AttemptsOfRejected(c) == BumpedOf({d \in {c} : cand[d].status = "awaiting_owner"})

\* _resolve_memory_conflict, keep_current.
KeepCurrent(c) ==
    /\ purge = None
    /\ conflicts[c] > 0
    /\ conflicts' = [conflicts EXCEPT ![c] = @ - 1]
    /\ cand' = [cand EXCEPT ![c] = Rejected(@)]
    /\ req' = IF cand[c].status = "awaiting_owner" THEN Settled({c}, cand', "refused") ELSE req
    /\ attempts' = AttemptsOfRejected(c)
    /\ work' = Stale(work)
    /\ UNCHANGED <<asked, review, live, memory, purge, purges>>

\* accept_competing and restate: the correction q is queued as by Ask, then the
\* competing candidate is rejected, in one transaction.
AcceptCompeting(c, q) ==
    /\ purge = None
    /\ conflicts[c] > 0
    /\ req[q].status = "unasked"
    /\ live[KeyOf[q]]
    /\ \E d \in Target(KeyOf[q]) :
        LET reqs == Attached(q, d)
            asks == [asked EXCEPT ![d] = Append(@, q)]
        IN
        /\ cand' = [Enqueued(d, KeyOf[q]) EXCEPT ![c] = Rejected(@)]
        /\ asked' = asks
        /\ req' = IF cand[c].status = "awaiting_owner"
                  THEN SettledIn(reqs, asks, {c}, cand', "refused") ELSE reqs
    /\ conflicts' = [conflicts EXCEPT ![c] = @ - 1]
    /\ attempts' = AttemptsOfRejected(c)
    /\ work' = Stale(work)
    /\ UNCHANGED <<review, live, memory, purge, purges>>

-----------------------------------------------------------------------------
(* The specification                                                       *)

\* What a worker does once it has claimed a batch.
WorkerStep(w) ==
    \/ LoadSnapshot(w)
    \/ PersistReading(w)
    \/ PersistComparison(w)
    \/ EpistemicRejection(w)
    \/ RefreshSnapshot(w)
    \/ PersistReconciliation(w)
    \/ PersistPolicy(w)
    \/ PolicyBlock(w)
    \/ StageFails(w)
    \/ VersionConflict(w)
    \/ PublishRefused(w)
    \/ PublishInvalidated(w)
    \/ PublishSourceConflict(w)
    \/ PublishRetained(w)
    \/ PublishAwaitOwner(w)
    \/ PublishConflict(w)
    \/ PublishBlocked(w)
    \/ PublishEquivalent(w)
    \/ PublishMemory(w)
    \/ RequeueAfterConflict(w)
    \/ ReleaseRead(w)
    \/ ReleaseWrite(w)

OwnerStep ==
    \/ \E q \in Requests : Ask(q) \/ AskFails(q) \/ Retry(q)
    \/ \E c \in Candidates : Confirm(c) \/ Reject(c) \/ AnswerExpired(c) \/ KeepCurrent(c)
    \/ \E c \in Candidates, q \in Requests : AcceptCompeting(c, q)
    \/ \E k \in Keys : SourceGrows(k) \/ DeleteChat(k)
    \/ \E scrub \in BOOLEAN : PurgeRead(scrub)

Next ==
    \/ OwnerStep
    \/ \E k \in Keys : Discover(k)
    \/ MemoryChanges
    \/ \E redact \in BOOLEAN : PurgeWrite(redact)
    \/ \E c \in Candidates : LeaseExpires(c)
    \/ \E w \in Workers : WorkerStep(w) \/ Crash(w)
    \/ \E w \in Workers, clock \in [Candidates -> Clock] : Sweep(w, clock)

Spec == Init /\ [][Next]_vars

\* Leases run out and reviews lapse with time, the timer starts pass after pass,
\* a running pass goes on until it ends or is stopped, and the advisory lock of
\* the memory resource is granted in turn.
FairSpec ==
    /\ Spec
    /\ \A c \in Candidates : WF_vars(LeaseExpires(c))
    /\ \A w \in Workers : SF_vars(WorkerStep(w))
    /\ WF_vars(\E redact \in BOOLEAN : PurgeWrite(redact))
    /\ SF_vars(\E w \in Workers : Sweep(w, [c \in Candidates |-> "lapsed"]))

-----------------------------------------------------------------------------
(* Properties                                                              *)

\* Every row and every worker has its shape, and a live row carries a lease token
\* exactly while it is leased (MemoryCandidateRow, MemoryReconciliationAttemptRow).
TypeOK ==
    /\ cand \in [Candidates -> CandidateRow]
    /\ \A c \in Candidates :
        /\ attempts[c] \in Seq(AttemptRow)
        /\ asked[c] \in Seq(Requests)
        /\ cand[c].token <= Len(attempts[c])
        /\ cand[c].status \in Reconcilable => (cand[c].status = "leased" <=> cand[c].token # 0)
    /\ req \in [Requests -> RequestRow]
    /\ review \in [Candidates -> Nat]
    /\ conflicts \in [Candidates -> Nat]
    /\ live \in [Keys -> BOOLEAN]
    /\ memory \in [Candidates -> {"none", "stored", "deleted"}]
    /\ work \in [Workers -> WorkerState]
    /\ purge # None => /\ DOMAIN purge.rows \subseteq Candidates
                       /\ \A c \in DOMAIN purge.rows : purge.rows[c] \in CandidateRow

\* An explicit obligation is pending only while a worker or the owner can still
\* bring its candidate to an outcome: the candidate is in the pipeline, or it
\* failed and the owner has retries left (settle_explicit_obligation, which every
\* handler that ends a candidate must call in its transaction).
Answerable(q) ==
    LET r == cand[req[q].cand]
    IN r.status \in Reconcilable \/ (r.status = "failed" /\ req[q].failures < OwnerRetryBudget)

AnsweredWithCandidate == \A q \in Requests : req[q].status = "pending" => Answerable(q)

\* A second request on the same turn of the owner, enqueued while the candidate of
\* the first is still in the pipeline, is attached to that candidate behind it.
Behind(q) == asked[req[q].cand][1] # q

\* The same for the requests whose source chat the owner has not deleted, but for
\* those behind another: the handler that ends the candidate settles the oldest
\* pending request alone (pending_explicit_obligation takes the first row).
AnsweredWhileChatStands ==
    \A q \in Requests :
        req[q].status = "pending" /\ live[KeyOf[q]] => Answerable(q) \/ Behind(q)

\* No memory is stored from a candidate that a retirement, a deletion or the loss of
\* its chat has invalidated, whatever a worker had verified before (publish).
NoMemoryFromPurged ==
    [][\A c \in Candidates :
        (cand[c].invalidated \/ cand[c].scrubbed) /\ memory[c] # "stored"
            => memory'[c] # "stored"]_vars

\* A request that is waiting gets an answer, or a failure the owner sees, or its chat
\* is deleted, or it is behind another on its candidate: no crash, stall or race of
\* the workers loses it (claim_batch).
RequestAnswered ==
    \A q \in Requests :
        req[q].status = "pending" ~>
            \/ req[q].status = "resolved"
            \/ req[q].status = "pending" /\ (cand[req[q].cand].status = "failed" \/ Behind(q))
            \/ ~live[KeyOf[q]]
=============================================================================
