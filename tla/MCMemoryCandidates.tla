------------------------- MODULE MCMemoryCandidates -------------------------
(* Instances of MemoryCandidates: every request cites the whole turn k1;   *)
(* other evidence sets are spans of a conversation.                        *)
EXTENDS MemoryCandidates, FiniteSets, TLC

CONSTANT k1

TheOneTurn == [q \in Requests |-> k1]

Interchangeable ==
    Permutations(Workers) \cup Permutations(Candidates) \cup Permutations(Requests)

Single == \E w \in Workers : work[w] = Idle

Alone == Cardinality({q \in Requests : req[q].status # "unasked"}) <= 1

Unretained == \A c \in Candidates : cand[c].retentions = 0

Unfailed == \A q \in Requests : req[q].failures = 0

Tried(n) == \A c \in Candidates : Len(attempts[c]) <= n

OnTheTurn == \A c \in Candidates : cand[c].key \in {k1, None}

\* At a time: two workers and a purge on the candidate of one request; one worker
\* with retries on it; one worker on two candidates, with retentions; or one worker
\* and two requests, on one candidate tried twice or on two tried once.
TwoWorkersOrTwoCandidates ==
    \/ /\ \E c \in Candidates : cand[c].status = "absent"
       /\ OnTheTurn /\ Unretained
       /\ \/ Alone /\ Unfailed
          \/ Single /\ purges = 0 /\ (Alone \/ Tried(2))
    \/ /\ Single /\ purges = 0
       /\ Alone \/ (OnTheTurn /\ Unretained)
       /\ Tried(1)

\* At most one at a time: a second worker at work, a purge, a retry or retention.
OneTroubleAtATime ==
    \/ Single /\ purges = 0
    \/ Single /\ Unretained /\ Unfailed
    \/ purges = 0 /\ Unretained /\ Unfailed
=============================================================================
