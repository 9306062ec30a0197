------------------------- MODULE SharedWrites_proofs -------------------------
(***************************************************************************)
(* Proofs about shared-state writes, for any number of writers, operation  *)
(* ids and resources.  The inductive invariant adds to the properties what *)
(* the locks give: LockInv (they exclude) and TransactionInv (what a       *)
(* transaction read under its lock is still so at its commit).             *)
(***************************************************************************)
EXTENDS SharedWrites, TLAPS

WriteInv == TypeOK /\ LockInv /\ TransactionInv

\* A row built from a typed envelope is a row.
LEMMA NewRowType ==
    ASSUME NEW e \in Envelope, NEW outcome \in Outcomes,
           NEW observed \in Nat, NEW committed \in Nat \cup {None}
    PROVE  /\ NewRow(e, outcome, observed, committed) \in Row
           /\ NewRow(e, outcome, observed, committed) # None
  BY NoneAssumption DEF NewRow, Row, Envelope

\* What Submit sends is an envelope that expects nothing or a version reached.
LEMMA SubmitEnvelope ==
    ASSUME TypeOK, NEW w \in Writers, Submit(w)
    PROVE  \E e \in Envelope :
                /\ e.expected = None \/ e.expected <= version[e.res]
                /\ request' = [request EXCEPT ![w] = e]
<1>1. PICK o \in Ops, r \in Resources, p \in Payloads :
        \E x \in {None} \cup 0..version[r] :
            request' = [request EXCEPT ![w] =
                [op |-> o, res |-> r, expected |-> x, payload |-> p]]
  BY DEF Submit
<1>2. PICK x \in {None} \cup 0..version[r] :
        request' = [request EXCEPT ![w] =
            [op |-> o, res |-> r, expected |-> x, payload |-> p]]
  BY <1>1
<1> DEFINE e == [op |-> o, res |-> r, expected |-> x, payload |-> p]
<1>3. e \in Envelope
  BY DEF Envelope, TypeOK
<1>4. e.expected = None \/ e.expected <= version[e.res]
  BY DEF TypeOK
<1> QED
  BY <1>2, <1>3, <1>4

\* Every step keeps the variables typed.
LEMMA TypeStep ==
    ASSUME TypeOK, TransactionInv, Next
    PROVE  TypeOK'
<1>1. PICK w \in Writers : Submit(w) \/ Step(w) \/ Rollback(w)
  BY DEF Next
<1>2. CASE Submit(w)
  <2>1. PICK e \in Envelope : request' = [request EXCEPT ![w] = e]
    BY <1>2, SubmitEnvelope
  <2> QED
    BY <1>2, <2>1 DEF Submit, TypeOK, Stages
<1>3. CASE Lock(w)
  BY <1>3 DEF Lock, TypeOK, Stages
<1>4. CASE Claim(w)
  BY <1>4 DEF Claim, TypeOK, Stages
<1>5. CASE Replay(w)
  <2>1. request[w] \in Envelope
    BY <1>5 DEF Replay, TypeOK, TransactionInv
  <2>2. reply'[w] \in Receipt
    BY <1>5, <2>1 DEF Replay, TypeOK, Receipt, Envelope
  <2> QED
    BY <1>5, <2>2 DEF Replay, TypeOK, Stages
<1>6. CASE Reject(w)
  <2>1. request[w] \in Envelope /\ version[request[w].res] \in Nat
    BY <1>6 DEF Reject, TypeOK, TransactionInv, Envelope
  <2>2. NewRow(request[w], "version_conflict", version[request[w].res], None) \in Row
    BY <2>1, NewRowType DEF Outcomes
  <2> QED
    BY <1>6, <2>2 DEF Reject, TypeOK, Stages
<1>7. CASE Mutate(w)
  <2>1. request[w] \in Envelope /\ version[request[w].res] \in Nat
    BY <1>7 DEF Mutate, TypeOK, TransactionInv, Envelope
  <2>2. /\ NewRow(request[w], "applied", version[request[w].res],
                  version[request[w].res] + 1) \in Row
        /\ NewRow(request[w], "no_change", version[request[w].res],
                  version[request[w].res]) \in Row
    BY <2>1, NewRowType DEF Outcomes
  <2> QED
    BY <1>7, <2>2 DEF Mutate, TypeOK, Stages
<1>8. CASE Commit(w)
  <2>1. request[w] \in Envelope /\ pending[w] \in Row
    BY <1>8 DEF Commit, TypeOK, TransactionInv
  <2>2. [op |-> request[w].op, row |-> pending[w], replayed |-> FALSE] \in Receipt
    BY <2>1 DEF Receipt, Envelope
  <2>3. version' \in [Resources -> Nat]
    BY <1>8, <2>1 DEF Commit, TypeOK, TransactionInv, RowIsCurrent, Envelope
  <2>4. effects' \in [Resources -> Seq(Ops)]
    <3>1. request[w].res \in Resources /\ request[w].op \in Ops
      BY <2>1 DEF Envelope
    <3>2. Append(effects[request[w].res], request[w].op) \in Seq(Ops)
      BY <3>1 DEF TypeOK
    <3> QED
      BY <1>8, <3>1, <3>2 DEF Commit, TypeOK
  <2> QED
    BY <1>8, <2>1, <2>2, <2>3, <2>4 DEF Commit, TypeOK, Stages
<1>9. CASE Rollback(w)
  BY <1>9 DEF Rollback, TypeOK, Stages
<1> QED
  BY <1>1, <1>2, <1>3, <1>4, <1>5, <1>6, <1>7, <1>8, <1>9 DEF Step

\* The locks keep excluding, and a claimed row stays uncommitted.
LEMMA LockStep ==
    ASSUME TypeOK, LockInv, TransactionInv, Next
    PROVE  LockInv'
<1>1. PICK w \in Writers : Submit(w) \/ Step(w) \/ Rollback(w)
  BY DEF Next
<1> USE DEF LockInv, HoldsLock, HoldsClaim, TypeOK
<1>2. CASE Submit(w)
  BY <1>2 DEF Submit
<1>3. CASE Lock(w)
  BY <1>3 DEF Lock
<1>4. CASE Claim(w)
  BY <1>4 DEF Claim
<1>5. CASE Replay(w)
  BY <1>5 DEF Replay
<1>6. CASE Reject(w)
  BY <1>6 DEF Reject
<1>7. CASE Mutate(w)
  BY <1>7 DEF Mutate
<1>8. CASE Commit(w)
  BY <1>8 DEF Commit
<1>9. CASE Rollback(w)
  BY <1>9 DEF Rollback
<1> QED
  BY <1>1, <1>2, <1>3, <1>4, <1>5, <1>6, <1>7, <1>8, <1>9 DEF Step

\* What a transaction has read stays current: only the holder of a resource's
\* lock changes its version.
LEMMA TransactionStep ==
    ASSUME TypeOK, LockInv, TransactionInv, Next
    PROVE  TransactionInv'
<1>1. PICK w \in Writers : Submit(w) \/ Step(w) \/ Rollback(w)
  BY DEF Next
<1>2. CASE Submit(w)
  <2>1. PICK e \in Envelope :
            /\ e.expected = None \/ e.expected <= version[e.res]
            /\ request' = [request EXCEPT ![w] = e]
    BY <1>2, SubmitEnvelope
  <2>2. e # None
    BY NoneAssumption
  <2> QED
    BY <1>2, <2>1, <2>2 DEF Submit, TransactionInv, RowIsCurrent, TypeOK
<1>3. CASE Lock(w)
  BY <1>3 DEF Lock, TransactionInv, RowIsCurrent, TypeOK
<1>4. CASE Claim(w)
  BY <1>4 DEF Claim, TransactionInv, RowIsCurrent, TypeOK
<1>5. CASE Replay(w)
  BY <1>5 DEF Replay, TransactionInv, RowIsCurrent, TypeOK
<1>6. CASE Reject(w)
  <2>1. request[w] \in Envelope /\ version[request[w].res] \in Nat
    BY <1>6 DEF Reject, TypeOK, TransactionInv, Envelope
  <2>2. NewRow(request[w], "version_conflict", version[request[w].res], None) # None
    BY <2>1, NewRowType DEF Outcomes
  <2> QED
    BY <1>6, <2>1, <2>2
       DEF Reject, StaleVersion, NewRow, TransactionInv, RowIsCurrent, TypeOK
<1>7. CASE Mutate(w)
  <2>1. request[w] \in Envelope /\ version[request[w].res] \in Nat
    BY <1>7 DEF Mutate, TypeOK, TransactionInv, Envelope
  <2>2. /\ NewRow(request[w], "applied", version[request[w].res],
                  version[request[w].res] + 1) # None
        /\ NewRow(request[w], "no_change", version[request[w].res],
                  version[request[w].res]) # None
    BY <2>1, NewRowType DEF Outcomes
  <2> QED
    BY <1>7, <2>1, <2>2
       DEF Mutate, StaleVersion, NewRow, TransactionInv, RowIsCurrent, TypeOK
<1>8. CASE Commit(w)
  <2>1. request[w] \in Envelope /\ pending[w] \in Row
    BY <1>8 DEF Commit, TypeOK, TransactionInv
  <2>2. \A r \in Resources :
            /\ version'[r] \in Nat /\ version'[r] >= version[r]
            /\ r # request[w].res => version'[r] = version[r]
    BY <1>8, <2>1 DEF Commit, TypeOK, TransactionInv, RowIsCurrent, Envelope
  <2>3. \A v \in Writers \ {w} :
            stage[v] = "written" => request[v].res # request[w].res
    BY <1>8, <2>1 DEF Commit, LockInv, HoldsLock, TypeOK, TransactionInv, Envelope
  <2>4. \A v \in Writers : request[v] # None =>
            /\ request[v] \in Envelope /\ request[v].res \in Resources
            /\ request[v].expected = None \/ request[v].expected \in Nat
    BY DEF TypeOK, Envelope
  <2> QED
    BY <1>8, <2>1, <2>2, <2>3, <2>4 DEF Commit, TransactionInv, RowIsCurrent, TypeOK
<1>9. CASE Rollback(w)
  BY <1>9 DEF Rollback, TransactionInv, RowIsCurrent, TypeOK
<1> QED
  BY <1>1, <1>2, <1>3, <1>4, <1>5, <1>6, <1>7, <1>8, <1>9 DEF Step

\* What a commit writes, pointwise.
LEMMA CommitEffect ==
    ASSUME TypeOK, LockInv, TransactionInv, NEW w \in Writers, Commit(w)
    PROVE  LET e == request[w]
               row == pending[w]
           IN  /\ e \in Envelope /\ e.op \in Ops /\ e.res \in Resources
               /\ row \in Row /\ row # None /\ RowIsCurrent(row, e)
               /\ log[e.op] = None
               /\ log' = [log EXCEPT ![e.op] = row]
               /\ row.outcome = "applied" =>
                    /\ version' = [version EXCEPT ![e.res] = version[e.res] + 1]
                    /\ effects' = [effects EXCEPT ![e.res] = Append(effects[e.res], e.op)]
               /\ row.outcome # "applied" => UNCHANGED <<version, effects>>
<1>1. request[w] \in Envelope /\ request[w].op \in Ops /\ request[w].res \in Resources
  BY DEF Commit, TypeOK, TransactionInv, Envelope
<1>2. pending[w] \in Row /\ pending[w] # None /\ RowIsCurrent(pending[w], request[w])
  BY DEF Commit, TypeOK, TransactionInv
<1>3. log[request[w].op] = None
  BY <1>1 DEF Commit, LockInv, HoldsClaim
<1>4. pending[w].outcome = "applied" => pending[w].committed = version[request[w].res] + 1
  BY <1>2 DEF RowIsCurrent
<1> QED
  BY <1>1, <1>2, <1>3, <1>4 DEF Commit

\* Every step but a commit leaves the committed state alone.
LEMMA OnlyCommitWrites ==
    ASSUME NEW w \in Writers, Submit(w) \/ Step(w) \/ Rollback(w), ~Commit(w)
    PROVE  UNCHANGED <<version, effects, log>>
  BY DEF Submit, Step, Lock, Claim, Replay, Reject, Mutate, Rollback

\* The committed mutations stay in step with the version and the rows.
LEMMA HistoryStep ==
    ASSUME TypeOK, LockInv, TransactionInv, LinearHistory, Next
    PROVE  LinearHistory'
<1>1. PICK w \in Writers : Submit(w) \/ Step(w) \/ Rollback(w)
  BY DEF Next
<1>2. CASE ~Commit(w)
  BY <1>1, <1>2, OnlyCommitWrites DEF LinearHistory
<1>3. CASE Commit(w)
  <2> DEFINE e == request[w]
             row == pending[w]
  <2>1. /\ e \in Envelope /\ e.op \in Ops /\ e.res \in Resources
        /\ row \in Row /\ row # None /\ RowIsCurrent(row, e)
        /\ log[e.op] = None
        /\ log' = [log EXCEPT ![e.op] = row]
        /\ row.outcome = "applied" =>
            /\ version' = [version EXCEPT ![e.res] = version[e.res] + 1]
            /\ effects' = [effects EXCEPT ![e.res] = Append(effects[e.res], e.op)]
        /\ row.outcome # "applied" => UNCHANGED <<version, effects>>
    BY <1>3, CommitEffect
  <2>2. /\ row.res = e.res
        /\ row.outcome = "applied" => row.committed = version[e.res] + 1
    BY <2>1 DEF RowIsCurrent
  <2>3. \A r \in Resources : effects[r] \in Seq(Ops) /\ Len(effects[r]) \in Nat
    BY DEF TypeOK
  <2>4. log'[e.op] = row /\ \A o \in Ops \ {e.op} : log'[o] = log[o]
    BY <2>1 DEF TypeOK
  <2> HIDE DEF e, row
  <2>5. CASE row.outcome = "applied"
    <3>1. /\ \A r \in Resources \ {e.res} :
                effects'[r] = effects[r] /\ version'[r] = version[r]
          /\ effects'[e.res] = Append(effects[e.res], e.op)
          /\ version'[e.res] = version[e.res] + 1
      BY <2>1, <2>5 DEF TypeOK
    <3>2. /\ Len(effects'[e.res]) = Len(effects[e.res]) + 1
          /\ effects'[e.res][Len(effects[e.res]) + 1] = e.op
          /\ \A v \in 1..Len(effects[e.res]) : effects'[e.res][v] = effects[e.res][v]
      BY <2>1, <2>3, <3>1
    <3>3. \A r \in Resources : version'[r] = Len(effects'[r])
      BY <3>1, <3>2 DEF LinearHistory
    <3>4. \A r \in Resources : \A v \in 1..Len(effects[r]) :
            /\ effects[r][v] # e.op /\ effects[r][v] \in Ops
            /\ effects'[r][v] = effects[r][v]
      BY <2>1, <2>3, <3>1, <3>2 DEF LinearHistory
    <3>5. ASSUME NEW r \in Resources, NEW v \in 1..Len(effects'[r])
          PROVE  /\ log'[effects'[r][v]] # None
                 /\ log'[effects'[r][v]].outcome = "applied"
                 /\ log'[effects'[r][v]].res = r
                 /\ log'[effects'[r][v]].committed = v
      <4>1. CASE v \in 1..Len(effects[r])
        BY <2>4, <3>4, <4>1 DEF LinearHistory
      <4>2. CASE v \notin 1..Len(effects[r])
        <5>1. r = e.res /\ v = Len(effects[e.res]) + 1
          BY <2>3, <3>1, <3>2, <4>2
        <5> QED
          BY <2>1, <2>2, <2>4, <2>5, <3>2, <5>1 DEF LinearHistory
      <4> QED
        BY <4>1, <4>2
    <3>6. ASSUME NEW o \in Ops, log'[o] # None, log'[o].outcome = "applied"
          PROVE  /\ log'[o].committed \in 1..Len(effects'[log'[o].res])
                 /\ effects'[log'[o].res][log'[o].committed] = o
      <4>1. CASE o = e.op
        <5>1. version[e.res] = Len(effects[e.res])
          BY <2>1 DEF LinearHistory
        <5> QED
          BY <2>2, <2>3, <2>4, <2>5, <2>1, <3>2, <4>1, <5>1
      <4>2. CASE o # e.op
        <5>1. log'[o] = log[o] /\ log[o] \in Row
          BY <2>4, <3>6, <4>2 DEF TypeOK
        <5>2. /\ log[o].committed \in 1..Len(effects[log[o].res])
              /\ effects[log[o].res][log[o].committed] = o
          BY <3>6, <5>1 DEF LinearHistory
        <5>3. log[o].res \in Resources
          BY <5>1 DEF Row
        <5>4. Len(effects'[log[o].res]) \in Nat
              /\ Len(effects[log[o].res]) <= Len(effects'[log[o].res])
          BY <2>3, <3>1, <3>2, <5>3
        <5>5. effects'[log[o].res][log[o].committed] = o
          BY <3>4, <5>2, <5>3
        <5>6. log[o].committed \in 1..Len(effects'[log[o].res])
          BY <2>3, <5>2, <5>3, <5>4
        <5> QED
          BY <5>1, <5>5, <5>6
      <4> QED
        BY <4>1, <4>2
    <3> QED
      BY <3>3, <3>5, <3>6 DEF LinearHistory
  <2>6. CASE row.outcome # "applied"
    <3>1. UNCHANGED <<version, effects>>
      BY <2>1, <2>6
    <3>2. \A r \in Resources : \A v \in 1..Len(effects[r]) :
            effects[r][v] # e.op /\ effects[r][v] \in Ops
      BY <2>1, <2>3 DEF LinearHistory
    <3> QED
      BY <2>4, <2>6, <3>1, <3>2 DEF LinearHistory
  <2> QED
    BY <2>5, <2>6
<1> QED
  BY <1>2, <1>3

\* A committed row keeps its expectation honest.
LEMMA UpdateStep ==
    ASSUME TypeOK, LockInv, TransactionInv, NoLostUpdate, Next
    PROVE  NoLostUpdate'
<1>1. PICK w \in Writers : Submit(w) \/ Step(w) \/ Rollback(w)
  BY DEF Next
<1>2. CASE ~Commit(w)
  BY <1>1, <1>2, OnlyCommitWrites DEF NoLostUpdate
<1>3. CASE Commit(w)
  <2> DEFINE e == request[w]
             row == pending[w]
  <2>1. /\ e \in Envelope /\ e.op \in Ops /\ e.res \in Resources
        /\ row \in Row /\ row # None /\ RowIsCurrent(row, e)
        /\ log[e.op] = None
        /\ log' = [log EXCEPT ![e.op] = row]
        /\ row.outcome = "applied" =>
            /\ version' = [version EXCEPT ![e.res] = version[e.res] + 1]
            /\ effects' = [effects EXCEPT ![e.res] = Append(effects[e.res], e.op)]
        /\ row.outcome # "applied" => UNCHANGED <<version, effects>>
    BY <1>3, CommitEffect
  <2>2. e.expected = None \/ e.expected <= version[e.res]
    BY <1>3 DEF Commit, TransactionInv
  <2>3. log'[e.op] = row /\ \A o \in Ops \ {e.op} : log'[o] = log[o]
    BY <2>1 DEF TypeOK
  <2>4. \A r \in Resources : /\ version[r] \in Nat /\ version'[r] \in Nat
                             /\ version[r] <= version'[r]
    <3>1. CASE row.outcome = "applied"
      <4>1. version' = [version EXCEPT ![e.res] = version[e.res] + 1]
        BY <2>1, <3>1
      <4> QED
        BY <4>1 DEF TypeOK
    <3>2. CASE row.outcome # "applied"
      BY <2>1, <3>2 DEF TypeOK
    <3> QED
      BY <3>1, <3>2
  <2> HIDE DEF e, row
  <2>5. ASSUME NEW o \in Ops, log'[o] # None, log'[o].expected # None
        PROVE  IF log'[o].outcome = "version_conflict"
               THEN log'[o].expected < version'[log'[o].res]
               ELSE log'[o].expected = log'[o].observed
    <3>1. CASE o = e.op
      <4>1. /\ log'[o] = row /\ row.res = e.res /\ row.expected = e.expected
            /\ row.observed = version[e.res]
        BY <2>1, <2>3, <3>1 DEF RowIsCurrent
      <4>2. e.expected \in Nat /\ version[e.res] \in Nat
        BY <2>1, <2>4, <2>5, <4>1 DEF Envelope
      <4>3. CASE row.outcome = "version_conflict"
        BY <2>1, <2>2, <2>4, <4>1, <4>2, <4>3 DEF RowIsCurrent
      <4>4. CASE row.outcome # "version_conflict"
        BY <2>1, <2>5, <4>1, <4>4 DEF RowIsCurrent
      <4> QED
        BY <4>3, <4>4
    <3>2. CASE o # e.op
      <4>1. log'[o] = log[o] /\ log[o] \in Row /\ log[o].res \in Resources
            /\ log[o].expected \in Nat
        BY <2>3, <2>5, <3>2 DEF TypeOK, Row
      <4> QED
        BY <2>4, <2>5, <4>1 DEF NoLostUpdate
    <3> QED
      BY <3>1, <3>2
  <2> QED
    BY <2>5 DEF NoLostUpdate
<1> QED
  BY <1>2, <1>3

\* A receipt stays the durable row of the caller's own request.
LEMMA ReceiptStep ==
    ASSUME TypeOK, LockInv, TransactionInv, ReceiptIsDurable, Next
    PROVE  ReceiptIsDurable'
<1>1. PICK w \in Writers : Submit(w) \/ Step(w) \/ Rollback(w)
  BY DEF Next
<1> USE DEF ReceiptIsDurable, TypeOK
<1>2. CASE Submit(w)
  BY <1>2 DEF Submit
<1>3. CASE Lock(w) \/ Claim(w) \/ Reject(w) \/ Mutate(w)
  BY <1>3 DEF Lock, Claim, Reject, Mutate
<1>4. CASE Replay(w)
  BY <1>4 DEF Replay, SameOperation
<1>5. CASE Commit(w)
  <2>1. /\ request[w].op \in Ops /\ log[request[w].op] = None
        /\ pending[w] # None /\ RowIsCurrent(pending[w], request[w])
        /\ log' = [log EXCEPT ![request[w].op] = pending[w]]
    BY <1>5, CommitEffect
  <2>2. \A v \in Writers \ {w} :
            stage'[v] = stage[v] /\ reply'[v] = reply[v] /\ request'[v] = request[v]
    BY <1>5 DEF Commit
  <2>3. ASSUME NEW v \in Writers, stage'[v] = "idle", reply'[v] # None, reply'[v].row # None
        PROVE  /\ reply'[v].op = request'[v].op
               /\ reply'[v].row = log'[request'[v].op]
               /\ \A f \in {"res", "expected", "payload"} :
                    reply'[v].row[f] = request'[v][f]
    <3>1. CASE v = w
      BY <1>5, <2>1, <3>1 DEF Commit, RowIsCurrent
    <3>2. CASE v # w
      BY <2>1, <2>2, <2>3, <3>2
    <3> QED
      BY <3>1, <3>2
  <2> QED
    BY <2>3
<1>6. CASE Rollback(w)
  BY <1>6 DEF Rollback, TransactionInv
<1> QED
  BY <1>1, <1>2, <1>3, <1>4, <1>5, <1>6 DEF Step

-----------------------------------------------------------------------------
(* The theorems.                                                           *)

\* The inductive invariant holds throughout.
THEOREM WriteInvariant == Spec => []WriteInv
<1>1. Init => WriteInv
  <2>1. Init => TypeOK
    BY DEF Init, TypeOK, Stages
  <2>2. Init => LockInv
    BY DEF Init, LockInv, HoldsLock, HoldsClaim
  <2>3. Init => TransactionInv
    BY DEF Init, TransactionInv
  <2> QED
    BY <2>1, <2>2, <2>3 DEF WriteInv
<1>2. WriteInv /\ [Next]_vars => WriteInv'
  <2>1. WriteInv /\ Next => WriteInv'
    BY TypeStep, LockStep, TransactionStep DEF WriteInv
  <2>2. WriteInv /\ UNCHANGED vars => WriteInv'
    BY DEF vars, WriteInv, TypeOK, LockInv, HoldsLock, HoldsClaim,
           TransactionInv, RowIsCurrent
  <2> QED
    BY <2>1, <2>2
<1> QED
  BY <1>1, <1>2, PTL DEF Spec

\* The columns of a shared write keep their types under every interleaving of
\* transactions, rollbacks and retries.
THEOREM WritesAreTyped == Spec => []TypeOK
<1>1. WriteInv => TypeOK
  BY DEF WriteInv
<1> QED
  BY <1>1, WriteInvariant, PTL

\* execute never loses, repeats or misnumbers a committed mutation.
THEOREM HistoryIsLinear == Spec => []LinearHistory
<1>1. Init => LinearHistory
  BY DEF Init, LinearHistory
<1>2. WriteInv /\ LinearHistory /\ [Next]_vars => LinearHistory'
  <2>1. WriteInv /\ LinearHistory /\ Next => LinearHistory'
    BY HistoryStep DEF WriteInv
  <2>2. LinearHistory /\ UNCHANGED vars => LinearHistory'
    BY DEF vars, LinearHistory
  <2> QED
    BY <2>1, <2>2
<1> QED
  BY <1>1, <1>2, WriteInvariant, PTL DEF Spec

\* Writers take the advisory lock before the row, so they never wait in a circle:
\* the furthest of them waits for nobody.
THEOREM WritersNeverDeadlock == Spec => []NoDeadlock
<1>1. WriteInv => NoDeadlock
  <2> SUFFICES ASSUME WriteInv, NEW u \in Writers, stage[u] # "idle"
               PROVE  \E w \in Writers : stage[w] # "idle" /\ \A v \in Writers : ~WaitsFor(w, v)
    BY DEF NoDeadlock
  <2>1. \A w \in Writers : stage[w] \in Stages
    BY DEF WriteInv, TypeOK
  <2>2. CASE \E w \in Writers : stage[w] \in {"claimed", "written"}
    BY <2>2 DEF WaitsFor
  <2>3. CASE /\ \A w \in Writers : stage[w] \notin {"claimed", "written"}
             /\ \E w \in Writers : stage[w] = "locked"
    BY <2>3 DEF WaitsFor, HoldsClaim
  <2>4. CASE \A w \in Writers : stage[w] \notin {"locked", "claimed", "written"}
    BY <2>1, <2>4 DEF WaitsFor, HoldsLock, Stages
  <2> QED
    BY <2>2, <2>3, <2>4
<1> QED
  BY <1>1, WriteInvariant, PTL

\* The expected_version of a committed mutation is the version it was applied
\* to, and a version_conflict is recorded only for a version left behind.
THEOREM NoUpdateIsLost == Spec => []NoLostUpdate
<1>1. Init => NoLostUpdate
  BY DEF Init, NoLostUpdate
<1>2. WriteInv /\ NoLostUpdate /\ [Next]_vars => NoLostUpdate'
  <2>1. WriteInv /\ NoLostUpdate /\ Next => NoLostUpdate'
    BY UpdateStep DEF WriteInv
  <2>2. NoLostUpdate /\ UNCHANGED vars => NoLostUpdate'
    BY DEF vars, NoLostUpdate
  <2> QED
    BY <2>1, <2>2
<1> QED
  BY <1>1, <1>2, WriteInvariant, PTL DEF Spec

\* Whatever execute returned, replayed or not, is the durable row of the write
\* its caller asked for.
THEOREM ReceiptsAreDurable == Spec => []ReceiptIsDurable
<1>1. Init => ReceiptIsDurable
  BY DEF Init, ReceiptIsDurable
<1>2. WriteInv /\ ReceiptIsDurable /\ [Next]_vars => ReceiptIsDurable'
  <2>1. WriteInv /\ ReceiptIsDurable /\ Next => ReceiptIsDurable'
    BY ReceiptStep DEF WriteInv
  <2>2. ReceiptIsDurable /\ UNCHANGED vars => ReceiptIsDurable'
    BY DEF vars, ReceiptIsDurable
  <2> QED
    BY <2>1, <2>2
<1> QED
  BY <1>1, <1>2, WriteInvariant, PTL DEF Spec

\* What the atomic specification sees of an operation row.
Seen(rows) == [o \in Ops |-> IF rows[o] = None THEN None
                             ELSE [res |-> rows[o].res,
                                   expected |-> rows[o].expected,
                                   outcome |-> rows[o].outcome]]

\* A commit is one step of the atomic compare-and-set.
LEMMA CommitIsAtomic ==
    ASSUME WriteInv, LinearHistory, NEW w \in Writers, Commit(w)
    PROVE  Atomic!AtomicNext
<1> DEFINE e == request[w]
           row == pending[w]
<1>1. /\ e \in Envelope /\ e.op \in Ops /\ e.res \in Resources
      /\ row \in Row /\ row # None /\ RowIsCurrent(row, e)
      /\ log[e.op] = None
      /\ log' = [log EXCEPT ![e.op] = row]
      /\ row.outcome = "applied" =>
          /\ version' = [version EXCEPT ![e.res] = version[e.res] + 1]
          /\ effects' = [effects EXCEPT ![e.res] = Append(effects[e.res], e.op)]
      /\ row.outcome # "applied" => UNCHANGED <<version, effects>>
  BY CommitEffect DEF WriteInv
<1>2. /\ row.res = e.res /\ row.expected = e.expected
      /\ row.outcome \in {"applied", "no_change", "version_conflict"}
  BY <1>1 DEF RowIsCurrent, Row, Outcomes
<1>3. version[e.res] = Len(effects[e.res]) /\ version[e.res] \in Nat
  BY <1>1 DEF LinearHistory, WriteInv, TypeOK
<1>4. e.expected \in {None} \cup 0..Len(effects[e.res])
  <2>1. e.expected = None \/ e.expected <= version[e.res]
    BY DEF Commit, WriteInv, TransactionInv
  <2>2. e.expected = None \/ e.expected \in Nat
    BY <1>1 DEF Envelope
  <2> QED
    BY <1>3, <2>1, <2>2
<1>5. Seen(log)[e.op] = None
  BY <1>1 DEF Seen
<1>6. Seen(log') = [Seen(log) EXCEPT ![e.op] =
                [res |-> e.res, expected |-> e.expected, outcome |-> row.outcome]]
  BY <1>1, <1>2 DEF Seen, WriteInv, TypeOK
<1>7. /\ row.outcome = "version_conflict" => e.expected \notin {None, Len(effects[e.res])}
      /\ row.outcome # "version_conflict" => e.expected \in {None, Len(effects[e.res])}
  BY <1>1, <1>3 DEF RowIsCurrent
<1>8. PICK o \in Ops, r \in Resources :
        o = e.op /\ r = e.res
  BY <1>1
<1>9. PICK x \in {None} \cup 0..Len(effects[r]) : x = e.expected
  BY <1>8, <1>4
<1> HIDE DEF e, row
<1>10. CASE row.outcome = "applied"
  <2>1. Atomic!Apply(o, r, x)
    BY <1>1, <1>5, <1>6, <1>7, <1>8, <1>9, <1>10 DEF Atomic!Apply, Atomic!Verdict, Seen
  <2> QED
    BY <2>1 DEF Atomic!AtomicNext
<1>11. CASE row.outcome = "no_change"
  <2>1. Atomic!Skip(o, r, x)
    BY <1>1, <1>5, <1>6, <1>7, <1>8, <1>9, <1>11 DEF Atomic!Skip, Atomic!Verdict, Seen
  <2> QED
    BY <2>1 DEF Atomic!AtomicNext
<1>12. CASE row.outcome = "version_conflict"
  <2>1. Atomic!Refuse(o, r, x)
    BY <1>1, <1>5, <1>6, <1>7, <1>8, <1>9, <1>12 DEF Atomic!Refuse, Atomic!Verdict, Seen
  <2> QED
    BY <2>1 DEF Atomic!AtomicNext
<1> QED
  BY <1>2, <1>10, <1>11, <1>12

\* The transactions of shared_writes.py implement an atomic, at-most-once
\* compare-and-set on the version of each resource.
THEOREM Refinement == Spec => WritesAreAtomic
<1>1. Init => Atomic!AtomicInit
  BY DEF Init, Atomic!AtomicInit
<1>2. WriteInv /\ LinearHistory /\ [Next]_vars => [Atomic!AtomicNext]_(Atomic!abstractVars)
  <2> SUFFICES ASSUME WriteInv, LinearHistory, [Next]_vars
               PROVE  Atomic!AtomicNext \/ UNCHANGED Atomic!abstractVars
    OBVIOUS
  <2>1. CASE UNCHANGED vars
    BY <2>1 DEF vars, Atomic!abstractVars
  <2>2. CASE Next
    <3>1. PICK w \in Writers : Submit(w) \/ Step(w) \/ Rollback(w)
      BY <2>2 DEF Next
    <3>2. CASE Commit(w)
      BY <3>2, CommitIsAtomic
    <3>3. CASE ~Commit(w)
      BY <3>1, <3>3, OnlyCommitWrites DEF Atomic!abstractVars
    <3> QED
      BY <3>2, <3>3
  <2> QED
    BY <2>1, <2>2
<1> QED
  BY <1>1, <1>2, WriteInvariant, HistoryIsLinear, PTL
     DEF Spec, WritesAreAtomic, Atomic!AtomicSpec
=============================================================================
