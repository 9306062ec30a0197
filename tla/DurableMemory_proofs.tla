------------------------ MODULE DurableMemory_proofs ------------------------
(***************************************************************************)
(* Proofs about the table of durable memories, for any number of turns,    *)
(* memories, candidates and owner commands.  A deletion removes what its   *)
(* closure finds; the invariant says that provenance, candidates and rows  *)
(* name each other well enough for the closure to find everything.         *)
(***************************************************************************)
EXTENDS MemoryStore_proofs

Statuses == {"active", "retired", "superseded", "deleted"}

MemoryRow ==
    [status : Statuses, kind : OWNER \cup {"derived"}, grounded : BOOLEAN,
     content : Contents \cup {None}, hush : BOOLEAN, source : Nat, oath : Nat,
     proof : Candidates \cup {None}, origin : Candidates \cup {None},
     supersedes : Nat, by : Nat, from : Nat,
     how : {"legacy", "guard", "blind", "create", "merge", "supersede", "correct", "history"},
     back : BOOLEAN]

CandidateRow ==
    [status : {"none", "pending", "awaiting", "done", "invalidated", "purged"},
     content : Contents \cup {None}, evidence : SUBSET Nat,
     op : {"upsert", "correction", "change"}, target : Nat, oath : Nat, clash : Nat]

Provenance == [memory : Nat, turn : Nat, cand : Candidates \cup {None}, source : Nat]

TableType ==
    /\ rows \in Seq(MemoryRow)
    /\ prov \in SUBSET Provenance
    /\ cand \in [Candidates -> CandidateRow]
    /\ oaths \in Seq([says : Contents, live : BOOLEAN])

\* A candidate names turns and memories there are, and one that may still be published
\* is nobody's origin.
CandidateOK(c) ==
    /\ cand[c].evidence \subseteq AllTurns
    /\ cand[c].status \in {"pending", "awaiting"} => cand[c].evidence # {}
    /\ cand[c].oath # 0 => cand[c].oath \in cand[c].evidence
    /\ cand[c].clash # 0 => cand[c].clash \in Ids /\ cand[c].status # "purged"
    /\ cand[c].op # "upsert" => cand[c].target \in Ids
    /\ cand[c].status \in {"none", "pending", "awaiting"} => \A i \in Ids : rows[i].origin # c

CandidatesInv == \A c \in Candidates : CandidateOK(c)

\* What a row says of itself, whatever the others are.
RowOK(r, known) ==
    /\ r.source \in known \cup {0} /\ r.oath \in known \cup {0}
    /\ r.status # "deleted" => r.content # None
    /\ r.status = "retired" => r.hush
    /\ r.grounded => r.proof # None \/ r.oath # 0

RowsInv == \A i \in Ids : RowOK(rows[i], AllTurns)

\* Event times are compared with those of verified rows, and those stay.
TimeOK(i) ==
    /\ rows[i].how = "supersede" =>
          /\ rows[i].grounded /\ rows[i].supersedes \in Ids
          /\ rows[rows[i].supersedes].grounded
          /\ rows[i].from > rows[rows[i].supersedes].from
    /\ rows[i].how = "history" =>
          /\ rows[i].grounded /\ rows[i].status \in {"superseded", "deleted"}
          /\ rows[i].kind = "derived" /\ rows[i].by \in Ids
          /\ rows[rows[i].by].grounded
          /\ rows[i].from < rows[rows[i].by].from

TimesInv == \A i \in Ids : TimeOK(i)

\* No two current memories claim the same wording or candidate.
PairOK(r, s) ==
    r.status # "deleted" /\ s.status # "deleted" =>
       /\ r.status = "active" /\ s.status = "active" => r.content # s.content
       /\ r.origin # None => r.origin # s.origin
       /\ r.status = "active" /\ r.content = s.content /\ s.status = "retired" /\ s.grounded
          => r.back

WordingInv == \A i, j \in Ids : i # j => PairOK(rows[i], rows[j])

\* A link of provenance to what is still there.
LinkOK(p) ==
    /\ ~TurnPurged(p.turn)
    /\ p.cand # None => cand[p.cand].status # "purged"
    /\ p.source # 0 => rows[p.source].status # "deleted"

ProvenanceInv ==
    \A p \in prov : p.memory \in Ids /\ p.turn \in AllTurns \cup {0} /\ p.source \in Ids \cup {0}

TableInv ==
    /\ TableType /\ CandidatesInv /\ RowsInv /\ TimesInv /\ WordingInv /\ ProvenanceInv
    /\ NothingRestsOnRemoved

\* Where maintenance runs, no memory is made.
MemoryInv ==
    IF "memory" \in awake THEN TableInv ELSE rows = <<>> /\ prov = {}

-----------------------------------------------------------------------------
(* What a step that removes nothing may do.                                *)

\* Turns come, and none is purged.
Grows ==
    /\ AllTurns \subseteq AllTurns'
    /\ \A t \in AllTurns \cup {0} : TurnPurged(t)' => TurnPurged(t)

\* A candidate that keeps its evidence and is not taken up again.
Calm(c) ==
    /\ cand'[c].evidence = cand[c].evidence /\ cand'[c].oath = cand[c].oath
    /\ cand'[c].op = "upsert" \/ (cand'[c].op = cand[c].op /\ cand'[c].target = cand[c].target)
    /\ cand'[c].clash = 0 \/ (cand'[c].clash = cand[c].clash /\ cand'[c].status # "purged")
    /\ cand'[c].status \in {"none", "pending", "awaiting"} =>
          cand'[c].status = cand[c].status \/ cand[c].status = "pending"

\* A row that claims no more than it did.
NoWorse(r, s) ==
    \/ r.status = "deleted"
    \/ /\ r.content = s.content /\ r.origin = s.origin /\ r.back = s.back
       /\ r.grounded = s.grounded
       /\ r.status = s.status \/ (r.status = "superseded" /\ s.status # "deleted")

\* A row keeps what the event times are compared by.
TimeKept(r, s) ==
    /\ r.how = s.how /\ r.supersedes = s.supersedes
    /\ s.grounded => r.grounded /\ r.from = s.from
    /\ s.how = "history" => /\ r.by = s.by /\ r.kind = s.kind
                            /\ r.status = s.status \/ r.status = "deleted"

LEMMA CandidatesFrame ==
    ASSUME TableInv, TableType', AllTurns \subseteq AllTurns', Ids \subseteq Ids',
           \A i \in Ids' : \/ i \in Ids /\ rows'[i].origin = rows[i].origin
                           \/ rows'[i].origin = None
                           \/ cand'[rows'[i].origin].status = "done",
           \A c \in Candidates : Calm(c) \/ CandidateOK(c)'
    PROVE  CandidatesInv'
<1> SUFFICES ASSUME NEW c \in Candidates, Calm(c) PROVE CandidateOK(c)'
  BY DEF CandidatesInv, Candidates
<1>1. CandidateOK(c) /\ None \notin Candidates
  BY MemoryAssumption DEF TableInv, CandidatesInv, Candidates
<1>2. /\ cand'[c].evidence \subseteq AllTurns'
      /\ cand'[c].oath # 0 => cand'[c].oath \in cand'[c].evidence
      /\ cand'[c].clash # 0 => cand'[c].clash \in Ids' /\ cand'[c].status # "purged"
      /\ cand'[c].op # "upsert" => cand'[c].target \in Ids'
      /\ cand'[c].status \in {"pending", "awaiting"} => cand'[c].evidence # {}
  BY <1>1 DEF CandidateOK, Calm
<1>3. ASSUME cand'[c].status \in {"none", "pending", "awaiting"}, NEW i \in Ids'
      PROVE  rows'[i].origin # c
  <2>1. cand[c].status \in {"none", "pending", "awaiting"}
    BY <1>3 DEF Calm
  <2>2. \A j \in Ids : rows[j].origin # c
    BY <1>1, <2>1 DEF CandidateOK
  <2> QED
    BY <1>1, <1>3, <2>2
<1> QED
  BY <1>2, <1>3 DEF CandidateOK

LEMMA WordingFrame ==
    ASSUME WordingInv, NEW m,
           \A j \in Ids' \ {m} :
              /\ j \in Ids /\ NoWorse(rows'[j], rows[j])
              /\ m \in Ids' => PairOK(rows'[m], rows'[j]) /\ PairOK(rows'[j], rows'[m])
    PROVE  WordingInv'
<1> SUFFICES ASSUME NEW i \in Ids', NEW j \in Ids', i # j PROVE PairOK(rows'[i], rows'[j])
  BY DEF WordingInv, PairOK
<1>1. CASE i # m /\ j # m
  <2>1. PairOK(rows[i], rows[j]) /\ NoWorse(rows'[i], rows[i]) /\ NoWorse(rows'[j], rows[j])
    BY <1>1 DEF WordingInv
  <2> QED
    BY <2>1 DEF PairOK, NoWorse
<1>2. CASE i = m \/ j = m
  BY <1>2
<1> QED
  BY <1>1, <1>2

LEMMA TimesFrame ==
    ASSUME TimesInv, Ids \subseteq Ids', \A i \in Ids : TimeKept(rows'[i], rows[i]),
           \A i \in Ids' \ Ids : TimeOK(i)'
    PROVE  TimesInv'
<1> SUFFICES ASSUME NEW i \in Ids PROVE TimeOK(i)'
  BY DEF TimesInv
<1>1. TimeOK(i) /\ TimeKept(rows'[i], rows[i])
  BY DEF TimesInv
<1>2. CASE rows[i].how = "supersede"
  <2>1. TimeKept(rows'[rows[i].supersedes], rows[rows[i].supersedes])
    BY <1>1, <1>2 DEF TimeOK
  <2> QED
    BY <1>1, <1>2, <2>1 DEF TimeOK, TimeKept
<1>3. CASE rows[i].how = "history"
  <2>1. TimeKept(rows'[rows[i].by], rows[rows[i].by])
    BY <1>1, <1>3 DEF TimeOK
  <2> QED
    BY <1>1, <1>3, <2>1 DEF TimeOK, TimeKept
<1> QED
  BY <1>1, <1>2, <1>3 DEF TimeOK, TimeKept

LEMMA RestsFrame ==
    ASSUME TableInv, Grows, Ids \subseteq Ids',
           \A c \in Candidates : cand'[c].status = "purged" => cand[c].status = "purged",
           \A i \in Ids : /\ rows'[i].status = "deleted" <=> rows[i].status = "deleted"
                          /\ rows'[i].how = rows[i].how
                          /\ rows'[i].source = rows[i].source \/ ~TurnPurged(rows[i].source)'
                          /\ rows'[i].oath = rows[i].oath \/ ~TurnPurged(rows[i].oath)',
           \A i \in Ids' \ Ids : \/ rows'[i].how = "blind"
                                 \/ ~TurnPurged(rows[i].source)' /\ ~TurnPurged(rows[i].oath)',
           \A p \in prov' : LinkOK(p)' \/ p \in prov
    PROVE  NothingRestsOnRemoved'
<1>0. \A p \in prov : /\ p.memory \in Ids /\ p.turn \in AllTurns \cup {0}
                      /\ p.source \in Ids \cup {0} /\ p.cand \in Candidates \cup {None}
  BY DEF TableInv, ProvenanceInv, TableType, Provenance
<1>1. ASSUME NEW i \in Ids', rows'[i].status # "deleted", rows'[i].how # "blind"
      PROVE  ~TurnPurged(rows[i].source)' /\ ~TurnPurged(rows[i].oath)'
  <2>1. CASE i \in Ids
    <3>1. rows[i].status # "deleted" /\ rows[i].how # "blind"
      BY <1>1, <2>1
    <3>2. /\ ~TurnPurged(rows[i].source) /\ ~TurnPurged(rows[i].oath)
          /\ rows[i].source \in AllTurns \cup {0} /\ rows[i].oath \in AllTurns \cup {0}
      BY <2>1, <3>1 DEF TableInv, NothingRestsOnRemoved, Current, RowsInv, RowOK
    <3> DEFINE s == rows[i].source
               o == rows[i].oath
    <3>3. /\ \A t \in AllTurns \cup {0} : t = s => ~TurnPurged(t)'
          /\ \A t \in AllTurns \cup {0} : t = o => ~TurnPurged(t)'
      BY <3>2 DEF Grows
    <3>4. /\ rows'[i].source = rows[i].source => rows'[i].source \in AllTurns \cup {0}
          /\ rows'[i].oath = rows[i].oath => rows'[i].oath \in AllTurns \cup {0}
      BY <3>2
    <3>5. /\ rows'[i].source = s => ~TurnPurged(rows[i].source)'
          /\ rows'[i].oath = o => ~TurnPurged(rows[i].oath)'
      BY <3>3, <3>4, Zenon
    <3> QED
      BY <2>1, <3>5
  <2> QED
    BY <1>1, <2>1
<1>2. ASSUME NEW p \in prov', rows'[p.memory].status # "deleted", p.memory \in Ids'
      PROVE  LinkOK(p)'
  <2> SUFFICES ASSUME p \in prov PROVE LinkOK(p)'
    BY <1>2
  <2>1. /\ p.memory \in Ids /\ p.turn \in AllTurns \cup {0}
        /\ p.source \in Ids \cup {0} /\ p.cand \in Candidates \cup {None}
        /\ rows[p.memory].status # "deleted"
    BY <1>0, <1>2
  <2>2. /\ ~TurnPurged(p.turn)
        /\ p.cand # None => cand[p.cand].status # "purged"
        /\ p.source # 0 => rows[p.source].status # "deleted"
    BY <2>1 DEF TableInv, NothingRestsOnRemoved, Current
  <2>3. ~TurnPurged(p.turn)'
    BY <2>1, <2>2 DEF Grows
  <2> QED
    BY <2>1, <2>2, <2>3 DEF LinkOK
<1> QED
  BY <1>1, <1>2 DEF NothingRestsOnRemoved, Current, LinkOK

\* The other rows of a step: at most replaced by a later one.
Quiet(r, s) ==
    /\ r.content = s.content /\ r.origin = s.origin /\ r.back = s.back
    /\ r.grounded = s.grounded /\ r.source = s.source /\ r.oath = s.oath
    /\ r.proof = s.proof /\ r.how = s.how /\ r.supersedes = s.supersedes
    /\ r.from = s.from /\ r.kind = s.kind
    /\ (r.status = s.status /\ r.hush = s.hush) \/ (s.status = "active" /\ r.status = "superseded")
    /\ s.how = "history" => r.by = s.by

\* A step that adds or changes one row, m, and leaves the others quiet.
LEMMA RowStep ==
    ASSUME TableInv, TableType', Grows, NEW m, Ids' = Ids \cup {m},
           \A i \in Ids \ {m} : Quiet(rows'[i], rows[i]),
           RowOK(rows'[m], AllTurns'),
           \A j \in Ids \ {m} : PairOK(rows'[m], rows'[j]) /\ PairOK(rows'[j], rows'[m]),
           m \in Ids => /\ TimeKept(rows'[m], rows[m])
                        /\ rows'[m].status = "deleted" <=> rows[m].status = "deleted"
                        /\ rows'[m].source = rows[m].source \/ ~TurnPurged(rows[m].source)'
                        /\ rows'[m].oath = rows[m].oath \/ ~TurnPurged(rows[m].oath)',
           m \notin Ids => /\ TimeOK(m)'
                           /\ \/ rows'[m].how = "blind"
                              \/ ~TurnPurged(rows[m].source)' /\ ~TurnPurged(rows[m].oath)',
           \/ m \in Ids /\ rows'[m].origin = rows[m].origin
           \/ rows'[m].origin = None
           \/ cand'[rows'[m].origin].status = "done",
           \A c \in Candidates : /\ Calm(c) \/ CandidateOK(c)'
                                 /\ cand'[c].status = "purged" => cand[c].status = "purged",
           \A p \in prov' : \/ p \in prov
                            \/ /\ p.memory \in Ids' /\ p.turn \in AllTurns' \cup {0}
                               /\ p.source \in Ids' \cup {0} /\ LinkOK(p)'
    PROVE  TableInv'
<1>0. /\ CandidatesInv /\ RowsInv /\ TimesInv /\ WordingInv /\ ProvenanceInv
      /\ AllTurns \subseteq AllTurns'
  BY DEF TableInv, Grows
<1>1. CandidatesInv'
  <2>1. \A i \in Ids' : \/ i \in Ids /\ rows'[i].origin = rows[i].origin
                        \/ rows'[i].origin = None
                        \/ cand'[rows'[i].origin].status = "done"
    BY DEF Quiet
  <2> QED
    BY <1>0, <2>1, CandidatesFrame
<1>2. RowsInv'
  <2> SUFFICES ASSUME NEW i \in Ids \ {m} PROVE RowOK(rows'[i], AllTurns')
    BY DEF RowsInv
  <2>1. RowOK(rows[i], AllTurns) /\ Quiet(rows'[i], rows[i])
    BY <1>0 DEF RowsInv
  <2> QED
    BY <1>0, <2>1 DEF RowOK, Quiet
<1>3. TimesInv'
  <2>1. ASSUME NEW i \in Ids \ {m} PROVE TimeKept(rows'[i], rows[i])
    <3>1. TimeOK(i) /\ Quiet(rows'[i], rows[i])
      BY <1>0 DEF TimesInv
    <3> QED
      BY <3>1 DEF TimeOK, TimeKept, Quiet
  <2> QED
    BY <1>0, <2>1, TimesFrame
<1>4. WordingInv'
  <2>1. \A j \in Ids \ {m} : NoWorse(rows'[j], rows[j])
    BY DEF Quiet, NoWorse
  <2> QED
    BY <1>0, <2>1, WordingFrame
<1>5. ProvenanceInv'
  BY <1>0 DEF ProvenanceInv
<1>6. NothingRestsOnRemoved'
  <2>1. \A i \in Ids : /\ rows'[i].status = "deleted" <=> rows[i].status = "deleted"
                       /\ rows'[i].how = rows[i].how
                       /\ rows'[i].source = rows[i].source \/ ~TurnPurged(rows[i].source)'
                       /\ rows'[i].oath = rows[i].oath \/ ~TurnPurged(rows[i].oath)'
    <3>1. ASSUME NEW i \in Ids \ {m}
          PROVE  /\ rows'[i].status = "deleted" <=> rows[i].status = "deleted"
                 /\ rows'[i].how = rows[i].how
                 /\ rows'[i].source = rows[i].source /\ rows'[i].oath = rows[i].oath
      BY DEF Quiet
    <3>2. ASSUME m \in Ids
          PROVE  /\ rows'[m].status = "deleted" <=> rows[m].status = "deleted"
                 /\ rows'[m].how = rows[m].how
                 /\ rows'[m].source = rows[m].source \/ ~TurnPurged(rows[m].source)'
                 /\ rows'[m].oath = rows[m].oath \/ ~TurnPurged(rows[m].oath)'
      BY <3>2 DEF TimeKept
    <3> QED
      BY <3>1, <3>2, Zenon
  <2>2. \A i \in Ids' \ Ids : \/ rows'[i].how = "blind"
                              \/ ~TurnPurged(rows[i].source)' /\ ~TurnPurged(rows[i].oath)'
    BY Zenon
  <2> QED
    BY <2>1, <2>2, RestsFrame
<1> QED
  BY <1>1, <1>2, <1>3, <1>4, <1>5, <1>6 DEF TableInv

\* A step of the candidates alone.
LEMMA CandidateStep ==
    ASSUME TableInv, TableType', Grows, UNCHANGED rows,
           \A c \in Candidates : /\ Calm(c) \/ CandidateOK(c)'
                                 /\ cand'[c].status = "purged" => cand[c].status = "purged",
           \A p \in prov' : \/ p \in prov
                            \/ /\ p.memory \in Ids' /\ p.turn \in AllTurns' \cup {0}
                               /\ p.source \in Ids' \cup {0} /\ LinkOK(p)'
    PROVE  TableInv'
<1>0. /\ CandidatesInv /\ RowsInv /\ TimesInv /\ WordingInv /\ ProvenanceInv
      /\ AllTurns \subseteq AllTurns' /\ Ids' = Ids
  BY DEF TableInv, Grows, Ids
<1>1. CandidatesInv'
  BY <1>0, CandidatesFrame
<1>2. RowsInv'
  BY <1>0 DEF RowsInv, RowOK
<1>3. TimesInv'
  BY <1>0, TimesFrame DEF TimeKept
<1>4. WordingInv'
  BY <1>0 DEF WordingInv
<1>5. ProvenanceInv'
  BY <1>0 DEF ProvenanceInv
<1>6. NothingRestsOnRemoved'
  BY <1>0, RestsFrame
<1> QED
  BY <1>1, <1>2, <1>3, <1>4, <1>5, <1>6 DEF TableInv

-----------------------------------------------------------------------------
(* Turns.                                                                  *)

LEMMA TurnTypes ==
    ASSUME DerivInv, TableType
    PROVE  /\ MaxTurns \in Nat /\ Len(turns) \in Nat /\ Len(turns) <= MaxTurns
           /\ turns \in Seq({"live", "purged", "erased"})
           /\ Len(oaths) \in Nat /\ DOMAIN oaths = 1..Len(oaths)
           /\ AllTurns \in SUBSET Nat /\ 0 \notin AllTurns
           /\ Latest \in Nat /\ Latest \in Sequences \cup {0} /\ Sequences \subseteq AllTurns
           /\ \A t \in Sequences : t \in Nat /\ t <= MaxTurns /\ t > 0
           /\ \A k \in DOMAIN oaths : Turn(k) \in Nat /\ Turn(k) > MaxTurns /\ Turn(k) - MaxTurns = k
<1>1. turns \in Seq({"live", "purged", "erased"}) /\ Len(turns) <= MaxTurns /\ MaxTurns \in Nat
  BY DerivativesAssumption DEF DerivInv, DerivType
<1>2. Len(turns) \in Nat
  BY <1>1
<1>3. oaths \in Seq([says : Contents, live : BOOLEAN])
  BY DEF TableType
<1>4. Len(oaths) \in Nat /\ DOMAIN oaths = 1..Len(oaths)
  BY <1>3, SeqProperties
<1>5. \A k \in DOMAIN oaths : Turn(k) \in Nat /\ Turn(k) > MaxTurns /\ Turn(k) - MaxTurns = k
  BY <1>1, <1>4 DEF Turn
<1>6. \A t \in Sequences : t \in Nat /\ t <= MaxTurns /\ t > 0
  BY <1>1, <1>2 DEF Sequences
<1>7. AllTurns \in SUBSET Nat /\ 0 \notin AllTurns /\ Sequences \subseteq AllTurns
  BY <1>1, <1>5, <1>6 DEF AllTurns
<1>8. Latest \in Nat /\ Latest \in Sequences \cup {0}
  BY <1>2 DEF Latest, Sequences
<1> QED
  BY <1>1, <1>2, <1>4, <1>5, <1>6, <1>7, <1>8

LEMMA LiveIsNotPurged ==
    ASSUME DerivInv, TableType, NEW t \in AllTurns, TurnLive(t)
    PROVE  ~TurnPurged(t)
<1>1. /\ t \in Nat /\ MaxTurns \in Nat
  BY TurnTypes
<1> QED
  BY <1>1 DEF TurnLive, TurnPurged, Standing

LEMMA StandingIsLive ==
    ASSUME DerivInv, TableType, NEW t \in Standing
    PROVE  t \in AllTurns /\ TurnLive(t)
<1>1. t \in Sequences
  BY DEF Standing
<1> QED
  BY <1>1, TurnTypes DEF TurnLive

LEMMA GrowsSame ==
    ASSUME UNCHANGED <<turns, oaths>>
    PROVE  Grows /\ AllTurns' = AllTurns /\ \A t : TurnPurged(t)' = TurnPurged(t)
<1>1. AllTurns' = AllTurns
  BY DEF AllTurns, Sequences
<1>2. \A t : TurnPurged(t)' = TurnPurged(t)
  BY DEF TurnPurged
<1> QED
  BY <1>1, <1>2 DEF Grows

\* The owner's assertion: a turn of its own.
LEMMA GrowsOath ==
    ASSUME DerivInv, TableType, UNCHANGED turns, NEW x \in Contents,
           oaths' = Append(oaths, [says |-> x, live |-> TRUE])
    PROVE  /\ Grows /\ oaths' \in Seq([says : Contents, live : BOOLEAN])
           /\ \A t : t = Turn(Len(oaths) + 1) =>
                 t \in Nat /\ t # 0 /\ t \in AllTurns' /\ ~TurnPurged(t)'
<1> DEFINE S == [says : Contents, live : BOOLEAN]
           o == [says |-> x, live |-> TRUE]
           k == Len(oaths) + 1
<1>1. oaths \in Seq(S) /\ o \in S
  BY DEF TableType
<1>2. /\ Len(oaths) \in Nat /\ DOMAIN oaths = 1..Len(oaths) /\ MaxTurns \in Nat
      /\ AllTurns \in SUBSET Nat /\ \A i \in DOMAIN oaths : Turn(i) - MaxTurns = i
      /\ \A i \in DOMAIN oaths : Turn(i) > MaxTurns
      /\ \A i \in Sequences : i <= MaxTurns
  BY TurnTypes
<1>3. /\ oaths' \in Seq(S) /\ DOMAIN oaths' = DOMAIN oaths \cup {k} /\ oaths'[k] = o
      /\ \A i \in DOMAIN oaths : oaths'[i] = oaths[i]
  <2> HIDE DEF S, o
  <2> QED
    BY <1>1, SeqAppend, AppendProperties DEF o
<1>4. Turn(k) \in Nat /\ Turn(k) > MaxTurns /\ Turn(k) # 0 /\ Turn(k) - MaxTurns = k
  BY <1>2 DEF Turn
<1>5. Sequences' = Sequences
  BY DEF Sequences
<1>6. AllTurns \subseteq AllTurns' /\ Turn(k) \in AllTurns'
  BY <1>3, <1>5 DEF AllTurns, Turn
<1>7. ASSUME NEW t, t = Turn(k) PROVE ~TurnPurged(t)'
  <2>1. oaths'[t - MaxTurns].live /\ ~(t <= MaxTurns)
    BY <1>2, <1>3, <1>4, <1>7
  <2> QED
    BY <2>1 DEF TurnPurged
<1>8. ASSUME NEW t \in AllTurns \cup {0} PROVE TurnPurged(t)' => TurnPurged(t)
  <2>1. CASE t <= MaxTurns
    BY <2>1 DEF TurnPurged
  <2>2. CASE ~(t <= MaxTurns)
    <3>1. PICK i \in DOMAIN oaths : t = Turn(i)
      BY <1>2, <2>2 DEF AllTurns
    <3>2. t - MaxTurns = i /\ oaths'[i] = oaths[i]
      BY <1>2, <1>3, <3>1
    <3> QED
      BY <2>2, <3>2 DEF TurnPurged
  <2> QED
    BY <2>1, <2>2
<1> QED
  BY <1>3, <1>4, <1>6, <1>7, <1>8 DEF Grows

LEMMA GrowsErased ==
    ASSUME DerivInv, TableType, DeleteChat, UNCHANGED oaths
    PROVE  Grows
<1>1. /\ Len(turns) \in Nat /\ turns' = [n \in Sequences |-> "erased"]
      /\ DOMAIN oaths = DOMAIN oaths'
      /\ \A t \in Sequences : t \in Nat
  BY TurnTypes DEF DeleteChat
<1>2. Len(turns') = Len(turns)
  BY Standing_Delete DEF DerivInv
<1>3. AllTurns' = AllTurns /\ Sequences' = Sequences
  BY <1>2 DEF AllTurns, Sequences
<1>4. ASSUME NEW t \in AllTurns \cup {0}, TurnPurged(t)' PROVE TurnPurged(t)
  <2>1. CASE t <= MaxTurns
    <3>1. t > 0 /\ turns'[t] = "purged"
      BY <1>4, <2>1 DEF TurnPurged
    <3>2. t \in Sequences
      <4>1. \A k \in DOMAIN oaths : Turn(k) > MaxTurns /\ Turn(k) \in Nat
        BY TurnTypes
      <4>2. t \in AllTurns
        BY <3>1
      <4> QED
        BY <2>1, <4>1, <4>2, DerivativesAssumption DEF AllTurns
    <3> QED
      BY <1>1, <3>1, <3>2
  <2>2. CASE ~(t <= MaxTurns)
    BY <1>4, <2>2 DEF TurnPurged
  <2> QED
    BY <2>1, <2>2
<1> QED
  BY <1>3, <1>4 DEF Grows

(* Rows.                                                                   *)
LEMMA RowTypes ==
    ASSUME TableType
    PROVE  /\ Len(rows) \in Nat /\ Ids = 1..Len(rows) /\ 0 \notin Ids
           /\ Len(rows) + 1 \in Nat /\ Len(rows) + 1 \notin Ids
           /\ Ids \in SUBSET Nat
           /\ \A i \in Ids : rows[i] \in MemoryRow
<1>1. rows \in Seq(MemoryRow)
  BY DEF TableType
<1>2. Len(rows) \in Nat /\ Ids = 1..Len(rows) /\ \A i \in Ids : rows[i] \in MemoryRow
  BY <1>1, SeqProperties DEF Ids
<1> QED
  BY <1>2

LEMMA RowsFunction ==
    ASSUME TableType
    PROVE  /\ rows \in [Ids -> MemoryRow]
           /\ \A s \in [Ids -> MemoryRow] :
                 s \in Seq(MemoryRow) /\ Len(s) = Len(rows) /\ DOMAIN s = Ids
<1>1. rows \in [1..Len(rows) -> MemoryRow] /\ Len(rows) \in Nat /\ Ids = 1..Len(rows)
  BY SeqProperties DEF TableType, Ids
<1> QED
  BY <1>1, FunctionIsSeq

LEMMA Appended ==
    ASSUME NEW s, s \in Seq(MemoryRow), NEW r \in MemoryRow, Len(s) = Len(rows),
           DOMAIN s = Ids, rows' = Append(s, r)
    PROVE  /\ rows' \in Seq(MemoryRow) /\ Len(rows') = Len(rows) + 1
           /\ Ids' = Ids \cup {Len(rows) + 1}
           /\ rows'[Len(rows) + 1] = r /\ \A j \in Ids : rows'[j] = s[j]
  BY SeqAppend, AppendProperties DEF Ids

-----------------------------------------------------------------------------
(* memory.delete.                                                          *)

\* The closure has what it began with and, unless kept, whatever rests on it.
LEMMA RestsIsClosed ==
    ASSUME TableInv, NEW first, first \subseteq Ids, NEW cs, NEW kept
    PROVE  /\ Rests(first, cs, kept) \subseteq Ids /\ first \subseteq Rests(first, cs, kept)
           /\ \A p \in prov : p.source \in Rests(first, cs, kept) \/ p.cand \in cs =>
                 p.memory \in Rests(first, cs, kept) \cup kept
<1> DEFINE Closed(X) == \A p \in prov :
                          (p.source \in X \/ p.cand \in cs) => p.memory \in X \cup kept
           G == {i \in Ids : \A X \in SUBSET Ids : first \subseteq X /\ Closed(X) => i \in X}
<1>1. Rests(first, cs, kept) = G
  BY DEF Rests
<1>2. \A p \in prov : p.memory \in Ids
  BY DEF TableInv, ProvenanceInv
<1>3. G \subseteq Ids /\ first \subseteq G
  OBVIOUS
<1>4. ASSUME NEW p \in prov, p.source \in G \/ p.cand \in cs, p.memory \notin kept
      PROVE  p.memory \in G
  <2> SUFFICES ASSUME NEW X \in SUBSET Ids, first \subseteq X, Closed(X)
               PROVE  p.memory \in X
    BY <1>2
  <2>1. p.source \in X \/ p.cand \in cs
    BY <1>4
  <2> QED
    BY <1>4, <2>1
<1> QED
  BY <1>1, <1>3, <1>4

\* What a deletion finds.  Whatever names a turn, a candidate or a memory that goes is in
\* gone or in keeps, and what is in keeps has the owner's word in a turn that stands.
Finds(p) ==
    /\ p.gone \subseteq Ids /\ p.keeps \subseteq Ids /\ p.gone \cap p.keeps = {}
    /\ p.cands \subseteq Candidates /\ \A c \in p.cands : cand[c].status # "none"
    /\ \A i \in p.keeps : /\ rows[i].status # "deleted" /\ rows[i].oath # 0
                          /\ TurnLive(rows[i].oath) /\ rows[i].oath \notin p.turns
    /\ \A i \in Ids : rows[i].status # "deleted" /\ {rows[i].source, rows[i].oath} \cap p.turns # {}
                         => i \in p.gone \cup p.keeps
    /\ \A q \in prov : q.turn \in p.turns \/ q.cand \in p.cands \/ q.source \in p.gone
                         => q.memory \in p.gone \cup p.keeps

LEMMA PurgedFinds ==
    ASSUME TableInv, NEW target \in SUBSET Ids, NEW x, NEW withSources
    PROVE  Finds(Purged(target, x, withSources))
<1> DEFINE independent == {i \in Ids : Independent(i)} \ target
           first  == Rests(target, {}, independent)
           named  == {p.cand : p \in {q \in prov : q.memory \in first}} \ {None}
           source == SourceTurns(first, named)
           redact == IF ~withSources THEN {}
                     ELSE Redactable(IF source # {} THEN source ELSE AllTurns, x)
           deps   == source \cup redact
           cs     == Touched(deps, named, IF deps = {} /\ named = {} THEN x ELSE None)
           keeps  == {i \in independent : rows[i].oath \notin redact}
           more   == {i \in Ids : rows[i].status # "deleted" /\ {rows[i].source, rows[i].oath} \cap deps # {}}
                        \cup {p.memory : p \in {q \in prov : q.turn \in deps}}
           gone   == Rests((first \cup more) \ keeps, cs, keeps)
<1>1. /\ Purged(target, x, withSources).turns = redact
      /\ Purged(target, x, withSources).cands = cs
      /\ Purged(target, x, withSources).gone = gone
      /\ Purged(target, x, withSources).keeps = keeps \ gone
  BY Zenon DEF Purged
<1>2. \A p \in prov : p.memory \in Ids
  BY DEF TableInv, ProvenanceInv
<1>3. first \subseteq Ids
  BY DEF Rests
<1>4. more \subseteq Ids /\ redact \subseteq deps
  BY <1>2
<1>5. cs \subseteq Candidates /\ \A c \in cs : cand[c].status # "none"
  BY DEF Touched
<1>6. \A i \in keeps : /\ i \in Ids /\ rows[i].status # "deleted" /\ rows[i].oath # 0
                       /\ TurnLive(rows[i].oath) /\ rows[i].oath \notin redact
  BY DEF Independent
<1>7. /\ \A i \in Ids : rows[i].status # "deleted" /\ {rows[i].source, rows[i].oath} \cap redact # {}
                           => i \in more
      /\ \A q \in prov : q.turn \in redact => q.memory \in more
  BY <1>4
<1> HIDE DEF independent, first, named, source, redact, deps, cs, more
<1>8. (first \cup more) \ keeps \subseteq Ids
  BY <1>3, <1>4
<1>9. /\ gone \subseteq Ids /\ (first \cup more) \ keeps \subseteq gone
      /\ \A q \in prov : q.source \in gone \/ q.cand \in cs => q.memory \in gone \cup keeps
  BY <1>8, RestsIsClosed
<1> HIDE DEF gone, keeps
<1> QED
  BY <1>1, <1>5, <1>6, <1>7, <1>9 DEF Finds

LEMMA DeleteTurns ==
    ASSUME DerivInv, TableType, NEW target, NEW x, NEW withSources,
           Delete(target, x, withSources),
           NEW ts, ts = Purged(target, x, withSources).turns
    PROVE  /\ oaths' \in Seq([says : Contents, live : BOOLEAN])
           /\ AllTurns' = AllTurns
           /\ \A t \in AllTurns \cup {0} : TurnPurged(t)' => TurnPurged(t) \/ t \in ts
<1>1. oaths' = [k \in DOMAIN oaths |-> [oaths[k] EXCEPT !.live = @ /\ Turn(k) \notin ts]]
  BY Zenon DEF Delete
<1>2. /\ Len(oaths) \in Nat /\ DOMAIN oaths = 1..Len(oaths) /\ MaxTurns \in Nat
      /\ Len(turns) \in Nat /\ \A t \in Sequences : t \in Nat /\ t <= MaxTurns /\ t > 0
      /\ \A k \in DOMAIN oaths : Turn(k) \in Nat /\ Turn(k) > MaxTurns /\ Turn(k) - MaxTurns = k
  BY TurnTypes
<1>3. \A k \in DOMAIN oaths : oaths[k] \in [says : Contents, live : BOOLEAN]
  BY SeqProperties DEF TableType
<1>4. \A k \in DOMAIN oaths :
         /\ oaths'[k] \in [says : Contents, live : BOOLEAN]
         /\ oaths'[k].live <=> (oaths[k].live /\ Turn(k) \notin ts)
  BY <1>1, <1>3
<1>5. oaths' \in Seq([says : Contents, live : BOOLEAN]) /\ DOMAIN oaths' = DOMAIN oaths
  <2>1. oaths' \in [1..Len(oaths) -> [says : Contents, live : BOOLEAN]]
    BY <1>1, <1>2, <1>4
  <2> QED
    BY <1>1, <1>2, <2>1, FunctionIsSeq
<1>6. Len(turns') = Len(turns) /\ \A t \in Sequences : turns'[t] = "purged" => turns[t] = "purged" \/ t \in ts
  <2>1. CASE ts \cap Sequences = {}
    BY <2>1 DEF Delete, Derivatives
  <2>2. CASE ts \cap Sequences # {}
    <3>1. PurgeWrites(PurgeReads(ts \cap Sequences))
      BY <2>2 DEF Delete
    <3>2. PurgeReads(ts \cap Sequences).redacted = ts \cap Sequences
      BY DEF PurgeReads
    <3>3. Len(turns') = Len(turns)
      BY <3>1, Standing_Purge DEF DerivInv
    <3>4. turns' = [n \in Sequences |-> IF n \in ts \cap Sequences THEN "purged" ELSE turns[n]]
      BY <3>1, <3>2 DEF PurgeWrites
    <3> QED
      BY <3>3, <3>4
  <2> QED
    BY <2>1, <2>2
<1>7. AllTurns' = AllTurns
  BY <1>5, <1>6 DEF AllTurns, Sequences, Turn
<1>8. ASSUME NEW t \in AllTurns \cup {0}, TurnPurged(t)' PROVE TurnPurged(t) \/ t \in ts
  <2>1. CASE t <= MaxTurns
    <3>1. t > 0 /\ turns'[t] = "purged"
      BY <1>8, <2>1 DEF TurnPurged
    <3>2. t \in Sequences
      BY <1>2, <2>1, <3>1 DEF AllTurns
    <3> QED
      BY <1>6, <2>1, <3>1, <3>2 DEF TurnPurged
  <2>2. CASE ~(t <= MaxTurns)
    <3>1. PICK k \in DOMAIN oaths : t = Turn(k)
      BY <1>2, <2>2 DEF AllTurns
    <3>2. t - MaxTurns = k
      BY <1>2, <3>1
    <3>3. ~oaths'[k].live
      BY <1>8, <2>2, <3>2 DEF TurnPurged
    <3> QED
      BY <1>4, <2>2, <3>1, <3>2, <3>3 DEF TurnPurged
  <2> QED
    BY <2>1, <2>2
<1> QED
  BY <1>5, <1>7, <1>8

\* The rows after a deletion.
LEMMA DeleteRows ==
    ASSUME DerivInv, TableInv, NEW target \in SUBSET Ids, NEW x, NEW withSources,
           Delete(target, x, withSources),
           NEW p, p = Purged(target, x, withSources)
    PROVE  /\ rows' \in Seq(MemoryRow) /\ Ids \subseteq Ids' /\ Ids' \subseteq Ids \cup {Len(rows) + 1}
           /\ \A i \in Ids' \ Ids : rows'[i] = Tombstone
           /\ \A i \in p.gone : /\ rows'[i].status = "deleted"
                                /\ rows'[i] = [rows[i] EXCEPT !.status = "deleted", !.content = None,
                                                              !.hush = TRUE]
           /\ \A i \in p.keeps : rows'[i] = Detached(p, i)
           /\ \A i \in Ids : i \notin p.gone \cup p.keeps => rows'[i] = rows[i]
           /\ Tombstone \in MemoryRow
<1>0. TableType /\ Finds(p)
  BY PurgedFinds DEF TableInv
<1>1. /\ rows' = IF target = {} THEN Append(DeletedRows(p), Tombstone) ELSE DeletedRows(p)
  BY Zenon DEF Delete
<1>2. /\ Len(rows) \in Nat /\ Ids = 1..Len(rows) /\ Len(rows) + 1 \notin Ids
      /\ \A i \in Ids : rows[i] \in MemoryRow
  BY <1>0, RowTypes
<1>3. \A i \in p.gone : [rows[i] EXCEPT !.status = "deleted", !.content = None, !.hush = TRUE]
                           \in MemoryRow
  <2> SUFFICES ASSUME NEW i \in p.gone
               PROVE  [rows[i] EXCEPT !.status = "deleted", !.content = None, !.hush = TRUE]
                         \in MemoryRow
    OBVIOUS
  <2>1. rows[i] \in MemoryRow
    BY <1>0, <1>2 DEF Finds
  <2> QED
    BY <2>1 DEF MemoryRow, Statuses
<1>4. \A i \in p.keeps : Detached(p, i) \in MemoryRow
  <2> SUFFICES ASSUME NEW i \in p.keeps PROVE Detached(p, i) \in MemoryRow
    OBVIOUS
  <2>1. rows[i] \in MemoryRow
    BY <1>0, <1>2 DEF Finds
  <2> QED
    BY <2>1 DEF MemoryRow, Detached
<1>5. Tombstone \in MemoryRow
  BY <1>0, TurnTypes DEF Tombstone, BlankRow, MemoryRow, Statuses, OWNER
<1>6. /\ DeletedRows(p) \in [1..Len(rows) -> MemoryRow]
      /\ \A i \in p.gone : DeletedRows(p)[i] =
            [rows[i] EXCEPT !.status = "deleted", !.content = None, !.hush = TRUE]
      /\ \A i \in p.keeps : DeletedRows(p)[i] = Detached(p, i)
      /\ \A i \in Ids : i \notin p.gone \cup p.keeps => DeletedRows(p)[i] = rows[i]
  BY <1>0, <1>2, <1>3, <1>4 DEF DeletedRows, Finds
<1>7. \A i \in p.gone :
         [rows[i] EXCEPT !.status = "deleted", !.content = None, !.hush = TRUE].status = "deleted"
  BY <1>0, <1>2 DEF Finds, MemoryRow
<1>8. DeletedRows(p) \in Seq(MemoryRow) /\ Len(DeletedRows(p)) = Len(rows)
      /\ DOMAIN DeletedRows(p) = Ids
  BY <1>2, <1>6, FunctionIsSeq
<1>9. CASE target = {}
  <2>1. rows' = Append(DeletedRows(p), Tombstone)
    BY <1>1, <1>9
  <2>2. /\ rows' \in Seq(MemoryRow) /\ Ids' = Ids \cup {Len(rows) + 1}
        /\ rows'[Len(rows) + 1] = Tombstone /\ \A j \in Ids : rows'[j] = DeletedRows(p)[j]
    BY <1>5, <1>8, <2>1, Appended
  <2> QED
    BY <1>0, <1>2, <1>5, <1>6, <1>7, <2>2 DEF Finds
<1>10. CASE target # {}
  <2>1. rows' = DeletedRows(p) /\ Ids' = Ids
    BY <1>1, <1>8, <1>10 DEF Ids
  <2> QED
    BY <1>0, <1>2, <1>5, <1>6, <1>7, <1>8, <2>1 DEF Finds
<1> QED
  BY <1>9, <1>10

LEMMA DeleteStep ==
    ASSUME DerivInv, TableInv, NEW target \in SUBSET Ids, NEW x, NEW withSources,
           Delete(target, x, withSources)
    PROVE  TableInv'
<1> DEFINE p == Purged(target, x, withSources)
<1>0. /\ TableType /\ CandidatesInv /\ RowsInv /\ TimesInv /\ WordingInv /\ ProvenanceInv
      /\ NothingRestsOnRemoved
  BY DEF TableInv
<1>1. Finds(p)
  BY PurgedFinds
<1>2. /\ oaths' \in Seq([says : Contents, live : BOOLEAN]) /\ AllTurns' = AllTurns
      /\ \A t \in AllTurns \cup {0} : TurnPurged(t)' => TurnPurged(t) \/ t \in p.turns
  BY <1>0, DeleteTurns
<1>3. /\ rows' \in Seq(MemoryRow) /\ Ids \subseteq Ids' /\ Ids' \subseteq Ids \cup {Len(rows) + 1}
      /\ \A i \in Ids' \ Ids : rows'[i] = Tombstone
      /\ \A i \in p.gone : /\ rows'[i].status = "deleted"
                           /\ rows'[i] = [rows[i] EXCEPT !.status = "deleted", !.content = None,
                                                         !.hush = TRUE]
      /\ \A i \in p.keeps : rows'[i] = Detached(p, i)
      /\ \A i \in Ids : i \notin p.gone \cup p.keeps => rows'[i] = rows[i]
      /\ Tombstone \in MemoryRow
  BY DeleteRows
<1>4. prov' = {link \in prov : ~Cut(p, link)} /\ Wiped(p.cands, "purged")
  BY DEF Delete
<1>5. /\ \A i \in Ids : rows[i] \in MemoryRow /\ Len(rows) + 1 \notin Ids
      /\ p.gone \subseteq Ids /\ p.keeps \subseteq Ids /\ p.gone \cap p.keeps = {}
  BY <1>0, <1>1, RowTypes DEF Finds
<1>6. /\ Latest \in AllTurns \cup {0} /\ 0 \notin AllTurns
  BY <1>0, TurnTypes
<1>c. /\ \A c \in Candidates : cand[c] \in CandidateRow
      /\ cand' = [c \in Candidates |-> IF c \in p.cands
                    THEN [cand[c] EXCEPT !.status = "purged", !.content = None, !.clash = 0]
                    ELSE cand[c]]
  <2>1. \A c \in Candidates : cand[c] \in CandidateRow
    BY <1>0 DEF TableType
  <2> QED
    BY <1>4, <2>1 DEF Wiped
<1>w. \A c \in Candidates :
         /\ cand'[c] \in CandidateRow
         /\ c \notin p.cands => cand'[c] = cand[c]
         /\ c \in p.cands => /\ cand'[c].status = "purged" /\ cand'[c].clash = 0
                             /\ cand'[c].evidence = cand[c].evidence
                             /\ cand'[c].oath = cand[c].oath /\ cand'[c].op = cand[c].op
                             /\ cand'[c].target = cand[c].target
  BY <1>c DEF CandidateRow
<1>t. Tombstone.status = "deleted" /\ Tombstone.origin = None /\ Tombstone.how = "guard"
  BY DEF Tombstone, BlankRow
<1>n. \A i \in Ids' \ Ids : /\ rows'[i].status = "deleted" /\ rows'[i].origin = None
                            /\ rows'[i].how = "guard"
  BY <1>3, <1>t
<1> HIDE DEF p
<1>7. TableType'
  <2>1. prov' \in SUBSET Provenance /\ DOMAIN cand' = Candidates
    BY <1>0, <1>4, <1>c DEF TableType
  <2> QED
    BY <1>2, <1>3, <1>c, <1>w, <2>1 DEF TableType, Candidates
\* What a row keeps.
<1>8. ASSUME NEW i \in Ids
      PROVE  /\ NoWorse(rows'[i], rows[i]) /\ TimeKept(rows'[i], rows[i])
             /\ rows'[i].origin = rows[i].origin /\ RowOK(rows'[i], AllTurns')
  <2>1. RowOK(rows[i], AllTurns) /\ TimeOK(i) /\ rows[i] \in MemoryRow
    BY <1>0, <1>5 DEF RowsInv, TimesInv
  <2>2. CASE i \in p.gone
    <3>1. rows'[i] = [rows[i] EXCEPT !.status = "deleted", !.content = None, !.hush = TRUE]
      BY <1>3, <2>2
    <3> QED
      BY <1>2, <2>1, <3>1 DEF NoWorse, TimeKept, RowOK, MemoryRow
  <2>3. CASE i \in p.keeps
    <3>1. rows'[i] = Detached(p, i)
      BY <1>3, <2>3
    <3>2. rows[i].oath # 0
      BY <1>1, <2>3 DEF Finds
    <3> QED
      BY <1>2, <2>1, <3>1, <3>2 DEF NoWorse, TimeKept, RowOK, MemoryRow, Detached
  <2>4. CASE i \notin p.gone \cup p.keeps
    <3>1. rows'[i] = rows[i]
      BY <1>3, <2>4
    <3> QED
      BY <1>2, <2>1, <3>1 DEF NoWorse, TimeKept
  <2> QED
    BY <2>2, <2>3, <2>4
<1>9. CandidatesInv'
  <2>1. \A i \in Ids' : \/ i \in Ids /\ rows'[i].origin = rows[i].origin
                        \/ rows'[i].origin = None
    BY <1>n, <1>8
  <2>2. \A c \in Candidates : Calm(c)
    <3> SUFFICES ASSUME NEW c \in Candidates PROVE Calm(c)
      OBVIOUS
    <3>1. CandidateOK(c)
      BY <1>0 DEF CandidatesInv
    <3>2. CASE c \in p.cands
      BY <1>w, <3>2 DEF Calm
    <3>3. CASE c \notin p.cands
      <4>1. cand'[c] = cand[c]
        BY <1>w, <3>3
      <4> QED
        BY <3>1, <4>1 DEF Calm, CandidateOK
    <3> QED
      BY <3>2, <3>3
  <2> QED
    BY <1>2, <1>3, <1>7, <2>1, <2>2, CandidatesFrame
<1>10. RowsInv'
  <2>1. RowOK(Tombstone, AllTurns')
    BY <1>2, <1>6 DEF RowOK, Tombstone, BlankRow
  <2> QED
    BY <1>3, <1>8, <2>1 DEF RowsInv
<1>11. TimesInv'
  <2>1. \A i \in Ids' \ Ids : TimeOK(i)'
    BY <1>n DEF TimeOK
  <2> QED
    BY <1>0, <1>3, <1>8, <2>1, TimesFrame
<1>12. WordingInv'
  <2> DEFINE m == Len(rows) + 1
  <2>1. m \in Ids' => rows'[m].status = "deleted"
    BY <1>n, <1>5
  <2>2. \A j \in Ids' \ {m} :
           /\ j \in Ids /\ NoWorse(rows'[j], rows[j])
           /\ m \in Ids' => PairOK(rows'[m], rows'[j]) /\ PairOK(rows'[j], rows'[m])
    BY <1>3, <1>8, <2>1 DEF PairOK
  <2> HIDE DEF m
  <2> QED
    BY <1>0, <2>2, WordingFrame
<1>13. ProvenanceInv'
  BY <1>0, <1>2, <1>3, <1>4 DEF ProvenanceInv
<1>14. NothingRestsOnRemoved'
  <2>1. ASSUME NEW i \in Ids', rows'[i].status # "deleted"
        PROVE  /\ i \in Ids /\ i \notin p.gone /\ rows[i].status # "deleted"
               /\ rows'[i].how = rows[i].how
               /\ rows[i].source \in AllTurns \cup {0} /\ rows[i].oath \in AllTurns \cup {0}
    <3>1. i \in Ids /\ i \notin p.gone
      BY <1>3, <1>n, <2>1
    <3>2. CASE i \in p.keeps
      BY <1>0, <1>1, <1>8, <3>1, <3>2 DEF Finds, RowsInv, RowOK, TimeKept
    <3>3. CASE i \notin p.keeps
      <4>1. rows'[i] = rows[i]
        BY <1>3, <3>1, <3>3
      <4> QED
        BY <1>0, <2>1, <3>1, <4>1 DEF RowsInv, RowOK
    <3> QED
      BY <3>1, <3>2, <3>3
  <2>2. ASSUME NEW i \in Ids', rows'[i].status # "deleted", rows'[i].how # "blind"
        PROVE  ~TurnPurged(rows[i].source)' /\ ~TurnPurged(rows[i].oath)'
    <3>0. /\ i \in Ids /\ i \notin p.gone /\ rows[i].status # "deleted" /\ rows[i].how # "blind"
          /\ rows[i].source \in AllTurns \cup {0} /\ rows[i].oath \in AllTurns \cup {0}
      BY <2>1, <2>2
    <3>1. ~TurnPurged(rows[i].source) /\ ~TurnPurged(rows[i].oath)
      BY <1>0, <3>0 DEF NothingRestsOnRemoved, Current
    <3>2. \A t \in AllTurns \cup {0} : t \in {rows[i].source, rows[i].oath} /\ t \notin p.turns
                                          => ~TurnPurged(t)'
      BY <1>2, <3>1
    <3>3. /\ rows'[i].source \in {rows[i].source, rows[i].oath} \ p.turns
          /\ rows'[i].oath \in {rows[i].source, rows[i].oath} \ p.turns
      <4>1. CASE i \in p.keeps
        <5>1. rows[i].oath \notin p.turns /\ rows'[i] = Detached(p, i) /\ rows[i] \in MemoryRow
          BY <1>1, <1>3, <1>5, <3>0, <4>1 DEF Finds
        <5> QED
          BY <5>1 DEF Detached, MemoryRow
      <4>2. CASE i \notin p.keeps
        <5>1. rows'[i] = rows[i] /\ {rows[i].source, rows[i].oath} \cap p.turns = {}
          BY <1>1, <1>3, <3>0, <4>2 DEF Finds
        <5> QED
          BY <5>1
      <4> QED
        BY <4>1, <4>2
    <3>4. rows'[i].source \in AllTurns \cup {0} /\ rows'[i].oath \in AllTurns \cup {0}
      BY <3>0, <3>3
    <3>5. \A t : t \in {rows[i].source, rows[i].oath} /\ t \notin p.turns => ~TurnPurged(t)'
      BY <3>0, <3>2
    <3>6. \A t : t = rows'[i].source \/ t = rows'[i].oath => ~TurnPurged(t)'
      BY <3>3, <3>5
    <3> QED
      BY <3>6, Zenon
  <2>3. ASSUME NEW q \in prov', q.memory \in Ids', rows'[q.memory].status # "deleted"
        PROVE  LinkOK(q)'
    <3>1. /\ q \in prov /\ ~Cut(p, q) /\ q.memory \in Ids /\ q.memory \notin p.gone
          /\ rows[q.memory].status # "deleted"
      BY <1>4, <2>1, <2>3
    <3>2. /\ q.turn \in AllTurns \cup {0} /\ q.source \in Ids \cup {0}
          /\ q.cand \in Candidates \cup {None}
      BY <1>0, <3>1 DEF ProvenanceInv, TableType, Provenance
    <3>3. q.turn \notin p.turns /\ q.cand \notin p.cands /\ q.source \notin p.gone
      BY <1>1, <3>1 DEF Finds, Cut
    <3>4. /\ ~TurnPurged(q.turn)
          /\ q.cand # None => cand[q.cand].status # "purged"
          /\ q.source # 0 => rows[q.source].status # "deleted"
      BY <1>0, <3>1 DEF NothingRestsOnRemoved, Current
    <3>5. ~TurnPurged(q.turn)'
      BY <1>2, <3>2, <3>3, <3>4
    <3>6. q.cand # None => cand'[q.cand].status # "purged"
      BY <1>w, <3>2, <3>3, <3>4
    <3>7. q.source # 0 => rows'[q.source].status # "deleted"
      <4>1. CASE q.source \in p.keeps
        <5>1. rows'[q.source] = Detached(p, q.source) /\ rows[q.source] \in MemoryRow
          BY <1>3, <1>5, <4>1
        <5> QED
          BY <3>4, <5>1 DEF Detached, MemoryRow
      <4>2. CASE q.source \notin p.keeps
        BY <1>3, <3>2, <3>3, <3>4, <4>2
      <4> QED
        BY <4>1, <4>2
    <3> QED
      BY <3>5, <3>6, <3>7 DEF LinkOK
  <2> QED
    BY <2>2, <2>3 DEF NothingRestsOnRemoved, Current, LinkOK
<1> QED
  BY <1>7, <1>9, <1>10, <1>11, <1>12, <1>13, <1>14 DEF TableInv

-----------------------------------------------------------------------------
(* Steps of the candidates.                                                *)

LEMMA CalmSame ==
    ASSUME TableInv, NEW c \in Candidates, cand'[c] = cand[c]
    PROVE  Calm(c) /\ (cand'[c].status = "purged" => cand[c].status = "purged")
<1>1. CandidateOK(c)
  BY DEF TableInv, CandidatesInv
<1> QED
  BY <1>1 DEF Calm, CandidateOK

\* One candidate changes.
LEMMA CandidateChanged ==
    ASSUME TableInv, NEW c \in Candidates, NEW r \in CandidateRow,
           cand' = [cand EXCEPT ![c] = r]
    PROVE  /\ cand' \in [Candidates -> CandidateRow] /\ cand'[c] = r
           /\ \A b \in Candidates \ {c} :
                 /\ cand'[b] = cand[b] /\ Calm(b)
                 /\ cand'[b].status = "purged" => cand[b].status = "purged"
<1>1. cand \in [Candidates -> CandidateRow]
  BY DEF TableInv, TableType
<1>2. /\ cand' \in [Candidates -> CandidateRow] /\ cand'[c] = r
      /\ \A b \in Candidates \ {c} : cand'[b] = cand[b]
  BY <1>1
<1> QED
  BY <1>2, CalmSame

\* A candidate that is published, blocked, rejected or out of evidence.
LEMMA SettledFacts ==
    ASSUME TableInv, NEW c \in Candidates, NEW status \in {"done", "invalidated"},
           Settled(c, status)
    PROVE  /\ cand' \in [Candidates -> CandidateRow] /\ cand'[c].status = status
           /\ \A b \in Candidates : /\ Calm(b)
                                    /\ cand'[b].status = "purged" => cand[b].status = "purged"
<1> DEFINE r == [cand[c] EXCEPT !.status = status, !.op = "upsert", !.target = 0]
<1>1. cand[c] \in CandidateRow /\ CandidateOK(c)
  BY DEF TableInv, TableType, CandidatesInv
<1>2. /\ r \in CandidateRow /\ r.status = status /\ r.op = "upsert"
      /\ r.evidence = cand[c].evidence /\ r.oath = cand[c].oath /\ r.clash = cand[c].clash
  BY <1>1 DEF CandidateRow
<1>3. cand' = [cand EXCEPT ![c] = r]
  BY DEF Settled
<1> HIDE DEF r
<1>4. /\ cand' \in [Candidates -> CandidateRow] /\ cand'[c] = r
      /\ \A b \in Candidates \ {c} :
            /\ Calm(b)
            /\ cand'[b].status = "purged" => cand[b].status = "purged"
  BY <1>2, <1>3, CandidateChanged
<1>5. Calm(c)
  BY <1>2, <1>4 DEF Calm
<1> QED
  BY <1>2, <1>4, <1>5

\* Candidates that are invalidated, with or without their wording.
LEMMA InvalidatedFacts ==
    ASSUME TableInv, NEW cs, Invalidated(cs) \/ Wiped(cs, "invalidated")
    PROVE  /\ cand' \in [Candidates -> CandidateRow]
           /\ \A b \in Candidates : /\ Calm(b)
                                    /\ cand'[b].status = "purged" => cand[b].status = "purged"
<1>1. \A c \in Candidates : cand[c] \in CandidateRow
  BY DEF TableInv, TableType
<1>2. /\ DOMAIN cand' = Candidates /\ cand' = [c \in Candidates |-> cand'[c]]
      /\ \A c \in Candidates \ cs : cand'[c] = cand[c]
      /\ \A c \in cs \cap Candidates :
            \/ cand'[c] = [cand[c] EXCEPT !.status = "invalidated"]
            \/ cand'[c] = [cand[c] EXCEPT !.status = "invalidated", !.content = None,
                                          !.clash = cand[c].clash]
  <2>1. CASE Invalidated(cs)
    BY <2>1 DEF Invalidated
  <2>2. CASE Wiped(cs, "invalidated")
    <3>1. "invalidated" # "purged"
      OBVIOUS
    <3>2. \A c \in cs \cap Candidates :
             cand'[c] = [cand[c] EXCEPT !.status = "invalidated", !.content = None,
                                        !.clash = cand[c].clash]
      BY <1>1, <2>2, <3>1 DEF Wiped, CandidateRow
    <3> QED
      BY <2>2, <3>2 DEF Wiped
  <2> QED
    BY <2>1, <2>2
<1>3. ASSUME NEW c \in Candidates
      PROVE  /\ cand'[c] \in CandidateRow /\ Calm(c)
             /\ cand'[c].status = "purged" => cand[c].status = "purged"
  <2>1. CASE c \notin cs
    BY <1>1, <1>2, <2>1, CalmSame
  <2>2. CASE c \in cs
    <3>1. /\ cand'[c] \in CandidateRow /\ cand'[c].status = "invalidated"
          /\ cand'[c].evidence = cand[c].evidence /\ cand'[c].oath = cand[c].oath
          /\ cand'[c].op = cand[c].op /\ cand'[c].target = cand[c].target
          /\ cand'[c].clash = cand[c].clash
      <4>1. cand[c] \in CandidateRow
        BY <1>1
      <4>2. CASE cand'[c] = [cand[c] EXCEPT !.status = "invalidated"]
        BY <4>1, <4>2 DEF CandidateRow
      <4>3. CASE cand'[c] = [cand[c] EXCEPT !.status = "invalidated", !.content = None,
                                            !.clash = cand[c].clash]
        BY <4>1, <4>3 DEF CandidateRow
      <4> QED
        BY <1>2, <2>2, <4>2, <4>3
    <3> QED
      BY <3>1 DEF Calm
  <2> QED
    BY <2>1, <2>2
<1> QED
  BY <1>2, <1>3

LEMMA CandidateSteps ==
    ASSUME DerivInv, TableInv, NEW c \in Candidates, NEW x \in Contents,
           \/ \E evidence : Propose(c, x, evidence)
           \/ ConfirmCandidate(c, x) \/ RejectCandidate(c)
           \/ \E keep \in BOOLEAN : AnswerConflict(c, keep)
           \/ PublishWithoutEvidence(c) \/ PublishAwaits(c) \/ DeleteChatOfMemories
    PROVE  TableInv'
<1>0. TableType /\ ProvenanceInv
  BY DEF TableInv
<1>1. cand[c] \in CandidateRow /\ CandidateOK(c)
  BY <1>0 DEF TableInv, TableType, CandidatesInv
<1>2. None \notin Candidates
  BY MemoryAssumption DEF Candidates
<1>t. ASSUME UNCHANGED <<rows, prov, oaths>>, cand' \in [Candidates -> CandidateRow]
      PROVE  TableType'
  BY <1>0, <1>t DEF TableType, Candidates
<1>3. ASSUME NEW evidence, Propose(c, x, evidence) PROVE TableInv'
  <2> DEFINE r == [NoCandidate EXCEPT !.status = "pending", !.content = x, !.evidence = evidence]
  <2>1. /\ evidence # {} /\ evidence \subseteq Standing /\ cand[c].status = "none"
        /\ cand' = [cand EXCEPT ![c] = r] /\ UNCHANGED <<rows, prov, oaths, turns>>
    BY <1>3 DEF Propose, Fresh, derivVars
  <2>2. evidence \subseteq AllTurns /\ AllTurns \in SUBSET Nat
    BY <1>0, <2>1, StandingIsLive, TurnTypes
  <2>3. /\ r \in CandidateRow /\ r.status = "pending" /\ r.evidence = evidence
        /\ r.oath = 0 /\ r.clash = 0 /\ r.op = "upsert"
    BY <2>2 DEF CandidateRow, NoCandidate
  <2> HIDE DEF r
  <2>4. /\ cand' \in [Candidates -> CandidateRow] /\ cand'[c] = r
        /\ \A b \in Candidates \ {c} :
              /\ Calm(b)
              /\ cand'[b].status = "purged" => cand[b].status = "purged"
    BY <2>1, <2>3, CandidateChanged
  <2>5. Grows /\ AllTurns' = AllTurns
    BY <2>1, GrowsSame
  <2>6. CandidateOK(c)'
    BY <1>1, <2>1, <2>2, <2>3, <2>4, <2>5 DEF CandidateOK, Ids
  <2> QED
    BY <1>t, <2>1, <2>3, <2>4, <2>5, <2>6, CandidateStep
<1>4. CASE ConfirmCandidate(c, x)
  <2> DEFINE t == Turn(Len(oaths) + 1)
             r == [cand[c] EXCEPT !.status = "pending", !.oath = t, !.evidence = cand[c].evidence \cup {t}]
  <2>1. /\ cand[c].status = "awaiting" /\ cand[c].clash = 0 /\ UNCHANGED <<rows, prov, turns>>
        /\ oaths' = Append(oaths, [says |-> x, live |-> TRUE])
        /\ cand' = [cand EXCEPT ![c] = r]
    BY <1>4 DEF ConfirmCandidate, derivVars
  <2>2. Grows /\ oaths' \in Seq([says : Contents, live : BOOLEAN])
        /\ t \in Nat /\ t # 0 /\ t \in AllTurns'
    BY <1>0, <2>1, GrowsOath
  <2>3. /\ r \in CandidateRow /\ r.status = "pending" /\ r.evidence = cand[c].evidence \cup {t}
        /\ r.oath = t /\ r.clash = 0 /\ r.op = cand[c].op /\ r.target = cand[c].target
    BY <1>1, <2>1, <2>2 DEF CandidateRow
  <2> HIDE DEF r
  <2>4. /\ cand' \in [Candidates -> CandidateRow] /\ cand'[c] = r
        /\ \A b \in Candidates \ {c} :
              /\ Calm(b)
              /\ cand'[b].status = "purged" => cand[b].status = "purged"
    BY <2>1, <2>3, CandidateChanged
  <2> HIDE DEF t
  <2>5. AllTurns \subseteq AllTurns'
    BY <2>2 DEF Grows
  <2>6. CandidateOK(c)'
    BY <1>1, <2>1, <2>2, <2>3, <2>4, <2>5 DEF CandidateOK, Ids
  <2>7. TableType'
    BY <1>0, <2>1, <2>2, <2>4 DEF TableType, Candidates
  <2> QED
    BY <2>1, <2>2, <2>3, <2>4, <2>6, <2>7, CandidateStep
<1>5. CASE RejectCandidate(c) \/ PublishWithoutEvidence(c)
  <2>1. Settled(c, "done") \/ Settled(c, "invalidated")
    BY <1>5 DEF RejectCandidate, PublishWithoutEvidence
  <2>2. UNCHANGED <<rows, prov, oaths, turns>>
    BY <1>5 DEF RejectCandidate, PublishWithoutEvidence, derivVars
  <2>3. Grows
    BY <2>2, GrowsSame
  <2> QED
    BY <1>t, <2>1, <2>2, <2>3, SettledFacts, CandidateStep
<1>6. ASSUME NEW keep \in BOOLEAN, AnswerConflict(c, keep) PROVE TableInv'
  <2> DEFINE r == [cand[c] EXCEPT !.clash = 0,
                      !.status = IF cand[c].status = "awaiting" THEN "done" ELSE cand[c].status]
             link == Link(cand[c].clash, 0, c, 0)
  <2>1. /\ cand[c].clash # 0 /\ UNCHANGED <<rows, oaths, turns>>
        /\ cand' = [cand EXCEPT ![c] = r] /\ prov' \subseteq prov \cup {link}
    BY <1>6 DEF AnswerConflict, derivVars
  <2>2. /\ r \in CandidateRow /\ r.clash = 0 /\ r.evidence = cand[c].evidence
        /\ r.oath = cand[c].oath /\ r.op = cand[c].op /\ r.target = cand[c].target
        /\ r.status = cand[c].status \/ r.status = "done"
    BY <1>1 DEF CandidateRow
  <2> HIDE DEF r
  <2>3. /\ cand' \in [Candidates -> CandidateRow] /\ cand'[c] = r
        /\ \A b \in Candidates \ {c} :
              /\ Calm(b)
              /\ cand'[b].status = "purged" => cand[b].status = "purged"
    BY <2>1, <2>2, CandidateChanged
  <2>4. Calm(c) /\ (cand'[c].status = "purged" => cand[c].status = "purged")
    BY <2>2, <2>3 DEF Calm
  <2>5. /\ cand[c].clash \in Ids /\ cand[c].status # "purged" /\ Ids \in SUBSET Nat
    BY <1>0, <1>1, <2>1, RowTypes DEF CandidateOK
  <2>6. /\ link.memory = cand[c].clash /\ link.turn = 0 /\ link.cand = c /\ link.source = 0
        /\ link \in Provenance
    BY <2>5 DEF Link, Provenance
  <2> HIDE DEF link
  <2>7. Grows /\ Ids' = Ids /\ ~TurnPurged(0)'
    BY <2>1, GrowsSame, DerivativesAssumption DEF Ids, TurnPurged
  <2>8. ASSUME NEW q, q = link PROVE LinkOK(q)'
    BY <2>2, <2>3, <2>4, <2>5, <2>6, <2>7, <2>8 DEF LinkOK
  <2>9. TableType'
    BY <1>0, <2>1, <2>3, <2>6 DEF TableType, Candidates
  <2>10. \A q \in prov' : \/ q \in prov
                          \/ /\ q.memory \in Ids' /\ q.turn \in AllTurns' \cup {0}
                             /\ q.source \in Ids' \cup {0} /\ LinkOK(q)'
    BY <2>1, <2>5, <2>6, <2>7, <2>8
  <2> QED
    BY <2>1, <2>3, <2>4, <2>7, <2>9, <2>10, CandidateStep
<1>7. CASE PublishAwaits(c)
  <2> DEFINE r == [cand[c] EXCEPT !.status = "awaiting"]
  <2>1. /\ cand[c].status = "pending" /\ UNCHANGED <<rows, prov, oaths, turns>>
        /\ cand' = [cand EXCEPT ![c] = r]
    BY <1>7 DEF PublishAwaits, derivVars
  <2>2. /\ r \in CandidateRow /\ r.clash = cand[c].clash /\ r.evidence = cand[c].evidence
        /\ r.oath = cand[c].oath /\ r.op = cand[c].op /\ r.target = cand[c].target
        /\ r.status = "awaiting"
    BY <1>1 DEF CandidateRow
  <2> HIDE DEF r
  <2>3. /\ cand' \in [Candidates -> CandidateRow] /\ cand'[c] = r
        /\ \A b \in Candidates \ {c} :
              /\ Calm(b)
              /\ cand'[b].status = "purged" => cand[b].status = "purged"
    BY <2>1, <2>2, CandidateChanged
  <2>4. Calm(c)
    BY <2>1, <2>2, <2>3 DEF Calm
  <2>5. Grows
    BY <2>1, GrowsSame
  <2> QED
    BY <1>t, <2>1, <2>2, <2>3, <2>4, <2>5, CandidateStep
<1>8. CASE DeleteChatOfMemories
  <2>1. /\ DeleteChat /\ UNCHANGED <<rows, prov, oaths>>
        /\ \E cs : Wiped(cs, "invalidated")
    BY <1>8 DEF DeleteChatOfMemories
  <2>2. Grows
    BY <1>0, <2>1, GrowsErased
  <2> QED
    BY <1>t, <2>1, <2>2, InvalidatedFacts, CandidateStep
<1> QED
  BY <1>3, <1>4, <1>5, <1>6, <1>7, <1>8

-----------------------------------------------------------------------------
(* Steps of the rows.                                                      *)

\* One row changes.
LEMMA ChangeStep ==
    ASSUME TableInv, Grows, cand' \in [Candidates -> CandidateRow], prov' \in SUBSET Provenance,
           oaths' \in Seq([says : Contents, live : BOOLEAN]),
           NEW m \in Ids, NEW r \in MemoryRow, rows' = [rows EXCEPT ![m] = r],
           RowOK(r, AllTurns'),
           \A j \in Ids \ {m} : PairOK(r, rows[j]) /\ PairOK(rows[j], r),
           TimeKept(r, rows[m]), r.status = "deleted" <=> rows[m].status = "deleted",
           r.origin = rows[m].origin,
           \A t : t = r.source => r.source = rows[m].source \/ ~TurnPurged(t)',
           \A t : t = r.oath => r.oath = rows[m].oath \/ ~TurnPurged(t)',
           \A c \in Candidates : /\ Calm(c) \/ CandidateOK(c)'
                                 /\ cand'[c].status = "purged" => cand[c].status = "purged",
           \A p \in prov' : \/ p \in prov
                            \/ /\ p.memory \in Ids' /\ p.turn \in AllTurns' \cup {0}
                               /\ p.source \in Ids' \cup {0} /\ LinkOK(p)'
    PROVE  TableInv'
<1>0. TableType
  BY DEF TableInv
<1>1. /\ rows' \in Seq(MemoryRow) /\ Ids' = Ids \cup {m} /\ rows'[m] = r
      /\ \A j \in Ids \ {m} : rows'[j] = rows[j]
  <2>1. /\ rows' \in Seq(MemoryRow) /\ DOMAIN rows' = Ids /\ rows'[m] = r
        /\ \A j \in Ids \ {m} : rows'[j] = rows[j]
    <3>1. rows \in [Ids -> MemoryRow]
      BY <1>0, RowsFunction
    <3>2. /\ rows' \in [Ids -> MemoryRow] /\ rows'[m] = r
          /\ \A j \in Ids \ {m} : rows'[j] = rows[j]
      BY <3>1
    <3> QED
      BY <1>0, <3>2, RowsFunction
  <2>2. Ids' = DOMAIN rows'
    BY DEF Ids
  <2> QED
    BY <2>1, <2>2
<1>2. TableType'
  BY <1>1 DEF TableType, Candidates
<1>3. \A j \in Ids \ {m} : Quiet(rows'[j], rows[j])
  BY <1>1 DEF Quiet
<1>4. /\ rows'[m].source = rows[m].source \/ ~TurnPurged(rows[m].source)'
      /\ rows'[m].oath = rows[m].oath \/ ~TurnPurged(rows[m].oath)'
  <2>1. /\ \A t : t = rows'[m].source => rows'[m].source = rows[m].source \/ ~TurnPurged(t)'
        /\ \A t : t = rows'[m].oath => rows'[m].oath = rows[m].oath \/ ~TurnPurged(t)'
    BY <1>1
  <2> QED
    BY <2>1, Zenon
<1>5. /\ RowOK(rows'[m], AllTurns')
      /\ \A j \in Ids \ {m} : PairOK(rows'[m], rows'[j]) /\ PairOK(rows'[j], rows'[m])
      /\ TimeKept(rows'[m], rows[m])
      /\ rows'[m].status = "deleted" <=> rows[m].status = "deleted"
      /\ rows'[m].origin = rows[m].origin
  BY <1>1
<1> QED
  BY <1>1, <1>2, <1>3, <1>4, <1>5, RowStep

\* One row comes, and at most replaces others.
LEMMA AppendStep ==
    ASSUME TableInv, Grows, cand' \in [Candidates -> CandidateRow], prov' \in SUBSET Provenance,
           oaths' \in Seq([says : Contents, live : BOOLEAN]),
           NEW s, s \in Seq(MemoryRow), Len(s) = Len(rows), DOMAIN s = Ids,
           \A j \in Ids : Quiet(s[j], rows[j]),
           NEW r \in MemoryRow, rows' = Append(s, r),
           RowOK(r, AllTurns'),
           \A j \in Ids : PairOK(r, s[j]) /\ PairOK(s[j], r),
           r.how \in {"supersede", "history"} => \A n : n = Len(rows) + 1 => TimeOK(n)',
           r.origin = None \/ cand'[r.origin].status = "done",
           \A t : t \in {r.source, r.oath} => r.how = "blind" \/ ~TurnPurged(t)',
           \A c \in Candidates : /\ Calm(c) \/ CandidateOK(c)'
                                 /\ cand'[c].status = "purged" => cand[c].status = "purged",
           \A p \in prov' : \/ p \in prov
                            \/ /\ p.memory \in Ids' /\ p.turn \in AllTurns' \cup {0}
                               /\ p.source \in Ids' \cup {0} /\ LinkOK(p)'
    PROVE  TableInv'
<1>m. PICK m : m = Len(rows) + 1
  OBVIOUS
<1>0. TableType
  BY DEF TableInv
<1>1. /\ rows' \in Seq(MemoryRow) /\ Ids' = Ids \cup {m} /\ rows'[m] = r
      /\ \A j \in Ids : rows'[j] = s[j]
  BY <1>0, <1>m, Appended, Zenon
<1>2. TableType'
  BY <1>1 DEF TableType, Candidates
<1>3. m \notin Ids
  BY <1>0, <1>m, RowTypes
<1>4. \A j \in Ids \ {m} : Quiet(rows'[j], rows[j])
  BY <1>1
<1>5. /\ RowOK(rows'[m], AllTurns')
      /\ \A j \in Ids \ {m} : PairOK(rows'[m], rows'[j]) /\ PairOK(rows'[j], rows'[m])
      /\ rows'[m].origin = None \/ cand'[rows'[m].origin].status = "done"
  BY <1>1
<1>6. TimeOK(m)'
  <2>1. CASE r.how \in {"supersede", "history"}
    BY <1>m, <2>1
  <2>2. CASE r.how \notin {"supersede", "history"}
    BY <1>1, <2>2 DEF TimeOK
  <2> QED
    BY <2>1, <2>2
<1>7. rows'[m].how = "blind" \/ (~TurnPurged(rows[m].source)' /\ ~TurnPurged(rows[m].oath)')
  <2>1. \A t : t \in {rows'[m].source, rows'[m].oath} => rows'[m].how = "blind" \/ ~TurnPurged(t)'
    BY <1>1
  <2>2. /\ \A t : t = rows'[m].source => rows'[m].how = "blind" \/ ~TurnPurged(t)'
        /\ \A t : t = rows'[m].oath => rows'[m].how = "blind" \/ ~TurnPurged(t)'
    BY <2>1
  <2> QED
    BY <2>2, Zenon
<1> QED
  BY <1>1, <1>2, <1>3, <1>4, <1>5, <1>6, <1>7, RowStep

-----------------------------------------------------------------------------
(* The owner's commands.                                                   *)

\* A guard stands for a wording nothing active has.
LEMMA GuardFacts ==
    ASSUME DerivInv, TableInv, NEW x \in Contents, NEW status \in {"retired", "superseded"},
           NEW kind \in {"owner_retire_guard", "owner_correction_guard"},
           status = "retired" => Active(x) = {}
    PROVE  /\ Guard(x, status, kind) \in MemoryRow
           /\ RowOK(Guard(x, status, kind), AllTurns)
           /\ Guard(x, status, kind).how \in {"guard", "blind"}
           /\ \A t : t \in {Guard(x, status, kind).source, Guard(x, status, kind).oath} =>
                 Guard(x, status, kind).how = "blind" \/ ~TurnPurged(t)
           /\ Guard(x, status, kind).origin = None
           /\ \A j \in Ids : /\ PairOK(Guard(x, status, kind), rows[j])
                             /\ PairOK(rows[j], Guard(x, status, kind))
<1> DEFINE g == Guard(x, status, kind)
<1>1. TableType /\ None \notin Contents
  BY MemoryAssumption DEF TableInv
<1>2. Latest \in Nat /\ Latest \in AllTurns \cup {0} /\ 0 \notin AllTurns
  BY <1>1, TurnTypes
<1>3. PICK verified \in BOOLEAN : verified = (Latest # 0)
  OBVIOUS
<1>h. PICK how \in {"guard", "blind"} : how = IF TurnPurged(Latest) THEN "blind" ELSE "guard"
  OBVIOUS
<1>4. g = [BlankRow EXCEPT !.status = status, !.kind = kind, !.grounded = verified,
                           !.content = x, !.hush = TRUE, !.source = Latest, !.oath = Latest,
                           !.how = how]
  BY <1>3, <1>h, Zenon DEF Guard
<1>b. verified \in BOOLEAN
  BY <1>3
<1>e. g = [status |-> status, kind |-> kind, grounded |-> verified, content |-> x,
           hush |-> TRUE, source |-> Latest, oath |-> Latest, proof |-> None, origin |-> None,
           supersedes |-> 0, by |-> 0, from |-> 0, how |-> how, back |-> FALSE]
  BY <1>4 DEF BlankRow
<1>5. /\ g \in MemoryRow
      /\ g.status = status /\ g.grounded = verified /\ g.content = x /\ g.hush
      /\ g.source = Latest /\ g.oath = Latest /\ g.how = how /\ g.origin = None
  <2>1. g \in MemoryRow
    BY <1>2, <1>b, <1>e, <1>h DEF MemoryRow, Statuses, OWNER
  <2> QED
    BY <1>e, <2>1
<1> HIDE DEF g
<1>6. RowOK(g, AllTurns)
  BY <1>1, <1>2, <1>3, <1>5 DEF RowOK
<1>7. ASSUME NEW j \in Ids PROVE PairOK(g, rows[j]) /\ PairOK(rows[j], g)
  <2>1. PairOK(g, rows[j])
    BY <1>5 DEF PairOK
  <2>2. rows[j].status = "active" /\ rows[j].content = x => status # "retired"
    BY <1>7 DEF Active
  <2>3. PairOK(rows[j], g)
    BY <1>5, <2>2 DEF PairOK
  <2> QED
    BY <2>1, <2>3
<1>8. \A t : t \in {g.source, g.oath} => g.how = "blind" \/ ~TurnPurged(t)
  <2>1. how = "blind" \/ ~TurnPurged(Latest)
    BY <1>h
  <2>2. \A t : t = Latest => how = "blind" \/ ~TurnPurged(t)
    BY <2>1, Zenon
  <2> QED
    BY <1>5, <2>2
<1> QED
  BY <1>5, <1>6, <1>7, <1>8 DEF g

LEMMA AppendGuard ==
    ASSUME DerivInv, TableInv, NEW x \in Contents, NEW status \in {"retired", "superseded"},
           NEW kind \in {"owner_retire_guard", "owner_correction_guard"},
           status = "retired" => Active(x) = {},
           rows' = Append(rows, Guard(x, status, kind)), UNCHANGED <<prov, oaths, turns>>,
           cand' \in [Candidates -> CandidateRow],
           \A c \in Candidates : /\ Calm(c) \/ CandidateOK(c)'
                                 /\ cand'[c].status = "purged" => cand[c].status = "purged"
    PROVE  TableInv'
<1> DEFINE g == Guard(x, status, kind)
<1>1. TableType
  BY DEF TableInv
<1>2. /\ g \in MemoryRow /\ RowOK(g, AllTurns) /\ g.origin = None
      /\ g.how \in {"guard", "blind"}
      /\ \A t : t \in {g.source, g.oath} => g.how = "blind" \/ ~TurnPurged(t)
      /\ \A j \in Ids : PairOK(g, rows[j]) /\ PairOK(rows[j], g)
  BY GuardFacts
<1> HIDE DEF g
<1>3. Grows /\ AllTurns' = AllTurns /\ \A t : TurnPurged(t)' = TurnPurged(t)
  BY GrowsSame
<1>4. /\ rows \in Seq(MemoryRow) /\ Ids = DOMAIN rows /\ prov' \in SUBSET Provenance
      /\ oaths' \in Seq([says : Contents, live : BOOLEAN])
      /\ \A j \in Ids : Quiet(rows[j], rows[j])
  BY <1>1 DEF TableType, Ids, Quiet
<1>5. /\ rows' = Append(rows, g) /\ RowOK(g, AllTurns')
      /\ g.how \in {"supersede", "history"} => \A n : n = Len(rows) + 1 => TimeOK(n)'
      /\ g.origin = None \/ cand'[g.origin].status = "done"
      /\ \A t : t \in {g.source, g.oath} => g.how = "blind" \/ ~TurnPurged(t)'
      /\ \A p \in prov' : p \in prov
  BY <1>2, <1>3 DEF g
<1> QED
  BY <1>2, <1>3, <1>4, <1>5, AppendStep

LEMMA RetireStep ==
    ASSUME TableInv, Grows, UNCHANGED <<prov, oaths>>,
           cand' \in [Candidates -> CandidateRow],
           \A c \in Candidates : /\ Calm(c)
                                 /\ cand'[c].status = "purged" => cand[c].status = "purged",
           NEW i \in Ids, rows[i].status = "active",
           rows' = [rows EXCEPT ![i].status = "retired", ![i].hush = TRUE]
    PROVE  TableInv'
<1> DEFINE r == [rows[i] EXCEPT !.status = "retired", !.hush = TRUE]
<1>1. /\ TableType /\ RowOK(rows[i], AllTurns) /\ TimeOK(i) /\ WordingInv
      /\ AllTurns \subseteq AllTurns'
  BY DEF TableInv, RowsInv, TimesInv, Grows
<1>2. rows[i] \in MemoryRow
  BY <1>1, RowTypes
<1>3. rows' = [rows EXCEPT ![i] = r]
  OBVIOUS
<1>4. r \in MemoryRow /\ r.status = "retired" /\ r.hush
  BY <1>2 DEF MemoryRow, Statuses
<1>5. /\ r.kind = rows[i].kind /\ r.grounded = rows[i].grounded /\ r.content = rows[i].content
      /\ r.source = rows[i].source /\ r.oath = rows[i].oath /\ r.proof = rows[i].proof
      /\ r.origin = rows[i].origin /\ r.supersedes = rows[i].supersedes /\ r.by = rows[i].by
      /\ r.from = rows[i].from /\ r.how = rows[i].how
  BY <1>2 DEF MemoryRow
<1> HIDE DEF r
<1>6. RowOK(r, AllTurns') /\ TimeKept(r, rows[i])
  BY <1>1, <1>4, <1>5 DEF RowOK, TimeKept, TimeOK
<1>7. ASSUME NEW j \in Ids \ {i} PROVE PairOK(r, rows[j]) /\ PairOK(rows[j], r)
  <2>1. PairOK(rows[i], rows[j]) /\ PairOK(rows[j], rows[i])
    BY <1>1, <1>7 DEF WordingInv
  <2> QED
    BY <1>4, <1>5, <2>1 DEF PairOK
<1>8. prov' \in SUBSET Provenance /\ oaths' \in Seq([says : Contents, live : BOOLEAN])
  BY <1>1 DEF TableType
<1> QED
  BY <1>3, <1>4, <1>5, <1>6, <1>7, <1>8, ChangeStep

\* The wording of the confirmed or restored memory is nobody else's among the active.
LEMMA BackStep ==
    ASSUME TableInv, Grows, NEW i \in Ids, rows[i].status # "deleted",
           cand' = cand, prov' \in SUBSET Provenance,
           oaths' \in Seq([says : Contents, live : BOOLEAN]),
           NEW r \in MemoryRow, rows' = [rows EXCEPT ![i] = r], r.back, RowOK(r, AllTurns'),
           r.origin = rows[i].origin, r.status # "deleted", Active(r.content) \subseteq {i},
           TimeKept(r, rows[i]),
           \A t : t = r.source => r.source = rows[i].source \/ ~TurnPurged(t)',
           \A t : t = r.oath => r.oath = rows[i].oath \/ ~TurnPurged(t)',
           \A p \in prov' : \/ p \in prov
                            \/ /\ p.memory \in Ids' /\ p.turn \in AllTurns' \cup {0}
                               /\ p.source \in Ids' \cup {0} /\ LinkOK(p)'
    PROVE  TableInv'
<1>1. WordingInv /\ TableType
  BY DEF TableInv
<1>2. ASSUME NEW j \in Ids \ {i} PROVE PairOK(r, rows[j]) /\ PairOK(rows[j], r)
  <2>1. PairOK(rows[i], rows[j]) /\ PairOK(rows[j], rows[i])
    BY <1>1, <1>2 DEF WordingInv
  <2>2. ~(rows[j].status = "active" /\ rows[j].content = r.content)
    BY <1>2 DEF Active
  <2> QED
    BY <2>1, <2>2 DEF PairOK
<1>3. /\ cand' \in [Candidates -> CandidateRow]
      /\ \A c \in Candidates : Calm(c) /\ (cand'[c].status = "purged" => cand[c].status = "purged")
  BY <1>1, CalmSame DEF TableType
<1> QED
  BY <1>2, <1>3, ChangeStep

LEMMA DerivativesGrow ==
    ASSUME Derivatives, UNCHANGED oaths
    PROVE  Grows
  BY GrowsSame DEF Derivatives

LEMMA ConfirmMemoryStep ==
    ASSUME DerivInv, TableInv, NEW i \in Ids, NEW x \in Contents, ConfirmMemory(i, x)
    PROVE  TableInv'
<1>t. PICK t : t = Turn(Len(oaths) + 1)
  OBVIOUS
<1> DEFINE r == [rows[i] EXCEPT !.content = x, !.grounded = TRUE, !.proof = None,
                                !.oath = t, !.source = t, !.back = TRUE]
           link == Link(i, t, None, 0)
<1>0. TableType /\ ProvenanceInv /\ RowOK(rows[i], AllTurns) /\ None \notin Contents
  BY MemoryAssumption DEF TableInv, RowsInv
<1>1. /\ rows[i].status # "deleted" /\ Active(x) \subseteq {i} /\ UNCHANGED <<cand, turns>>
      /\ oaths' = Append(oaths, [says |-> x, live |-> TRUE])
      /\ rows' = [rows EXCEPT ![i] = r] /\ prov' = prov \cup {link}
  BY <1>t DEF ConfirmMemory, derivVars
<1>2. /\ Grows /\ oaths' \in Seq([says : Contents, live : BOOLEAN])
      /\ t \in Nat /\ t # 0 /\ t \in AllTurns' /\ ~TurnPurged(t)'
  BY <1>0, <1>1, <1>t, GrowsOath
<1>3. rows[i] \in MemoryRow /\ Ids \in SUBSET Nat
  BY <1>0, RowTypes
<1>4. /\ r \in MemoryRow /\ r.status = rows[i].status /\ r.content = x /\ r.grounded
      /\ r.proof = None /\ r.oath = t /\ r.source = t /\ r.back
  BY <1>2, <1>3 DEF MemoryRow
<1>5. /\ r.kind = rows[i].kind /\ r.hush = rows[i].hush /\ r.origin = rows[i].origin
      /\ r.supersedes = rows[i].supersedes /\ r.by = rows[i].by
      /\ r.from = rows[i].from /\ r.how = rows[i].how
  BY <1>3 DEF MemoryRow
<1>6. /\ link.memory = i /\ link.turn = t /\ link.cand = None /\ link.source = 0
      /\ link \in Provenance
  BY <1>2, <1>3 DEF Link, Provenance
<1> HIDE DEF r, link
<1>7. RowOK(r, AllTurns') /\ TimeKept(r, rows[i])
  BY <1>0, <1>1, <1>2, <1>4, <1>5 DEF RowOK, TimeKept
<1>8. Ids' = Ids
  BY <1>1, <1>0, RowsFunction DEF Ids
<1>9. ASSUME NEW q, q = link PROVE LinkOK(q)'
  BY <1>2, <1>6, <1>9 DEF LinkOK
<1>10. /\ prov' \in SUBSET Provenance
       /\ \A p \in prov' : \/ p \in prov
                           \/ /\ p.memory \in Ids' /\ p.turn \in AllTurns' \cup {0}
                              /\ p.source \in Ids' \cup {0} /\ LinkOK(p)'
  BY <1>0, <1>1, <1>2, <1>6, <1>8, <1>9 DEF TableType
<1>11. /\ Active(r.content) \subseteq {i} /\ r.status # "deleted" /\ cand' = cand
       /\ \A n : n = r.source => r.source = rows[i].source \/ ~TurnPurged(n)'
       /\ \A n : n = r.oath => r.oath = rows[i].oath \/ ~TurnPurged(n)'
  BY <1>1, <1>2, <1>4
<1> QED
  BY <1>1, <1>2, <1>4, <1>5, <1>7, <1>10, <1>11, BackStep

LEMMA RestoreStep ==
    ASSUME DerivInv, TableInv, NEW i \in Ids, Restore(i)
    PROVE  TableInv'
<1> DEFINE r == [rows[i] EXCEPT !.status = "active", !.hush = FALSE, !.back = TRUE]
<1>0. TableType /\ RowOK(rows[i], AllTurns) /\ TimeOK(i)
  BY DEF TableInv, RowsInv, TimesInv
<1>1. /\ rows[i].status = "retired" /\ Active(rows[i].content) = {}
      /\ UNCHANGED <<prov, cand, oaths>> /\ rows' = [rows EXCEPT ![i] = r] /\ Derivatives
  BY DEF Restore
<1>2. Grows /\ AllTurns \subseteq AllTurns'
  BY <1>1, DerivativesGrow DEF Grows
<1>3. rows[i] \in MemoryRow
  BY <1>0, RowTypes
<1>4. /\ r \in MemoryRow /\ r.status = "active" /\ r.back
      /\ r.kind = rows[i].kind /\ r.grounded = rows[i].grounded /\ r.content = rows[i].content
      /\ r.source = rows[i].source /\ r.oath = rows[i].oath /\ r.proof = rows[i].proof
      /\ r.origin = rows[i].origin /\ r.supersedes = rows[i].supersedes /\ r.by = rows[i].by
      /\ r.from = rows[i].from /\ r.how = rows[i].how
  BY <1>3 DEF MemoryRow, Statuses
<1> HIDE DEF r
<1>5. RowOK(r, AllTurns') /\ TimeKept(r, rows[i])
  BY <1>0, <1>1, <1>2, <1>4 DEF RowOK, TimeKept, TimeOK
<1>6. prov' \in SUBSET Provenance /\ oaths' \in Seq([says : Contents, live : BOOLEAN])
  BY <1>0, <1>1 DEF TableType
<1>7. Active(r.content) \subseteq {i} /\ r.status # "deleted" /\ rows[i].status # "deleted"
      /\ cand' = cand
  BY <1>1, <1>4
<1> QED
  BY <1>1, <1>2, <1>4, <1>5, <1>6, <1>7, BackStep

LEMMA RetireSteps ==
    ASSUME DerivInv, TableInv, NEW i \in Ids, RetireRow(i) \/ RejectMemory(i)
    PROVE  TableInv'
<1>1. CASE RetireRow(i)
  <2>1. /\ rows[i].status = "active" /\ UNCHANGED <<prov, oaths>> /\ Derivatives
        /\ rows' = [rows EXCEPT ![i].status = "retired", ![i].hush = TRUE]
        /\ \E cs : Invalidated(cs)
    BY <1>1 DEF RetireRow
  <2> QED
    BY <2>1, DerivativesGrow, InvalidatedFacts, RetireStep
<1>2. CASE RejectMemory(i)
  <2>1. UNCHANGED <<prov, oaths, cand, turns>>
    BY <1>2 DEF RejectMemory, derivVars
  <2>2. Grows /\ cand' \in [Candidates -> CandidateRow] /\ TableType
    BY <2>1, GrowsSame DEF TableInv, TableType
  <2>3. \A c \in Candidates : Calm(c) /\ (cand'[c].status = "purged" => cand[c].status = "purged")
    BY <2>1, CalmSame
  <2>4. CASE rows[i].status = "active"
    <3>1. rows' = [rows EXCEPT ![i].status = "retired", ![i].hush = TRUE]
      BY <1>2, <2>4 DEF RejectMemory
    <3> QED
      BY <2>1, <2>2, <2>3, <2>4, <3>1, RetireStep
  <2>5. CASE rows[i].status # "active"
    <3>1. rows' = rows
      BY <1>2, <2>5 DEF RejectMemory
    <3>2. TableType'
      BY <2>1, <2>2, <3>1 DEF TableType, Candidates
    <3> QED
      BY <2>1, <2>2, <2>3, <3>1, <3>2, CandidateStep
  <2> QED
    BY <2>4, <2>5
<1> QED
  BY <1>1, <1>2

LEMMA RetireWordingStep ==
    ASSUME DerivInv, TableInv, NEW x \in Contents, RetireWording(x)
    PROVE  TableInv'
<1>0. TableType
  BY DEF TableInv
<1>1. /\ Active(x) = {} /\ UNCHANGED <<prov, oaths>> /\ Derivatives
      /\ \E cs : Invalidated(cs)
      /\ rows' = rows \/ rows' = Append(rows, Guard(x, "retired", "owner_retire_guard"))
  BY Zenon DEF RetireWording
<1>2. /\ cand' \in [Candidates -> CandidateRow]
      /\ \A b \in Candidates : /\ Calm(b)
                               /\ cand'[b].status = "purged" => cand[b].status = "purged"
  BY <1>1, InvalidatedFacts
<1>3. Grows /\ UNCHANGED turns
  BY <1>1, DerivativesGrow DEF Derivatives
<1>4. CASE rows' = rows
  <2>1. TableType'
    BY <1>0, <1>1, <1>2, <1>4 DEF TableType, Candidates
  <2> QED
    BY <1>1, <1>2, <1>3, <1>4, <2>1, CandidateStep
<1>5. CASE rows' = Append(rows, Guard(x, "retired", "owner_retire_guard"))
  <2>1. "owner_retire_guard" \in {"owner_retire_guard", "owner_correction_guard"}
    OBVIOUS
  <2> QED
    BY <1>1, <1>2, <1>3, <1>5, <2>1, AppendGuard
<1> QED
  BY <1>1, <1>4, <1>5

LEMMA CorrectCandidate ==
    ASSUME DerivInv, TableInv, NEW c \in Candidates, Fresh(c), NEW x \in Contents,
           NEW op \in {"correction", "change"}, Latest # 0,
           NEW n \in Nat, n \in Ids', AllTurns \subseteq AllTurns',
           \A i \in Ids' : (i \in Ids /\ rows'[i].origin = rows[i].origin) \/ rows'[i].origin = None,
           cand' = [cand EXCEPT ![c] = Correction(x, op, n)]
    PROVE  /\ cand' \in [Candidates -> CandidateRow]
           /\ \A b \in Candidates : /\ Calm(b) \/ CandidateOK(b)'
                                    /\ cand'[b].status = "purged" => cand[b].status = "purged"
<1> DEFINE r == Correction(x, op, n)
<1>1. /\ TableType /\ CandidateOK(c) /\ cand[c].status = "none" /\ None \notin Candidates
  BY MemoryAssumption DEF TableInv, CandidatesInv, Fresh, Candidates
<1>2. Latest \in Nat /\ Latest \in AllTurns
  BY <1>1, TurnTypes
<1>3. /\ r \in CandidateRow /\ r.status = "pending" /\ r.evidence = {Latest}
      /\ r.oath = 0 /\ r.clash = 0 /\ r.target = n
  BY <1>2 DEF Correction, CandidateRow, NoCandidate
<1> HIDE DEF r
<1>4. /\ cand' \in [Candidates -> CandidateRow] /\ cand'[c] = r
      /\ \A b \in Candidates \ {c} :
            /\ Calm(b)
            /\ cand'[b].status = "purged" => cand[b].status = "purged"
  BY <1>3, CandidateChanged DEF r
<1>5. \A i \in Ids : rows[i].origin # c
  BY <1>1 DEF CandidateOK
<1>6. \A i \in Ids' : rows'[i].origin # c
  BY <1>1, <1>5
<1>7. CandidateOK(c)'
  <2>1. r.evidence \subseteq AllTurns' /\ r.evidence # {}
    BY <1>2, <1>3
  <2>2. /\ cand'[c].evidence \subseteq AllTurns' /\ cand'[c].evidence # {}
        /\ cand'[c].oath = 0 /\ cand'[c].clash = 0 /\ cand'[c].target \in Ids'
    BY <1>3, <1>4, <2>1
  <2> QED
    BY <1>6, <2>2 DEF CandidateOK
<1> QED
  BY <1>3, <1>4, <1>7

LEMMA CorrectStep ==
    ASSUME DerivInv, TableInv, NEW c \in Candidates, NEW x \in Contents, NEW t \in Ids \cup {0},
           NEW old \in Contents, NEW op \in {"correction", "change"}, Correct(c, x, t, old, op)
    PROVE  TableInv'
<1>0. TableType
  BY DEF TableInv
<1>1. /\ Fresh(c) /\ Latest # 0 /\ UNCHANGED <<prov, oaths, turns>>
  BY Zenon DEF Correct, derivVars
<1>2. Grows /\ AllTurns \subseteq AllTurns'
  BY <1>1, GrowsSame DEF Grows
<1>3. PICK n : cand' = [cand EXCEPT ![c] = Correction(x, op, n)]
                 /\ \/ t # 0 /\ n = t /\ rows' = rows
                    \/ /\ GuardsOf(old, "superseded") # {} /\ rows' = rows
                       /\ n = Max(GuardsOf(old, "superseded"))
                    \/ /\ rows' = Append(rows, Guard(old, "superseded", "owner_correction_guard"))
                       /\ n = Len(rows')
  BY Zenon DEF Correct
<1>4. CASE rows' = rows
  <2>1. n \in Nat /\ n \in Ids
    <3>1. CASE t # 0 /\ n = t
      BY <1>0, <3>1, RowTypes
    <3>2. CASE GuardsOf(old, "superseded") # {} /\ n = Max(GuardsOf(old, "superseded"))
      <4>1. /\ GuardsOf(old, "superseded") \in SUBSET Ids /\ Len(rows) \in Nat
            /\ Ids = 1..Len(rows)
        BY <1>0, RowTypes DEF GuardsOf
      <4>2. GuardsOf(old, "superseded") \in SUBSET (0..Len(rows))
        BY <4>1
      <4>3. n \in GuardsOf(old, "superseded")
        BY <3>2, <4>1, <4>2, MaxProperty
      <4> QED
        BY <4>1, <4>3
    <3>3. CASE rows' = Append(rows, Guard(old, "superseded", "owner_correction_guard"))
      <4>1. Len(rows') = Len(rows) + 1 /\ Len(rows) \in Nat
        <5>1. Guard(old, "superseded", "owner_correction_guard") \in MemoryRow
          BY GuardFacts
        <5> QED
          BY <1>0, <3>3, <5>1, SeqAppend, RowTypes DEF TableType
      <4> QED
        BY <1>4, <4>1
    <3> QED
      BY <1>3, <3>1, <3>2, <3>3
  <2>2. Ids' = Ids /\ \A i \in Ids' : i \in Ids /\ rows'[i].origin = rows[i].origin
    BY <1>4 DEF Ids
  <2>3. /\ cand' \in [Candidates -> CandidateRow]
        /\ \A b \in Candidates : /\ Calm(b) \/ CandidateOK(b)'
                                 /\ cand'[b].status = "purged" => cand[b].status = "purged"
    BY <1>1, <1>2, <1>3, <2>1, <2>2, CorrectCandidate
  <2>4. TableType'
    BY <1>0, <1>1, <1>4, <2>3 DEF TableType, Candidates
  <2> QED
    BY <1>1, <1>2, <1>4, <2>3, <2>4, CandidateStep
<1>5. CASE rows' = Append(rows, Guard(old, "superseded", "owner_correction_guard")) /\ n = Len(rows')
  <2>1. /\ Guard(old, "superseded", "owner_correction_guard") \in MemoryRow
        /\ Guard(old, "superseded", "owner_correction_guard").origin = None
    BY GuardFacts
  <2>2. /\ rows' \in Seq(MemoryRow) /\ Len(rows') = Len(rows) + 1
        /\ Ids' = Ids \cup {Len(rows) + 1} /\ Len(rows) + 1 \in Nat
        /\ rows'[Len(rows) + 1].origin = None /\ \A j \in Ids : rows'[j] = rows[j]
    <3>1. rows \in Seq(MemoryRow) /\ DOMAIN rows = Ids /\ Len(rows) + 1 \in Nat
      BY <1>0, RowTypes DEF TableType, Ids
    <3> QED
      BY <1>5, <2>1, <3>1, Appended
  <2>3. \A i \in Ids' : (i \in Ids /\ rows'[i].origin = rows[i].origin) \/ rows'[i].origin = None
    BY <2>2
  <2>4. /\ cand' \in [Candidates -> CandidateRow]
        /\ \A b \in Candidates : /\ Calm(b) \/ CandidateOK(b)'
                                 /\ cand'[b].status = "purged" => cand[b].status = "purged"
    <3>1. n \in Nat /\ n \in Ids'
      BY <1>5, <2>2
    <3> QED
      BY <1>1, <1>2, <1>3, <2>3, <3>1, CorrectCandidate
  <2> QED
    BY <1>1, <1>5, <2>4, AppendGuard
<1> QED
  BY <1>3, <1>4, <1>5

-----------------------------------------------------------------------------
(* Publication.                                                            *)

\* What the model may read.
LEMMA ReadingTypes ==
    ASSUME DerivInv, TableInv, NEW c, NEW d \in Readings(c)
    PROVE  /\ d.relation \in {"new", "duplicate_of", "narrows", "supersedes", "conflicts_with",
                              "historical_predecessor", "grounds_legacy"}
           /\ d.content \in Contents /\ d.time \in Nat
           /\ d.relation = "grounds_legacy" => d.target \in LegacyGraph
           /\ d.relation \notin {"new", "grounds_legacy"} => d.target \in ActiveGraph
<1>1. Len(turns) \in Nat
  BY TurnTypes DEF TableInv
<1>2. d \in [relation : {"new", "duplicate_of", "narrows", "supersedes", "conflicts_with",
                         "historical_predecessor", "grounds_legacy"},
             target : Ids \cup {0}, content : Contents, time : 0..Len(turns)]
  BY DEF Readings
<1>3. d.target \in CASE d.relation = "new" -> {0}
                     [] d.relation = "grounds_legacy" -> LegacyGraph
                     [] OTHER -> ActiveGraph
  BY DEF Readings
<1> QED
  BY <1>1, <1>2, <1>3

\* The relation publication goes by.
LEMMA TemporalOrder ==
    ASSUME DerivInv, TableInv, NEW c \in Candidates, NEW d \in Readings(c),
           NEW relation, relation = EnforceTemporalOrder(c, d)
    PROVE  /\ relation \in {"new", "duplicate_of", "grounds_legacy"} => relation = d.relation
           /\ relation \in {"narrows", "supersedes", "historical_predecessor", "conflicts_with"} =>
                 d.target \in ActiveGraph
           /\ relation \in {"new", "duplicate_of", "narrows", "supersedes", "conflicts_with",
                            "historical_predecessor", "grounds_legacy"}
           /\ relation = "supersedes" /\ cand[c].op = "upsert" => d.time > rows[d.target].from
           /\ relation = "historical_predecessor" => d.time < rows[d.target].from
<1>1. /\ d.relation \in {"new", "duplicate_of", "narrows", "supersedes", "conflicts_with",
                         "historical_predecessor", "grounds_legacy"}
      /\ d.time \in Nat
      /\ d.relation \notin {"new", "grounds_legacy"} => d.target \in ActiveGraph
  BY ReadingTypes
<1>2. d.target \in ActiveGraph => rows[d.target].from \in Nat
  <2>1. \A i \in Ids : rows[i] \in MemoryRow
    BY RowTypes DEF TableInv
  <2> QED
    BY <2>1 DEF ActiveGraph, MemoryRow
<1> QED
  BY <1>1, <1>2 DEF EnforceTemporalOrder, Corrects

\* Publication, decision by decision.
LEMMA PublishCases ==
    ASSUME DerivInv, TableInv, NEW c \in Candidates, NEW d \in Readings(c), Publish(c, d)
    PROVE  /\ cand[c].status = "pending" /\ \A t \in cand[c].evidence : TurnLive(t)
           /\ UNCHANGED <<oaths, turns>>
           /\ \E g \in Restriction(d.content) :
                 \/ Settled(c, "done") /\ UNCHANGED <<rows, prov>>
                 \/ /\ g = 0 /\ Active(d.content) = {}
                    /\ PublishCreate(c, d)
                 \/ /\ g = 0 /\ Active(d.content) = {} /\ d.target \in ActiveGraph
                    /\ \E relation \in {"narrows", "supersedes"} :
                          /\ relation = "supersedes" /\ cand[c].op = "upsert" =>
                                d.time > rows[d.target].from
                          /\ PublishReplace(c, d, relation)
                 \/ d.target \in ActiveGraph /\ PublishEquivalent(c, d)
                 \/ /\ g = 0 /\ Active(d.content) \subseteq {d.target} /\ d.target \in LegacyGraph
                    /\ PublishGround(c, d)
                 \/ /\ d.target \in ActiveGraph /\ d.time < rows[d.target].from
                    /\ PublishHistory(c, d, g)
                 \/ d.target \in ActiveGraph /\ PublishConflict(c, d)
<1>1. /\ cand[c].status = "pending" /\ \A t \in cand[c].evidence : TurnLive(t)
      /\ UNCHANGED <<oaths, turns>>
  BY Zenon DEF Publish, derivVars
<1>2. PICK relation : relation = EnforceTemporalOrder(c, d)
  OBVIOUS
<1>3. PICK g \in Restriction(d.content) :
         IF Obstacle(c, d, relation, g)
          THEN Settled(c, "done") /\ UNCHANGED <<rows, prov>>
          ELSE CASE relation = "new" -> PublishCreate(c, d)
                 [] relation \in {"narrows", "supersedes"} -> PublishReplace(c, d, relation)
                 [] relation = "duplicate_of" -> PublishEquivalent(c, d)
                 [] relation = "grounds_legacy" -> PublishGround(c, d)
                 [] relation = "historical_predecessor" -> PublishHistory(c, d, g)
                 [] OTHER -> PublishConflict(c, d)
  BY <1>2, Zenon DEF Publish
<1>4. /\ relation \in {"new", "duplicate_of", "grounds_legacy"} => relation = d.relation
      /\ relation \in {"narrows", "supersedes", "historical_predecessor", "conflicts_with"} =>
            d.target \in ActiveGraph
      /\ relation \in {"new", "duplicate_of", "narrows", "supersedes", "conflicts_with",
                       "historical_predecessor", "grounds_legacy"}
      /\ relation = "supersedes" /\ cand[c].op = "upsert" => d.time > rows[d.target].from
      /\ relation = "historical_predecessor" => d.time < rows[d.target].from
  BY <1>2, TemporalOrder
<1>5. /\ d.relation = "grounds_legacy" => d.target \in LegacyGraph
      /\ d.relation = "duplicate_of" => d.target \in ActiveGraph
  BY ReadingTypes
<1>6. CASE Obstacle(c, d, relation, g)
  BY <1>1, <1>3, <1>6, Zenon
<1>7. CASE ~Obstacle(c, d, relation, g)
  <2>1. CASE relation = "new"
    <3>1. PublishCreate(c, d)
      BY <1>3, <1>7, <2>1
    <3>2. g = 0 /\ Active(d.content) = {}
      BY <1>7, <2>1 DEF Obstacle
    <3> QED
      BY <1>1, <3>1, <3>2, Zenon
  <2>2. CASE relation \in {"narrows", "supersedes"}
    <3>1. PublishReplace(c, d, relation)
      BY <1>3, <1>7, <2>2
    <3>2. g = 0 /\ Active(d.content) = {}
      BY <1>7, <2>2 DEF Obstacle
    <3>3. d.target \in ActiveGraph
      BY <1>4, <2>2
    <3> QED
      BY <1>1, <1>4, <2>2, <3>1, <3>2, <3>3, Zenon
  <2>3. CASE relation = "duplicate_of"
    <3>1. PublishEquivalent(c, d)
      BY <1>3, <1>7, <2>3
    <3>2. d.target \in ActiveGraph
      BY <1>4, <1>5, <2>3
    <3> QED
      BY <1>1, <3>1, <3>2, Zenon
  <2>4. CASE relation = "grounds_legacy"
    <3>1. PublishGround(c, d)
      BY <1>3, <1>7, <2>4
    <3>2. g = 0 /\ Active(d.content) \subseteq {d.target}
      BY <1>7, <2>4 DEF Obstacle
    <3>3. d.target \in LegacyGraph
      BY <1>4, <1>5, <2>4
    <3> QED
      BY <1>1, <3>1, <3>2, <3>3, Zenon
  <2>5. CASE relation = "historical_predecessor"
    <3>1. PublishHistory(c, d, g)
      BY <1>3, <1>7, <2>5
    <3>2. d.target \in ActiveGraph /\ d.time < rows[d.target].from
      BY <1>4, <2>5
    <3> QED
      BY <1>1, <3>1, <3>2, Zenon
  <2>6. CASE relation = "conflicts_with"
    <3>1. PublishConflict(c, d)
      BY <1>3, <1>7, <2>6
    <3>2. d.target \in ActiveGraph
      BY <1>4, <2>6
    <3> QED
      BY <1>1, <3>1, <3>2, Zenon
  <2> QED
    BY <1>4, <2>1, <2>2, <2>3, <2>4, <2>5, <2>6
<1> QED
  BY <1>6, <1>7

\* A candidate that is published: its evidence stands.
LEMMA EvidenceFacts ==
    ASSUME DerivInv, TableInv, NEW c \in Candidates, cand[c].status = "pending",
           \A t \in cand[c].evidence : TurnLive(t), UNCHANGED <<oaths, turns>>
    PROVE  /\ cand[c].evidence \in SUBSET Nat /\ cand[c].evidence \subseteq AllTurns
           /\ Min(cand[c].evidence) \in cand[c].evidence
           /\ cand[c].oath = 0 \/ cand[c].oath \in cand[c].evidence
           /\ cand[c].oath \in Nat /\ cand[c].target \in Nat
           /\ \A t \in cand[c].evidence \cup {0} : ~TurnPurged(t)'
           /\ \A i \in Ids : rows[i].origin # c
           /\ cand[c].op # "upsert" => cand[c].target \in Ids
           /\ Grows /\ AllTurns' = AllTurns
<1>1. /\ TableType /\ CandidateOK(c) /\ cand[c] \in CandidateRow
  BY DEF TableInv, TableType, CandidatesInv
<1>2. /\ cand[c].evidence \in SUBSET Nat /\ cand[c].evidence # {}
      /\ cand[c].oath \in Nat /\ cand[c].target \in Nat
  BY <1>1 DEF CandidateRow, CandidateOK
<1>3. Min(cand[c].evidence) \in cand[c].evidence
  BY <1>2, MinProperty
<1>4. /\ cand[c].evidence \subseteq AllTurns
      /\ cand[c].oath = 0 \/ cand[c].oath \in cand[c].evidence
      /\ \A i \in Ids : rows[i].origin # c
      /\ cand[c].op # "upsert" => cand[c].target \in Ids
  BY <1>1 DEF CandidateOK
<1>5. Grows /\ AllTurns' = AllTurns /\ \A t : TurnPurged(t)' = TurnPurged(t)
  BY GrowsSame
<1>6. ASSUME NEW t \in cand[c].evidence \cup {0} PROVE ~TurnPurged(t)
  <2>1. CASE t = 0
    BY <2>1, DerivativesAssumption DEF TurnPurged
  <2>2. CASE t \in cand[c].evidence
    BY <1>1, <1>4, <2>2, LiveIsNotPurged
  <2> QED
    BY <2>1, <2>2
<1> QED
  BY <1>2, <1>3, <1>4, <1>5, <1>6

LEMMA PublishedFacts ==
    ASSUME DerivInv, TableInv, NEW c \in Candidates, NEW d \in Readings(c),
           NEW how \in {"create", "merge", "supersede", "correct", "history"},
           cand[c].status = "pending", \A t \in cand[c].evidence : TurnLive(t),
           UNCHANGED <<oaths, turns>>,
           NEW r, r = Published(c, d, how)
    PROVE  /\ r \in MemoryRow /\ r.status = "active" /\ r.kind = "derived" /\ r.grounded
           /\ r.content = d.content /\ r.source = Min(cand[c].evidence)
           /\ r.oath = cand[c].oath /\ r.proof = c /\ r.origin = c /\ r.how = how
           /\ cand[c].op = "upsert" \/ how = "history" => r.from = d.time
           /\ r = [status |-> "active", kind |-> "derived", grounded |-> TRUE,
                   content |-> d.content, hush |-> FALSE, source |-> Min(cand[c].evidence),
                   oath |-> cand[c].oath, proof |-> c, origin |-> c, supersedes |-> 0, by |-> 0,
                   from |-> r.from, how |-> how, back |-> FALSE]
<1>1. /\ cand[c].evidence \in SUBSET Nat /\ Min(cand[c].evidence) \in cand[c].evidence
      /\ cand[c].oath \in Nat /\ d.content \in Contents /\ d.time \in Nat
  BY EvidenceFacts, ReadingTypes
<1>2. PICK n \in Nat : n = IF cand[c].op = "correction" /\ how # "history" THEN 0 ELSE d.time
  BY <1>1
<1>3. r = [status |-> "active", kind |-> "derived", grounded |-> TRUE,
           content |-> d.content, hush |-> FALSE, source |-> Min(cand[c].evidence),
           oath |-> cand[c].oath, proof |-> c, origin |-> c, supersedes |-> 0, by |-> 0,
           from |-> n, how |-> how, back |-> FALSE]
  BY <1>2 DEF Published, BlankRow
<1>4. r \in MemoryRow
  BY <1>1, <1>2, <1>3 DEF MemoryRow, Statuses
<1>5. cand[c].op = "upsert" \/ how = "history" => n = d.time
  BY <1>2
<1> QED
  BY <1>3, <1>4, <1>5

\* The lineage of a publication: links to the candidate and its evidence, and at most to
\* memories that stand.
LEMMA LineageFacts ==
    ASSUME DerivInv, TableInv, NEW c \in Candidates,
           cand[c].status = "pending", \A t \in cand[c].evidence : TurnLive(t),
           UNCHANGED <<oaths, turns>>, cand'[c].status # "purged",
           Ids' \in SUBSET Nat, NEW m \in Ids',
           NEW q,
           \/ q \in Lineage(m, c)
           \/ \E t \in cand[c].evidence \cup {0}, source \in Ids' \cup {0} :
                 /\ q = Link(m, t, None, source)
                 /\ source = 0 \/ rows'[source].status # "deleted"
    PROVE  /\ q \in Provenance /\ q.memory \in Ids' /\ q.turn \in AllTurns' \cup {0}
           /\ q.source \in Ids' \cup {0} /\ LinkOK(q)'
<1>1. /\ cand[c].evidence \in SUBSET Nat /\ cand[c].evidence \subseteq AllTurns
      /\ \A t \in cand[c].evidence \cup {0} : ~TurnPurged(t)'
      /\ AllTurns' = AllTurns /\ prov \in SUBSET Provenance
  BY EvidenceFacts DEF TableInv, TableType
<1>2. q \in Lineage(m, c) => \E t \in cand[c].evidence \cup {0} : q = Link(m, t, c, 0)
  BY DEF Lineage
<1>3. ASSUME NEW t \in cand[c].evidence \cup {0}, NEW b \in {c, None},
             NEW source \in Ids' \cup {0}, source = 0 \/ rows'[source].status # "deleted",
             q = Link(m, t, b, source)
      PROVE  /\ q \in Provenance /\ q.memory \in Ids' /\ q.turn \in AllTurns' \cup {0}
             /\ q.source \in Ids' \cup {0} /\ LinkOK(q)'
  <2>1. q.memory = m /\ q.turn = t /\ q.cand = b /\ q.source = source
    BY <1>3 DEF Link
  <2>2. q \in Provenance
    <3>1. m \in Nat /\ t \in Nat /\ source \in Nat /\ b \in Candidates \cup {None}
      <4>1. m \in Nat
        OBVIOUS
      <4>2. t \in Nat
        BY <1>1
      <4>3. source \in Nat
        OBVIOUS
      <4>4. b \in Candidates \cup {None}
        OBVIOUS
      <4> QED
        BY <4>1, <4>2, <4>3, <4>4
    <3>2. q = Link(m, t, b, source)
      BY <1>3
    <3> QED
      BY <3>1, <3>2 DEF Link, Provenance
  <2>3. ~TurnPurged(q.turn)'
    BY <1>1, <1>3, <2>1
  <2>4. q.cand # None => cand'[q.cand].status # "purged"
    BY <1>3, <2>1
  <2> QED
    BY <1>1, <1>3, <2>1, <2>2, <2>3, <2>4 DEF LinkOK
<1>4. CASE q \in Lineage(m, c)
  <2>1. PICK t \in cand[c].evidence \cup {0} : q = Link(m, t, c, 0)
    BY <1>2, <1>4
  <2> QED
    BY <1>3, <2>1
<1> QED
  BY <1>3, <1>4

LEMMA NoRestriction ==
    ASSUME TableInv, NEW x, 0 \in Restriction(x), NEW j \in Ids, rows[j].content = x
    PROVE  ~(rows[j].status = "retired" /\ rows[j].grounded)
<1>1. 0 \notin Ids /\ RowOK(rows[j], AllTurns)
  BY RowTypes DEF TableInv, RowsInv
<1>2. Restrictions(x) = {}
  BY <1>1 DEF Restriction, Restrictions
<1> QED
  BY <1>1, <1>2 DEF Restrictions, RowOK

\* A memory made of a candidate.
LEMMA FreshRow ==
    ASSUME DerivInv, TableInv, NEW c \in Candidates, cand[c].status = "pending",
           \A t \in cand[c].evidence : TurnLive(t), UNCHANGED <<oaths, turns>>,
           Settled(c, "done"),
           NEW s, s \in Seq(MemoryRow), Len(s) = Len(rows), DOMAIN s = Ids,
           \A j \in Ids : Quiet(s[j], rows[j]),
           NEW r \in MemoryRow, rows' = Append(s, r),
           r.source = Min(cand[c].evidence), r.oath = cand[c].oath, r.proof = c, r.origin = c,
           r.status \in {"active", "superseded"}, r.content \in Contents,
           r.status = "active" =>
              \A j \in Ids : rows[j].content = r.content =>
                 rows[j].status # "active" /\ ~(rows[j].status = "retired" /\ rows[j].grounded),
           r.how \in {"supersede", "history"} => \A n : n = Len(rows) + 1 => TimeOK(n)',
           NEW more, \A q \in more : \E source \in Ids :
              q = Link(Len(rows) + 1, 0, None, source) /\ rows[source].status # "deleted",
           prov' = prov \cup Lineage(Len(rows) + 1, c) \cup more
    PROVE  TableInv'
<1>m. PICK m : m = Len(rows) + 1
  OBVIOUS
<1>0. /\ TableType /\ None \notin Contents /\ None \notin Candidates
      /\ oaths' \in Seq([says : Contents, live : BOOLEAN])
  BY MemoryAssumption DEF TableInv, TableType, Candidates
<1>1. /\ Min(cand[c].evidence) \in cand[c].evidence /\ cand[c].evidence \subseteq AllTurns
      /\ cand[c].oath = 0 \/ cand[c].oath \in cand[c].evidence
      /\ \A t \in cand[c].evidence \cup {0} : ~TurnPurged(t)'
      /\ \A i \in Ids : rows[i].origin # c
      /\ Grows /\ AllTurns' = AllTurns
  BY EvidenceFacts
<1>2. /\ cand' \in [Candidates -> CandidateRow] /\ cand'[c].status = "done"
      /\ \A b \in Candidates : Calm(b) /\ (cand'[b].status = "purged" => cand[b].status = "purged")
  BY SettledFacts
<1>3. RowOK(r, AllTurns')
  BY <1>0, <1>1 DEF RowOK
<1>4. ASSUME NEW j \in Ids PROVE PairOK(r, s[j]) /\ PairOK(s[j], r)
  <2>1. Quiet(s[j], rows[j]) /\ rows[j].origin # c
    BY <1>1, <1>4
  <2> QED
    BY <2>1 DEF PairOK, Quiet
<1>5. \A t : t \in {r.source, r.oath} => ~TurnPurged(t)'
  BY <1>1
<1>6. /\ Ids' = Ids \cup {m} /\ Ids' \in SUBSET Nat
      /\ \A j \in Ids : rows'[j] = s[j] /\ Quiet(s[j], rows[j])
  <2>1. Ids' = Ids \cup {Len(rows) + 1} /\ \A j \in Ids : rows'[j] = s[j]
    BY Appended
  <2>2. Ids \in SUBSET Nat /\ Len(rows) + 1 \in Nat
    BY <1>0, RowTypes
  <2> QED
    BY <1>m, <2>1, <2>2
<1>7. ASSUME NEW q \in prov', q \notin prov
      PROVE  /\ q \in Provenance /\ q.memory \in Ids' /\ q.turn \in AllTurns' \cup {0}
             /\ q.source \in Ids' \cup {0} /\ LinkOK(q)'
  <2>1. \/ q \in Lineage(m, c)
        \/ \E source \in Ids : q = Link(m, 0, None, source) /\ rows[source].status # "deleted"
    BY <1>m, <1>7
  <2>2. \/ q \in Lineage(m, c)
        \/ \E t \in cand[c].evidence \cup {0}, source \in Ids' \cup {0} :
              /\ q = Link(m, t, None, source)
              /\ source = 0 \/ rows'[source].status # "deleted"
    <3>1. ASSUME NEW source \in Ids, rows[source].status # "deleted"
          PROVE  source \in Ids' \cup {0} /\ rows'[source].status # "deleted"
      BY <1>6, <3>1 DEF Quiet
    <3> QED
      BY <2>1, <3>1
  <2>3. m \in Ids' /\ cand'[c].status # "purged"
    BY <1>2, <1>6
  <2> QED
    BY <1>6, <2>2, <2>3, LineageFacts
<1>8. /\ prov' \in SUBSET Provenance
      /\ \A q \in prov' : \/ q \in prov
                          \/ /\ q.memory \in Ids' /\ q.turn \in AllTurns' \cup {0}
                             /\ q.source \in Ids' \cup {0} /\ LinkOK(q)'
  BY <1>0, <1>7 DEF TableType
<1>9. /\ r.origin = None \/ cand'[r.origin].status = "done"
      /\ \A t : t \in {r.source, r.oath} => r.how = "blind" \/ ~TurnPurged(t)'
  BY <1>2, <1>5
<1> QED
  BY <1>0, <1>1, <1>2, <1>3, <1>4, <1>8, <1>9, AppendStep

LEMMA QuietSelf ==
    ASSUME NEW j
    PROVE  Quiet(rows[j], rows[j])
  BY DEF Quiet

LEMMA CreateStep ==
    ASSUME DerivInv, TableInv, NEW c \in Candidates, NEW d \in Readings(c),
           cand[c].status = "pending", \A t \in cand[c].evidence : TurnLive(t),
           UNCHANGED <<oaths, turns>>, 0 \in Restriction(d.content), Active(d.content) = {},
           PublishCreate(c, d)
    PROVE  TableInv'
<1>m. PICK m : m = Len(rows) + 1
  OBVIOUS
<1>t. PICK t : t = cand[c].target
  OBVIOUS
<1> DEFINE fixes == /\ cand[c].op # "upsert"
                    /\ rows[t].kind = "owner_correction_guard"
                    /\ rows[t].status \in {"retired", "superseded"}
           row == Published(c, d, "create")
<1>1. /\ rows' = Append(IF fixes THEN [rows EXCEPT ![t].by = m] ELSE rows,
                        IF fixes THEN [row EXCEPT !.supersedes = t] ELSE row)
      /\ prov' = prov \cup Lineage(m, c) \cup (IF fixes THEN {Link(m, 0, None, t)} ELSE {})
      /\ Settled(c, "done")
  BY <1>m, <1>t, Zenon DEF PublishCreate
<1>2. /\ row \in MemoryRow /\ row.status = "active" /\ row.content = d.content
      /\ row.source = Min(cand[c].evidence) /\ row.oath = cand[c].oath /\ row.proof = c
      /\ row.origin = c /\ row.how = "create"
  BY PublishedFacts
<1>3. d.content \in Contents
  BY ReadingTypes
<1>4. TableType /\ rows \in Seq(MemoryRow) /\ DOMAIN rows = Ids
      /\ \A j \in Ids : Quiet(rows[j], rows[j])
  BY QuietSelf DEF TableInv, TableType, Ids
<1>5. \A j \in Ids : rows[j].content = d.content =>
         rows[j].status # "active" /\ ~(rows[j].status = "retired" /\ rows[j].grounded)
  BY NoRestriction DEF Active
<1>6. cand[c].op # "upsert" => t \in Ids
  BY <1>t, EvidenceFacts
<1> HIDE DEF row
<1>7. CASE fixes
  <2> DEFINE r == [row EXCEPT !.supersedes = t]
             s == [rows EXCEPT ![t].by = m]
  <2>1. t \in Ids /\ rows[t].status # "deleted" /\ rows[t].kind # "derived"
    BY <1>6, <1>7
  <2>2. t \in Nat /\ m \in Nat /\ rows \in [Ids -> MemoryRow]
    BY <1>4, <1>m, <2>1, RowTypes, RowsFunction
  <2>3. /\ r \in MemoryRow /\ r.status = "active" /\ r.content = d.content
        /\ r.source = Min(cand[c].evidence) /\ r.oath = cand[c].oath /\ r.proof = c
        /\ r.origin = c /\ r.how = "create"
    BY <1>2, <2>2 DEF MemoryRow
  <2>4. /\ s \in [Ids -> MemoryRow] /\ \A j \in Ids \ {t} : s[j] = rows[j]
        /\ s[t] = [rows[t] EXCEPT !.by = m] /\ rows[t] \in MemoryRow
    <3>1. rows[t] \in MemoryRow
      BY <2>1, <2>2
    <3>2. [rows[t] EXCEPT !.by = m] \in MemoryRow
      BY <2>2, <3>1 DEF MemoryRow
    <3> QED
      BY <2>1, <2>2, <3>1, <3>2
  <2>5. s \in Seq(MemoryRow) /\ Len(s) = Len(rows) /\ DOMAIN s = Ids
    BY <1>4, <2>4, RowsFunction
  <2>6. rows[t].how # "history"
    BY <2>1 DEF TableInv, TimesInv, TimeOK
  <2>7. Quiet(s[t], rows[t])
    BY <2>4, <2>6 DEF Quiet, MemoryRow
  <2> HIDE DEF r, s
  <2>8. \A j \in Ids : Quiet(s[j], rows[j])
    BY <1>4, <2>4, <2>7
  <2>9. /\ rows' = Append(s, r)
        /\ prov' = prov \cup Lineage(Len(rows) + 1, c) \cup {Link(Len(rows) + 1, 0, None, t)}
    BY <1>1, <1>7, <1>m DEF r, s
  <2>10. /\ \A q \in {Link(Len(rows) + 1, 0, None, t)} : \E source \in Ids :
               q = Link(Len(rows) + 1, 0, None, source) /\ rows[source].status # "deleted"
         /\ r.status = "active" =>
              \A j \in Ids : rows[j].content = r.content =>
                 rows[j].status # "active" /\ ~(rows[j].status = "retired" /\ rows[j].grounded)
    BY <1>5, <2>1, <2>3
  <2> QED
    BY <1>1, <1>3, <2>3, <2>5, <2>8, <2>9, <2>10, FreshRow
<1>8. CASE ~fixes
  <2>1. /\ rows' = Append(rows, row) /\ prov' = prov \cup Lineage(Len(rows) + 1, c) \cup {}
    BY <1>1, <1>8, <1>m
  <2> HIDE DEF fixes
  <2>2. PICK more : more = {}
    OBVIOUS
  <2>3. /\ prov' = prov \cup Lineage(Len(rows) + 1, c) \cup more
        /\ \A q \in more : \E source \in Ids :
              q = Link(Len(rows) + 1, 0, None, source) /\ rows[source].status # "deleted"
    BY <2>1, <2>2
  <2>4. /\ row.status \in {"active", "superseded"} /\ row.content \in Contents
        /\ Len(rows) = Len(rows)
        /\ row.status = "active" =>
             \A j \in Ids : rows[j].content = row.content =>
                rows[j].status # "active" /\ ~(rows[j].status = "retired" /\ rows[j].grounded)
        /\ row.how \in {"supersede", "history"} => \A n : n = Len(rows) + 1 => TimeOK(n)'
    BY <1>2, <1>3, <1>5
  <2> QED
    BY <1>1, <1>2, <1>4, <2>1, <2>3, <2>4, FreshRow
<1> QED
  BY <1>7, <1>8

LEMMA ReplaceStep ==
    ASSUME DerivInv, TableInv, NEW c \in Candidates, NEW d \in Readings(c),
           cand[c].status = "pending", \A t \in cand[c].evidence : TurnLive(t),
           UNCHANGED <<oaths, turns>>, 0 \in Restriction(d.content), Active(d.content) = {},
           d.target \in ActiveGraph, NEW relation \in {"narrows", "supersedes"},
           relation = "supersedes" /\ cand[c].op = "upsert" => d.time > rows[d.target].from,
           PublishReplace(c, d, relation)
    PROVE  TableInv'
<1>m. PICK m : m = Len(rows) + 1
  OBVIOUS
<1>t. PICK t : t = d.target
  OBVIOUS
<1>h. PICK how : how = IF cand[c].op # "upsert" THEN "correct"
                       ELSE IF relation = "narrows" THEN "merge" ELSE "supersede"
  OBVIOUS
<1> DEFINE row == Published(c, d, how)
           r == [row EXCEPT !.supersedes = t]
           s == [rows EXCEPT ![t].status = "superseded", ![t].hush = TRUE, ![t].by = m]
<1>1. /\ rows' = Append(s, r) /\ Settled(c, "done")
      /\ prov' = prov \cup Lineage(m, c) \cup {Link(m, 0, None, t)}
  BY <1>m, <1>t, <1>h, Zenon DEF PublishReplace
<1>2. /\ how \in {"merge", "supersede", "correct"}
      /\ how = "supersede" => cand[c].op = "upsert" /\ relation = "supersedes"
  BY <1>h
<1>3. /\ row \in MemoryRow /\ row.status = "active" /\ row.content = d.content
      /\ row.source = Min(cand[c].evidence) /\ row.oath = cand[c].oath /\ row.proof = c
      /\ row.origin = c /\ row.how = how /\ row.grounded
      /\ cand[c].op = "upsert" => row.from = d.time
  BY <1>2, PublishedFacts
<1>4. d.content \in Contents
  BY ReadingTypes
<1>5. TableType /\ \A j \in Ids : Quiet(rows[j], rows[j])
  BY QuietSelf DEF TableInv
<1>6. \A j \in Ids : rows[j].content = d.content =>
         rows[j].status # "active" /\ ~(rows[j].status = "retired" /\ rows[j].grounded)
  BY NoRestriction DEF Active
<1>7. t \in Ids /\ rows[t].status = "active" /\ rows[t].grounded
  BY <1>t DEF ActiveGraph
<1> HIDE DEF row
<1>8. t \in Nat /\ m \in Nat /\ rows \in [Ids -> MemoryRow] /\ rows[t] \in MemoryRow
  BY <1>5, <1>m, <1>7, RowTypes, RowsFunction
<1>9. /\ r \in MemoryRow /\ r.status = "active" /\ r.content = d.content
      /\ r.source = Min(cand[c].evidence) /\ r.oath = cand[c].oath /\ r.proof = c
      /\ r.origin = c /\ r.how = how /\ r.supersedes = t /\ r.grounded /\ r.from = row.from
  BY <1>3, <1>8 DEF MemoryRow
<1>10. /\ s \in [Ids -> MemoryRow] /\ \A j \in Ids \ {t} : s[j] = rows[j]
       /\ s[t] = [rows[t] EXCEPT !.status = "superseded", !.hush = TRUE, !.by = m]
  <2>1. [rows[t] EXCEPT !.status = "superseded", !.hush = TRUE, !.by = m] \in MemoryRow
    BY <1>8 DEF MemoryRow, Statuses
  <2> QED
    BY <1>7, <1>8, <2>1
<1>11. s \in Seq(MemoryRow) /\ Len(s) = Len(rows) /\ DOMAIN s = Ids
  BY <1>5, <1>10, RowsFunction
<1>12. rows[t].how # "history"
  BY <1>7 DEF TableInv, TimesInv, TimeOK
<1>13. /\ s[t].kind = rows[t].kind /\ s[t].grounded = rows[t].grounded
       /\ s[t].content = rows[t].content /\ s[t].source = rows[t].source
       /\ s[t].oath = rows[t].oath /\ s[t].proof = rows[t].proof /\ s[t].origin = rows[t].origin
       /\ s[t].supersedes = rows[t].supersedes /\ s[t].from = rows[t].from
       /\ s[t].how = rows[t].how /\ s[t].back = rows[t].back /\ s[t].status = "superseded"
  BY <1>8, <1>10 DEF MemoryRow
<1> HIDE DEF r, s
<1>14. \A j \in Ids : Quiet(s[j], rows[j])
  <2>1. Quiet(s[t], rows[t])
    BY <1>7, <1>12, <1>13 DEF Quiet
  <2> QED
    BY <1>5, <1>10, <2>1
<1>15. /\ rows' \in Seq(MemoryRow) /\ Ids' = Ids \cup {m} /\ rows'[m] = r
       /\ \A j \in Ids : rows'[j] = s[j]
  BY <1>1, <1>9, <1>11, <1>m, Appended, Zenon
<1>16. ASSUME r.how \in {"supersede", "history"} PROVE \A n : n = Len(rows) + 1 => TimeOK(n)'
  <2>1. r.from > rows[t].from /\ how = "supersede"
    BY <1>2, <1>3, <1>9, <1>16, <1>t
  <2>2. rows'[t].from = rows[t].from /\ rows'[t].grounded /\ t \in Ids'
    BY <1>7, <1>13, <1>15
  <2>3. TimeOK(m)'
    BY <1>9, <1>15, <2>1, <2>2 DEF TimeOK
  <2> QED
    BY <1>m, <2>3
<1>17. PICK more : more = {Link(Len(rows) + 1, 0, None, t)}
  OBVIOUS
<1>18. /\ \A q \in more : \E source \in Ids :
             q = Link(Len(rows) + 1, 0, None, source) /\ rows[source].status # "deleted"
       /\ prov' = prov \cup Lineage(Len(rows) + 1, c) \cup more
  BY <1>1, <1>m, <1>7, <1>17
<1>19. /\ r.status \in {"active", "superseded"} /\ r.content \in Contents
       /\ r.status = "active" =>
            \A j \in Ids : rows[j].content = r.content =>
               rows[j].status # "active" /\ ~(rows[j].status = "retired" /\ rows[j].grounded)
       /\ r.how \in {"supersede", "history"} => \A n : n = Len(rows) + 1 => TimeOK(n)'
  BY <1>4, <1>6, <1>9, <1>16
<1> QED
  BY <1>1, <1>9, <1>11, <1>14, <1>18, <1>19, FreshRow

LEMMA HistoryStep ==
    ASSUME DerivInv, TableInv, NEW c \in Candidates, NEW d \in Readings(c),
           cand[c].status = "pending", \A t \in cand[c].evidence : TurnLive(t),
           UNCHANGED <<oaths, turns>>, NEW g \in Restriction(d.content),
           d.target \in ActiveGraph, d.time < rows[d.target].from, PublishHistory(c, d, g)
    PROVE  TableInv'
<1>m. PICK m : m = Len(rows) + 1
  OBVIOUS
<1>t. PICK t : t = d.target
  OBVIOUS
<1>0. /\ TableType /\ Settled(c, "done") /\ oaths' \in Seq([says : Contents, live : BOOLEAN])
  BY DEF PublishHistory, TableInv, TableType
<1>1. /\ cand' \in [Candidates -> CandidateRow] /\ cand'[c].status = "done"
      /\ \A b \in Candidates : Calm(b) /\ (cand'[b].status = "purged" => cand[b].status = "purged")
  BY <1>0, SettledFacts
<1>2. CASE g # 0 /\ prov' = prov \cup Lineage(g, c) /\ UNCHANGED rows
  <2>1. g \in Ids /\ Ids' = Ids /\ Ids' \in SUBSET Nat
    BY <1>0, <1>2, RowTypes DEF Restriction, Restrictions, Ids
  <2>2. ASSUME NEW q \in prov', q \notin prov
        PROVE  /\ q \in Provenance /\ q.memory \in Ids' /\ q.turn \in AllTurns' \cup {0}
               /\ q.source \in Ids' \cup {0} /\ LinkOK(q)'
    <3>1. q \in Lineage(g, c) /\ g \in Ids' /\ cand'[c].status # "purged"
      BY <1>1, <1>2, <2>1, <2>2
    <3> QED
      BY <2>1, <3>1, LineageFacts
  <2>3. TableType'
    BY <1>0, <1>1, <1>2, <2>2 DEF TableType, Candidates
  <2>4. Grows
    BY EvidenceFacts
  <2> QED
    BY <1>1, <1>2, <2>2, <2>3, <2>4, CandidateStep
<1>3. CASE ~(g # 0 /\ prov' = prov \cup Lineage(g, c) /\ UNCHANGED rows)
  <2> DEFINE row == Published(c, d, "history")
             r == [row EXCEPT !.status = "superseded", !.hush = TRUE, !.by = t]
  <2>1. /\ rows' = Append(rows, r)
        /\ prov' = prov \cup Lineage(m, c) \cup {Link(m, 0, None, t)}
    BY <1>3, <1>m, <1>t, Zenon DEF PublishHistory
  <2>2. /\ row \in MemoryRow /\ row.kind = "derived" /\ row.content = d.content
        /\ row.source = Min(cand[c].evidence) /\ row.oath = cand[c].oath /\ row.proof = c
        /\ row.origin = c /\ row.how = "history" /\ row.grounded
        /\ row.from = d.time
    BY PublishedFacts
  <2>3. d.content \in Contents
    BY ReadingTypes
  <2>4. t \in Ids /\ rows[t].status = "active" /\ rows[t].grounded
    BY <1>t DEF ActiveGraph
  <2>5. /\ t \in Nat /\ rows \in Seq(MemoryRow) /\ DOMAIN rows = Ids
        /\ \A j \in Ids : Quiet(rows[j], rows[j])
    BY <1>0, <2>4, RowTypes, QuietSelf DEF TableType, Ids
  <2> HIDE DEF row
  <2>6. /\ r \in MemoryRow /\ r.status = "superseded" /\ r.content = d.content
        /\ r.source = Min(cand[c].evidence) /\ r.oath = cand[c].oath /\ r.proof = c
        /\ r.origin = c /\ r.how = "history" /\ r.by = t /\ r.grounded /\ r.from = row.from
        /\ r.kind = "derived"
    BY <2>2, <2>5 DEF MemoryRow, Statuses
  <2> HIDE DEF r
  <2>7. /\ rows' \in Seq(MemoryRow) /\ Ids' = Ids \cup {m} /\ rows'[m] = r
        /\ \A j \in Ids : rows'[j] = rows[j]
    BY <2>1, <2>5, <2>6, <1>m, Appended
  <2>8. TimeOK(m)'
    <3>1. rows'[t].from = rows[t].from /\ rows'[t].grounded /\ t \in Ids'
      BY <2>4, <2>7
    <3>2. r.from < rows[t].from
      BY <1>t, <2>2, <2>6
    <3> QED
      BY <2>6, <2>7, <3>1, <3>2 DEF TimeOK
  <2>9. PICK more : more = {Link(Len(rows) + 1, 0, None, t)}
    OBVIOUS
  <2>10. /\ \A q \in more : \E source \in Ids :
               q = Link(Len(rows) + 1, 0, None, source) /\ rows[source].status # "deleted"
         /\ prov' = prov \cup Lineage(Len(rows) + 1, c) \cup more
    BY <1>m, <2>1, <2>4, <2>9
  <2>11. /\ r.status \in {"active", "superseded"} /\ r.content \in Contents
         /\ Len(rows) = Len(rows)
         /\ r.status = "active" =>
              \A j \in Ids : rows[j].content = r.content =>
                 rows[j].status # "active" /\ ~(rows[j].status = "retired" /\ rows[j].grounded)
         /\ r.how \in {"supersede", "history"} => \A n : n = Len(rows) + 1 => TimeOK(n)'
    BY <1>m, <2>3, <2>6, <2>8
  <2> QED
    BY <1>0, <2>1, <2>5, <2>6, <2>10, <2>11, FreshRow
<1> QED
  BY <1>2, <1>3

\* A step that changes the memory the model named, and gives it the lineage.
LEMMA TargetStep ==
    ASSUME DerivInv, TableInv, NEW c \in Candidates,
           cand[c].status = "pending", \A t \in cand[c].evidence : TurnLive(t),
           UNCHANGED <<oaths, turns>>, Settled(c, "done"),
           NEW m \in Ids, NEW r \in MemoryRow, rows' = [rows EXCEPT ![m] = r],
           r.status = "active", rows[m].status = "active", r.content # None, r.origin = rows[m].origin,
           r.source \in {rows[m].source} \cup cand[c].evidence,
           r.oath \in {rows[m].oath, 0} \cup cand[c].evidence,
           r.grounded => r.proof # None \/ r.oath # 0,
           TimeKept(r, rows[m]),
           \A j \in Ids \ {m} : PairOK(r, rows[j]) /\ PairOK(rows[j], r),
           prov' \subseteq prov \cup Lineage(m, c) \cup {Link(m, t, None, 0) : t \in cand[c].evidence}
    PROVE  TableInv'
<1>0. /\ TableType /\ RowOK(rows[m], AllTurns) /\ oaths' \in Seq([says : Contents, live : BOOLEAN])
  BY DEF TableInv, TableType, RowsInv
<1>1. /\ cand' \in [Candidates -> CandidateRow] /\ cand'[c].status = "done"
      /\ \A b \in Candidates : Calm(b) /\ (cand'[b].status = "purged" => cand[b].status = "purged")
  BY SettledFacts
<1>2. /\ cand[c].evidence \subseteq AllTurns
      /\ \A t \in cand[c].evidence \cup {0} : ~TurnPurged(t)'
      /\ Grows /\ AllTurns' = AllTurns
  BY EvidenceFacts
<1>3. Ids' = Ids /\ Ids' \in SUBSET Nat
  BY <1>0, RowTypes, RowsFunction DEF Ids
<1>4. ASSUME NEW q \in prov', q \notin prov
      PROVE  /\ q \in Provenance /\ q.memory \in Ids' /\ q.turn \in AllTurns' \cup {0}
             /\ q.source \in Ids' \cup {0} /\ LinkOK(q)'
  <2>1. \/ q \in Lineage(m, c)
        \/ \E t \in cand[c].evidence \cup {0}, source \in Ids' \cup {0} :
              /\ q = Link(m, t, None, source)
              /\ source = 0 \/ rows'[source].status # "deleted"
    BY <1>4
  <2>2. m \in Ids' /\ cand'[c].status # "purged"
    BY <1>1, <1>3
  <2> QED
    BY <1>3, <2>1, <2>2, LineageFacts
<1>5. /\ prov' \in SUBSET Provenance
      /\ \A q \in prov' : \/ q \in prov
                          \/ /\ q.memory \in Ids' /\ q.turn \in AllTurns' \cup {0}
                             /\ q.source \in Ids' \cup {0} /\ LinkOK(q)'
  BY <1>0, <1>4 DEF TableType
<1>6. RowOK(r, AllTurns')
  BY <1>0, <1>2 DEF RowOK
<1>7. /\ \A t : t = r.source => r.source = rows[m].source \/ ~TurnPurged(t)'
      /\ \A t : t = r.oath => r.oath = rows[m].oath \/ ~TurnPurged(t)'
  BY <1>2
<1> QED
  BY <1>0, <1>1, <1>2, <1>5, <1>6, <1>7, ChangeStep

LEMMA EquivalentStep ==
    ASSUME DerivInv, TableInv, NEW c \in Candidates, NEW d \in Readings(c),
           cand[c].status = "pending", \A t \in cand[c].evidence : TurnLive(t),
           UNCHANGED <<oaths, turns>>, d.target \in ActiveGraph, PublishEquivalent(c, d)
    PROVE  TableInv'
<1>t. PICK m : m = d.target
  OBVIOUS
<1> DEFINE r == IF cand[c].oath # 0 THEN [rows[m] EXCEPT !.oath = cand[c].oath] ELSE rows[m]
<1>0. /\ TableType /\ rows \in [Ids -> MemoryRow] /\ WordingInv /\ RowsInv
  BY RowsFunction DEF TableInv
<1>1. m \in Ids /\ rows[m].status = "active" /\ rows[m].grounded /\ rows[m] \in MemoryRow
  BY <1>0, <1>t DEF ActiveGraph
<1>2. cand[c].oath \in Nat /\ (cand[c].oath = 0 \/ cand[c].oath \in cand[c].evidence)
  BY EvidenceFacts
<1>3. /\ Settled(c, "done") /\ rows' = [rows EXCEPT ![m] = r]
      /\ prov' \subseteq prov \cup Lineage(m, c) \cup {Link(m, t, None, 0) : t \in cand[c].evidence}
  <2>1. CASE cand[c].oath # 0
    BY <1>0, <1>1, <1>2, <1>t, <2>1 DEF PublishEquivalent
  <2>2. CASE cand[c].oath = 0
    <3>1. rows' = rows /\ prov' = prov \cup Lineage(m, c) \cup {} /\ Settled(c, "done")
      BY <1>t, <2>2, Zenon DEF PublishEquivalent
    <3>2. r = rows[m]
      BY <2>2
    <3> QED
      BY <1>0, <1>1, <3>1, <3>2
  <2> QED
    BY <2>1, <2>2
<1>4. /\ r \in MemoryRow /\ r.status = "active" /\ r.kind = rows[m].kind
      /\ r.grounded = rows[m].grounded /\ r.content = rows[m].content
      /\ r.source = rows[m].source /\ r.proof = rows[m].proof
      /\ r.origin = rows[m].origin /\ r.supersedes = rows[m].supersedes /\ r.by = rows[m].by
      /\ r.from = rows[m].from /\ r.how = rows[m].how /\ r.back = rows[m].back
      /\ r.oath = IF cand[c].oath # 0 THEN cand[c].oath ELSE rows[m].oath
  BY <1>1, <1>2 DEF MemoryRow
<1> HIDE DEF r
<1>5. RowOK(rows[m], AllTurns)
  BY <1>0, <1>1 DEF RowsInv
<1>6. /\ r.content # None /\ r.source \in {rows[m].source} \cup cand[c].evidence
      /\ r.oath \in {rows[m].oath, 0} \cup cand[c].evidence
      /\ r.grounded => r.proof # None \/ r.oath # 0
  BY <1>1, <1>2, <1>4, <1>5 DEF RowOK
<1>7. TimeKept(r, rows[m])
  BY <1>1, <1>4 DEF TimeKept
<1>8. ASSUME NEW j \in Ids \ {m} PROVE PairOK(r, rows[j]) /\ PairOK(rows[j], r)
  <2>1. PairOK(rows[m], rows[j]) /\ PairOK(rows[j], rows[m])
    BY <1>0, <1>1, <1>8 DEF WordingInv
  <2> QED
    BY <1>1, <1>4, <2>1 DEF PairOK
<1> QED
  BY <1>1, <1>3, <1>4, <1>6, <1>7, <1>8, TargetStep

LEMMA GroundStep ==
    ASSUME DerivInv, TableInv, NEW c \in Candidates, NEW d \in Readings(c),
           cand[c].status = "pending", \A t \in cand[c].evidence : TurnLive(t),
           UNCHANGED <<oaths, turns>>, 0 \in Restriction(d.content),
           Active(d.content) \subseteq {d.target}, d.target \in LegacyGraph, PublishGround(c, d)
    PROVE  TableInv'
<1>t. PICK m : m = d.target
  OBVIOUS
<1>e. PICK source, oath : source = Min(cand[c].evidence) /\ oath = cand[c].oath
  OBVIOUS
<1> DEFINE r == [rows[m] EXCEPT !.content = d.content, !.grounded = TRUE, !.proof = c,
                                !.oath = oath, !.source = source, !.from = d.time]
<1>0. /\ TableType /\ rows \in [Ids -> MemoryRow] /\ WordingInv /\ TimesInv
      /\ None \notin Contents /\ None \notin Candidates
  BY RowsFunction, MemoryAssumption DEF TableInv, Candidates
<1>1. m \in Ids /\ rows[m].status = "active" /\ ~rows[m].grounded /\ rows[m] \in MemoryRow
  BY <1>0, <1>t DEF LegacyGraph
<1>2. /\ oath \in Nat /\ (oath = 0 \/ oath \in cand[c].evidence)
      /\ source \in cand[c].evidence /\ source \in Nat
  BY <1>e, EvidenceFacts
<1>3. d.content \in Contents /\ d.time \in Nat
  BY ReadingTypes
<1>4. /\ Settled(c, "done") /\ rows' = [rows EXCEPT ![m] = r]
      /\ prov' \subseteq prov \cup Lineage(m, c) \cup {Link(m, t, None, 0) : t \in cand[c].evidence}
  BY <1>t, <1>e DEF PublishGround
<1>5. /\ r \in MemoryRow /\ r.status = "active" /\ r.kind = rows[m].kind
      /\ r.grounded /\ r.content = d.content
      /\ r.source = source /\ r.proof = c /\ r.oath = oath
      /\ r.origin = rows[m].origin /\ r.supersedes = rows[m].supersedes /\ r.by = rows[m].by
      /\ r.how = rows[m].how /\ r.back = rows[m].back
  BY <1>1, <1>2, <1>3 DEF MemoryRow
<1> HIDE DEF r
<1>6. /\ r.content # None /\ r.source \in {rows[m].source} \cup cand[c].evidence
      /\ r.oath \in {rows[m].oath, 0} \cup cand[c].evidence
      /\ r.grounded => r.proof # None \/ r.oath # 0
  BY <1>0, <1>2, <1>3, <1>5
<1>7. TimeKept(r, rows[m])
  <2>1. TimeOK(m)
    BY <1>0, <1>1 DEF TimesInv
  <2> QED
    BY <1>1, <1>5, <2>1 DEF TimeKept, TimeOK
<1>8. ASSUME NEW j \in Ids \ {m} PROVE PairOK(r, rows[j]) /\ PairOK(rows[j], r)
  <2>1. PairOK(rows[m], rows[j]) /\ PairOK(rows[j], rows[m])
    BY <1>0, <1>1, <1>8 DEF WordingInv
  <2>2. ~(rows[j].status = "active" /\ rows[j].content = d.content)
    BY <1>8, <1>t DEF Active
  <2>3. rows[j].content = d.content => ~(rows[j].status = "retired" /\ rows[j].grounded)
    BY <1>8, NoRestriction
  <2> QED
    BY <1>1, <1>5, <2>1, <2>2, <2>3 DEF PairOK
<1> QED
  BY <1>1, <1>4, <1>5, <1>6, <1>7, <1>8, TargetStep

LEMMA ConflictStep ==
    ASSUME DerivInv, TableInv, NEW c \in Candidates, NEW d \in Readings(c),
           cand[c].status = "pending", \A t \in cand[c].evidence : TurnLive(t),
           UNCHANGED <<oaths, turns>>, d.target \in ActiveGraph, PublishConflict(c, d)
    PROVE  TableInv'
<1>t. PICK m : m = d.target
  OBVIOUS
<1> DEFINE r == [cand[c] EXCEPT !.status = "awaiting", !.clash = m]
<1>0. TableType /\ CandidateOK(c) /\ cand[c] \in CandidateRow
  BY DEF TableInv, TableType, CandidatesInv
<1>1. m \in Ids /\ m \in Nat
  BY <1>0, <1>t, RowTypes DEF ActiveGraph
<1>2. cand' = [cand EXCEPT ![c] = r] /\ UNCHANGED <<rows, prov>>
  BY <1>t DEF PublishConflict
<1>3. /\ r \in CandidateRow /\ r.clash = m /\ r.evidence = cand[c].evidence
      /\ r.oath = cand[c].oath /\ r.op = cand[c].op /\ r.target = cand[c].target
      /\ r.status = "awaiting"
  BY <1>0, <1>1 DEF CandidateRow
<1> HIDE DEF r
<1>4. /\ cand' \in [Candidates -> CandidateRow] /\ cand'[c] = r
      /\ \A b \in Candidates \ {c} :
            /\ Calm(b)
            /\ cand'[b].status = "purged" => cand[b].status = "purged"
  BY <1>2, <1>3, CandidateChanged
<1>5. Grows /\ AllTurns' = AllTurns
  BY GrowsSame
<1>6. CandidateOK(c)'
  BY <1>0, <1>1, <1>2, <1>3, <1>4, <1>5 DEF CandidateOK, Ids
<1>7. TableType'
  BY <1>0, <1>2, <1>4 DEF TableType, Candidates
<1> QED
  BY <1>2, <1>3, <1>4, <1>5, <1>6, <1>7, CandidateStep

LEMMA PublishStep ==
    ASSUME DerivInv, TableInv, NEW c \in Candidates, NEW d \in Readings(c), Publish(c, d)
    PROVE  TableInv'
<1>1. /\ cand[c].status = "pending" /\ \A t \in cand[c].evidence : TurnLive(t)
      /\ UNCHANGED <<oaths, turns>>
  BY PublishCases
<1>2. PICK g \in Restriction(d.content) :
         \/ Settled(c, "done") /\ UNCHANGED <<rows, prov>>
         \/ /\ g = 0 /\ Active(d.content) = {}
            /\ PublishCreate(c, d)
         \/ /\ g = 0 /\ Active(d.content) = {} /\ d.target \in ActiveGraph
            /\ \E relation \in {"narrows", "supersedes"} :
                  /\ relation = "supersedes" /\ cand[c].op = "upsert" =>
                        d.time > rows[d.target].from
                  /\ PublishReplace(c, d, relation)
         \/ d.target \in ActiveGraph /\ PublishEquivalent(c, d)
         \/ /\ g = 0 /\ Active(d.content) \subseteq {d.target} /\ d.target \in LegacyGraph
            /\ PublishGround(c, d)
         \/ /\ d.target \in ActiveGraph /\ d.time < rows[d.target].from
            /\ PublishHistory(c, d, g)
         \/ d.target \in ActiveGraph /\ PublishConflict(c, d)
  BY PublishCases
<1>3. CASE Settled(c, "done") /\ UNCHANGED <<rows, prov>>
  <2>1. /\ cand' \in [Candidates -> CandidateRow]
        /\ \A b \in Candidates : Calm(b) /\ (cand'[b].status = "purged" => cand[b].status = "purged")
    BY <1>3, SettledFacts
  <2>2. Grows /\ TableType'
    BY <1>1, <1>3, <2>1, GrowsSame DEF TableInv, TableType, Candidates
  <2> QED
    BY <1>3, <2>1, <2>2, CandidateStep
<1>4. CASE g = 0 /\ Active(d.content) = {} /\ PublishCreate(c, d)
  BY <1>1, <1>4, CreateStep
<1>5. ASSUME g = 0, Active(d.content) = {}, d.target \in ActiveGraph,
             NEW relation \in {"narrows", "supersedes"},
             relation = "supersedes" /\ cand[c].op = "upsert" => d.time > rows[d.target].from,
             PublishReplace(c, d, relation)
      PROVE  TableInv'
  BY <1>1, <1>5, ReplaceStep
<1>6. CASE d.target \in ActiveGraph /\ PublishEquivalent(c, d)
  BY <1>1, <1>6, EquivalentStep
<1>7. CASE /\ g = 0 /\ Active(d.content) \subseteq {d.target} /\ d.target \in LegacyGraph
           /\ PublishGround(c, d)
  BY <1>1, <1>7, GroundStep
<1>8. CASE /\ d.target \in ActiveGraph /\ d.time < rows[d.target].from
           /\ PublishHistory(c, d, g)
  BY <1>1, <1>8, HistoryStep
<1>9. CASE d.target \in ActiveGraph /\ PublishConflict(c, d)
  BY <1>1, <1>9, ConflictStep
<1> QED
  BY <1>2, <1>3, <1>4, <1>5, <1>6, <1>7, <1>8, <1>9
-----------------------------------------------------------------------------
(* The invariant.                                                          *)

LEMMA TableStart ==
    ASSUME NEW past \in Heritage, DerivInit(Spoken), MemoryInit(past)
    PROVE  TableInv
<1>1. /\ rows = past.rows /\ prov = {} /\ oaths = <<>>
      /\ cand = [c \in Candidates |-> NoCandidate]
  BY DEF MemoryInit
<1>2. /\ rows \in Seq(LegacyRows)
      /\ \A i, j \in Ids : i # j => rows[i].content # rows[j].content
  <2>1. /\ past.rows \in Seq(LegacyRows)
        /\ \A i, j \in DOMAIN past.rows : i # j => past.rows[i].content # past.rows[j].content
    BY HeritageAssumption DEF HeritageAssumption
  <2> QED
    BY <1>1, <2>1 DEF Ids
<1>3. Spoken \in Nat /\ Spoken <= MaxTurns /\ MaxTurns \in Nat
  BY SpokenAssumption, DerivativesAssumption
<1>4. /\ turns = [n \in 1..Spoken |-> "live"] /\ Len(turns) = Spoken
  <2>1. turns \in [1..Spoken -> {"live"}] /\ turns = [n \in 1..Spoken |-> "live"]
    BY DEF DerivInit
  <2> QED
    BY <1>3, <2>1, FunctionIsSeq
<1>5. Sequences = 1..Spoken /\ AllTurns = 1..Spoken
  <2>1. DOMAIN oaths = {}
    BY <1>1
  <2>2. Sequences = 1..Spoken
    BY <1>4 DEF Sequences
  <2> QED
    BY <2>1, <2>2 DEF AllTurns
<1>6. \A t \in AllTurns \cup {0} : ~TurnPurged(t)
  BY <1>3, <1>4, <1>5 DEF TurnPurged
<1>7. ASSUME NEW r \in LegacyRows
      PROVE  /\ r \in MemoryRow /\ r.status = "active" /\ r.content \in Contents /\ ~r.grounded
             /\ r.source \in 0..Spoken /\ r.oath = 0 /\ r.origin = None /\ r.how = "legacy"
  <2>1. PICK x \in Contents, t \in 0..Spoken, kind \in {"derived", "owner_directed"} :
           r = LegacyRow(x, t, kind)
    BY DEF LegacyRows
  <2>2. r = [status |-> "active", kind |-> kind, grounded |-> FALSE, content |-> x,
             hush |-> FALSE, source |-> t, oath |-> 0, proof |-> None, origin |-> None,
             supersedes |-> 0, by |-> 0, from |-> 0, how |-> "legacy", back |-> FALSE]
    BY <2>1 DEF LegacyRow, BlankRow
  <2>3. t \in Nat
    BY <1>3, <2>1
  <2>4. r \in MemoryRow
    BY <2>2, <2>3 DEF MemoryRow, Statuses, OWNER
  <2> QED
    BY <2>2, <2>4
<1>8. /\ rows \in Seq(MemoryRow)
      /\ \A i \in Ids : /\ rows[i].status = "active" /\ rows[i].content \in Contents
                        /\ ~rows[i].grounded /\ rows[i].source \in 0..Spoken /\ rows[i].oath = 0
                        /\ rows[i].origin = None /\ rows[i].how = "legacy"
  <2>1. /\ Len(rows) \in Nat /\ Ids = 1..Len(rows) /\ \A i \in Ids : rows[i] \in LegacyRows
        /\ rows \in [1..Len(rows) -> LegacyRows]
    BY <1>2, SeqProperties DEF Ids
  <2>2. rows \in [1..Len(rows) -> MemoryRow]
    BY <1>7, <2>1
  <2> QED
    BY <1>7, <2>1, <2>2, FunctionIsSeq
<1>9. NoCandidate \in CandidateRow
  BY DEF NoCandidate, CandidateRow
<1>10. None \notin Contents /\ None \notin Candidates
  BY MemoryAssumption DEF Candidates
<1>11. TableType
  BY <1>1, <1>8, <1>9 DEF TableType
<1>12. CandidatesInv
  BY <1>1, <1>8, <1>10 DEF CandidatesInv, CandidateOK, NoCandidate
<1>13. RowsInv
  BY <1>3, <1>5, <1>8, <1>10 DEF RowsInv, RowOK
<1>14. TimesInv
  BY <1>8 DEF TimesInv, TimeOK
<1>15. WordingInv
  BY <1>2, <1>8 DEF WordingInv, PairOK
<1>16. ProvenanceInv
  BY <1>1 DEF ProvenanceInv
<1>17. NothingRestsOnRemoved
  BY <1>1, <1>3, <1>5, <1>6, <1>8 DEF NothingRestsOnRemoved, Current
<1> QED
  BY <1>11, <1>12, <1>13, <1>14, <1>15, <1>16, <1>17 DEF TableInv

LEMMA TableStep ==
    ASSUME DerivInv, TableInv, MemoryNext
    PROVE  TableInv'
<1>1. CASE \E c \in Candidates, x \in Contents :
              \/ \E evidence \in SUBSET Standing : Propose(c, x, evidence)
              \/ \E t \in Ids \cup {0}, old \in Contents, op \in {"correction", "change"} :
                    Correct(c, x, t, old, op)
              \/ ConfirmCandidate(c, x)
  <2>1. PICK c \in Candidates, x \in Contents :
              \/ \E evidence \in SUBSET Standing : Propose(c, x, evidence)
              \/ \E t \in Ids \cup {0}, old \in Contents, op \in {"correction", "change"} :
                    Correct(c, x, t, old, op)
              \/ ConfirmCandidate(c, x)
    BY <1>1
  <2>2. CASE \E t \in Ids \cup {0}, old \in Contents, op \in {"correction", "change"} :
                Correct(c, x, t, old, op)
    BY <2>2, CorrectStep
  <2>3. CASE (\E evidence : Propose(c, x, evidence)) \/ ConfirmCandidate(c, x)
    BY <2>3, CandidateSteps
  <2> QED
    BY <2>1, <2>2, <2>3
<1>2. CASE \E c \in Candidates : \E d \in Readings(c) : Publish(c, d)
  BY <1>2, PublishStep
<1>3. ASSUME NEW c \in Candidates,
             \/ PublishWithoutEvidence(c) \/ PublishAwaits(c) \/ RejectCandidate(c)
             \/ \E keep \in BOOLEAN : AnswerConflict(c, keep)
             \/ DeleteChatOfMemories
      PROVE  TableInv'
  <2>1. \E x : x \in Contents
    BY MemoryAssumption, DerivativesAssumption
  <2> QED
    BY <1>3, <2>1, CandidateSteps
<1>4. CASE \E i \in Ids : \E x \in Contents : ConfirmMemory(i, x)
  BY <1>4, ConfirmMemoryStep
<1>5. CASE \E i \in Ids : RejectMemory(i) \/ RetireRow(i)
  BY <1>5, RetireSteps
<1>6. CASE \E i \in Ids : Restore(i)
  BY <1>6, RestoreStep
<1>7. ASSUME NEW i \in Ids, NEW withSources, DeleteRow(i, withSources) PROVE TableInv'
  <2>1. Delete({i}, rows[i].content, withSources) /\ {i} \in SUBSET Ids
    BY <1>7 DEF DeleteRow
  <2> QED
    BY <2>1, DeleteStep
<1>8. CASE \E x \in Contents : RetireWording(x)
  BY <1>8, RetireWordingStep
<1>9. ASSUME NEW x \in Contents, NEW withSources, DeleteWording(x, withSources) PROVE TableInv'
  <2>1. \E target \in SUBSET Ids : Delete(target, x, withSources)
    <3> DEFINE having(S) == {i \in Ids : rows[i].content = x /\ rows[i].status \in S}
    <3>1. \/ Delete({}, x, withSources)
          \/ \E i \in having({"active"}) \cup having({"retired"}) \cup having({"superseded"}) :
                Delete({i}, x, withSources)
      BY <1>9 DEF DeleteWording
    <3>2. \/ Delete({}, x, withSources)
          \/ \E i \in Ids : Delete({i}, x, withSources)
      BY <3>1
    <3>3. {} \in SUBSET Ids /\ \A i \in Ids : {i} \in SUBSET Ids
      OBVIOUS
    <3> QED
      BY <3>2, <3>3
  <2> QED
    BY <2>1, DeleteStep
<1>10. CASE DeleteChatOfMemories
  <2>1. CASE \E c : c \in Candidates
    BY <1>3, <1>10, <2>1
  <2>2. CASE ~\E c : c \in Candidates
    <3>1. /\ DeleteChat /\ UNCHANGED <<rows, prov, oaths>> /\ TableType
          /\ \E cs : Wiped(cs, "invalidated")
      BY <1>10 DEF DeleteChatOfMemories, TableInv
    <3>2. Grows /\ cand' \in [Candidates -> CandidateRow]
      BY <3>1, GrowsErased, InvalidatedFacts
    <3>3. TableType'
      BY <3>1, <3>2 DEF TableType, Candidates
    <3> QED
      BY <2>2, <3>1, <3>2, <3>3, CandidateStep
  <2> QED
    BY <2>1, <2>2
<1> QED
  BY <1>1, <1>2, <1>3, <1>4, <1>5, <1>6, <1>7, <1>8, <1>9, <1>10 DEF MemoryNext

(* Whatever sequence of publications and owner commands there was, the     *)
(* table of memories, its candidates and its provenance are as TableInv    *)
(* says; where maintenance runs there is no memory.                        *)
THEOREM MemoryInvariant == Spec => []MemoryInv
<1>1. Init => MemoryInv
  <2> SUFFICES ASSUME Init PROVE MemoryInv
    OBVIOUS
  <2>1. CASE "memory" \in awake
    <3>1. DerivInit(Spoken) /\ \E past \in Heritage : MemoryInit(past)
      BY <2>1 DEF Init
    <3> QED
      BY <2>1, <3>1, TableStart DEF MemoryInv
  <2>2. CASE "memory" \notin awake
    BY <2>2 DEF Init, MemoryInit, NothingYet, MemoryInv
  <2> QED
    BY <2>1, <2>2
<1>2. DerivInv /\ MemoryInv /\ [Next]_vars => MemoryInv'
  <2> SUFFICES ASSUME DerivInv, MemoryInv, [Next]_vars PROVE MemoryInv'
    OBVIOUS
  <2>1. CASE "memory" \in awake /\ MemoryNext /\ awake' = awake
    BY <2>1, TableStep DEF MemoryInv
  <2>2. CASE UNCHANGED memoryVars /\ "memory" \notin awake /\ awake' = awake
    BY <2>2 DEF MemoryInv, memoryVars
  <2>3. CASE UNCHANGED vars
    <3>1. UNCHANGED <<awake, rows, prov, cand, oaths, turns>>
      BY <2>3 DEF vars, memoryVars, derivVars
    <3>2. CASE "memory" \in awake
      <4>1. TableInv /\ awake' = awake
        BY <3>1, <3>2 DEF MemoryInv
      <4>2. TableType'
        BY <3>1, <4>1 DEF TableInv, TableType, Candidates
      <4>3. \A c \in Candidates : Calm(c) /\ (cand'[c].status = "purged" => cand[c].status = "purged")
        BY <3>1, <4>1, CalmSame
      <4>4. Grows
        BY <3>1, GrowsSame
      <4>5. TableInv'
        BY <3>1, <4>1, <4>2, <4>3, <4>4, CandidateStep
      <4> QED
        BY <3>2, <4>1, <4>5 DEF MemoryInv
    <3>3. CASE "memory" \notin awake
      BY <3>1, <3>3 DEF MemoryInv
    <3> QED
      BY <3>2, <3>3
  <2> QED
    BY <2>1, <2>2, <2>3 DEF Next
<1> QED
  BY <1>1, <1>2, DerivInvariant, PTL DEF Spec

(* What memory.delete removed grounds nothing that is kept: no memory that *)
(* is not deleted has a removed turn, candidate or memory behind it.       *)
THEOREM NothingKeptRestsOnRemoved == Spec => []NothingRestsOnRemoved
<1>1. MemoryInv => NothingRestsOnRemoved
  <2>1. CASE "memory" \in awake
    BY <2>1 DEF MemoryInv, TableInv
  <2>2. CASE rows = <<>>
    BY <2>2 DEF NothingRestsOnRemoved, Current, Ids
  <2> QED
    BY <2>1, <2>2 DEF MemoryInv
<1> QED
  BY <1>1, MemoryInvariant, PTL

(* One active memory for a wording, one memory for a candidate, verified   *)
(* memories with a proof, replacements in the order of event time.         *)
THEOREM TableStaysConsistent == Spec => []MemoryTableConsistent
<1>1. MemoryInv => MemoryTableConsistent
  <2>1. CASE "memory" \in awake
    <3> SUFFICES ASSUME TableInv PROVE MemoryTableConsistent
      BY <2>1 DEF MemoryInv
    <3>1. ASSUME NEW i \in Current, NEW j \in Current, i # j
          PROVE  /\ rows[i].status = "active" /\ rows[j].status = "active" =>
                       rows[i].content # rows[j].content
                 /\ rows[i].origin # None => rows[i].origin # rows[j].origin
                 /\ /\ rows[i].status = "active" /\ rows[i].content = rows[j].content
                    /\ rows[j].status = "retired" /\ rows[j].grounded
                    => rows[i].back
      BY <3>1 DEF TableInv, WordingInv, PairOK, Current
    <3>2. ASSUME NEW i \in Current
          PROVE  /\ rows[i].grounded => rows[i].proof # None \/ rows[i].oath # 0
                 /\ rows[i].how = "supersede" => rows[i].from > rows[rows[i].supersedes].from
                 /\ rows[i].how = "history" => rows[i].from < rows[rows[i].by].from
      BY <3>2 DEF TableInv, RowsInv, RowOK, TimesInv, TimeOK, Current
    <3> QED
      BY <3>1, <3>2 DEF MemoryTableConsistent
  <2>2. CASE rows = <<>>
    BY <2>2 DEF MemoryTableConsistent, Current, Ids
  <2> QED
    BY <2>1, <2>2 DEF MemoryInv
<1> QED
  BY <1>1, MemoryInvariant, PTL

=============================================================================
