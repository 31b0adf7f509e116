-------------------------- MODULE TxRequestProofs ---------------------------
(***************************************************************************)
(* Proofs about TxRequest: the orders of the index put the right           *)
(* announcement next to the right one, so that each call keeps             *)
(* SanityCheck and does what TxRequestTracker promises.                    *)
(***************************************************************************)
EXTENDS TxRequest, FiniteSetTheorems, WellFoundedInduction, TLAPS

\* Every non-empty set of naturals has a least element.
LEMMA NatMin ==
  ASSUME NEW T \in SUBSET Nat, T # {}
  PROVE  \E x \in T : \A y \in T : x <= y
<1>1. PICK x \in T : \A y \in T : ~ (<<y, x>> \in OpToRel(<, Nat))
  BY Zenon, NatLessThanWellFounded, WFMin
<1>2. ASSUME NEW y \in T PROVE x <= y
  <2>1. SUFFICES ASSUME y < x PROVE FALSE
    OBVIOUS
  <2>2. <<y, x>> \in Nat \X Nat /\ <<y, x>>[1] < <<y, x>>[2]
    BY <2>1
  <2>3. <<y, x>> \in OpToRel(<, Nat)
    BY <2>2, Zenon DEF OpToRel
  <2> QED BY Zenon, <2>3, <1>1
<1> QED BY <1>2

\* Every non-empty bounded set of naturals has a greatest element.
LEMMA NatMax ==
  ASSUME NEW B \in Nat, NEW T \in SUBSET (0..B), T # {}
  PROVE  \E x \in T : \A y \in T : y <= x
<1> DEFINE U == {n \in Nat : B - n \in T}
<1>1. \A y \in T : B - y \in U
  <2> TAKE y \in T
  <2>1. B - y \in Nat /\ B - (B - y) = y
    OBVIOUS
  <2> QED BY <2>1
<1>2. PICK u \in U : \A v \in U : u <= v
  BY Zenon, <1>1, NatMin
<1> QED BY <1>1, <1>2
-----------------------------------------------------------------------------
(* Priorities and places in the ByTxHash order                             *)

Row == [Peer -> Announcement]

\* The priorities of a transaction's announcements are bounded naturals that
\* tell the peers apart.
LEMMA PriorityIsInjective ==
  ASSUME NEW t \in TxHash, NEW row \in Row
  PROVE  /\ 2 * MaxSalt + 1 \in Nat
         /\ \A p \in Peer : Priority(t, p, row[p].preferred) \in 0..(2 * MaxSalt + 1)
         /\ \A p, q \in Peer :
              Priority(t, p, row[p].preferred) = Priority(t, q, row[q].preferred) => p = q
<1>1. MaxSalt \in Nat
  BY SaltAssumption
<1>2. \A p \in Peer : Salt[t][p] \in 0..MaxSalt
  BY SaltAssumption
<1>3. \A p \in Peer : row[p].preferred \in BOOLEAN
  BY DEF Row, Announcement
<1>4. ASSUME NEW p \in Peer
      PROVE  Priority(t, p, row[p].preferred) \in 0..(2 * MaxSalt + 1)
  BY <1>1, <1>2 DEF Priority
<1>5. ASSUME NEW p \in Peer, NEW q \in Peer,
             Priority(t, p, row[p].preferred) = Priority(t, q, row[q].preferred)
      PROVE  p = q
  <2>1. Salt[t][p] = Salt[t][q]
    BY <1>1, <1>2, <1>5 DEF Priority
  <2> QED BY <2>1, SaltAssumption
<1> QED BY <1>1, <1>4, <1>5

\* A candidate that is not the best ready one has a ready one right behind it.
LEMMA ReadyAbove ==
  ASSUME NEW t \in TxHash, NEW row \in Row, NEW p \in Peer,
         row[p].state \in {"CANDIDATE_DELAYED", "CANDIDATE_READY"},
         NEW r \in Peer, row[r].state = "CANDIDATE_READY", Before(t, row, p, r)
  PROVE  \E n \in NextOf(t, row, p) : row[n].state = "CANDIDATE_READY"
<1> DEFINE S == {q \in Peer : row[q].state = "CANDIDATE_READY" /\ Before(t, row, p, q)}
           T == {Priority(t, q, row[q].preferred) : q \in S}
<1>1. \A q \in Peer : Priority(t, q, row[q].preferred) \in Nat
  BY PriorityIsInjective
<1>2. T \in SUBSET Nat /\ T # {}
  BY <1>1
<1>3. PICK x \in T : \A y \in T : x <= y
  BY Zenon, <1>2, NatMin
<1>4. PICK n \in S : x = Priority(t, n, row[n].preferred)
  BY <1>3
<1>5. ASSUME NEW q \in Peer, Tracked(row[q]), Before(t, row, p, q), Before(t, row, q, n)
      PROVE  FALSE
  <2>1. row[q].state = "CANDIDATE_READY"
    BY <1>4, <1>5 DEF Before, Rank, Tracked
  <2>2. Priority(t, q, row[q].preferred) \in T
    BY <2>1, <1>5
  <2>3. Priority(t, q, row[q].preferred) < Priority(t, n, row[n].preferred)
    BY <1>4, <1>5, <2>1 DEF Before, Rank, Better
  <2> QED BY <1>1, <1>3, <1>4, <2>2, <2>3
<1>6. n \in NextOf(t, row, p)
  BY <1>4, <1>5 DEF NextOf, Tracked
<1> QED BY <1>4, <1>6

OneSelected(row) ==
  \A p, q \in Peer : IsSelected(row[p]) /\ IsSelected(row[q]) => p = q

\* Otherwise the selected announcement, if any, is right behind it.
LEMMA SelectedNext ==
  ASSUME NEW t \in TxHash, NEW row \in Row, OneSelected(row), NEW p \in Peer,
         row[p].state \in {"CANDIDATE_DELAYED", "CANDIDATE_READY"},
         \A r \in Peer : row[r].state = "CANDIDATE_READY" => ~Before(t, row, p, r),
         NEW q \in Peer, IsSelected(row[q])
  PROVE  q \in NextOf(t, row, p) /\ \A n \in NextOf(t, row, p) : n = q
<1>1. Tracked(row[q]) /\ Before(t, row, p, q)
  BY DEF IsSelected, Tracked, Before, Rank
<1>2. ASSUME NEW r \in Peer, Tracked(row[r]), Before(t, row, p, r), r # q
      PROVE  row[r].state = "COMPLETED"
  BY <1>2 DEF Before, Rank, OneSelected, IsSelected, Tracked, Row, Announcement
<1>3. ASSUME NEW r \in Peer, row[r].state = "COMPLETED"
      PROVE  Before(t, row, q, r) /\ ~Before(t, row, r, q)
  BY <1>3 DEF Before, Rank, IsSelected
<1>4. ~Before(t, row, q, q)
  BY DEF Before, Rank, IsSelected
<1> QED BY <1>1, <1>2, <1>3, <1>4 DEF NextOf

\* Right before the selected announcement is the best ready candidate.
LEMMA ReadyBelow ==
  ASSUME NEW t \in TxHash, NEW row \in Row, OneSelected(row), NEW p \in Peer,
         IsSelected(row[p]), NEW r \in Peer, row[r].state = "CANDIDATE_READY"
  PROVE  \E n \in PrevOf(t, row, p) :
           /\ row[n].state = "CANDIDATE_READY"
           /\ \A q \in Peer \ {n} :
                /\ row[q].state = "CANDIDATE_READY" => Better(t, n, row[n], q, row[q])
                /\ q \in PrevOf(t, row, p) => row[q].state # "CANDIDATE_READY"
<1> DEFINE S == {q \in Peer : row[q].state = "CANDIDATE_READY"}
           T == {Priority(t, q, row[q].preferred) : q \in S}
<1>1. \A q \in Peer : Priority(t, q, row[q].preferred) \in Nat
  BY PriorityIsInjective
<1>2. T \in SUBSET (0..(2 * MaxSalt + 1)) /\ T # {} /\ 2 * MaxSalt + 1 \in Nat
  BY PriorityIsInjective
<1>3. PICK x \in T : \A y \in T : y <= x
  BY Zenon, <1>2, NatMax
<1>4. PICK n \in S : x = Priority(t, n, row[n].preferred)
  BY <1>3
<1>5. ASSUME NEW q \in Peer \ {n}, row[q].state = "CANDIDATE_READY"
      PROVE  Better(t, n, row[n], q, row[q])
  <2>1. Priority(t, q, row[q].preferred) \in T
    BY <1>5
  <2>2. Priority(t, q, row[q].preferred) <= Priority(t, n, row[n].preferred)
    BY <1>3, <1>4, <2>1
  <2>3. Priority(t, q, row[q].preferred) # Priority(t, n, row[n].preferred)
    BY <1>4, PriorityIsInjective
  <2> QED BY <1>1, <1>4, <2>2, <2>3 DEF Better
<1>6. \A q \in Peer : Tracked(row[q]) /\ Before(t, row, q, p) => ~Before(t, row, n, q)
  <2> SUFFICES ASSUME NEW q \in Peer, Tracked(row[q]), Before(t, row, q, p), Before(t, row, n, q)
               PROVE  FALSE
    OBVIOUS
  <2>1. row[q].state = "CANDIDATE_READY" \/ IsSelected(row[q])
    BY <1>4 DEF Before, Rank, IsSelected, Tracked, Row, Announcement
  <2>2. q # p
    BY DEF Before, Rank, IsSelected
  <2>3. row[q].state = "CANDIDATE_READY" /\ Better(t, q, row[q], n, row[n])
    BY <1>4, <2>1, <2>2 DEF OneSelected, Before, Rank, IsSelected
  <2>4. q # n
    BY <2>3, <1>1 DEF Better
  <2> QED BY <1>1, <1>4, <1>5, <2>3, <2>4 DEF Better
<1>7. Tracked(row[n]) /\ Before(t, row, n, p)
  BY <1>4 DEF Tracked, Before, Rank, IsSelected
<1>8. n \in PrevOf(t, row, p)
  BY <1>4, <1>6, <1>7 DEF PrevOf
<1>9. ASSUME NEW q \in Peer \ {n}, q \in PrevOf(t, row, p), row[q].state = "CANDIDATE_READY"
      PROVE  FALSE
  <2>1. Before(t, row, q, n)
    BY <1>4, <1>5, <1>9 DEF Before
  <2> QED BY Zenon, <1>4, <1>7, <1>9, <2>1 DEF PrevOf
<1> QED BY Zenon, <1>4, <1>5, <1>8, <1>9
-----------------------------------------------------------------------------
(* What the helpers do to the announcements of one transaction             *)

\* A well-formed row: an announcement that is not tracked has no data.
RowOK(row) == row \in Row /\ \A p \in Peer : row[p].state = "NOTHING" => row[p] = Absent

\* Changing the state of an announcement changes nothing else.
LEMMA StateChange ==
  ASSUME NEW row \in Row, NEW p \in Peer,
         NEW s \in {"CANDIDATE_DELAYED", "CANDIDATE_READY", "CANDIDATE_BEST", "REQUESTED", "COMPLETED"}
  PROVE  LET a == [row[p] EXCEPT !.state = s]
         IN  /\ a \in Announcement /\ a.state = s /\ a.time = row[p].time
             /\ a.preferred = row[p].preferred /\ a.sequence = row[p].sequence
BY DEF Row, Announcement

\* What a change of one state leaves as it was.
SameData(row, new) ==
  \A q \in Peer : /\ new[q].time = row[q].time
                  /\ new[q].preferred = row[q].preferred
                  /\ new[q].sequence = row[q].sequence

\* A row in which only states change is still a row of the same data.
LEMMA RowChange ==
  ASSUME NEW row \in Row, NEW new, new = [q \in Peer |-> new[q]],
         \A q \in Peer :
           \/ new[q] = row[q]
           \/ \E s \in {"CANDIDATE_DELAYED", "CANDIDATE_READY", "CANDIDATE_BEST", "REQUESTED", "COMPLETED"} :
                new[q] = [row[q] EXCEPT !.state = s]
  PROVE  new \in Row /\ SameData(row, new)
<1>1. ASSUME NEW q \in Peer
      PROVE  /\ new[q] \in Announcement /\ new[q].time = row[q].time
             /\ new[q].preferred = row[q].preferred /\ new[q].sequence = row[q].sequence
  <2>1. CASE new[q] = row[q]
    BY <2>1 DEF Row
  <2>2. CASE new[q] # row[q]
    <3>1. PICK s \in {"CANDIDATE_DELAYED", "CANDIDATE_READY", "CANDIDATE_BEST", "REQUESTED", "COMPLETED"} :
            new[q] = [row[q] EXCEPT !.state = s]
      BY <2>2
    <3> HIDE <2>2
    <3>2. row[q] \in Announcement
      BY DEF Row
    <3> QED BY <3>1, <3>2 DEF Announcement
  <2> QED BY <2>1, <2>2
<1>2. new \in Row
  BY Zenon, <1>1 DEF Row
<1> QED BY <1>1, <1>2 DEF SameData

\* A row where the announcement of p changed, and one of another peer may have
\* gone from one state to another with it.
Others(row, new, p, from, to) ==
  \A q \in Peer \ {p} :
    \/ new[q].state = row[q].state
    \/ row[q].state = from /\ new[q].state = to

\* A row where p was asked and the announcement that was selected is not.
Displaces(row, new, p, expiry) ==
  /\ new[p].state = "REQUESTED" /\ new[p].time = expiry
  /\ new[p].preferred = row[p].preferred /\ new[p].sequence = row[p].sequence
  /\ \A q \in Peer \ {p} :
       /\ new[q].time = row[q].time /\ new[q].preferred = row[q].preferred
       /\ new[q].sequence = row[q].sequence
       /\ \/ new[q].state = row[q].state /\ row[q].state \notin {"CANDIDATE_BEST", "REQUESTED"}
          \/ row[q].state = "CANDIDATE_BEST" /\ new[q].state = "CANDIDATE_READY"
          \/ row[q].state = "REQUESTED" /\ new[q].state = "COMPLETED"

\* A promoted candidate becomes the best one exactly when it should.
LEMMA PromoteIsSane ==
  ASSUME NEW t \in TxHash, NEW row, RowOK(row), RowSanity(t, row),
         NEW p \in Peer, row[p].state = "CANDIDATE_DELAYED",
         NEW new, new = PromoteCandidateReady(t, row, p)
  PROVE  /\ RowOK(new) /\ RowSanity(t, new) /\ SameData(row, new)
         /\ new[p].state \in {"CANDIDATE_READY", "CANDIDATE_BEST"}
         /\ Others(row, new, p, "CANDIDATE_BEST", "CANDIDATE_READY")
<1> USE DEF Others
<1> DEFINE ready == [row EXCEPT ![p].state = "CANDIDATE_READY"]
           next == NextOf(t, ready, p)
           A == \A q \in next : ready[q].state = "COMPLETED"
           B == \A q \in next : /\ ready[q].state = "CANDIDATE_BEST"
                                /\ Better(t, p, ready[p], q, ready[q])
<1>1. /\ row \in Row /\ ready \in Row
      /\ ready[p].state = "CANDIDATE_READY" /\ SameData(row, ready)
      /\ \A q \in Peer \ {p} : ready[q] = row[q]
  <2>1. row \in Row /\ ready = [q \in Peer |-> IF q = p THEN [row[p] EXCEPT !.state = "CANDIDATE_READY"] ELSE row[q]]
    BY Zenon DEF RowOK, Row
  <2>2. ready[p] = [row[p] EXCEPT !.state = "CANDIDATE_READY"] /\ \A q \in Peer \ {p} : ready[q] = row[q]
    BY <2>1
  <2>3. ready = [q \in Peer |-> ready[q]]
    BY <2>1
  <2> HIDE DEF ready
  <2>4. ready \in Row /\ SameData(row, ready)
    BY Zenon, <2>1, <2>2, <2>3, RowChange
  <2>5. ready[p].state = "CANDIDATE_READY"
    BY <2>1, <2>2, StateChange
  <2> QED BY <2>1, <2>2, <2>4, <2>5
<1>x. new = IF A THEN [ready EXCEPT ![p].state = "CANDIDATE_BEST"]
            ELSE IF B
            THEN [q \in Peer |->
                    IF q = p THEN [ready[q] EXCEPT !.state = "CANDIDATE_BEST"]
                    ELSE IF q \in next THEN [ready[q] EXCEPT !.state = "CANDIDATE_READY"]
                    ELSE ready[q]]
            ELSE ready
  BY Zenon DEF PromoteCandidateReady
<1> HIDE DEF ready
<1>2. OneSelected(row) /\ OneSelected(ready)
  BY <1>1 DEF OneSelected, RowSanity, IsSelected
<1>3. \A q \in Peer : Priority(t, q, ready[q].preferred) \in Nat
  BY <1>1, PriorityIsInjective
<1>4. \A q, r \in Peer : q # r =>
        Better(t, q, ready[q], r, ready[r]) \/ Better(t, r, ready[r], q, ready[q])
  BY <1>1, <1>3, PriorityIsInjective DEF Better
<1>5. \A q, r \in Peer : ~(Better(t, q, ready[q], r, ready[r]) /\ Better(t, r, ready[r], q, ready[q]))
  BY <1>3 DEF Better
<1>6. ASSUME NEW r \in Peer, ready[r].state = "CANDIDATE_READY", Better(t, r, ready[r], p, ready[p])
      PROVE  ~A /\ ~B
  <2>1. Before(t, ready, p, r)
    BY <1>1, <1>6 DEF Before
  <2>2. \E n \in next : ready[n].state = "CANDIDATE_READY"
    BY <1>1, <1>6, <2>1, ReadyAbove
  <2> QED BY <2>2
<1>7. ASSUME NEW q \in Peer, IsSelected(row[q]),
             \A r \in Peer : ready[r].state = "CANDIDATE_READY" => ~Better(t, r, ready[r], p, ready[p])
      PROVE  q # p /\ q \in next /\ \A n \in next : n = q
  <2>1. q # p /\ IsSelected(ready[q])
    BY Zenon, <1>1, <1>7 DEF IsSelected
  <2>2. \A r \in Peer : ready[r].state = "CANDIDATE_READY" => ~Before(t, ready, p, r)
    BY <1>1, <1>7 DEF Before, Rank
  <2> QED BY <1>1, <1>2, <1>7, <2>1, <2>2, SelectedNext
<1>8. CASE A
  <2>1. new = [ready EXCEPT ![p].state = "CANDIDATE_BEST"]
    BY Zenon, <1>8, <1>x
  <2>2. \A q \in Peer : ~IsSelected(row[q])
    BY Zenon, <1>1, <1>6, <1>7, <1>8 DEF IsSelected
  <2>3. \A q \in Peer : row[q].state # "CANDIDATE_READY"
    BY <2>2 DEF RowSanity
  <2>4. new \in Row /\ new[p].state = "CANDIDATE_BEST" /\ SameData(ready, new) /\ \A q \in Peer \ {p} : new[q] = row[q]
    <3>1. new = [q \in Peer |-> IF q = p THEN [ready[p] EXCEPT !.state = "CANDIDATE_BEST"] ELSE ready[q]]
      BY Zenon, <1>1, <2>1 DEF Row
    <3>2. new[p] = [ready[p] EXCEPT !.state = "CANDIDATE_BEST"] /\ \A q \in Peer \ {p} : new[q] = ready[q]
      BY <3>1
    <3>3. new = [q \in Peer |-> new[q]]
      BY <3>1
    <3>4. new \in Row /\ SameData(ready, new)
      BY Zenon, <1>1, <3>2, <3>3, RowChange
    <3>5. new[p].state = "CANDIDATE_BEST"
      BY <1>1, <3>2, StateChange
    <3> QED BY <1>1, <3>2, <3>4, <3>5
  <2> HIDE <1>8 DEF A, B, next
  <2>5. RowOK(new)
    BY Zenon, <2>4 DEF RowOK
  <2>6. RowSanity(t, new)
    <3>1. \A q \in Peer \ {p} : ~IsSelected(new[q]) /\ new[q].state # "CANDIDATE_READY"
      BY Zenon, <2>2, <2>3, <2>4
    <3>2. IsSelected(new[p]) /\ Tracked(new[p]) /\ new[p].state # "COMPLETED"
      BY Zenon, <2>4 DEF IsSelected, Tracked
    <3> QED BY Zenon, <2>4, <3>1, <3>2 DEF RowSanity
  <2> QED BY <1>1, <2>4, <2>5, <2>6 DEF SameData
<1>9. CASE ~A /\ B
  <2>1. PICK b \in next : TRUE
    BY Zenon, <1>9
  <2>2. /\ b \in Peer /\ b # p /\ row[b].state = "CANDIDATE_BEST" /\ ready[b] = row[b]
        /\ Better(t, p, ready[p], b, ready[b])
    BY Zenon, <1>1, <1>9, <2>1 DEF NextOf
  <2>3. \A n \in next : n = b
    BY Zenon, <1>1, <1>2, <1>9, <2>2 DEF OneSelected, IsSelected, NextOf
  <2>4. new = [q \in Peer |->
                 IF q = p THEN [ready[q] EXCEPT !.state = "CANDIDATE_BEST"]
                 ELSE IF q = b THEN [ready[q] EXCEPT !.state = "CANDIDATE_READY"]
                 ELSE ready[q]]
    BY Zenon, <1>9, <2>1, <2>3, <1>x
  <2>5. /\ new \in Row /\ new[p].state = "CANDIDATE_BEST"
        /\ new[b].state = "CANDIDATE_READY" /\ SameData(ready, new)
        /\ \A q \in Peer \ {p, b} : new[q] = row[q]
    <3>1. /\ new[p] = [ready[p] EXCEPT !.state = "CANDIDATE_BEST"]
          /\ new[b] = [ready[b] EXCEPT !.state = "CANDIDATE_READY"]
          /\ \A q \in Peer \ {p, b} : new[q] = ready[q]
      BY <2>2, <2>4
    <3>2. new = [q \in Peer |-> new[q]]
      BY Zenon, <2>4
    <3>3. new \in Row /\ SameData(ready, new)
      BY Zenon, <1>1, <3>1, <3>2, RowChange
    <3>4. new[p].state = "CANDIDATE_BEST" /\ new[b].state = "CANDIDATE_READY"
      BY <1>1, <2>2, <3>1, StateChange
    <3> QED BY <1>1, <3>1, <3>3, <3>4
  <2>6. \A q \in Peer \ {p, b} : ~IsSelected(row[q])
    BY <1>2, <2>2 DEF OneSelected, IsSelected
  <2>7. ASSUME NEW q \in Peer, new[q].state = "CANDIDATE_READY"
        PROVE  Better(t, p, new[p], q, new[q])
    <3>1. q # p
      BY <2>5, <2>7
    <3>2. ready[q].state = "CANDIDATE_READY" \/ q = b
      BY <1>1, <2>5, <2>7, <3>1
    <3>3. Better(t, p, ready[p], q, ready[q])
      BY Zenon, <1>4, <1>6, <1>9, <2>2, <3>1, <3>2
    <3> QED BY <2>5, <3>3 DEF Better, SameData
  <2> HIDE <1>9 DEF A, B, next
  <2>8. RowSanity(t, new)
    <3>1. \A q \in Peer \ {p} : ~IsSelected(new[q])
      BY Zenon, <2>5, <2>6 DEF IsSelected
    <3>2. IsSelected(new[p]) /\ Tracked(new[p]) /\ new[p].state # "COMPLETED"
      BY <2>5 DEF IsSelected, Tracked
    <3>3. \A q \in Peer : new[q].state = "CANDIDATE_BEST" => q = p
      BY <3>1 DEF IsSelected
    <3> QED BY Zenon, <2>7, <3>1, <3>2, <3>3 DEF RowSanity
  <2>9. RowOK(new)
    BY <2>5 DEF RowOK
  <2> QED BY <1>1, <2>2, <2>5, <2>8, <2>9 DEF SameData
<1>10. CASE ~A /\ ~B
  <2>1. new = ready
    BY Zenon, <1>10, <1>x
  <2>2. ASSUME NEW b \in Peer, row[b].state = "CANDIDATE_BEST"
        PROVE  b # p /\ Better(t, b, ready[b], p, ready[p])
    <3>1. b # p /\ IsSelected(row[b]) /\ ready[b] = row[b]
      BY Zenon, <1>1, <2>2 DEF IsSelected
    <3>2. SUFFICES ASSUME Better(t, p, ready[p], b, ready[b]) PROVE FALSE
      BY Zenon, <1>4, <3>1
    <3>3. ASSUME NEW r \in Peer, ready[r].state = "CANDIDATE_READY", Better(t, r, ready[r], p, ready[p])
          PROVE  FALSE
      <4>1. r # p /\ ready[r] = row[r]
        BY Zenon, <1>1, <1>5, <3>3
      <4>2. Better(t, b, ready[b], r, ready[r])
        BY Zenon, <2>2, <3>1, <3>3, <4>1 DEF RowSanity
      <4> QED BY <1>3, <3>1, <3>2, <3>3, <4>2 DEF Better
    <3>4. b \in next /\ \A n \in next : n = b
      BY Zenon, <1>7, <3>1, <3>3
    <3> QED BY Zenon, <1>10, <2>2, <3>1, <3>2, <3>4
  <2>3. \E q \in Peer : q # p /\ IsSelected(row[q])
    <3>1. SUFFICES ASSUME \A q \in Peer : ~IsSelected(row[q]) PROVE A
      BY Zenon, <1>10 DEF IsSelected
    <3>2. \A q \in Peer : row[q].state # "CANDIDATE_READY"
      BY Zenon, <3>1 DEF RowSanity
    <3>3. ASSUME NEW n \in next PROVE ready[n].state = "COMPLETED"
      <4>1. n \in Peer /\ Tracked(ready[n]) /\ Before(t, ready, p, n)
        BY Zenon DEF NextOf
      <4>2. n # p
        BY <1>5, <4>1 DEF Before, Rank
      <4>3. row[n] \in Announcement /\ ready[n] = row[n]
        BY Zenon, <1>1, <4>1, <4>2 DEF Row
      <4> QED BY <1>1, <3>1, <3>2, <4>1, <4>3 DEF Before, Rank, Tracked, IsSelected, Announcement
    <3> QED BY Zenon, <3>3
  <2> HIDE <1>10 DEF A, B, next
  <2>4. \A q \in Peer : IsSelected(ready[q]) <=> IsSelected(row[q])
    BY Zenon, <1>1 DEF IsSelected
  <2>6. RowSanity(t, ready)
    <3>1. ASSUME NEW q \in Peer, NEW r \in Peer,
                 ready[q].state = "CANDIDATE_BEST", ready[r].state = "CANDIDATE_READY"
          PROVE  Better(t, q, ready[q], r, ready[r])
      <4>1. q # p /\ ready[q] = row[q]
        BY Zenon, <1>1, <3>1
      <4>2. CASE r = p
        BY Zenon, <2>2, <3>1, <4>1, <4>2
      <4>3. CASE r # p
        BY Zenon, <1>1, <3>1, <4>1, <4>3 DEF RowSanity
      <4> QED BY Zenon, <4>2, <4>3
    <3>2. \A q \in Peer : ready[q].state = "CANDIDATE_READY" => \E r \in Peer : IsSelected(ready[r])
      BY Zenon, <2>3, <2>4
    <3>3. Tracked(ready[p]) /\ ready[p].state # "COMPLETED"
      BY Zenon, <1>1 DEF Tracked
    <3> QED BY Zenon, <1>2, <3>1, <3>2, <3>3 DEF RowSanity, OneSelected
  <2>7. RowOK(ready)
    BY Zenon, <1>1 DEF RowOK
  <2> QED BY <1>1, <2>1, <2>6, <2>7
<1> QED BY <1>8, <1>9, <1>10

\* When an announcement leaves the selected state the best ready candidate takes
\* its place, and no other change is needed.
LEMMA ReselectIsSane ==
  ASSUME NEW t \in TxHash, NEW row, RowOK(row), RowSanity(t, row),
         NEW p \in Peer, Tracked(row[p]), NEW s \in {"CANDIDATE_DELAYED", "COMPLETED"},
         s = "COMPLETED" =>
           \E q \in Peer \ {p} : Tracked(row[q]) /\ row[q].state # "COMPLETED",
         NEW new, new = ChangeAndReselect(t, row, p, s)
  PROVE  /\ RowOK(new) /\ RowSanity(t, new) /\ SameData(row, new)
         /\ new[p].state = s /\ Others(row, new, p, "CANDIDATE_READY", "CANDIDATE_BEST")
<1> USE DEF Others
<1> DEFINE G(q) == /\ IsSelected(row[p])
                   /\ q \in PrevOf(t, row, p) /\ row[q].state = "CANDIDATE_READY"
<1>1. row \in Row /\ OneSelected(row)
  BY DEF RowOK, RowSanity, OneSelected
<1>2. new = [q \in Peer |-> IF q = p THEN [row[q] EXCEPT !.state = s]
                            ELSE IF G(q) THEN [row[q] EXCEPT !.state = "CANDIDATE_BEST"]
                            ELSE row[q]]
  BY DEF ChangeAndReselect
<1> HIDE DEF G
<1>3. /\ new = [q \in Peer |-> new[q]]
      /\ new[p] = [row[p] EXCEPT !.state = s]
      /\ \A q \in Peer \ {p} :
           new[q] = IF G(q) THEN [row[q] EXCEPT !.state = "CANDIDATE_BEST"] ELSE row[q]
  BY <1>2
<1>4. new \in Row /\ SameData(row, new)
  BY Zenon, <1>1, <1>3, RowChange
<1>5. /\ new[p].state = s
      /\ \A q \in Peer \ {p} : IF G(q) THEN new[q].state = "CANDIDATE_BEST" ELSE new[q] = row[q]
  <2>1. new[p].state = s
    <3>1. row[p] \in Announcement
      BY <1>1 DEF Row
    <3> QED BY <1>3, <3>1 DEF Announcement
  <2>2. ASSUME NEW q \in Peer \ {p}, G(q) PROVE new[q].state = "CANDIDATE_BEST"
    <3>1. new[q] = [row[q] EXCEPT !.state = "CANDIDATE_BEST"]
      BY Zenon, <1>3, <2>2
    <3> QED BY <1>1, <3>1, StateChange
  <2> QED BY Zenon, <1>3, <2>1, <2>2
<1>6. \A q \in Peer : G(q) => row[q].state = "CANDIDATE_READY"
  BY Zenon DEF G
<1>7. RowOK(new)
  BY Zenon, <1>4, <1>5 DEF RowOK
<1>8. \A q \in Peer \ {p} : G(q) \/ new[q].state = row[q].state
  BY Zenon, <1>5
<1>9. CASE ~IsSelected(row[p])
  <2>1. \A q \in Peer \ {p} : new[q] = row[q]
    BY Zenon, <1>5, <1>9 DEF G
  <2>2. ~IsSelected(new[p])
    BY Zenon, <1>5 DEF IsSelected
  <2>3. \A q \in Peer : Tracked(new[q]) => \E r \in Peer : Tracked(new[r]) /\ new[r].state # "COMPLETED"
    BY Zenon, <1>5, <2>1 DEF Tracked
  <2>4. \A q, r \in Peer : IsSelected(new[q]) /\ IsSelected(new[r]) => q = r
    BY Zenon, <1>1, <2>1, <2>2 DEF OneSelected
  <2>5. \A q \in Peer : new[q].state = "CANDIDATE_READY" => \E r \in Peer : IsSelected(new[r])
    BY Zenon, <1>5, <1>9, <2>1 DEF RowSanity
  <2>6. \A q, r \in Peer :
          new[q].state = "CANDIDATE_BEST" /\ new[r].state = "CANDIDATE_READY"
            => Better(t, q, new[q], r, new[r])
    BY <1>5, <2>1 DEF RowSanity
  <2>7. RowSanity(t, new)
    BY Zenon, <2>3, <2>4, <2>5, <2>6 DEF RowSanity
  <2> QED BY Zenon, <1>4, <1>5, <1>6, <1>7, <2>1, <2>7
<1>10. CASE IsSelected(row[p]) /\ \A r \in Peer : row[r].state # "CANDIDATE_READY"
  <2>1. \A q \in Peer \ {p} : new[q] = row[q]
    BY Zenon, <1>5, <1>6, <1>10
  <2>2. \A q \in Peer : ~IsSelected(new[q]) /\ new[q].state # "CANDIDATE_READY"
    BY Zenon, <1>1, <1>5, <1>10, <2>1 DEF OneSelected, IsSelected
  <2>3. \A q \in Peer : Tracked(new[q]) => \E r \in Peer : Tracked(new[r]) /\ new[r].state # "COMPLETED"
    BY Zenon, <1>5, <2>1 DEF Tracked
  <2>4. RowSanity(t, new)
    BY Zenon, <2>2, <2>3 DEF RowSanity
  <2> QED BY <1>4, <1>5, <1>6, <1>7, <2>1, <2>4
<1>11. CASE IsSelected(row[p]) /\ \E r \in Peer : row[r].state = "CANDIDATE_READY"
  <2>1. PICK n \in PrevOf(t, row, p) :
           /\ row[n].state = "CANDIDATE_READY"
           /\ \A q \in Peer \ {n} :
                /\ row[q].state = "CANDIDATE_READY" => Better(t, n, row[n], q, row[q])
                /\ q \in PrevOf(t, row, p) => row[q].state # "CANDIDATE_READY"
    BY <1>1, <1>11, ReadyBelow
  <2>2. n \in Peer /\ n # p /\ G(n) /\ \A q \in Peer \ {n} : ~G(q)
    BY Zenon, <1>11, <2>1 DEF G, PrevOf, IsSelected
  <2>3. new[n].state = "CANDIDATE_BEST" /\ \A q \in Peer \ {n, p} : new[q] = row[q]
    BY Zenon, <1>5, <2>2
  <2>4. \A q \in Peer \ {n} : ~IsSelected(new[q])
    BY Zenon, <1>1, <1>5, <1>11, <2>3 DEF OneSelected, IsSelected
  <2>5. IsSelected(new[n]) /\ Tracked(new[n]) /\ new[n].state # "COMPLETED"
    BY Zenon, <2>3 DEF IsSelected, Tracked
  <2>6. ASSUME NEW q \in Peer, new[q].state = "CANDIDATE_READY"
        PROVE  Better(t, n, new[n], q, new[q])
    <3>1. q # n /\ q # p /\ row[q].state = "CANDIDATE_READY"
      BY Zenon, <1>5, <2>3, <2>6
    <3>2. Better(t, n, row[n], q, row[q])
      BY Zenon, <2>1, <3>1
    <3> QED BY Zenon, <1>4, <2>2, <3>2 DEF Better, SameData
  <2>7. \A q \in Peer : new[q].state = "CANDIDATE_BEST" => q = n
    BY Zenon, <2>4 DEF IsSelected
  <2>8. RowSanity(t, new)
    BY Zenon, <2>2, <2>4, <2>5, <2>6, <2>7 DEF RowSanity
  <2> QED BY <1>4, <1>5, <1>6, <1>7, <2>1, <2>3, <2>8
<1> QED BY Zenon, <1>9, <1>10, <1>11

\* IsOnlyNonCompleted looks only at the two neighbours, yet tells whether every
\* other announcement is COMPLETED.
LEMMA OnlyNonCompleted ==
  ASSUME NEW t \in TxHash, NEW row, RowOK(row), RowSanity(t, row),
         NEW p \in Peer, Tracked(row[p]), row[p].state # "COMPLETED"
  PROVE  IsOnlyNonCompleted(t, row, p) <=>
           \A q \in Peer \ {p} : row[q].state \in {"NOTHING", "COMPLETED"}
<1>1. row \in Row /\ OneSelected(row)
  BY Zenon DEF RowOK, RowSanity, OneSelected
<1>2. \A q \in Peer : Priority(t, q, row[q].preferred) \in Nat
  BY <1>1, PriorityIsInjective
<1>3. ~Before(t, row, p, p)
  BY <1>2 DEF Before, Better, Rank
<1>4. \A q \in Peer : row[q].state \in {"NOTHING", "CANDIDATE_DELAYED", "CANDIDATE_READY",
                                        "CANDIDATE_BEST", "REQUESTED", "COMPLETED"}
  BY Zenon, <1>1 DEF Row, Announcement
<1>5. ASSUME \A q \in Peer \ {p} : row[q].state \in {"NOTHING", "COMPLETED"}
      PROVE  IsOnlyNonCompleted(t, row, p)
  <2>1. \A q \in Peer \ {p} : Tracked(row[q]) => Before(t, row, p, q)
    BY <1>4, <1>5 DEF Tracked, Before, Rank
  <2>2. \A q \in NextOf(t, row, p) : row[q].state = "COMPLETED"
    BY Zenon, <1>3, <1>5 DEF NextOf, Tracked
  <2> QED BY Zenon, <2>1, <2>2 DEF IsOnlyNonCompleted
<1>6. ASSUME IsOnlyNonCompleted(t, row, p),
             NEW q \in Peer \ {p}, row[q].state \notin {"NOTHING", "COMPLETED"}
      PROVE  FALSE
  <2>1. Before(t, row, p, q) /\ \A n \in NextOf(t, row, p) : row[n].state = "COMPLETED"
    BY Zenon, <1>6 DEF IsOnlyNonCompleted, Tracked
  <2>2. ~IsSelected(row[p])
    <3>1. SUFFICES ASSUME IsSelected(row[p]) PROVE FALSE
      BY Zenon
    <3>2. IsSelected(row[q])
      BY <1>4, <1>6, <2>1, <3>1 DEF Before, Rank, IsSelected
    <3> QED BY Zenon, <1>1, <1>6, <3>1, <3>2 DEF OneSelected
  <2>3. row[p].state \in {"CANDIDATE_DELAYED", "CANDIDATE_READY"}
    BY Zenon, <1>4, <2>2 DEF IsSelected, Tracked
  <2>4. \A r \in Peer : row[r].state = "CANDIDATE_READY" => ~Before(t, row, p, r)
    BY Zenon, <1>1, <2>1, <2>3, ReadyAbove
  <2>5. IsSelected(row[q])
    BY <1>4, <1>6, <2>1, <2>3, <2>4 DEF Before, Rank, IsSelected
  <2>6. q \in NextOf(t, row, p)
    BY Zenon, <1>1, <2>3, <2>4, <2>5, SelectedNext
  <2> QED BY Zenon, <1>6, <2>1, <2>6
<1> QED BY Zenon, <1>5, <1>6

\* Completing an announcement deletes the row or reselects.
LEMMA MakeCompletedIsSane ==
  ASSUME NEW t \in TxHash, NEW row, RowOK(row), RowSanity(t, row),
         NEW p \in Peer, Tracked(row[p]),
         NEW new, new = MakeCompleted(t, row, p)
  PROVE  /\ RowOK(new) /\ RowSanity(t, new)
         /\ \/ /\ new = [q \in Peer |-> Absent]
               /\ row[p].state # "COMPLETED"
               /\ \A q \in Peer \ {p} : row[q].state \in {"NOTHING", "COMPLETED"}
            \/ /\ SameData(row, new)
               /\ new[p].state = "COMPLETED"
               /\ \E q \in Peer \ {p} : row[q].state \notin {"NOTHING", "COMPLETED"}
               /\ \A q \in Peer \ {p} :
                    \/ new[q].state = row[q].state
                    \/ row[q].state = "CANDIDATE_READY" /\ new[q].state = "CANDIDATE_BEST"
<1>1. CASE row[p].state = "COMPLETED"
  <2>1. new = row
    BY Zenon, <1>1 DEF MakeCompleted
  <2>2. \E q \in Peer \ {p} : row[q].state \notin {"NOTHING", "COMPLETED"}
    BY Zenon, <1>1 DEF RowSanity, Tracked
  <2> QED BY <1>1, <2>1, <2>2 DEF SameData
<1>2. CASE row[p].state # "COMPLETED" /\ IsOnlyNonCompleted(t, row, p)
  <2>1. new = [q \in Peer |-> Absent]
    BY <1>2 DEF MakeCompleted
  <2>2. \A q \in Peer : new[q] = Absent
    BY <2>1
  <2>3. Absent \in Announcement /\ Absent.state = "NOTHING"
    BY DEF Absent, Announcement
  <2>4. RowOK(new)
    BY <2>1, <2>3 DEF RowOK, Row
  <2>5. RowSanity(t, new)
    BY <2>2, <2>3 DEF RowSanity, Tracked, IsSelected
  <2>6. \A q \in Peer \ {p} : row[q].state \in {"NOTHING", "COMPLETED"}
    BY Zenon, <1>2, OnlyNonCompleted
  <2> QED BY <1>2, <2>1, <2>4, <2>5, <2>6
<1>3. CASE row[p].state # "COMPLETED" /\ ~IsOnlyNonCompleted(t, row, p)
  <2>1. new = ChangeAndReselect(t, row, p, "COMPLETED")
    BY Zenon, <1>3 DEF MakeCompleted
  <2>2. \E q \in Peer \ {p} : row[q].state \notin {"NOTHING", "COMPLETED"}
    BY Zenon, <1>3, OnlyNonCompleted
  <2>3. \E q \in Peer \ {p} : Tracked(row[q]) /\ row[q].state # "COMPLETED"
    BY Zenon, <2>2 DEF Tracked
  <2> HIDE <1>3
  <2>4. /\ RowOK(new) /\ RowSanity(t, new) /\ SameData(row, new) /\ new[p].state = "COMPLETED"
        /\ Others(row, new, p, "CANDIDATE_READY", "CANDIDATE_BEST")
    BY <2>1, <2>3, ReselectIsSane
  <2> QED BY Zenon, <2>2, <2>4 DEF Others
<1> QED BY Zenon, <1>1, <1>2, <1>3

\* Erasing a peer's announcement once it is completed.
LEMMA EraseIsSane ==
  ASSUME NEW t \in TxHash, NEW row, RowOK(row), RowSanity(t, row),
         NEW p \in Peer, Tracked(row[p]),
         NEW new, new = Erased(t, row, p)
  PROVE  /\ RowOK(new) /\ RowSanity(t, new) /\ new[p] = Absent
         /\ \/ /\ new = [q \in Peer |-> Absent]
               /\ \A q \in Peer \ {p} : row[q].state \in {"NOTHING", "COMPLETED"}
            \/ /\ \E q \in Peer \ {p} : row[q].state \notin {"NOTHING", "COMPLETED"}
               /\ \A q \in Peer \ {p} :
                    /\ new[q].time = row[q].time /\ new[q].preferred = row[q].preferred
                    /\ new[q].sequence = row[q].sequence
                    /\ \/ new[q].state = row[q].state
                       \/ row[q].state = "CANDIDATE_READY" /\ new[q].state = "CANDIDATE_BEST"
<1> DEFINE done == MakeCompleted(t, row, p)
<1>1. /\ RowOK(done) /\ RowSanity(t, done)
      /\ \/ /\ done = [q \in Peer |-> Absent]
            /\ row[p].state # "COMPLETED"
            /\ \A q \in Peer \ {p} : row[q].state \in {"NOTHING", "COMPLETED"}
         \/ /\ SameData(row, done)
            /\ done[p].state = "COMPLETED"
            /\ \E q \in Peer \ {p} : row[q].state \notin {"NOTHING", "COMPLETED"}
            /\ \A q \in Peer \ {p} :
                 \/ done[q].state = row[q].state
                 \/ row[q].state = "CANDIDATE_READY" /\ done[q].state = "CANDIDATE_BEST"
  BY MakeCompletedIsSane
<1> HIDE DEF done
<1>2. Absent \in Announcement /\ Absent.state = "NOTHING"
  BY DEF Absent, Announcement
<1>3. done \in Row /\ new = [done EXCEPT ![p] = Absent]
  BY <1>1 DEF RowOK, done, Erased
<1>4. new \in Row /\ new[p] = Absent /\ \A q \in Peer \ {p} : new[q] = done[q]
  BY Zenon, <1>2, <1>3 DEF Row
<1>5. RowOK(new)
  BY <1>1, <1>4 DEF RowOK
<1>6. done[p].state \in {"NOTHING", "COMPLETED"}
  BY Zenon, <1>1, <1>2
<1>7. RowSanity(t, new)
  <2>1. ~Tracked(new[p]) /\ ~IsSelected(new[p]) /\ ~IsSelected(done[p])
    BY Zenon, <1>2, <1>4, <1>6 DEF Tracked, IsSelected
  <2>2. \A q \in Peer : Tracked(new[q]) => \E r \in Peer : Tracked(new[r]) /\ new[r].state # "COMPLETED"
    BY <1>1, <1>4, <1>6, <2>1 DEF RowSanity, Tracked
  <2>3. \A q, r \in Peer : IsSelected(new[q]) /\ IsSelected(new[r]) => q = r
    BY <1>1, <1>4, <2>1 DEF RowSanity
  <2>4. \A q \in Peer : new[q].state = "CANDIDATE_READY" => \E r \in Peer : IsSelected(new[r])
    BY <1>1, <1>2, <1>4, <2>1 DEF RowSanity
  <2>5. \A q, r \in Peer :
          new[q].state = "CANDIDATE_BEST" /\ new[r].state = "CANDIDATE_READY"
            => Better(t, q, new[q], r, new[r])
    BY <1>1, <1>2, <1>4 DEF RowSanity
  <2> QED BY Zenon, <2>2, <2>3, <2>4, <2>5 DEF RowSanity
<1>8. CASE done = [q \in Peer |-> Absent]
  <2>1. new = [q \in Peer |-> Absent]
    BY <1>3, <1>8
  <2>2. ~SameData(row, done) \/ done[p].state # "COMPLETED"
    BY Zenon, <1>2, <1>8
  <2> QED BY Zenon, <1>1, <1>4, <1>5, <1>7, <2>1, <2>2
<1>9. CASE done # [q \in Peer |-> Absent]
  BY <1>1, <1>4, <1>5, <1>7, <1>9 DEF SameData
<1> QED BY Zenon, <1>8, <1>9

\* Requesting displaces the selected announcement.
LEMMA RequestIsSane ==
  ASSUME NEW t \in TxHash, NEW row, RowOK(row), RowSanity(t, row), NEW p \in Peer,
         row[p].state \in {"CANDIDATE_BEST", "CANDIDATE_DELAYED", "CANDIDATE_READY"},
         NEW expiry \in Nat,
         NEW new, new = Requested(row, p, expiry)
  PROVE  /\ RowOK(new) /\ RowSanity(t, new)
         /\ Displaces(row, new, p, expiry)
<1> DEFINE away == Displaced(row, p)
<1>1. row \in Row /\ OneSelected(row)
  BY Zenon DEF RowOK, RowSanity, OneSelected
<1>2. \A q \in Peer : q \in FirstSelected(row) <=> IsSelected(row[q])
  BY <1>1 DEF FirstSelected, OneSelected, Rank
<1>3. /\ away = [q \in Peer |-> away[q]]
      /\ \A q \in Peer : away[q] =
           IF row[p].state = "CANDIDATE_BEST" \/ ~IsSelected(row[q]) THEN row[q]
           ELSE IF row[q].state = "CANDIDATE_BEST"
           THEN [row[q] EXCEPT !.state = "CANDIDATE_READY"]
           ELSE [row[q] EXCEPT !.state = "COMPLETED"]
  BY Zenon, <1>1, <1>2 DEF Displaced, Row
<1>4. away \in Row /\ SameData(row, away)
  BY Zenon, <1>1, <1>3, RowChange
<1>5. new = [away EXCEPT ![p].state = "REQUESTED", ![p].time = expiry]
  BY DEF Requested
<1> HIDE DEF away
<1>6. ASSUME NEW q \in Peer \ {p}
      PROVE \/ away[q].state = row[q].state /\ row[q].state \notin {"CANDIDATE_BEST", "REQUESTED"}
            \/ row[q].state = "CANDIDATE_BEST" /\ away[q].state = "CANDIDATE_READY"
            \/ row[q].state = "REQUESTED" /\ away[q].state = "COMPLETED"
  <2>1. CASE ~IsSelected(row[q])
    BY <1>3, <2>1 DEF IsSelected
  <2>2. CASE row[q].state = "CANDIDATE_BEST"
    <3>1. row[p].state # "CANDIDATE_BEST"
      BY <1>1, <1>6, <2>2 DEF OneSelected, IsSelected
    <3>2. away[q] = [row[q] EXCEPT !.state = "CANDIDATE_READY"]
      BY Zenon, <1>3, <2>2, <3>1 DEF IsSelected
    <3> QED BY <1>1, <2>2, <3>2, StateChange
  <2>3. CASE row[q].state = "REQUESTED"
    <3>1. row[p].state # "CANDIDATE_BEST"
      BY Zenon, <1>1, <1>6, <2>3 DEF OneSelected, IsSelected
    <3>2. away[q] = [row[q] EXCEPT !.state = "COMPLETED"]
      BY Zenon, <1>3, <2>3, <3>1 DEF IsSelected
    <3> QED BY <1>1, <2>3, <3>2, StateChange
  <2> QED BY <2>1, <2>2, <2>3 DEF IsSelected
<1>7. new[p] = [away[p] EXCEPT !.state = "REQUESTED", !.time = expiry] /\ \A q \in Peer \ {p} : new[q] = away[q]
  BY Zenon, <1>4, <1>5 DEF Row
<1>8. new[p] \in Announcement /\ new[p].state = "REQUESTED" /\ new[p].time = expiry
      /\ new[p].preferred = away[p].preferred /\ new[p].sequence = away[p].sequence
  <2>1. away[p] \in Announcement
    BY <1>4 DEF Row
  <2> DEFINE a == away[p]
             b == new[p]
  <2>2. a \in Announcement /\ b = [a EXCEPT !.state = "REQUESTED", !.time = expiry]
    BY <1>7, <2>1
  <2> HIDE DEF a, b
  <2>3. /\ b \in Announcement /\ b.state = "REQUESTED" /\ b.time = expiry
        /\ b.preferred = a.preferred /\ b.sequence = a.sequence
    BY Zenon, <2>2 DEF Announcement
  <2> QED BY Zenon, <2>3 DEF a, b
<1>9. new \in Row
  BY <1>4, <1>5, <1>7, <1>8 DEF Row
<1>10. RowOK(new)
  <2>1. ASSUME NEW q \in Peer \ {p}, new[q].state = "NOTHING" PROVE new[q] = Absent
    <3>1. row[q].state = "NOTHING"
      BY <1>6, <1>7, <2>1
    <3>2. away[q] = row[q]
      BY Zenon, <1>3, <3>1 DEF IsSelected
    <3> QED BY <1>7, <3>1, <3>2 DEF RowOK
  <2> QED BY <1>8, <1>9, <2>1 DEF RowOK
<1>11. \A q \in Peer \ {p} : ~IsSelected(new[q])
  BY Zenon, <1>6, <1>7 DEF IsSelected
<1>12. IsSelected(new[p]) /\ Tracked(new[p]) /\ new[p].state # "COMPLETED" /\ new[p].state # "CANDIDATE_BEST"
  BY Zenon, <1>8 DEF IsSelected, Tracked
<1>13. \A q \in Peer : new[q].state # "CANDIDATE_BEST"
  BY Zenon, <1>11, <1>12 DEF IsSelected
<1>14. RowSanity(t, new)
  BY Zenon, <1>11, <1>12, <1>13 DEF RowSanity
<1>15. new[p].preferred = row[p].preferred /\ new[p].sequence = row[p].sequence
  BY Zenon, <1>4, <1>8 DEF SameData
<1>16. ASSUME NEW q \in Peer \ {p}
       PROVE /\ new[q].time = row[q].time /\ new[q].preferred = row[q].preferred
             /\ new[q].sequence = row[q].sequence
             /\ new[q].state = away[q].state
  BY <1>4, <1>7 DEF SameData
<1>17. Displaces(row, new, p, expiry)
  BY <1>6, <1>8, <1>15, <1>16 DEF Displaces
<1> QED BY Zenon, <1>10, <1>14, <1>17
-----------------------------------------------------------------------------
(* The per-peer counters                                                   *)

\* A set that changes in one element.
LEMMA CountChange ==
  ASSUME NEW A \in SUBSET TxHash, NEW B \in SUBSET TxHash, NEW t \in TxHash,
         \A u \in TxHash \ {t} : u \in A <=> u \in B
  PROVE  /\ Cardinality(A) \in Nat /\ Cardinality(B) \in Nat
         /\ Cardinality(B) = Cardinality(A) - One(t \in A) + One(t \in B)
<1>1. IsFiniteSet(A) /\ IsFiniteSet(B) /\ IsFiniteSet(A \ {t})
  BY Zenon, TxHashAssumption, FS_Subset
<1>2. Cardinality(A) \in Nat /\ Cardinality(B) \in Nat /\ Cardinality(A \ {t}) \in Nat
  BY <1>1, FS_CardinalityType
<1>3. A \ {t} = B \ {t}
  OBVIOUS
<1>4. Cardinality(A \ {t}) = Cardinality(A) - One(t \in A)
  BY <1>1, <1>2, FS_RemoveElement DEF One
<1>5. Cardinality(B \ {t}) = Cardinality(B) - One(t \in B)
  <2>1. CASE t \in B
    BY Zenon, <1>1, <1>2, <2>1, FS_RemoveElement DEF One
  <2>2. CASE t \notin B
    <3>1. B \ {t} = B
      BY <2>2
    <3>2. One(t \in B) = 0
      BY <2>2 DEF One
    <3> QED BY <1>2, <3>1, <3>2
  <2> QED BY Zenon, <2>1, <2>2
<1>6. One(t \in A) \in Int /\ One(t \in B) \in Int
  BY DEF One
<1> DEFINE x == One(t \in A)
           y == One(t \in B)
<1>7. Cardinality(A \ {t}) = Cardinality(A) - x /\ Cardinality(A \ {t}) = Cardinality(B) - y
  BY <1>3, <1>4, <1>5
<1>8. x \in Int /\ y \in Int
  BY <1>6
<1> HIDE DEF x, y
<1>9. Cardinality(B) = Cardinality(A) - x + y
  BY <1>2, <1>7, <1>8
<1> QED BY <1>2, <1>9 DEF x, y

TrackedBy(idx, p) == {t \in TxHash : Tracked(idx[t][p])}
CompletedBy(idx, p) == {t \in TxHash : idx[t][p].state = "COMPLETED"}
RequestedBy(idx, p) == {t \in TxHash : idx[t][p].state = "REQUESTED"}
Info(idx, p) == [total |-> Cardinality(TrackedBy(idx, p)),
                 completed |-> Cardinality(CompletedBy(idx, p)),
                 requested |-> Cardinality(RequestedBy(idx, p))]

\* What Erase and Modify do to the counters is what happens to the index.
LEMMA AccountedIsExact ==
  ASSUME NEW idx, NEW new, NEW t \in TxHash, NEW p \in Peer,
         \A u \in TxHash \ {t} : new[u] = idx[u],
         Tracked(new[t][p]) => Tracked(idx[t][p])
  PROVE  Accounted(Info(idx, p), idx[t][p], new[t][p]) = Info(new, p)
<1> DEFINE a == idx[t][p]
           b == new[t][p]
           T == TrackedBy(idx, p)
           C == CompletedBy(idx, p)
           R == RequestedBy(idx, p)
           T2 == TrackedBy(new, p)
           C2 == CompletedBy(new, p)
           R2 == RequestedBy(new, p)
<1>1. /\ T \in SUBSET TxHash /\ C \in SUBSET TxHash /\ R \in SUBSET TxHash
      /\ T2 \in SUBSET TxHash /\ C2 \in SUBSET TxHash /\ R2 \in SUBSET TxHash
  BY Zenon DEF TrackedBy, CompletedBy, RequestedBy
<1>2. \A u \in TxHash \ {t} : (u \in T <=> u \in T2) /\ (u \in C <=> u \in C2) /\ (u \in R <=> u \in R2)
  BY Zenon DEF TrackedBy, CompletedBy, RequestedBy
<1>3. /\ (t \in T) = Tracked(a) /\ (t \in T2) = Tracked(b)
      /\ (t \in C) = (a.state = "COMPLETED") /\ (t \in C2) = (b.state = "COMPLETED")
      /\ (t \in R) = (a.state = "REQUESTED") /\ (t \in R2) = (b.state = "REQUESTED")
  BY DEF TrackedBy, CompletedBy, RequestedBy, Tracked
<1>4. C2 \subseteq T2 /\ R2 \subseteq T2
  BY Zenon DEF TrackedBy, CompletedBy, RequestedBy, Tracked
<1> HIDE DEF T, C, R, T2, C2, R2
<1>5. /\ Cardinality(T) \in Nat /\ Cardinality(T2) \in Nat
      /\ Cardinality(T2) = Cardinality(T) - One(Tracked(a)) + One(Tracked(b))
  BY <1>1, <1>2, <1>3, CountChange
<1>6. /\ Cardinality(C) \in Nat /\ Cardinality(C2) \in Nat
      /\ Cardinality(C2) = Cardinality(C) - One(a.state = "COMPLETED") + One(b.state = "COMPLETED")
  BY <1>1, <1>2, <1>3, CountChange
<1>7. /\ Cardinality(R) \in Nat /\ Cardinality(R2) \in Nat
      /\ Cardinality(R2) = Cardinality(R) - One(a.state = "REQUESTED") + One(b.state = "REQUESTED")
  BY <1>1, <1>2, <1>3, CountChange
<1>8. Info(idx, p) = [total |-> Cardinality(T), completed |-> Cardinality(C), requested |-> Cardinality(R)]
  BY Zenon DEF Info, T, C, R
<1>9. Info(new, p) = [total |-> Cardinality(T2), completed |-> Cardinality(C2), requested |-> Cardinality(R2)]
  BY Zenon DEF Info, T2, C2, R2
<1>10. Accounted(Info(idx, p), a, b) =
         IF Tracked(a) /\ ~Tracked(b) /\ Cardinality(T) = 1 THEN NoInfo
         ELSE [total |-> Cardinality(T) - One(Tracked(a) /\ ~Tracked(b)),
               completed |-> Cardinality(C) - One(a.state = "COMPLETED") + One(b.state = "COMPLETED"),
               requested |-> Cardinality(R) - One(a.state = "REQUESTED") + One(b.state = "REQUESTED")]
  <2> DEFINE info == Info(idx, p)
  <2>1. info.total = Cardinality(T) /\ info.completed = Cardinality(C) /\ info.requested = Cardinality(R)
    BY <1>8
  <2> HIDE DEF info
  <2>2. Accounted(info, a, b) =
         IF Tracked(a) /\ ~Tracked(b) /\ Cardinality(T) = 1 THEN NoInfo
         ELSE [total |-> Cardinality(T) - One(Tracked(a) /\ ~Tracked(b)),
               completed |-> Cardinality(C) - One(a.state = "COMPLETED") + One(b.state = "COMPLETED"),
               requested |-> Cardinality(R) - One(a.state = "REQUESTED") + One(b.state = "REQUESTED")]
    BY Zenon, <2>1 DEF Accounted
  <2> QED BY Zenon, <2>2 DEF info
<1>11. CASE ~Tracked(a) \/ Tracked(b)
  <2>1. Tracked(a) = Tracked(b)
    BY Zenon, <1>11 DEF Tracked
  <2>2. Cardinality(T2) = Cardinality(T) - One(Tracked(a) /\ ~Tracked(b))
    BY <1>5, <1>11, <2>1 DEF One
  <2> QED BY Zenon, <1>6, <1>7, <1>9, <1>10, <1>11, <2>2
<1>12. CASE Tracked(a) /\ ~Tracked(b)
  <2>1. Cardinality(T2) = Cardinality(T) - 1
    BY <1>5, <1>12 DEF One
  <2>2. CASE Cardinality(T) = 1
    <3>1. IsFiniteSet(T2) /\ Cardinality(T2) = 0
      BY <1>1, <2>1, <2>2, TxHashAssumption, FS_Subset
    <3>2. T2 = {}
      BY Zenon, <3>1, FS_EmptySet
    <3>3. C2 = {} /\ R2 = {}
      BY Zenon, <1>4, <3>2
    <3>4. Cardinality(C2) = 0 /\ Cardinality(R2) = 0
      BY Zenon, <3>3, FS_EmptySet
    <3> QED BY Zenon, <1>9, <1>10, <1>12, <2>2, <3>1, <3>4 DEF NoInfo
  <2>3. CASE Cardinality(T) # 1
    <3>1. One(Tracked(a) /\ ~Tracked(b)) = 1
      BY Zenon, <1>12 DEF One
    <3> QED BY Zenon, <3>1, <1>6, <1>7, <1>9, <1>10, <1>12, <2>1, <2>3
  <2> QED BY Zenon, <2>2, <2>3
<1> QED BY Zenon, <1>11, <1>12 DEF Tracked
-----------------------------------------------------------------------------
(* The inductive invariant                                                 *)

\* What a change of the announcements keeps, whichever call makes it.
IndexOK ==
  /\ index \in [TxHash -> Row]
  /\ \A t \in TxHash : RowOK(index[t])
  /\ SanityCheck
  /\ PeerInfoIsExact
  /\ peerinfo = [p \in Peer |-> peerinfo[p]]

\* What the loops of SetTimePoint have achieved.
LoopOK ==
  /\ pc \in {"backward", "select"} =>
       \A t \in TxHash, p \in Peer : IsWaiting(index[t][p]) => index[t][p].time > now
  /\ pc = "select" =>
       \A t \in TxHash, p \in Peer : IsSelectable(index[t][p]) => index[t][p].time <= now

IInv == TypeOK /\ IndexOK /\ LoopOK

\* PeerInfoIsExact, peer by peer.
LEMMA InfoOfIndex ==
  PeerInfoIsExact <=> \A p \in Peer : peerinfo[p] = Info(index, p)
BY DEF PeerInfoIsExact, Info, TrackedBy, CompletedBy, RequestedBy

\* The counters of an exact index are naturals.
LEMMA InfoType ==
  ASSUME NEW idx, NEW p \in Peer
  PROVE  Info(idx, p) \in [total : Int, completed : Int, requested : Int]
<1>1. /\ IsFiniteSet(TrackedBy(idx, p)) /\ IsFiniteSet(CompletedBy(idx, p))
      /\ IsFiniteSet(RequestedBy(idx, p))
  BY Zenon, TxHashAssumption, FS_Subset DEF TrackedBy, CompletedBy, RequestedBy
<1>2. /\ Cardinality(TrackedBy(idx, p)) \in Int /\ Cardinality(CompletedBy(idx, p)) \in Int
      /\ Cardinality(RequestedBy(idx, p)) \in Int
  BY <1>1, FS_CardinalityType
<1> QED BY Zenon, <1>2 DEF Info

\* Replacing the row of a transaction by a sound one keeps the index sound.
LEMMA UpdateKeeps ==
  ASSUME IndexOK, NEW t \in TxHash, NEW row, RowOK(row), RowSanity(t, row),
         \A p \in Peer : Tracked(row[p]) => Tracked(index[t][p]),
         Update(t, row)
  PROVE  IndexOK' /\ index'[t] = row /\ \A u \in TxHash \ {t} : index'[u] = index[u]
<1>1. row \in Row /\ index \in [TxHash -> Row] /\ index' = [index EXCEPT ![t] = row]
  BY DEF RowOK, IndexOK, Update
<1>2. /\ index' \in [TxHash -> Row] /\ index'[t] = row
      /\ \A u \in TxHash \ {t} : index'[u] = index[u]
  BY Zenon, <1>1
<1>3. \A u \in TxHash : RowOK(index'[u])
  BY <1>2 DEF IndexOK
<1>4. \A u \in TxHash : RowSanity(u, index'[u])
  BY Zenon, <1>2 DEF IndexOK, SanityCheck
<1>5. /\ peerinfo' = [p \in Peer |-> peerinfo'[p]]
      /\ \A p \in Peer : peerinfo'[p] = Accounted(peerinfo[p], index[t][p], row[p])
  BY DEF Update
<1>6. ASSUME NEW p \in Peer PROVE peerinfo'[p] = Info(index', p)
  <2>1. peerinfo[p] = Info(index, p)
    BY Zenon, InfoOfIndex DEF IndexOK
  <2>2. Accounted(Info(index, p), index[t][p], index'[t][p]) = Info(index', p)
    BY <1>2, AccountedIsExact
  <2> QED BY <1>2, <1>5, <2>1, <2>2
<1>7. PeerInfoIsExact'
  BY <1>6 DEF PeerInfoIsExact, Info, TrackedBy, CompletedBy, RequestedBy
<1>8. SanityCheck' 
  BY <1>4 DEF SanityCheck, RowSanity, Tracked, IsSelected, Better, Priority
<1> QED BY Zenon, <1>2, <1>3, <1>5, <1>7, <1>8 DEF IndexOK, RowOK

\* The announcements of t after a call, in terms of those before.
RowStep(row, new) ==
  \A q \in Peer :
    /\ Tracked(new[q]) => Tracked(row[q])
    /\ row[q].state = "REQUESTED" => new[q].state \in {"REQUESTED", "COMPLETED", "NOTHING"}
    /\ row[q].state = "COMPLETED" => new[q].state \in {"COMPLETED", "NOTHING"}

\* No announcement that was asked or answered is a candidate after the step.
AskedOnce ==
  \A t \in TxHash, p \in Peer :
    /\ index[t][p].state = "REQUESTED" =>
         index'[t][p].state \in {"REQUESTED", "COMPLETED", "NOTHING"}
    /\ index[t][p].state = "COMPLETED" =>
         index'[t][p].state \in {"COMPLETED", "NOTHING"}

\* Replacing one row asks nobody again.
LEMMA UpdateAsksOnce ==
  ASSUME IndexOK, NEW t \in TxHash, NEW row, RowStep(index[t], row),
         index'[t] = row, \A u \in TxHash \ {t} : index'[u] = index[u]
  PROVE  AskedOnce
BY DEF AskedOnce, RowStep

\* A transaction nobody announces has a sound row.
LEMMA NoRow ==
  ASSUME NEW t \in TxHash
  PROVE  LET none == [q \in Peer |-> Absent]
         IN  /\ RowOK(none) /\ RowSanity(t, none)
             /\ \A q \in Peer : none[q].state = "NOTHING" /\ ~Tracked(none[q])
<1> DEFINE none == [q \in Peer |-> Absent]
<1>1. Absent \in Announcement /\ Absent.state = "NOTHING"
  BY DEF Absent, Announcement
<1>2. none \in Row /\ \A q \in Peer : none[q] = Absent
  BY <1>1 DEF Row
<1> HIDE DEF none
<1>3. RowOK(none)
  BY Zenon, <1>2 DEF RowOK
<1>4. RowSanity(t, none)
  BY <1>1, <1>2 DEF RowSanity, Tracked, IsSelected
<1> QED BY <1>1, <1>2, <1>3, <1>4 DEF none, Tracked

\* A new announcement waits, and no other one is concerned.
LEMMA InvIsSane ==
  ASSUME IndexOK, NEW p \in Peer, NEW t \in TxHash, NEW a \in Announcement,
         a.state = "CANDIDATE_DELAYED", ~Tracked(index[t][p]),
         index' = [index EXCEPT ![t][p] = a],
         peerinfo' = [peerinfo EXCEPT ![p].total = @ + 1]
  PROVE  IndexOK' /\ AskedOnce
<1> DEFINE row == index[t]
           new == index'[t]
<1>1. row \in Row /\ RowOK(row) /\ RowSanity(t, row) /\ index \in [TxHash -> Row]
  BY DEF IndexOK, SanityCheck
<1>2. /\ index' \in [TxHash -> Row] /\ new \in Row /\ new[p] = a
      /\ \A q \in Peer \ {p} : new[q] = row[q]
      /\ \A u \in TxHash \ {t} : index'[u] = index[u]
  BY <1>1 DEF Row
<1>3. RowOK(new)
  BY <1>1, <1>2 DEF RowOK
<1>4. RowSanity(t, new)
  <2>1. ~IsSelected(new[p]) /\ Tracked(new[p]) /\ new[p].state \notin {"COMPLETED", "CANDIDATE_READY", "CANDIDATE_BEST"}
    BY <1>2 DEF IsSelected, Tracked
  <2>2. ~IsSelected(row[p])
    BY DEF IsSelected, Tracked
  <2> HIDE DEF new, row
  <2>3. \A q, r \in Peer : IsSelected(new[q]) /\ IsSelected(new[r]) => q = r
    BY <1>1, <1>2, <2>1 DEF RowSanity
  <2>4. \A q \in Peer : new[q].state = "CANDIDATE_READY" => \E r \in Peer : IsSelected(new[r])
    BY <1>1, <1>2, <2>1, <2>2 DEF RowSanity
  <2>5. \A q, r \in Peer : new[q].state = "CANDIDATE_BEST" /\ new[r].state = "CANDIDATE_READY"
                             => Better(t, q, new[q], r, new[r])
    BY <1>1, <1>2, <2>1 DEF RowSanity
  <2> QED BY <2>1, <2>3, <2>4, <2>5 DEF RowSanity
<1>5. \A u \in TxHash : RowOK(index'[u]) /\ RowSanity(u, index'[u])
  BY <1>2, <1>3, <1>4 DEF IndexOK, SanityCheck
<1>6. AskedOnce
  BY <1>2 DEF AskedOnce, Tracked
<1>7. ASSUME NEW q \in Peer PROVE peerinfo'[q] = Info(index', q)
  <2>1. peerinfo[q] = Info(index, q)
    BY InfoOfIndex DEF IndexOK
  <2>2. CompletedBy(index', q) = CompletedBy(index, q) /\ RequestedBy(index', q) = RequestedBy(index, q)
    BY <1>2 DEF CompletedBy, RequestedBy, Tracked
  <2>3. CASE q # p
    <3>1. TrackedBy(index', q) = TrackedBy(index, q)
      BY <1>2, <2>3 DEF TrackedBy
    <3> QED BY Zenon, <2>1, <2>2, <2>3, <3>1 DEF Info, IndexOK
  <2>4. CASE q = p
    <3>1. /\ TrackedBy(index, p) \in SUBSET TxHash /\ TrackedBy(index', p) \in SUBSET TxHash
          /\ t \notin TrackedBy(index, p) /\ t \in TrackedBy(index', p)
          /\ \A u \in TxHash \ {t} : u \in TrackedBy(index, p) <=> u \in TrackedBy(index', p)
      BY <1>2 DEF TrackedBy, Tracked
    <3>2. Cardinality(TrackedBy(index', p)) = Cardinality(TrackedBy(index, p)) + 1
      <4> DEFINE A == TrackedBy(index, p)
                 B == TrackedBy(index', p)
      <4> HIDE DEF A, B
      <4>1. A \in SUBSET TxHash /\ B \in SUBSET TxHash /\ \A u \in TxHash \ {t} : u \in A <=> u \in B
        BY Zenon, <3>1 DEF A, B
      <4>2. /\ Cardinality(A) \in Nat /\ Cardinality(B) \in Nat
            /\ Cardinality(B) = Cardinality(A) - One(t \in A) + One(t \in B)
        BY <4>1, CountChange
      <4>3. One(t \in A) = 0 /\ One(t \in B) = 1
        BY <3>1 DEF One, A, B
      <4>4. Cardinality(B) = Cardinality(A) + 1
        BY <4>2, <4>3
      <4> QED BY <4>4 DEF A, B
    <3>3. peerinfo'[p] = [peerinfo[p] EXCEPT !.total = @ + 1]
      BY DEF IndexOK
    <3> QED BY <2>1, <2>2, <2>4, <3>2, <3>3 DEF Info
  <2> QED BY <2>3, <2>4
<1>8. PeerInfoIsExact'
  BY Zenon, <1>7 DEF PeerInfoIsExact, Info, TrackedBy, CompletedBy, RequestedBy
<1>9. SanityCheck' /\ \A u \in TxHash : RowOK(index[u])'
  BY <1>5 DEF SanityCheck, RowSanity, Tracked, IsSelected, Better, Priority, RowOK
<1>10. peerinfo' = [q \in Peer |-> peerinfo'[q]]
  BY DEF IndexOK
<1> QED BY <1>2, <1>6, <1>8, <1>9, <1>10 DEF IndexOK

\* The empty tracker satisfies the invariant.
LEMMA InitInv == Init => IInv
<1> SUFFICES ASSUME Init PROVE IInv
  OBVIOUS
<1>1. \A t \in TxHash : index[t] = [p \in Peer |-> Absent]
  BY Zenon DEF Init
<1>2. \A t \in TxHash : RowOK(index[t]) /\ RowSanity(t, index[t]) /\ \A q \in Peer : ~Tracked(index[t][q])
  BY Zenon, <1>1, NoRow
<1>3. index \in [TxHash -> Row]
  BY Zenon, <1>2 DEF Init, RowOK
<1>4. \A p \in Peer : TrackedBy(index, p) = {} /\ CompletedBy(index, p) = {} /\ RequestedBy(index, p) = {}
  BY Zenon, <1>2 DEF TrackedBy, CompletedBy, RequestedBy, Tracked
<1>5. \A p \in Peer : peerinfo[p] = Info(index, p)
  BY Zenon, <1>4, FS_EmptySet DEF Init, Info, NoInfo
<1>6. IndexOK
  BY <1>2, <1>3, <1>5, InfoOfIndex DEF IndexOK, SanityCheck, Init
<1>7. TypeOK
  BY <1>3, <1>5, InfoType DEF TypeOK, Init, NoCall, Row, NoInfo
<1> QED BY <1>6, <1>7 DEF IInv, LoopOK, Init, NoCall

\* MakeCompleted keeps the index sound and asks nobody twice.
LEMMA CompleteKeeps ==
  ASSUME IndexOK, NEW t \in TxHash, NEW p \in Peer, Tracked(index[t][p]),
         Update(t, MakeCompleted(t, index[t], p))
  PROVE  IndexOK' /\ AskedOnce
<1> DEFINE new == MakeCompleted(t, index[t], p)
<1>1. RowOK(index[t]) /\ RowSanity(t, index[t])
  BY Zenon DEF IndexOK, SanityCheck
<1>2. /\ RowOK(new) /\ RowSanity(t, new)
      /\ \/ new = [q \in Peer |-> Absent]
         \/ /\ new[p].state = "COMPLETED"
            /\ \A q \in Peer \ {p} :
                 \/ new[q].state = index[t][q].state
                 \/ index[t][q].state = "CANDIDATE_READY" /\ new[q].state = "CANDIDATE_BEST"
  BY <1>1, MakeCompletedIsSane
<1> HIDE DEF new
<1>3. RowStep(index[t], new)
  BY <1>2 DEF RowStep, Tracked, Absent
<1>4. IndexOK' /\ index'[t] = new /\ \A u \in TxHash \ {t} : index'[u] = index[u]
  BY Zenon, <1>2, <1>3, UpdateKeeps DEF RowStep, new
<1> QED BY <1>3, <1>4, UpdateAsksOnce

\* Every step keeps the invariant and asks nobody twice.
LEMMA StepInv ==
  ASSUME IInv, [Next]_vars
  PROVE  IInv' /\ AskedOnce
<1> USE DEF IInv
<1>1. /\ IndexOK /\ index \in [TxHash -> Row] /\ sequence \in Nat /\ now \in Nat
      /\ \A t \in TxHash : RowOK(index[t]) /\ RowSanity(t, index[t])
  BY Zenon DEF IndexOK, TypeOK, SanityCheck
<1>2. ASSUME IndexOK', UNCHANGED <<sequence, pc, caller, now>>, dropped' \subseteq Peer \X TxHash,
             visible' = visible \/ visible' = index'
      PROVE  TypeOK'
  <2>1. index' \in [TxHash -> Row] /\ \A p \in Peer : peerinfo'[p] = Info(index', p)
    BY Zenon, <1>2 DEF IndexOK, PeerInfoIsExact, Info, TrackedBy, CompletedBy, RequestedBy
  <2>2. peerinfo' \in [Peer -> [total : Int, completed : Int, requested : Int]]
    BY <1>2, <2>1, InfoType DEF IndexOK
  <2> QED BY <1>2, <2>1, <2>2 DEF TypeOK, Row
<1>3. ASSUME UNCHANGED <<index, peerinfo>> PROVE IndexOK' /\ AskedOnce
  <2>1. IndexOK'
    <3>1. index' \in [TxHash -> Row] /\ peerinfo' = [p \in Peer |-> peerinfo'[p]]
      BY <1>1, <1>3 DEF IndexOK
    <3>2. \A t \in TxHash : RowOK(index[t])'
      BY Zenon, <1>1, <1>3 DEF RowOK
    <3>3. SanityCheck'
      BY <1>1, <1>3 DEF SanityCheck, RowSanity, Tracked, IsSelected, Better, Priority
    <3>4. PeerInfoIsExact'
      BY Zenon, <1>1, <1>3 DEF IndexOK, PeerInfoIsExact, Tracked
    <3> QED BY <3>1, <3>2, <3>3, <3>4 DEF IndexOK
  <2>2. \A t \in TxHash, p \in Peer : index'[t][p] = index[t][p]
    BY <1>3
  <2> QED BY <2>1, <2>2 DEF AskedOnce
<1>4. CASE UNCHANGED vars
  <2>1. IndexOK' /\ AskedOnce
    BY <1>3, <1>4 DEF vars
  <2>2. TypeOK' /\ LoopOK'
    BY <1>4 DEF vars, TypeOK, LoopOK, IsWaiting, IsSelectable
  <2> QED BY <2>1, <2>2
<1>5. ASSUME NEW p \in Peer, NEW t \in TxHash, NEW reqtime \in Time, NEW preferred \in Preference[p],
             ReceivedInv(p, t, preferred, reqtime)
      PROVE  IInv' /\ AskedOnce
  <2>1. Call /\ NoResult
    BY Zenon, <1>5 DEF ReceivedInv
  <2>2. IndexOK' /\ AskedOnce /\ sequence' \in Nat
    <3>1. CASE Tracked(index[t][p])
      BY <1>1, <1>3, <1>5, <3>1 DEF ReceivedInv
    <3>2. CASE ~Tracked(index[t][p])
      <4> DEFINE a == [state |-> "CANDIDATE_DELAYED", time |-> reqtime,
                       preferred |-> preferred, sequence |-> sequence]
      <4>1. a \in Announcement /\ a.state = "CANDIDATE_DELAYED"
        BY <1>1, TimeAssumption, PreferenceAssumption DEF Announcement
      <4>2. /\ index' = [index EXCEPT ![t][p] = a]
            /\ peerinfo' = [peerinfo EXCEPT ![p].total = @ + 1]
            /\ sequence' = sequence + 1
        BY Zenon, <1>5, <3>2 DEF ReceivedInv
      <4> HIDE DEF a
      <4>3. IndexOK' /\ AskedOnce
        BY <1>1, <3>2, <4>1, <4>2, InvIsSane
      <4> QED BY <1>1, <4>2, <4>3
    <3> QED BY Zenon, <3>1, <3>2
  <2>3. TypeOK'
    <3>1. index' \in [TxHash -> Row] /\ \A q \in Peer : peerinfo'[q] = Info(index', q)
      BY Zenon, <2>2 DEF IndexOK, PeerInfoIsExact, Info, TrackedBy, CompletedBy, RequestedBy
    <3>2. peerinfo' \in [Peer -> [total : Int, completed : Int, requested : Int]]
      BY <2>2, <3>1, InfoType DEF IndexOK
    <3> QED BY <2>1, <2>2, <3>1, <3>2 DEF TypeOK, Row, Call, NoResult
  <2> QED BY <2>1, <2>2, <2>3 DEF LoopOK, Call
<1>6. ASSUME NEW t \in TxHash, ForgetTxHash(t)
      PROVE  IInv' /\ AskedOnce
  <2> DEFINE none == [q \in Peer |-> Absent]
  <2>1. RowOK(none) /\ RowSanity(t, none) /\ \A q \in Peer : none[q].state = "NOTHING" /\ ~Tracked(none[q])
    BY NoRow
  <2>2. Update(t, none) /\ Call /\ NoResult /\ UNCHANGED sequence
    BY <1>6 DEF ForgetTxHash
  <2> HIDE DEF none
  <2>3. IndexOK' /\ index'[t] = none /\ \A u \in TxHash \ {t} : index'[u] = index[u]
    BY Zenon, <1>1, <2>1, <2>2, UpdateKeeps
  <2>4. RowStep(index[t], none)
    BY Zenon, <2>1 DEF RowStep
  <2>5. AskedOnce
    BY <1>1, <2>3, <2>4, UpdateAsksOnce
  <2>6. TypeOK'
    BY <1>2, <2>2, <2>3 DEF Call, NoResult, TypeOK
  <2> QED BY <2>2, <2>3, <2>5, <2>6 DEF LoopOK, Call
<1>7. ASSUME NEW p \in Peer, NEW t \in TxHash, NEW expiry \in Time, RequestedTx(p, t, expiry)
      PROVE  IInv' /\ AskedOnce
  <2>1. Call /\ NoResult /\ UNCHANGED sequence
    BY Zenon, <1>7 DEF RequestedTx
  <2>2. CASE index[t][p].state \in {"CANDIDATE_BEST", "CANDIDATE_DELAYED", "CANDIDATE_READY"}
    <3> DEFINE new == Requested(index[t], p, expiry)
    <3>1. Update(t, new)
      BY <1>7, <2>2 DEF RequestedTx
    <3>2. expiry \in Nat
      BY Zenon, TimeAssumption
    <3>3. RowOK(new) /\ RowSanity(t, new) /\ Displaces(index[t], new, p, expiry)
      <4>1. RowOK(index[t]) /\ RowSanity(t, index[t])
        BY Zenon, <1>1
      <4> HIDE DEF new
      <4> QED BY Zenon, <2>2, <3>2, <4>1, RequestIsSane DEF new
    <3> HIDE DEF new
    <3>4. RowStep(index[t], new)
      BY Zenon, <2>2, <3>3 DEF RowStep, Tracked, Displaces
    <3>5. IndexOK' /\ index'[t] = new /\ \A u \in TxHash \ {t} : index'[u] = index[u]
      BY Zenon, <1>1, <3>1, <3>3, <3>4, UpdateKeeps DEF RowStep
    <3>6. AskedOnce
      BY Zenon, <1>1, <3>4, <3>5, UpdateAsksOnce
    <3>7. TypeOK'
      BY Zenon, <1>2, <2>1, <3>5 DEF Call, NoResult, TypeOK
    <3> QED BY <2>1, <3>5, <3>6, <3>7 DEF LoopOK, Call
  <2>3. CASE index[t][p].state \notin {"CANDIDATE_BEST", "CANDIDATE_DELAYED", "CANDIDATE_READY"}
    <3>1. UNCHANGED <<index, peerinfo>>
      BY Zenon, <1>7, <2>3 DEF RequestedTx
    <3>2. TypeOK'
      BY Zenon, <1>2, <1>3, <2>1, <3>1 DEF Call, NoResult, TypeOK
    <3> QED BY Zenon, <1>3, <2>1, <3>1, <3>2 DEF LoopOK, Call
  <2> QED BY Zenon, <2>2, <2>3
<1>8. ASSUME NEW p \in Peer, NEW t \in TxHash, ReceivedResponse(p, t)
      PROVE  IInv' /\ AskedOnce
  <2>1. Call /\ NoResult /\ UNCHANGED sequence
    BY <1>8 DEF ReceivedResponse
  <2>2. IndexOK' /\ AskedOnce
    <3>1. CASE Tracked(index[t][p])
      <4>1. Update(t, MakeCompleted(t, index[t], p))
        BY Zenon, <1>8, <3>1 DEF ReceivedResponse
      <4> QED BY <1>1, <3>1, <4>1, CompleteKeeps
    <3>2. CASE ~Tracked(index[t][p])
      BY Zenon, <1>3, <1>8, <3>2 DEF ReceivedResponse
    <3> QED BY Zenon, <3>1, <3>2
  <2>3. TypeOK'
    BY Zenon, <1>2, <2>1, <2>2 DEF Call, NoResult, TypeOK
  <2> QED BY <2>1, <2>2, <2>3 DEF LoopOK, Call
<1>9. ASSUME NEW loop \in {"disconnect", "forward"}, NEW p \in Peer, NEW time \in Nat, Start(loop, p, time)
      PROVE  IInv' /\ AskedOnce
  <2>1. UNCHANGED <<index, peerinfo, sequence, dropped, visible>>
        /\ pc' = loop /\ caller' = p /\ now' = time
    BY Zenon, <1>9 DEF Start
  <2>2. TypeOK'
    BY Zenon, <2>1 DEF TypeOK
  <2> QED BY Zenon, <1>3, <2>1, <2>2 DEF LoopOK
<1>10. ASSUME NEW t \in TxHash, EraseOne(t)
       PROVE  IInv' /\ AskedOnce
  <2>1. /\ pc = "disconnect" /\ caller \in Peer /\ Tracked(index[t][caller])
        /\ UNCHANGED <<sequence, pc, caller, now, dropped, visible>>
    BY Zenon, <1>10 DEF EraseOne, TypeOK
  <2> DEFINE new == Erased(t, index[t], caller)
  <2>2. Update(t, new)
    BY Zenon, <1>10 DEF EraseOne
  <2>3. /\ RowOK(new) /\ RowSanity(t, new) /\ new[caller] = Absent
        /\ \/ new = [q \in Peer |-> Absent]
           \/ \A q \in Peer \ {caller} :
                \/ new[q].state = index[t][q].state
                \/ index[t][q].state = "CANDIDATE_READY" /\ new[q].state = "CANDIDATE_BEST"
    BY <1>1, <2>1, EraseIsSane
  <2> HIDE DEF new
  <2>4. Absent.state = "NOTHING"
    BY Zenon DEF Absent
  <2>5. RowStep(index[t], new)
    BY Zenon, <2>1, <2>3, <2>4 DEF RowStep, Tracked
  <2>6. IndexOK' /\ index'[t] = new /\ \A u \in TxHash \ {t} : index'[u] = index[u]
    BY Zenon, <1>1, <2>2, <2>3, <2>5, UpdateKeeps DEF RowStep
  <2>7. AskedOnce
    BY Zenon, <1>1, <2>5, <2>6, UpdateAsksOnce
  <2>8. TypeOK'
    BY Zenon, <1>2, <2>1, <2>6 DEF TypeOK
  <2> QED BY <2>1, <2>6, <2>7, <2>8 DEF LoopOK
<1>11. CASE Disconnected \/ Select
  <2>1. UNCHANGED <<index, peerinfo, sequence>> /\ Finish
    BY Zenon, <1>11 DEF Disconnected, Select
  <2>2. TypeOK'
    BY Zenon, <2>1 DEF TypeOK, Finish
  <2> QED BY Zenon, <1>3, <2>1, <2>2 DEF LoopOK, Finish
<1>12. ASSUME NEW t \in TxHash, NEW p \in Peer, Promote(t, p)
       PROVE  IInv' /\ AskedOnce
  <2>1. /\ pc = "forward" /\ index[t][p].state = "CANDIDATE_DELAYED"
        /\ Update(t, PromoteCandidateReady(t, index[t], p))
        /\ UNCHANGED <<sequence, pc, caller, now, dropped, visible>>
    BY Zenon, <1>12 DEF Promote
  <2> DEFINE new == PromoteCandidateReady(t, index[t], p)
  <2>2. /\ RowOK(new) /\ RowSanity(t, new)
        /\ Others(index[t], new, p, "CANDIDATE_BEST", "CANDIDATE_READY")
    <3>1. RowOK(index[t]) /\ RowSanity(t, index[t])
      BY Zenon, <1>1
    <3> QED BY Zenon, <2>1, <3>1, PromoteIsSane
  <2> HIDE DEF new
  <2>3. RowStep(index[t], new)
    BY Zenon, <2>1, <2>2 DEF RowStep, Tracked, Others
  <2>4. IndexOK' /\ index'[t] = new /\ \A u \in TxHash \ {t} : index'[u] = index[u]
    BY Zenon, <1>1, <2>1, <2>2, <2>3, UpdateKeeps DEF RowStep, new
  <2>5. AskedOnce
    BY Zenon, <1>1, <2>3, <2>4, UpdateAsksOnce
  <2>6. TypeOK'
    BY Zenon, <1>2, <2>1, <2>4 DEF TypeOK
  <2> QED BY Zenon, <2>1, <2>4, <2>5, <2>6 DEF LoopOK
<1>13. ASSUME NEW t \in TxHash, NEW p \in Peer, Expire(t, p)
       PROVE  IInv' /\ AskedOnce
  <2>1. /\ pc = "forward" /\ index[t][p].state = "REQUESTED"
        /\ Update(t, MakeCompleted(t, index[t], p))
        /\ dropped' = dropped \cup {<<p, t>>}
        /\ UNCHANGED <<sequence, pc, caller, now, visible>>
    BY Zenon, <1>13 DEF Expire
  <2>2. IndexOK' /\ AskedOnce
    BY Zenon, <1>1, <2>1, CompleteKeeps DEF Tracked
  <2>3. TypeOK'
    BY <1>2, <2>1, <2>2 DEF TypeOK
  <2> QED BY Zenon, <2>1, <2>2, <2>3 DEF LoopOK
<1>14. ASSUME NEW t \in TxHash, NEW p \in Peer, Demote(t, p)
       PROVE  IInv' /\ AskedOnce
  <2>1. /\ pc = "backward" /\ IsSelectable(index[t][p]) /\ index[t][p].time > now
        /\ Update(t, ChangeAndReselect(t, index[t], p, "CANDIDATE_DELAYED"))
        /\ UNCHANGED <<sequence, pc, caller, now, dropped, visible>>
    BY Zenon, <1>14 DEF Demote, Latest
  <2> DEFINE new == ChangeAndReselect(t, index[t], p, "CANDIDATE_DELAYED")
  <2>2. Tracked(index[t][p]) /\ index[t][p].state \notin {"REQUESTED", "COMPLETED"}
    BY Zenon, <2>1 DEF IsSelectable, Tracked
  <2>3. /\ RowOK(new) /\ RowSanity(t, new) /\ SameData(index[t], new)
        /\ Others(index[t], new, p, "CANDIDATE_READY", "CANDIDATE_BEST")
    <3>1. RowOK(index[t]) /\ RowSanity(t, index[t])
      BY Zenon, <1>1
    <3>2. \A s \in {"CANDIDATE_DELAYED"} :
            /\ RowOK(ChangeAndReselect(t, index[t], p, s))
            /\ RowSanity(t, ChangeAndReselect(t, index[t], p, s))
            /\ SameData(index[t], ChangeAndReselect(t, index[t], p, s))
            /\ Others(index[t], ChangeAndReselect(t, index[t], p, s), p, "CANDIDATE_READY", "CANDIDATE_BEST")
      BY <2>2, <3>1, ReselectIsSane
    <3> QED BY Zenon, <3>2
  <2> HIDE DEF new
  <2>4. RowStep(index[t], new)
    BY Zenon, <2>2, <2>3 DEF RowStep, Tracked, Others
  <2>5. IndexOK' /\ index'[t] = new /\ \A u \in TxHash \ {t} : index'[u] = index[u]
    BY Zenon, <1>1, <2>1, <2>3, <2>4, UpdateKeeps DEF RowStep, new
  <2>6. AskedOnce
    BY Zenon, <1>1, <2>4, <2>5, UpdateAsksOnce
  <2>7. TypeOK'
    BY Zenon, <1>2, <2>1, <2>5 DEF TypeOK
  <2>8. ASSUME NEW u \in TxHash, NEW q \in Peer, IsWaiting(index'[u][q])
        PROVE  index'[u][q].time > now'
    <3>1. CASE u # t
      BY Zenon, <2>1, <2>5, <2>8, <3>1 DEF LoopOK
    <3>2. CASE u = t /\ q = p
      BY Zenon, <2>1, <2>3, <2>5, <3>2 DEF SameData
    <3>3. CASE u = t /\ q # p
      <4>1. IsWaiting(index[t][q])
        BY Zenon, <2>3, <2>5, <2>8, <3>3 DEF IsWaiting, Others
      <4> QED BY <2>1, <2>3, <2>5, <3>3, <4>1 DEF LoopOK, SameData
    <3> QED BY Zenon, <3>1, <3>2, <3>3
  <2>9. LoopOK'
    BY Zenon, <2>1, <2>8 DEF LoopOK, IsWaiting
  <2> QED BY Zenon, <2>5, <2>6, <2>7, <2>9
<1>15. CASE Forwarded \/ Backwarded
  <2>1. UNCHANGED <<index, peerinfo, sequence, caller, now, dropped, visible>>
    BY <1>15 DEF Forwarded, Backwarded
  <2>2. IndexOK' /\ AskedOnce
    BY Zenon, <1>3, <2>1
  <2>3. TypeOK'
    BY Zenon, <1>15, <2>1 DEF TypeOK, Forwarded, Backwarded
  <2>4. LoopOK'
    BY Zenon, <1>15, <2>1 DEF LoopOK, Forwarded, Backwarded, IsWaiting, IsSelectable
  <2> QED BY Zenon, <2>2, <2>3, <2>4
<1>16. \A p \in Peer : DisconnectedPeer(p) => IInv' /\ AskedOnce
  BY <1>9 DEF DisconnectedPeer
<1>17. \A p \in Peer, time \in Time : GetRequestable(p, time) => IInv' /\ AskedOnce
  BY <1>9, TimeAssumption DEF GetRequestable
<1> HIDE DEF IInv
<1> QED BY <1>4, <1>5, <1>6, <1>7, <1>8, <1>10, <1>11, <1>12, <1>13, <1>14, <1>15, <1>16, <1>17 DEF Next

\* The type invariant, the assertions of SanityCheck and the counters hold
\* throughout.
THEOREM TrackerInvariant == Spec => []IInv
<1>1. IInv /\ [Next]_vars => IInv'
  BY StepInv
<1> QED BY InitInv, <1>1, PTL DEF Spec

\* Every variable keeps its type.
THEOREM TypeCorrect == Spec => []TypeOK
<1>1. IInv => TypeOK
  BY DEF IInv
<1> QED BY TrackerInvariant, <1>1, PTL

\* Impl::SanityCheck holds for any number of peers and transactions.
THEOREM SanityCheckHolds == Spec => []SanityCheck
<1>1. IInv => SanityCheck
  BY DEF IInv, IndexOK
<1> QED BY TrackerInvariant, <1>1, PTL

\* So do the checks on the per-peer counters.
THEOREM PeerInfoHolds == Spec => []PeerInfoIsExact
<1>1. IInv => PeerInfoIsExact
  BY DEF IInv, IndexOK
<1> QED BY TrackerInvariant, <1>1, PTL

\* And Impl::PostGetRequestableSanityCheck.
THEOREM PostCheckHolds == Spec => []PostGetRequestableSanityCheck
<1>1. IInv => PostGetRequestableSanityCheck
  BY DEF IInv, LoopOK, PostGetRequestableSanityCheck
<1> QED BY TrackerInvariant, <1>1, PTL

\* Nobody is asked twice for one announcement.
THEOREM AskedAtMostOnce == Spec => NeverAskedTwice
<1>1. IInv /\ [Next]_vars => [AskedOnce]_vars
  BY StepInv
<1> QED BY TrackerInvariant, <1>1, PTL DEF Spec, NeverAskedTwice, AskedOnce
-----------------------------------------------------------------------------
(* The implementation of the tracker                                        *)

\* The state the caller is promised.
AbsState(s) == IF s \in {"CANDIDATE_DELAYED", "CANDIDATE_READY", "CANDIDATE_BEST"} THEN "CANDIDATE" ELSE s

\* The abstract announcement, field by field.
LEMMA AbsFields ==
  ASSUME NEW a \in Announcement
  PROVE  AbsAnn(a) = [state |-> AbsState(a.state), time |-> a.time,
                      preferred |-> a.preferred, sequence |-> a.sequence]
BY DEF Announcement, AbsAnn, AbsState

\* Announcements of the same data and the same abstract state are the same to
\* the caller.
LEMMA AbsSame ==
  ASSUME NEW a \in Announcement, NEW b \in Announcement, AbsState(a.state) = AbsState(b.state),
         a.time = b.time, a.preferred = b.preferred, a.sequence = b.sequence
  PROVE  AbsAnn(a) = AbsAnn(b)
BY Zenon, AbsFields

\* The abstract states of the announcements of a row.
LEMMA AbsOfRow ==
  ASSUME NEW row \in Row, NEW q \in Peer
  PROVE  /\ row[q] \in Announcement /\ AbsRow(row)[q] = AbsAnn(row[q])
         /\ AbsRow(row)[q].state = AbsState(row[q].state)
         /\ AbsRow(row)[q].time = row[q].time
         /\ AbsRow(row)[q].preferred = row[q].preferred
         /\ AbsRow(row)[q].sequence = row[q].sequence
<1>1. row[q] \in Announcement /\ AbsRow(row)[q] = AbsAnn(row[q])
  BY DEF Row, AbsRow
<1> QED
  BY <1>1, AbsFields

\* Nobody announces an empty row to the caller either.
LEMMA AbsOfNone ==
  AbsRow([q \in Peer |-> Absent]) = [q \in Peer |-> Abstract!Absent]
<1>1. AbsAnn(Absent) = Absent /\ Abstract!Absent = Absent
  BY DEF AbsAnn, Absent, Abstract!Absent
<1> QED
  BY Zenon, <1>1 DEF AbsRow

\* Rows that differ in the kinds of their candidates only are the same.
LEMMA AbsRowSame ==
  ASSUME NEW row \in Row, NEW new \in Row, SameData(row, new),
         \A q \in Peer : AbsState(new[q].state) = AbsState(row[q].state)
  PROVE  AbsRow(new) = AbsRow(row)
<1>1. ASSUME NEW q \in Peer PROVE AbsAnn(new[q]) = AbsAnn(row[q])
  <2>1. row[q] \in Announcement /\ new[q] \in Announcement
    BY DEF Row
  <2> QED
    BY Zenon, <2>1, AbsSame DEF SameData
<1> QED
  BY Zenon, <1>1 DEF AbsRow

\* Promoting a candidate is no business of the caller.
LEMMA PromoteIsHidden ==
  ASSUME NEW t \in TxHash, NEW row, RowOK(row), RowSanity(t, row),
         NEW p \in Peer, row[p].state = "CANDIDATE_DELAYED",
         NEW new, new = PromoteCandidateReady(t, row, p)
  PROVE  AbsRow(new) = AbsRow(row)
<1>1. /\ RowOK(new) /\ SameData(row, new)
      /\ new[p].state \in {"CANDIDATE_READY", "CANDIDATE_BEST"}
      /\ Others(row, new, p, "CANDIDATE_BEST", "CANDIDATE_READY")
  BY Zenon, PromoteIsSane
<1>2. \A q \in Peer : AbsState(new[q].state) = AbsState(row[q].state)
  BY <1>1 DEF Others, AbsState
<1> QED
  BY Zenon, <1>1, <1>2, AbsRowSame DEF RowOK

\* Nor is making one wait again.
LEMMA DemoteIsHidden ==
  ASSUME NEW t \in TxHash, NEW row, RowOK(row), RowSanity(t, row),
         NEW p \in Peer, IsSelectable(row[p]),
         NEW new, new = ChangeAndReselect(t, row, p, "CANDIDATE_DELAYED")
  PROVE  AbsRow(new) = AbsRow(row)
<1>1. Tracked(row[p])
  BY DEF IsSelectable, Tracked
<1>2. PICK s \in {"CANDIDATE_DELAYED"} : new = ChangeAndReselect(t, row, p, s)
  BY Zenon
<1>3. s \in {"CANDIDATE_DELAYED", "COMPLETED"} /\ s # "COMPLETED"
  OBVIOUS
<1>4. /\ RowOK(new) /\ SameData(row, new) /\ new[p].state = s
      /\ Others(row, new, p, "CANDIDATE_READY", "CANDIDATE_BEST")
  BY <1>1, <1>2, <1>3, ReselectIsSane
<1>5. \A q \in Peer : AbsState(new[q].state) = AbsState(row[q].state)
  BY <1>4 DEF Others, AbsState, IsSelectable
<1> QED
  BY Zenon, <1>4, <1>5, AbsRowSame DEF RowOK

\* A row in which somebody can be asked or is being asked is kept.
LEMMA KeptIfAny ==
  ASSUME NEW v, NEW q \in Peer, v[q].state \in {"CANDIDATE", "REQUESTED"}
  PROVE  Abstract!Kept(v) = v
BY Zenon DEF Abstract!Kept

\* Any other row goes.
LEMMA DroppedIfNone ==
  ASSUME NEW v, \A q \in Peer : v[q].state \notin {"CANDIDATE", "REQUESTED"}
  PROVE  Abstract!Kept(v) = [q \in Peer |-> Abstract!Absent]
BY Zenon DEF Abstract!Kept

\* What an abstract state says of the state.
LEMMA AbsStates ==
  ASSUME NEW a \in Announcement
  PROVE  /\ AbsState(a.state) \in {"CANDIDATE", "REQUESTED"} <=> a.state \notin {"NOTHING", "COMPLETED"}
         /\ AbsState(a.state) = "REQUESTED" <=> a.state = "REQUESTED"
         /\ AbsState(a.state) = "NOTHING" <=> a.state = "NOTHING"
         /\ AbsState(a.state) = "COMPLETED" <=> a.state = "COMPLETED"
BY DEF Announcement, AbsState

\* MakeCompleted completes the announcement and drops a row of nothing else.
LEMMA CompleteIsSeen ==
  ASSUME NEW t \in TxHash, NEW row, RowOK(row), RowSanity(t, row),
         NEW p \in Peer, Tracked(row[p]),
         NEW new, new = MakeCompleted(t, row, p)
  PROVE  AbsRow(new) = Abstract!Kept([AbsRow(row) EXCEPT ![p].state = "COMPLETED"])
<1> DEFINE v == [AbsRow(row) EXCEPT ![p].state = "COMPLETED"]
<1>1. /\ RowOK(new)
      /\ \/ /\ new = [q \in Peer |-> Absent]
            /\ \A q \in Peer \ {p} : row[q].state \in {"NOTHING", "COMPLETED"}
         \/ /\ SameData(row, new)
            /\ new[p].state = "COMPLETED"
            /\ \E q \in Peer \ {p} : row[q].state \notin {"NOTHING", "COMPLETED"}
            /\ \A q \in Peer \ {p} :
                 \/ new[q].state = row[q].state
                 \/ row[q].state = "CANDIDATE_READY" /\ new[q].state = "CANDIDATE_BEST"
  BY MakeCompletedIsSane
<1>2. row \in Row /\ new \in Row
  BY Zenon, <1>1 DEF RowOK
<1>3. /\ v = [q \in Peer |-> v[q]]
      /\ v[p] = [AbsRow(row)[p] EXCEPT !.state = "COMPLETED"]
      /\ \A q \in Peer \ {p} : v[q] = AbsRow(row)[q]
  BY DEF AbsRow
<1>4. v[p] = [state |-> "COMPLETED", time |-> row[p].time,
              preferred |-> row[p].preferred, sequence |-> row[p].sequence]
  <2>1. AbsRow(row)[p] = [state |-> AbsState(row[p].state), time |-> row[p].time,
                          preferred |-> row[p].preferred, sequence |-> row[p].sequence]
    BY Zenon, <1>2, AbsOfRow, AbsFields
  <2> QED
    BY <1>3, <2>1
<1>5. v[p].state = "COMPLETED"
  BY <1>4
<1> HIDE DEF v
<1>6. ASSUME NEW q \in Peer \ {p}
      PROVE  row[q] \in Announcement /\ v[q].state = AbsState(row[q].state)
  <2>1. row[q] \in Announcement /\ AbsRow(row)[q].state = AbsState(row[q].state)
    BY <1>2, AbsOfRow
  <2>2. v[q] = AbsRow(row)[q]
    BY Zenon, <1>3
  <2> QED
    BY Zenon, <2>1, <2>2
<1>7. CASE new = [q \in Peer |-> Absent] /\ \A q \in Peer \ {p} : row[q].state \in {"NOTHING", "COMPLETED"}
  <2>1. \A q \in Peer : v[q].state \notin {"CANDIDATE", "REQUESTED"}
    <3> TAKE q \in Peer
    <3>1. CASE q = p
      BY Zenon, <1>5, <3>1
    <3>2. CASE q # p
      <4>1. row[q] \in Announcement /\ v[q].state = AbsState(row[q].state)
        BY Zenon, <1>6, <3>2
      <4> QED
        BY Zenon, <1>7, <3>2, <4>1, AbsStates
    <3> QED
      BY Zenon, <3>1, <3>2
  <2> QED
    BY Zenon, <1>7, <2>1, DroppedIfNone, AbsOfNone DEF v
<1>8. CASE /\ SameData(row, new) /\ new[p].state = "COMPLETED"
           /\ \E q \in Peer \ {p} : row[q].state \notin {"NOTHING", "COMPLETED"}
           /\ \A q \in Peer \ {p} :
                \/ new[q].state = row[q].state
                \/ row[q].state = "CANDIDATE_READY" /\ new[q].state = "CANDIDATE_BEST"
  <2>1. PICK q \in Peer \ {p} : row[q].state \notin {"NOTHING", "COMPLETED"}
    BY Zenon, <1>8
  <2>2. v[q].state \in {"CANDIDATE", "REQUESTED"}
    <3>1. row[q] \in Announcement /\ v[q].state = AbsState(row[q].state)
      BY Zenon, <1>6
    <3> QED
      BY Zenon, <2>1, <3>1, AbsStates
  <2>3. Abstract!Kept(v) = v
    BY Zenon, <2>2, KeptIfAny
  <2>4. AbsAnn(new[p]) = v[p]
    <3>1. new[p] \in Announcement /\ AbsState(new[p].state) = "COMPLETED"
      BY <1>2, <1>8 DEF Row, AbsState
    <3> QED
      BY Zenon, <1>4, <1>8, <3>1, AbsFields DEF SameData
  <2>5. ASSUME NEW r \in Peer \ {p} PROVE AbsAnn(new[r]) = v[r]
    <3>1. new[r] \in Announcement /\ row[r] \in Announcement
      BY Zenon, <1>2 DEF Row
    <3>2. AbsState(new[r].state) = AbsState(row[r].state)
      BY <1>8 DEF AbsState
    <3>3. AbsAnn(new[r]) = AbsAnn(row[r])
      BY Zenon, <1>8, <3>1, <3>2, AbsSame DEF SameData
    <3> QED
      BY Zenon, <1>2, <1>3, <3>3, AbsOfRow
  <2>6. AbsRow(new) = v
    BY Zenon, <1>3, <2>4, <2>5 DEF AbsRow
  <2> QED
    BY Zenon, <2>3, <2>6 DEF v
<1> QED
  BY Zenon, <1>1, <1>7, <1>8

\* DisconnectedPeer takes the announcement out and drops a row of nothing else.
LEMMA EraseIsSeen ==
  ASSUME NEW t \in TxHash, NEW row, RowOK(row), RowSanity(t, row),
         NEW p \in Peer, Tracked(row[p]),
         NEW new, new = Erased(t, row, p)
  PROVE  AbsRow(new) = Abstract!Kept([AbsRow(row) EXCEPT ![p] = Abstract!Absent])
<1> DEFINE v == [AbsRow(row) EXCEPT ![p] = Abstract!Absent]
<1>1. /\ RowOK(new) /\ new[p] = Absent
      /\ \/ /\ new = [q \in Peer |-> Absent]
            /\ \A q \in Peer \ {p} : row[q].state \in {"NOTHING", "COMPLETED"}
         \/ /\ \E q \in Peer \ {p} : row[q].state \notin {"NOTHING", "COMPLETED"}
            /\ \A q \in Peer \ {p} :
                 /\ new[q].time = row[q].time /\ new[q].preferred = row[q].preferred
                 /\ new[q].sequence = row[q].sequence
                 /\ \/ new[q].state = row[q].state
                    \/ row[q].state = "CANDIDATE_READY" /\ new[q].state = "CANDIDATE_BEST"
  BY EraseIsSane
<1>2. row \in Row /\ new \in Row
  BY Zenon, <1>1 DEF RowOK
<1>3. /\ v = [q \in Peer |-> v[q]] /\ v[p] = Abstract!Absent
      /\ \A q \in Peer \ {p} : v[q] = AbsRow(row)[q]
  BY Zenon DEF AbsRow
<1>4. AbsAnn(Absent) = Abstract!Absent /\ Abstract!Absent.state \notin {"CANDIDATE", "REQUESTED"}
  BY DEF AbsAnn, Absent, Abstract!Absent
<1> HIDE DEF v
<1>5. ASSUME NEW q \in Peer \ {p}
      PROVE  row[q] \in Announcement /\ v[q].state = AbsState(row[q].state)
  <2>1. row[q] \in Announcement /\ AbsRow(row)[q].state = AbsState(row[q].state)
    BY <1>2, AbsOfRow
  <2>2. v[q] = AbsRow(row)[q]
    BY Zenon, <1>3
  <2> QED
    BY Zenon, <2>1, <2>2
<1>6. CASE new = [q \in Peer |-> Absent] /\ \A q \in Peer \ {p} : row[q].state \in {"NOTHING", "COMPLETED"}
  <2>1. \A q \in Peer : v[q].state \notin {"CANDIDATE", "REQUESTED"}
    <3> TAKE q \in Peer
    <3>1. CASE q = p
      BY Zenon, <1>3, <1>4, <3>1
    <3>2. CASE q # p
      <4>1. row[q] \in Announcement /\ v[q].state = AbsState(row[q].state)
        BY Zenon, <1>5, <3>2
      <4> QED
        BY Zenon, <1>6, <3>2, <4>1, AbsStates
    <3> QED
      BY Zenon, <3>1, <3>2
  <2> QED
    BY Zenon, <1>6, <2>1, DroppedIfNone, AbsOfNone DEF v
<1>7. CASE /\ \E q \in Peer \ {p} : row[q].state \notin {"NOTHING", "COMPLETED"}
           /\ \A q \in Peer \ {p} :
                /\ new[q].time = row[q].time /\ new[q].preferred = row[q].preferred
                /\ new[q].sequence = row[q].sequence
                /\ \/ new[q].state = row[q].state
                   \/ row[q].state = "CANDIDATE_READY" /\ new[q].state = "CANDIDATE_BEST"
  <2>1. PICK q \in Peer \ {p} : row[q].state \notin {"NOTHING", "COMPLETED"}
    BY Zenon, <1>7
  <2>2. v[q].state \in {"CANDIDATE", "REQUESTED"}
    <3>1. row[q] \in Announcement /\ v[q].state = AbsState(row[q].state)
      BY Zenon, <1>5
    <3> QED
      BY Zenon, <2>1, <3>1, AbsStates
  <2>3. Abstract!Kept(v) = v
    BY Zenon, <2>2, KeptIfAny
  <2>4. ASSUME NEW r \in Peer \ {p} PROVE AbsAnn(new[r]) = v[r]
    <3>1. new[r] \in Announcement /\ row[r] \in Announcement
      BY Zenon, <1>2 DEF Row
    <3>2. AbsState(new[r].state) = AbsState(row[r].state)
      BY <1>7 DEF AbsState
    <3>3. AbsAnn(new[r]) = AbsAnn(row[r])
      BY Zenon, <1>7, <3>1, <3>2, AbsSame
    <3> QED
      BY Zenon, <1>2, <1>3, <3>3, AbsOfRow
  <2>5. AbsRow(new) = v
    <3>1. \A r \in Peer : AbsAnn(new[r]) = v[r]
      <4>1. AbsAnn(new[p]) = v[p]
        BY Zenon, <1>1, <1>3, <1>4
      <4> QED
        BY Zenon, <2>4, <4>1
    <3> QED
      BY Zenon, <1>3, <3>1 DEF AbsRow
  <2> QED
    BY Zenon, <2>3, <2>5 DEF v
<1> QED
  BY Zenon, <1>1, <1>6, <1>7

\* Requesting from one peer gives up the request to another.
LEMMA RequestIsSeen ==
  ASSUME NEW t \in TxHash, NEW row, RowOK(row), RowSanity(t, row), NEW p \in Peer,
         row[p].state \in {"CANDIDATE_BEST", "CANDIDATE_DELAYED", "CANDIDATE_READY"},
         NEW expiry \in Nat,
         NEW new, new = Requested(row, p, expiry)
  PROVE  AbsRow(new) = Abstract!Requested(AbsRow(row), p, expiry)
<1>1. RowOK(new) /\ Displaces(row, new, p, expiry)
  BY RequestIsSane
<1>2. row \in Row /\ new \in Row
  BY Zenon, <1>1 DEF RowOK
<1> DEFINE v == AbsRow(row)
           w == Abstract!Requested(v, p, expiry)
<1>3. ASSUME NEW q \in Peer
      PROVE  /\ row[q] \in Announcement /\ new[q] \in Announcement
             /\ v[q] = [state |-> AbsState(row[q].state), time |-> row[q].time,
                        preferred |-> row[q].preferred, sequence |-> row[q].sequence]
             /\ AbsAnn(new[q]) = [state |-> AbsState(new[q].state), time |-> new[q].time,
                                  preferred |-> new[q].preferred, sequence |-> new[q].sequence]
  <2>1. row[q] \in Announcement /\ new[q] \in Announcement
    BY Zenon, <1>2 DEF Row
  <2>2. v[q] = AbsAnn(row[q])
    BY Zenon DEF AbsRow
  <2> QED
    BY Zenon, <2>1, <2>2, AbsFields
<1> HIDE DEF v
<1>4. /\ w = [q \in Peer |-> w[q]]
      /\ w[p] = [v[p] EXCEPT !.state = "REQUESTED", !.time = expiry]
      /\ \A q \in Peer \ {p} : w[q] = IF v[q].state = "REQUESTED"
                                      THEN [v[q] EXCEPT !.state = "COMPLETED"] ELSE v[q]
  BY Zenon DEF Abstract!Requested
<1> HIDE DEF w
<1>5. AbsAnn(new[p]) = w[p]
  <2>1. w[p] = [state |-> "REQUESTED", time |-> expiry,
                preferred |-> row[p].preferred, sequence |-> row[p].sequence]
    <3>1. v[p] = [state |-> AbsState(row[p].state), time |-> row[p].time,
                  preferred |-> row[p].preferred, sequence |-> row[p].sequence]
      BY Zenon, <1>3
    <3>2. w[p] = [v[p] EXCEPT !.state = "REQUESTED", !.time = expiry]
      BY Zenon, <1>4
    <3>3. [v[p] EXCEPT !.state = "REQUESTED", !.time = expiry] =
          [state |-> "REQUESTED", time |-> expiry,
           preferred |-> row[p].preferred, sequence |-> row[p].sequence]
      <4> DEFINE b == [v[p] EXCEPT !.state = "REQUESTED"]
                 c == [b EXCEPT !.time = expiry]
      <4>1. b = [state |-> "REQUESTED", time |-> row[p].time,
                 preferred |-> row[p].preferred, sequence |-> row[p].sequence]
        BY ONLY <3>1
      <4> HIDE DEF b
      <4>2. c = [state |-> "REQUESTED", time |-> expiry,
                 preferred |-> row[p].preferred, sequence |-> row[p].sequence]
        BY ONLY <4>1
      <4> HIDE DEF c
      <4>3. c = [v[p] EXCEPT !.state = "REQUESTED", !.time = expiry]
        BY ONLY TRUE DEF b, c
      <4> QED
        BY Zenon, <4>2, <4>3
    <3> QED
      BY Zenon, <3>2, <3>3
  <2>2. AbsState(new[p].state) = "REQUESTED" /\ new[p].time = expiry
        /\ new[p].preferred = row[p].preferred /\ new[p].sequence = row[p].sequence
    BY <1>1 DEF Displaces, AbsState
  <2> QED
    BY Zenon, <1>3, <2>1, <2>2
<1>6. ASSUME NEW q \in Peer \ {p} PROVE AbsAnn(new[q]) = w[q]
  <2>1. /\ new[q].time = row[q].time /\ new[q].preferred = row[q].preferred
        /\ new[q].sequence = row[q].sequence
        /\ \/ new[q].state = row[q].state /\ row[q].state \notin {"CANDIDATE_BEST", "REQUESTED"}
           \/ row[q].state = "CANDIDATE_BEST" /\ new[q].state = "CANDIDATE_READY"
           \/ row[q].state = "REQUESTED" /\ new[q].state = "COMPLETED"
    BY Zenon, <1>1 DEF Displaces
  <2>2. v[q] = [state |-> AbsState(row[q].state), time |-> row[q].time,
                preferred |-> row[q].preferred, sequence |-> row[q].sequence]
    BY Zenon, <1>3
  <2>3. v[q].state = AbsState(row[q].state)
    BY <2>2
  <2>4. CASE row[q].state = "REQUESTED"
    <3>1. v[q].state = "REQUESTED" /\ AbsState(new[q].state) = "COMPLETED"
      BY <2>1, <2>4, <2>3 DEF AbsState
    <3>2. w[q] = [v[q] EXCEPT !.state = "COMPLETED"]
      BY Zenon, <1>4, <3>1
    <3>3. w[q] = [state |-> "COMPLETED", time |-> row[q].time,
                  preferred |-> row[q].preferred, sequence |-> row[q].sequence]
      BY <2>2, <3>2
    <3> QED
      BY Zenon, <1>3, <2>1, <3>1, <3>3
  <2>5. CASE row[q].state # "REQUESTED"
    <3>1. v[q].state # "REQUESTED" /\ AbsState(new[q].state) = AbsState(row[q].state)
      BY <2>1, <2>5, <2>3 DEF AbsState
    <3>2. w[q] = v[q]
      BY Zenon, <1>4, <3>1
    <3>3. AbsAnn(new[q]) = [state |-> AbsState(new[q].state), time |-> new[q].time,
                            preferred |-> new[q].preferred, sequence |-> new[q].sequence]
      BY Zenon, <1>3
    <3>4. /\ new[q].time = row[q].time /\ new[q].preferred = row[q].preferred
          /\ new[q].sequence = row[q].sequence
      BY Zenon, <2>1
    <3>5. AbsAnn(new[q]) = v[q]
      BY ONLY Zenon, <2>2, <3>1, <3>3, <3>4
    <3> QED
      BY Zenon, <3>2, <3>5
  <2> QED
    BY Zenon, <2>4, <2>5
<1>7. AbsRow(new) = w
  BY Zenon, <1>4, <1>5, <1>6 DEF AbsRow
<1> QED
  BY Zenon, <1>7 DEF v, w

\* A timed out request is the only one of its transaction.
LEMMA ExpireIsSeen ==
  ASSUME NEW t \in TxHash, NEW row, RowOK(row), RowSanity(t, row),
         NEW p \in Peer, row[p].state = "REQUESTED", NEW time, row[p].time <= time,
         NEW new, new = MakeCompleted(t, row, p)
  PROVE  /\ AbsRow(new) = Abstract!Expire(AbsRow(row), time)
         /\ \A q \in Peer : Abstract!TimedOut(AbsRow(row)[q], time) <=> q = p
<1> DEFINE v == AbsRow(row)
           w == [q \in Peer |-> IF Abstract!TimedOut(v[q], time)
                                THEN [v[q] EXCEPT !.state = "COMPLETED"] ELSE v[q]]
<1>1. row \in Row
  BY Zenon DEF RowOK
<1>2. ASSUME NEW q \in Peer PROVE v[q].state = "REQUESTED" <=> q = p
  <2>1. row[q] \in Announcement /\ v[q].state = AbsState(row[q].state)
    BY <1>1, AbsOfRow
  <2>2. row[q].state = "REQUESTED" <=> q = p
    BY Zenon DEF RowSanity, IsSelected
  <2> QED
    BY Zenon, <2>1, <2>2, AbsStates
<1>3. v[p].time = row[p].time /\ v = [q \in Peer |-> v[q]]
  BY Zenon, <1>1, AbsOfRow DEF AbsRow
<1> HIDE DEF v
<1>4. \A q \in Peer : Abstract!TimedOut(v[q], time) <=> q = p
  BY Zenon, <1>2, <1>3 DEF Abstract!TimedOut
<1>5. w = [v EXCEPT ![p].state = "COMPLETED"]
  <2>1. [v EXCEPT ![p].state = "COMPLETED"] =
        [q \in Peer |-> IF q = p THEN [v[q] EXCEPT !.state = "COMPLETED"] ELSE v[q]]
    BY <1>3
  <2> QED
    BY Zenon, <1>4, <2>1
<1>6. Abstract!Expire(v, time) = Abstract!Kept(w)
  BY Zenon, <1>4 DEF Abstract!Expire
<1>7. AbsRow(new) = Abstract!Kept([v EXCEPT ![p].state = "COMPLETED"])
  <2>1. Tracked(row[p])
    BY DEF Tracked
  <2> QED
    BY <2>1, CompleteIsSeen DEF v
<1> HIDE DEF w
<1> QED
  BY Zenon, <1>4, <1>5, <1>6, <1>7 DEF v

\* The priority puts the preferred flag above the salted hash.
LEMMA BetterIsBetter ==
  ASSUME NEW t \in TxHash, NEW p \in Peer, NEW q \in Peer,
         NEW a \in Announcement, NEW b \in Announcement, NEW x, NEW y,
         x.preferred = a.preferred, y.preferred = b.preferred
  PROVE  Better(t, p, a, q, b) <=> Abstract!Better(t, p, x, q, y)
<1>1. /\ MaxSalt \in Nat /\ Salt[t][p] \in 0..MaxSalt /\ Salt[t][q] \in 0..MaxSalt
  BY SaltAssumption
<1>2. a.preferred \in BOOLEAN /\ b.preferred \in BOOLEAN
  BY DEF Announcement
<1>3. CASE a.preferred /\ b.preferred
  BY <1>1, <1>3 DEF Better, Priority, Abstract!Better
<1>4. CASE a.preferred /\ ~b.preferred
  <2>1. Abstract!Better(t, p, x, q, y)
    BY Zenon, <1>4 DEF Abstract!Better
  <2>2. Priority(t, p, a.preferred) = Salt[t][p] + (MaxSalt + 1) /\ Priority(t, q, b.preferred) = Salt[t][q] + 0
    BY Zenon, <1>4 DEF Priority
  <2>3. Priority(t, p, a.preferred) > Priority(t, q, b.preferred)
    BY <1>1, <2>2
  <2> QED
    BY Zenon, <2>1, <2>3 DEF Better
<1>5. CASE ~a.preferred /\ b.preferred
  <2>1. ~Abstract!Better(t, p, x, q, y)
    BY Zenon, <1>5 DEF Abstract!Better
  <2>2. Priority(t, p, a.preferred) = Salt[t][p] + 0 /\ Priority(t, q, b.preferred) = Salt[t][q] + (MaxSalt + 1)
    BY Zenon, <1>5 DEF Priority
  <2>3. ~(Priority(t, p, a.preferred) > Priority(t, q, b.preferred))
    BY <1>1, <2>2
  <2> QED
    BY Zenon, <2>1, <2>3 DEF Better
<1>6. CASE ~a.preferred /\ ~b.preferred
  <2>1. a.preferred = b.preferred
    BY Zenon, <1>2, <1>6
  <2>2. Abstract!Better(t, p, x, q, y) <=> Salt[t][p] > Salt[t][q]
    BY Zenon, <1>6, <2>1 DEF Abstract!Better
  <2>3. Priority(t, p, a.preferred) = Salt[t][p] + 0 /\ Priority(t, q, b.preferred) = Salt[t][q] + 0
    BY Zenon, <1>6 DEF Priority
  <2> QED
    BY <1>1, <2>2, <2>3 DEF Better
<1> QED
  BY Zenon, <1>2, <1>3, <1>4, <1>5, <1>6

\* Of two announcements at most one is better.
LEMMA BetterIsStrict ==
  ASSUME NEW t \in TxHash, NEW p \in Peer, NEW q \in Peer, NEW row \in Row,
         Better(t, p, row[p], q, row[q])
  PROVE  ~Better(t, q, row[q], p, row[p])
<1>1. \A r \in Peer : Priority(t, r, row[r].preferred) \in 0..(2 * MaxSalt + 1) /\ MaxSalt \in Nat
  BY Zenon, PriorityIsInjective, SaltAssumption
<1> DEFINE x == Priority(t, p, row[p].preferred)
           y == Priority(t, q, row[q].preferred)
<1>2. x \in Int /\ y \in Int
  <2>1. x \in 0..(2 * MaxSalt + 1) /\ y \in 0..(2 * MaxSalt + 1) /\ MaxSalt \in Nat
    BY Zenon, <1>1
  <2> HIDE DEF x, y
  <2> QED
    BY <2>1
<1>3. x > y
  BY Zenon DEF Better
<1> HIDE DEF x, y
<1>4. ~(y > x)
  BY <1>2, <1>3
<1> QED
  BY Zenon, <1>4 DEF Better, x, y

\* Once SetTimePoint ran, what the index calls the best candidate is whom the
\* header says to ask.
LEMMA BestIsRequestable ==
  ASSUME NEW t \in TxHash, NEW row, RowOK(row), RowSanity(t, row), NEW p \in Peer, NEW time \in Nat,
         \A q \in Peer : IsWaiting(row[q]) => row[q].time > time,
         \A q \in Peer : IsSelectable(row[q]) => row[q].time <= time
  PROVE  row[p].state = "CANDIDATE_BEST" <=> Abstract!IsRequestable(t, AbsRow(row), p, time)
<1> DEFINE v == AbsRow(row)
<1>1. row \in Row
  BY Zenon DEF RowOK
<1>2. ASSUME NEW q \in Peer
      PROVE  /\ row[q] \in Announcement
             /\ v[q].state = "REQUESTED" <=> row[q].state = "REQUESTED"
             /\ v[q].preferred = row[q].preferred
             /\ Abstract!Viable(v[q], time) <=> IsSelectable(row[q])
  <2>1. /\ row[q] \in Announcement /\ v[q].state = AbsState(row[q].state)
        /\ v[q].time = row[q].time /\ v[q].preferred = row[q].preferred
    BY <1>1, AbsOfRow
  <2>2. v[q].state = "REQUESTED" <=> row[q].state = "REQUESTED"
    BY Zenon, <2>1, AbsStates
  <2>3. v[q].state = "CANDIDATE" <=> row[q].state = "CANDIDATE_DELAYED" \/ IsSelectable(row[q])
    BY <2>1 DEF AbsState, IsSelectable, Announcement
  <2>4. row[q].state = "CANDIDATE_DELAYED" => ~(row[q].time <= time)
    <3>1. row[q].time \in Nat
      BY <2>1 DEF Announcement
    <3>2. row[q].state = "CANDIDATE_DELAYED" => row[q].time > time
      BY Zenon DEF IsWaiting
    <3> QED
      BY <3>1, <3>2
  <2>5. IsSelectable(row[q]) => row[q].time <= time
    BY Zenon
  <2> QED
    BY Zenon, <2>1, <2>2, <2>3, <2>4, <2>5 DEF Abstract!Viable
<1>3. ASSUME NEW q \in Peer
      PROVE  Better(t, p, row[p], q, row[q]) <=> Abstract!Better(t, p, v[p], q, v[q])
  <2>1. row[p] \in Announcement /\ row[q] \in Announcement
        /\ v[p].preferred = row[p].preferred /\ v[q].preferred = row[q].preferred
    BY Zenon, <1>2
  <2> HIDE DEF v
  <2> QED
    BY Zenon, <2>1, BetterIsBetter
<1> HIDE DEF v
<1>4. ASSUME row[p].state = "CANDIDATE_BEST" PROVE Abstract!IsRequestable(t, v, p, time)
  <2>1. IsSelected(row[p]) /\ IsSelectable(row[p])
    BY Zenon, <1>4 DEF IsSelected, IsSelectable
  <2>2. \A q \in Peer : row[q].state # "REQUESTED"
    BY Zenon, <1>4, <2>1 DEF RowSanity, IsSelected
  <2>3. \A q \in Peer \ {p} : IsSelectable(row[q]) => row[q].state = "CANDIDATE_READY"
    BY Zenon, <2>1 DEF RowSanity, IsSelected, IsSelectable
  <2>4. \A q \in Peer \ {p} : IsSelectable(row[q]) => Better(t, p, row[p], q, row[q])
    BY Zenon, <1>4, <2>3 DEF RowSanity
  <2> QED
    BY Zenon, <1>2, <1>3, <2>1, <2>2, <2>4 DEF Abstract!IsRequestable
<1>5. ASSUME Abstract!IsRequestable(t, v, p, time) PROVE row[p].state = "CANDIDATE_BEST"
  <2>1. /\ IsSelectable(row[p]) /\ \A q \in Peer : row[q].state # "REQUESTED"
        /\ \A q \in Peer \ {p} : IsSelectable(row[q]) => Better(t, p, row[p], q, row[q])
    BY Zenon, <1>2, <1>3, <1>5 DEF Abstract!IsRequestable
  <2>2. SUFFICES ASSUME row[p].state = "CANDIDATE_READY" PROVE FALSE
    BY Zenon, <2>1 DEF IsSelectable
  <2>3. PICK q \in Peer : IsSelected(row[q])
    BY Zenon, <2>2 DEF RowSanity
  <2>4. row[q].state = "CANDIDATE_BEST" /\ q # p
    BY Zenon, <2>1, <2>2, <2>3 DEF IsSelected
  <2>5. IsSelectable(row[q])
    BY Zenon, <2>4 DEF IsSelectable
  <2>6. Better(t, p, row[p], q, row[q])
    BY Zenon, <2>1, <2>4, <2>5
  <2>7. Better(t, q, row[q], p, row[p])
    BY Zenon, <2>2, <2>4 DEF RowSanity
  <2> QED
    BY Zenon, <1>1, <2>6, <2>7, BetterIsStrict
<1> QED
  BY Zenon, <1>4, <1>5 DEF v

\* std::sort puts the same transactions in the same order.
LEMMA SameOrder ==
  ASSUME NEW S, NEW f
  PROVE  InSequence(S, f) = Abstract!InAnnouncementOrder(S, f)
<1>1. Cardinality(S) = Abstract!Cardinality(S)
  BY DEF Cardinality, Abstract!Cardinality
<1> QED
  BY <1>1 DEF InSequence, Abstract!InAnnouncementOrder

\* What the caller knows of every transaction.
Anns == [t \in TxHash |-> AbsRow(visible[t])]

\* How far DisconnectedPeer has come with a transaction: it has not visited it,
\* or it is done with it.
LeftBy(cur, then, p) ==
  \/ AbsRow(cur) = AbsRow(then)
  \/ AbsRow(cur) = Abstract!Kept([AbsRow(then) EXCEPT ![p] = Abstract!Absent])

\* How far SetTimePoint has come with it.
TimedBy(cur, then, time, t, drop) ==
  \/ AbsRow(cur) = AbsRow(then) /\ \A p \in Peer : <<p, t>> \notin drop
  \/ /\ AbsRow(cur) = Abstract!Expire(AbsRow(then), time)
     /\ \A p \in Peer : <<p, t>> \in drop <=> Abstract!TimedOut(AbsRow(then)[p], time)

\* What the loops have done to what the caller knows.
RefInv ==
  /\ pc = "idle" => visible = index /\ dropped = {}
  /\ pc = "disconnect" => \A t \in TxHash : LeftBy(index[t], visible[t], caller)
  /\ pc \in {"forward", "backward", "select"} =>
       now \in Time /\ \A t \in TxHash : TimedBy(index[t], visible[t], now, t, dropped)

\* What the caller knows after a step, without the prime.
LEMMA AnnsNext == Anns' = [t \in TxHash |-> AbsRow(visible'[t])]
BY DEF Anns, AbsRow, AbsAnn

\* A call that changes one transaction changes it for the caller.
LEMMA AnnsChange ==
  ASSUME IndexOK, visible = index, NEW t \in TxHash, NEW row,
         index' = [index EXCEPT ![t] = row], visible' = index'
  PROVE  Anns' = [Anns EXCEPT ![t] = AbsRow(row)]
<1>1. index \in [TxHash -> Row]
  BY Zenon DEF IndexOK
<1>2. visible'[t] = row /\ \A u \in TxHash \ {t} : visible'[u] = visible[u]
  BY Zenon, <1>1
<1>3. Anns' = [u \in TxHash |-> AbsRow(visible'[u])]
  BY AnnsNext
<1>4. [Anns EXCEPT ![t] = AbsRow(row)] = [u \in TxHash |-> IF u = t THEN AbsRow(row) ELSE AbsRow(visible[u])]
  BY Zenon DEF Anns
<1>5. \A u \in TxHash : AbsRow(visible'[u]) = IF u = t THEN AbsRow(row) ELSE AbsRow(visible[u])
  <2> TAKE u \in TxHash
  <2>1. CASE u = t
    BY ONLY Zenon, <1>2, <2>1
  <2>2. CASE u # t
    BY ONLY Zenon, u \in TxHash, <1>2, <2>2
  <2> QED
    BY Zenon, <2>1, <2>2
<1> QED
  BY Zenon, <1>3, <1>4, <1>5

\* Nothing visible changed.
LEMMA AnnsSame == visible' = visible => Anns' = Anns
BY Zenon, AnnsNext DEF Anns

\* Between calls the caller knows the index.
LEMMA IdleKeeps ==
  ASSUME pc' = "idle", visible' = index', dropped' = {}
  PROVE  RefInv'
BY Zenon DEF RefInv

\* ForgetTxHash.
LEMMA ForgetAgrees ==
  ASSUME IInv, RefInv, NEW t \in TxHash, ForgetTxHash(t)
  PROVE  Abstract!ForgetTxHash(t) /\ RefInv'
<1>1. /\ pc = "idle" /\ pc' = pc /\ dropped' = dropped /\ visible' = index' /\ ret' = <<>> /\ expired' = {}
      /\ index' = [index EXCEPT ![t] = [q \in Peer |-> Absent]] /\ sequence' = sequence
  BY DEF ForgetTxHash, Call, NoResult, Update
<1>2. visible = index /\ dropped = {} /\ IndexOK
  BY Zenon, <1>1 DEF RefInv, IInv
<1>3. Anns' = [Anns EXCEPT ![t] = AbsRow([q \in Peer |-> Absent])]
  BY Zenon, <1>1, <1>2, AnnsChange
<1>4. Anns' = [Anns EXCEPT ![t] = [q \in Peer |-> Abstract!Absent]]
  BY Zenon, <1>3, AbsOfNone
<1>5. RefInv'
  BY Zenon, <1>1, <1>2, IdleKeeps
<1> QED
  BY Zenon, <1>1, <1>4, <1>5 DEF Abstract!ForgetTxHash, Abstract!NoResult, Anns

\* Between calls, what the caller knows of one transaction.
LEMMA AnnsAt ==
  ASSUME IInv, visible = index, NEW t \in TxHash, NEW p \in Peer
  PROVE  /\ RowOK(index[t]) /\ RowSanity(t, index[t]) /\ index[t] \in Row
         /\ Anns[t] = AbsRow(index[t])
         /\ Anns[t][p].state = AbsState(index[t][p].state)
         /\ index[t][p] \in Announcement
<1>1. RowOK(index[t]) /\ RowSanity(t, index[t]) /\ index[t] \in Row
  BY Zenon DEF IInv, IndexOK, SanityCheck, RowOK
<1>2. Anns[t] = AbsRow(index[t])
  BY Zenon DEF Anns
<1>3. AbsRow(index[t])[p].state = AbsState(index[t][p].state) /\ index[t][p] \in Announcement
  BY Zenon, <1>1, AbsOfRow
<1> QED
  BY Zenon, <1>1, <1>2, <1>3

\* ReceivedInv.
LEMMA InvAgrees ==
  ASSUME IInv, RefInv, NEW p \in Peer, NEW t \in TxHash, NEW preferred \in Preference[p], NEW reqtime \in Time,
         ReceivedInv(p, t, preferred, reqtime)
  PROVE  Abstract!ReceivedInv(p, t, preferred, reqtime) /\ RefInv'
<1>1. /\ pc = "idle" /\ pc' = pc /\ dropped' = dropped /\ visible' = index' /\ ret' = <<>> /\ expired' = {}
  BY DEF ReceivedInv, Call, NoResult
<1>2. visible = index /\ dropped = {} /\ IndexOK
  BY Zenon, <1>1 DEF RefInv, IInv
<1>3. RefInv'
  BY Zenon, <1>1, <1>2, IdleKeeps
<1>4. Anns[t][p].state # "NOTHING" <=> Tracked(index[t][p])
  BY Zenon, <1>2, AnnsAt, AbsStates DEF Tracked
<1>5. CASE Tracked(index[t][p])
  <2>1. index' = index /\ sequence' = sequence
    BY Zenon, <1>5 DEF ReceivedInv
  <2>2. Anns' = Anns
    BY Zenon, <1>1, <1>2, <2>1, AnnsSame
  <2>3. Abstract!Tracked(Anns[t][p])
    BY Zenon, <1>4, <1>5 DEF Abstract!Tracked
  <2> QED
    BY Zenon, <1>1, <1>3, <2>1, <2>2, <2>3 DEF Abstract!ReceivedInv, Abstract!NoResult, Anns
<1>6. CASE ~Tracked(index[t][p])
  <2> DEFINE a == [state |-> "CANDIDATE_DELAYED", time |-> reqtime,
                   preferred |-> preferred, sequence |-> sequence]
             b == [state |-> "CANDIDATE", time |-> reqtime,
                   preferred |-> preferred, sequence |-> sequence]
             row == [index[t] EXCEPT ![p] = a]
  <2>1. sequence < MaxSequence /\ sequence' = sequence + 1 /\ index' = [index EXCEPT ![t][p] = a]
    BY Zenon, <1>6 DEF ReceivedInv
  <2>2. index' = [index EXCEPT ![t] = row]
    BY <2>1
  <2>3. AbsAnn(a) = b
    BY DEF AbsAnn
  <2> HIDE DEF a, b
  <2>4. index[t] \in Row
    BY Zenon, <1>2, AnnsAt
  <2>5. AbsRow(row) = [AbsRow(index[t]) EXCEPT ![p] = b]
    <3>1. \A q \in Peer : AbsAnn(row[q]) = IF q = p THEN b ELSE AbsAnn(index[t][q])
      BY Zenon, <2>3, <2>4 DEF Row
    <3> QED
      BY Zenon, <3>1 DEF AbsRow
  <2> HIDE DEF row
  <2>6. Anns' = [Anns EXCEPT ![t] = AbsRow(row)]
    BY Zenon, <1>1, <1>2, <2>2, AnnsChange
  <2>7. Anns' = [Anns EXCEPT ![t][p] = b]
    <3>1. Anns[t] = AbsRow(index[t])
      BY Zenon, <1>2, AnnsAt
    <3> QED
      BY <2>5, <2>6, <3>1
  <2>8. ~Abstract!Tracked(Anns[t][p])
    BY Zenon, <1>4, <1>6 DEF Abstract!Tracked
  <2> QED
    BY Zenon, <1>1, <1>3, <2>1, <2>7, <2>8 DEF Abstract!ReceivedInv, Abstract!NoResult, Anns, b
<1> QED
  BY Zenon, <1>5, <1>6

\* RequestedTx.
LEMMA RequestAgrees ==
  ASSUME IInv, RefInv, NEW p \in Peer, NEW t \in TxHash, NEW expiry \in Time, RequestedTx(p, t, expiry)
  PROVE  Abstract!RequestedTx(p, t, expiry) /\ RefInv'
<1>1. /\ pc = "idle" /\ pc' = pc /\ dropped' = dropped /\ visible' = index' /\ ret' = <<>> /\ expired' = {}
      /\ sequence' = sequence
  BY DEF RequestedTx, Call, NoResult
<1>2. visible = index /\ dropped = {} /\ IndexOK
  BY Zenon, <1>1 DEF RefInv, IInv
<1>3. RefInv'
  BY Zenon, <1>1, <1>2, IdleKeeps
<1>4. /\ RowOK(index[t]) /\ RowSanity(t, index[t]) /\ Anns[t] = AbsRow(index[t])
      /\ Anns[t][p].state = AbsState(index[t][p].state) /\ index[t][p] \in Announcement
  BY Zenon, <1>2, AnnsAt
<1>5. Anns[t][p].state = "CANDIDATE"
        <=> index[t][p].state \in {"CANDIDATE_BEST", "CANDIDATE_DELAYED", "CANDIDATE_READY"}
  BY <1>4 DEF AbsState, Announcement
<1>6. CASE index[t][p].state \in {"CANDIDATE_BEST", "CANDIDATE_DELAYED", "CANDIDATE_READY"}
  <2> DEFINE row == Requested(index[t], p, expiry)
  <2>1. index' = [index EXCEPT ![t] = row]
    BY Zenon, <1>6 DEF RequestedTx, Update
  <2>2. expiry \in Nat
    BY Zenon, TimeAssumption
  <2>3. AbsRow(row) = Abstract!Requested(Anns[t], p, expiry)
    <3>1. PICK new : new = row
      BY Zenon
    <3>2. new = Requested(index[t], p, expiry) /\ RowOK(index[t]) /\ RowSanity(t, index[t])
      BY Zenon, <1>4, <3>1
    <3> HIDE DEF row
    <3>3. AbsRow(new) = Abstract!Requested(AbsRow(index[t]), p, expiry)
      BY ONLY <1>6, <2>2, <3>2, RequestIsSeen
    <3> QED
      BY Zenon, <1>4, <3>1, <3>3
  <2> HIDE DEF row
  <2>4. Anns' = [Anns EXCEPT ![t] = AbsRow(row)]
    BY Zenon, <1>1, <1>2, <2>1, AnnsChange
  <2>5. Anns' = [Anns EXCEPT ![t] = Abstract!Requested(Anns[t], p, expiry)]
    BY Zenon, <2>3, <2>4
  <2> QED
    BY Zenon, <1>1, <1>3, <1>5, <1>6, <2>5 DEF Abstract!RequestedTx, Abstract!NoResult, Anns
<1>7. CASE index[t][p].state \notin {"CANDIDATE_BEST", "CANDIDATE_DELAYED", "CANDIDATE_READY"}
  <2>1. index' = index
    BY Zenon, <1>7 DEF RequestedTx
  <2>2. Anns' = Anns
    BY Zenon, <1>1, <1>2, <2>1, AnnsSame
  <2> QED
    BY Zenon, <1>1, <1>3, <1>5, <1>7, <2>2 DEF Abstract!RequestedTx, Abstract!NoResult, Anns
<1> QED
  BY Zenon, <1>6, <1>7

\* ReceivedResponse.
LEMMA ResponseAgrees ==
  ASSUME IInv, RefInv, NEW p \in Peer, NEW t \in TxHash, ReceivedResponse(p, t)
  PROVE  Abstract!ReceivedResponse(p, t) /\ RefInv'
<1>1. /\ pc = "idle" /\ pc' = pc /\ dropped' = dropped /\ visible' = index' /\ ret' = <<>> /\ expired' = {}
      /\ sequence' = sequence
  BY DEF ReceivedResponse, Call, NoResult
<1>2. visible = index /\ dropped = {} /\ IndexOK
  BY Zenon, <1>1 DEF RefInv, IInv
<1>3. RefInv'
  BY Zenon, <1>1, <1>2, IdleKeeps
<1>4. /\ RowOK(index[t]) /\ RowSanity(t, index[t]) /\ Anns[t] = AbsRow(index[t])
      /\ Anns[t][p].state = AbsState(index[t][p].state) /\ index[t][p] \in Announcement
  BY Zenon, <1>2, AnnsAt
<1>5. Abstract!Tracked(Anns[t][p]) <=> Tracked(index[t][p])
  BY Zenon, <1>4, AbsStates DEF Tracked, Abstract!Tracked
<1>6. CASE Tracked(index[t][p])
  <2> DEFINE row == MakeCompleted(t, index[t], p)
  <2>1. index' = [index EXCEPT ![t] = row]
    BY Zenon, <1>6 DEF ReceivedResponse, Update
  <2>2. AbsRow(row) = Abstract!Kept([Anns[t] EXCEPT ![p].state = "COMPLETED"])
    BY <1>4, <1>6, CompleteIsSeen
  <2> HIDE DEF row
  <2>3. Anns' = [Anns EXCEPT ![t] = AbsRow(row)]
    BY Zenon, <1>1, <1>2, <2>1, AnnsChange
  <2>4. Anns' = [Anns EXCEPT ![t] = Abstract!Kept([@ EXCEPT ![p].state = "COMPLETED"])]
    BY Zenon, <2>2, <2>3
  <2> QED
    BY Zenon, <1>1, <1>3, <1>5, <1>6, <2>4 DEF Abstract!ReceivedResponse, Abstract!NoResult, Anns
<1>7. CASE ~Tracked(index[t][p])
  <2>1. index' = index
    BY Zenon, <1>7 DEF ReceivedResponse
  <2>2. Anns' = Anns
    BY Zenon, <1>1, <1>2, <2>1, AnnsSame
  <2> QED
    BY Zenon, <1>1, <1>3, <1>5, <1>7, <2>2 DEF Abstract!ReceivedResponse, Abstract!NoResult, Anns
<1> QED
  BY Zenon, <1>6, <1>7

\* A sound row is kept as it is.
LEMMA KeptOfRow ==
  ASSUME NEW t \in TxHash, NEW row, RowOK(row), RowSanity(t, row)
  PROVE  Abstract!Kept(AbsRow(row)) = AbsRow(row)
<1>1. row \in Row
  BY Zenon DEF RowOK
<1>2. CASE \E q \in Peer : row[q].state \notin {"NOTHING", "COMPLETED"}
  <2>1. PICK q \in Peer : row[q].state \notin {"NOTHING", "COMPLETED"}
    BY Zenon, <1>2
  <2>2. row[q] \in Announcement /\ AbsRow(row)[q].state = AbsState(row[q].state)
    BY Zenon, <1>1, AbsOfRow
  <2>3. AbsRow(row)[q].state \in {"CANDIDATE", "REQUESTED"}
    BY Zenon, <2>1, <2>2, AbsStates
  <2> QED
    BY Zenon, <2>3, KeptIfAny
<1>3. CASE \A q \in Peer : row[q].state \in {"NOTHING", "COMPLETED"}
  <2>1. \A q \in Peer : row[q] = Absent
    BY Zenon, <1>3 DEF RowOK, RowSanity, Tracked
  <2>2. row = [q \in Peer |-> Absent]
    BY Zenon, <1>1, <2>1 DEF Row
  <2>3. AbsRow(row) = [q \in Peer |-> Abstract!Absent]
    BY Zenon, <2>2, AbsOfNone
  <2>4. \A q \in Peer : AbsRow(row)[q].state \notin {"CANDIDATE", "REQUESTED"}
    <3>1. Abstract!Absent.state = "NOTHING"
      BY DEF Abstract!Absent
    <3> QED
      BY Zenon, <2>3, <3>1
  <2> QED
    BY Zenon, <2>3, <2>4, DroppedIfNone
<1> QED
  BY Zenon, <1>2, <1>3

\* Inside the loop of DisconnectedPeer.
LEMMA LeavingKeeps ==
  ASSUME pc' = "disconnect", \A t \in TxHash : LeftBy(index'[t], visible'[t], caller')
  PROVE  RefInv'
BY DEF RefInv, LeftBy, AbsRow, AbsAnn, Abstract!Kept, Abstract!Absent

\* One announcement less of the peer that left.
LEMMA EraseOneKeeps ==
  ASSUME IInv, RefInv, NEW t \in TxHash, EraseOne(t)
  PROVE  RefInv' /\ UNCHANGED <<sequence, visible, ret, expired>>
<1> DEFINE row == Erased(t, index[t], caller)
           then == AbsRow(visible[t])
<1>1. /\ pc = "disconnect" /\ caller \in Peer /\ Tracked(index[t][caller])
      /\ index' = [index EXCEPT ![t] = row] /\ index \in [TxHash -> Row]
      /\ UNCHANGED <<sequence, pc, caller, now, dropped, visible, ret, expired>>
  BY Zenon DEF EraseOne, Update, IInv, TypeOK, IndexOK
<1>2. RowOK(index[t]) /\ RowSanity(t, index[t]) /\ index[t] \in Row
  BY Zenon DEF IInv, IndexOK, SanityCheck, RowOK
<1>3. AbsRow(row) = Abstract!Kept([AbsRow(index[t]) EXCEPT ![caller] = Abstract!Absent])
  BY <1>1, <1>2, EraseIsSeen
<1> HIDE DEF row
<1>4. AbsRow(index[t])[caller].state # "NOTHING"
  <2>1. index[t][caller] \in Announcement /\ AbsRow(index[t])[caller].state = AbsState(index[t][caller].state)
    BY Zenon, <1>1, <1>2, AbsOfRow
  <2> QED
    BY Zenon, <1>1, <2>1, AbsStates DEF Tracked
<1>5. AbsRow(index[t]) = then
  <2>1. LeftBy(index[t], visible[t], caller)
    BY Zenon, <1>1 DEF RefInv
  <2>2. then = [q \in Peer |-> then[q]] /\ Abstract!Absent.state = "NOTHING"
    BY DEF AbsRow, Abstract!Absent
  <2> HIDE DEF then
  <2> DEFINE v == [then EXCEPT ![caller] = Abstract!Absent]
  <2>3. v[caller].state = "NOTHING"
    BY Zenon, <1>1, <2>2
  <2>4. Abstract!Kept(v)[caller].state = "NOTHING"
    <3> HIDE DEF v
    <3>1. Abstract!Kept(v) = v \/ Abstract!Kept(v) = [q \in Peer |-> Abstract!Absent]
      BY Zenon DEF Abstract!Kept
    <3> QED
      BY Zenon, <1>1, <2>2, <2>3, <3>1
  <2> QED
    BY Zenon, <1>4, <2>1, <2>4 DEF LeftBy, then
<1>6. LeftBy(index'[t], visible[t], caller)
  <2>1. index'[t] = row
    BY Zenon, <1>1
  <2> QED
    BY Zenon, <1>3, <1>5, <2>1 DEF LeftBy
<1>7. \A u \in TxHash \ {t} : LeftBy(index'[u], visible[u], caller)
  BY Zenon, <1>1 DEF RefInv
<1>8. pc' = "disconnect" /\ \A u \in TxHash : LeftBy(index'[u], visible'[u], caller')
  BY Zenon, <1>1, <1>6, <1>7
<1> QED
  BY Zenon, <1>1, <1>8, LeavingKeeps

\* The return of DisconnectedPeer.
LEMMA DisconnectAgrees ==
  ASSUME IInv, RefInv, Disconnected
  PROVE  Abstract!DisconnectedPeer(caller) /\ RefInv'
<1>1. /\ pc = "disconnect" /\ caller \in Peer /\ \A t \in TxHash : ~Tracked(index[t][caller])
      /\ pc' = "idle" /\ visible' = index /\ index' = index /\ dropped' = {}
      /\ ret' = <<>> /\ expired' = {} /\ sequence' = sequence
  BY DEF Disconnected, Finish, IInv, TypeOK
<1>2. ASSUME NEW t \in TxHash
      PROVE  AbsRow(index[t]) = Abstract!Kept([Anns[t] EXCEPT ![caller] = Abstract!Absent])
  <2>1. RowOK(index[t]) /\ RowSanity(t, index[t]) /\ Anns[t] = AbsRow(visible[t])
    BY Zenon DEF IInv, IndexOK, SanityCheck, Anns
  <2>2. LeftBy(index[t], visible[t], caller)
    BY Zenon, <1>1 DEF RefInv
  <2>3. CASE AbsRow(index[t]) = AbsRow(visible[t])
    <3>1. index[t][caller] = Absent
      BY Zenon, <1>1, <2>1 DEF RowOK, Tracked
    <3>2. AbsRow(index[t])[caller] = Abstract!Absent /\ AbsRow(index[t]) = [q \in Peer |-> AbsRow(index[t])[q]]
      BY <1>1, <3>1 DEF AbsRow, AbsAnn, Absent, Abstract!Absent
    <3> DEFINE v == AbsRow(index[t])
    <3>3. v[caller] = Abstract!Absent /\ v = [q \in Peer |-> v[q]]
      BY Zenon, <3>2
    <3> HIDE DEF v
    <3>4. [v EXCEPT ![caller] = Abstract!Absent] = v
      BY Zenon, <1>1, <3>3
    <3>5. Abstract!Kept(v) = v
      BY Zenon, <2>1, KeptOfRow DEF v
    <3> QED
      BY Zenon, <2>1, <2>3, <3>4, <3>5 DEF v
  <2> QED
    BY Zenon, <2>1, <2>2, <2>3 DEF LeftBy
<1>3. Anns' = [t \in TxHash |-> Abstract!Kept([Anns[t] EXCEPT ![caller] = Abstract!Absent])]
  <2>1. Anns' = [t \in TxHash |-> AbsRow(index[t])]
    BY Zenon, <1>1, AnnsNext
  <2> QED
    BY Zenon, <1>2, <2>1
<1>4. RefInv'
  BY Zenon, <1>1, IdleKeeps
<1> QED
  BY Zenon, <1>1, <1>3, <1>4 DEF Abstract!DisconnectedPeer, Abstract!NoResult, Anns

\* Inside the loops of SetTimePoint.
LEMMA TimingKeeps ==
  ASSUME pc' \in {"forward", "backward", "select"}, now' \in Time,
         \A t \in TxHash : TimedBy(index'[t], visible'[t], now', t, dropped')
  PROVE  RefInv'
BY DEF RefInv, TimedBy, AbsRow, AbsAnn, Abstract!Expire, Abstract!Kept, Abstract!TimedOut, Abstract!Absent

\* The start of a looping call.
LEMMA StartKeeps ==
  ASSUME IInv, RefInv, NEW loop \in {"disconnect", "forward"}, NEW p, NEW time \in Nat, Start(loop, p, time),
         loop = "forward" => time \in Time
  PROVE  RefInv' /\ UNCHANGED <<sequence, visible, ret, expired>>
<1>1. /\ pc = "idle" /\ pc' = loop /\ now' = time /\ caller' = p
      /\ UNCHANGED <<index, sequence, dropped, visible, ret, expired>>
  BY DEF Start
<1>2. visible = index /\ dropped = {}
  BY Zenon, <1>1 DEF RefInv
<1>3. \A t \in TxHash : LeftBy(index'[t], visible'[t], caller') /\ TimedBy(index'[t], visible'[t], now', t, dropped')
  BY Zenon, <1>1, <1>2 DEF LeftBy, TimedBy
<1>4. CASE loop = "forward"
  BY Zenon, <1>1, <1>3, <1>4, TimingKeeps
<1>5. CASE loop = "disconnect"
  BY Zenon, <1>1, <1>3, <1>5, LeavingKeeps
<1> QED
  BY Zenon, <1>1, <1>4, <1>5

\* A change that the caller cannot see.
LEMMA HiddenKeeps ==
  ASSUME IInv, RefInv, pc \in {"forward", "backward", "select"}, NEW t \in TxHash, NEW row,
         index' = [index EXCEPT ![t] = row], AbsRow(row) = AbsRow(index[t]),
         UNCHANGED <<pc, caller, now, dropped, visible>>
  PROVE  RefInv'
<1>1. index \in [TxHash -> Row] /\ \A u \in TxHash : TimedBy(index[u], visible[u], now, u, dropped)
  BY Zenon DEF IInv, IndexOK, RefInv
<1>2. index'[t] = row /\ \A u \in TxHash \ {t} : index'[u] = index[u]
  BY Zenon, <1>1
<1>3. \A u \in TxHash : AbsRow(index'[u]) = AbsRow(index[u])
  BY ONLY Zenon, <1>2, AbsRow(row) = AbsRow(index[t])
<1>4. \A u \in TxHash : TimedBy(index'[u], visible[u], now, u, dropped)
  BY Zenon, <1>1, <1>3 DEF TimedBy
<1> QED
  BY Zenon, <1>4, TimingKeeps DEF RefInv

\* A candidate becomes ready.
LEMMA PromoteKeeps ==
  ASSUME IInv, RefInv, NEW t \in TxHash, NEW p \in Peer, Promote(t, p)
  PROVE  RefInv' /\ UNCHANGED <<sequence, visible, ret, expired>>
<1> DEFINE row == PromoteCandidateReady(t, index[t], p)
<1>1. /\ pc = "forward" /\ index[t][p].state = "CANDIDATE_DELAYED"
      /\ index' = [index EXCEPT ![t] = row]
      /\ UNCHANGED <<sequence, pc, caller, now, dropped, visible, ret, expired>>
  BY Zenon DEF Promote, Update
<1>2. RowOK(index[t]) /\ RowSanity(t, index[t])
  BY Zenon DEF IInv, IndexOK, SanityCheck
<1>3. AbsRow(row) = AbsRow(index[t])
  BY <1>1, <1>2, PromoteIsHidden
<1> HIDE DEF row
<1>4. RefInv'
  BY Zenon, <1>1, <1>3, HiddenKeeps
<1> QED
  BY Zenon, <1>1, <1>4

\* A candidate waits again.
LEMMA DemoteKeeps ==
  ASSUME IInv, RefInv, NEW t \in TxHash, NEW p \in Peer, Demote(t, p)
  PROVE  RefInv' /\ UNCHANGED <<sequence, visible, ret, expired>>
<1> DEFINE row == ChangeAndReselect(t, index[t], p, "CANDIDATE_DELAYED")
<1>1. /\ pc = "backward" /\ IsSelectable(index[t][p])
      /\ index' = [index EXCEPT ![t] = row]
      /\ UNCHANGED <<sequence, pc, caller, now, dropped, visible, ret, expired>>
  BY Zenon DEF Demote, Latest, Update
<1>2. RowOK(index[t]) /\ RowSanity(t, index[t])
  BY Zenon DEF IInv, IndexOK, SanityCheck
<1>3. AbsRow(row) = AbsRow(index[t])
  BY <1>1, <1>2, DemoteIsHidden
<1> HIDE DEF row
<1>4. RefInv'
  BY Zenon, <1>1, <1>3, HiddenKeeps
<1> QED
  BY Zenon, <1>1, <1>4

\* No request of an expired row is timed out.
LEMMA ExpiredOnce ==
  ASSUME NEW row \in Row, NEW v, v = AbsRow(row), NEW time, NEW p \in Peer,
         \E q \in Peer : Abstract!TimedOut(v[q], time)
  PROVE  ~Abstract!TimedOut(Abstract!Expire(v, time)[p], time)
<1> DEFINE w == [q \in Peer |-> IF Abstract!TimedOut(v[q], time)
                                THEN [v[q] EXCEPT !.state = "COMPLETED"] ELSE v[q]]
<1>1. Abstract!Expire(v, time) = Abstract!Kept(w)
  BY Zenon DEF Abstract!Expire
<1>2. ~Abstract!TimedOut(w[p], time)
  <2>1. CASE Abstract!TimedOut(v[p], time)
    <3>1. w[p] = [v[p] EXCEPT !.state = "COMPLETED"]
      BY Zenon, <2>1
    <3>2. v[p] = [state |-> AbsState(row[p].state), time |-> row[p].time,
                  preferred |-> row[p].preferred, sequence |-> row[p].sequence]
      BY Zenon, AbsOfRow, AbsFields
    <3>3. w[p].state # "REQUESTED"
      BY ONLY <3>1, <3>2
    <3> QED
      BY Zenon, <3>3 DEF Abstract!TimedOut
  <2>2. CASE ~Abstract!TimedOut(v[p], time)
    BY Zenon, <2>2
  <2> QED
    BY Zenon, <2>1, <2>2
<1> HIDE DEF w
<1>3. ~Abstract!TimedOut(Abstract!Absent, time)
  BY DEF Abstract!TimedOut, Abstract!Absent
<1>4. Abstract!Kept(w) = w \/ Abstract!Kept(w) = [q \in Peer |-> Abstract!Absent]
  BY Zenon DEF Abstract!Kept
<1> QED
  BY Zenon, <1>1, <1>2, <1>3, <1>4

\* A row without a timed out request stays.
LEMMA NothingExpires ==
  ASSUME NEW v, NEW time, \A q \in Peer : ~Abstract!TimedOut(v[q], time)
  PROVE  Abstract!Expire(v, time) = v
BY Zenon DEF Abstract!Expire

\* A request times out.
LEMMA ExpireKeeps ==
  ASSUME IInv, RefInv, NEW t \in TxHash, NEW p \in Peer, Expire(t, p)
  PROVE  RefInv' /\ UNCHANGED <<sequence, visible, ret, expired>>
<1> DEFINE row == MakeCompleted(t, index[t], p)
           v == AbsRow(index[t])
<1>1. /\ pc = "forward" /\ index[t][p].state = "REQUESTED" /\ index[t][p].time <= now
      /\ index' = [index EXCEPT ![t] = row] /\ dropped' = dropped \cup {<<p, t>>}
      /\ UNCHANGED <<sequence, pc, caller, now, visible, ret, expired>>
  BY Zenon DEF Expire, Update
<1>2. /\ RowOK(index[t]) /\ RowSanity(t, index[t]) /\ index[t] \in Row /\ index \in [TxHash -> Row]
      /\ \A u \in TxHash : TimedBy(index[u], visible[u], now, u, dropped)
  BY Zenon, <1>1 DEF IInv, IndexOK, SanityCheck, RowOK, RefInv
<1>3. /\ AbsRow(row) = Abstract!Expire(v, now)
      /\ \A q \in Peer : Abstract!TimedOut(v[q], now) <=> q = p
  <2>1. PICK new : new = row
    BY Zenon
  <2>2. /\ AbsRow(new) = Abstract!Expire(AbsRow(index[t]), now)
        /\ \A q \in Peer : Abstract!TimedOut(AbsRow(index[t])[q], now) <=> q = p
    <3>1. new = MakeCompleted(t, index[t], p)
      BY Zenon, <2>1
    <3> HIDE DEF row, v
    <3>2. RowOK(index[t]) /\ RowSanity(t, index[t])
      BY Zenon, <1>2
    <3>3. index[t][p].state = "REQUESTED" /\ index[t][p].time <= now
      BY Zenon, <1>1
    <3> QED
      BY ONLY <3>1, <3>2, <3>3, ExpireIsSeen
  <2> QED
    BY Zenon, <2>1, <2>2
<1>4. index'[t] = row /\ \A u \in TxHash \ {t} : index'[u] = index[u]
  BY Zenon, <1>1, <1>2
<1> HIDE DEF row
<1>5. v = AbsRow(visible[t]) /\ \A q \in Peer : <<q, t>> \notin dropped
  <2>1. CASE v = AbsRow(visible[t]) /\ \A q \in Peer : <<q, t>> \notin dropped
    BY Zenon, <2>1
  <2>2. CASE /\ v = Abstract!Expire(AbsRow(visible[t]), now)
             /\ \A q \in Peer : <<q, t>> \in dropped <=> Abstract!TimedOut(AbsRow(visible[t])[q], now)
    <3>1. visible[t] \in Row
      BY Zenon DEF IInv, TypeOK, Row
    <3>2. Abstract!TimedOut(v[p], now)
      BY Zenon, <1>3
    <3> HIDE DEF v
    <3>3. \A q \in Peer : ~Abstract!TimedOut(AbsRow(visible[t])[q], now)
      BY Zenon, <2>2, <3>1, <3>2, ExpiredOnce
    <3>4. v = AbsRow(visible[t])
      BY Zenon, <2>2, <3>3, NothingExpires
    <3> QED
      BY Zenon, <2>2, <3>3, <3>4
  <2>3. TimedBy(index[t], visible[t], now, t, dropped)
    BY Zenon, <1>2
  <2> QED
    BY Zenon, <2>1, <2>2, <2>3 DEF TimedBy
<1>6. TimedBy(index'[t], visible[t], now, t, dropped')
  <2>1. \A q \in Peer : <<q, t>> \in dropped' <=> q = p
    BY <1>1, <1>5
  <2> HIDE DEF v
  <2> QED
    BY Zenon, <1>3, <1>4, <1>5, <2>1 DEF TimedBy
<1>7. ASSUME NEW u \in TxHash \ {t} PROVE TimedBy(index'[u], visible[u], now, u, dropped')
  <2>1. index'[u] = index[u] /\ TimedBy(index[u], visible[u], now, u, dropped)
    BY Zenon, <1>2, <1>4
  <2>2. \A q \in Peer : <<q, u>> \in dropped' <=> <<q, u>> \in dropped
    BY <1>1
  <2> QED
    BY Zenon, <2>1, <2>2 DEF TimedBy
<1>8. pc' = "forward" /\ \A u \in TxHash : TimedBy(index'[u], visible'[u], now', u, dropped')
  BY Zenon, <1>1, <1>6, <1>7
<1>9. RefInv'
  BY Zenon, <1>1, <1>8, TimingKeeps DEF RefInv
<1> QED
  BY Zenon, <1>1, <1>9

\* The loops end.
LEMMA LoopEndKeeps ==
  ASSUME IInv, RefInv, Forwarded \/ Backwarded
  PROVE  RefInv' /\ UNCHANGED <<sequence, visible, ret, expired>>
<1>1. /\ pc \in {"forward", "backward", "select"} /\ pc' \in {"forward", "backward", "select"}
      /\ UNCHANGED <<index, sequence, caller, now, dropped, visible, ret, expired>>
  BY DEF Forwarded, Backwarded
<1>2. \A t \in TxHash : TimedBy(index'[t], visible'[t], now', t, dropped')
  BY Zenon, <1>1 DEF RefInv
<1> QED
  BY Zenon, <1>1, <1>2, TimingKeeps DEF RefInv

\* When the loops are done, every row is what the caller knew less what timed out.
LEMMA TimedAll ==
  ASSUME IInv, RefInv, pc = "select", NEW t \in TxHash
  PROVE  /\ AbsRow(index[t]) = Abstract!Expire(Anns[t], now)
         /\ \A p \in Peer : <<p, t>> \in dropped <=> Abstract!TimedOut(Anns[t][p], now)
<1> DEFINE v == AbsRow(visible[t])
<1>1. Anns[t] = v
  BY Zenon DEF Anns
<1>2. CASE AbsRow(index[t]) = v /\ \A p \in Peer : <<p, t>> \notin dropped
  <2>1. ASSUME NEW p \in Peer PROVE ~Abstract!TimedOut(v[p], now)
    <3>1. index[t] \in Row /\ now \in Nat /\ (IsWaiting(index[t][p]) => index[t][p].time > now)
      BY Zenon DEF IInv, IndexOK, TypeOK, LoopOK
    <3>2. /\ index[t][p] \in Announcement /\ v[p].state = AbsState(index[t][p].state)
          /\ v[p].time = index[t][p].time
      <4> HIDE DEF v
      <4> QED
        BY <1>2, <3>1, AbsOfRow
    <3>3. v[p].state = "REQUESTED" => IsWaiting(index[t][p])
      BY Zenon, <3>2, AbsStates DEF IsWaiting
    <3>4. index[t][p].time \in Nat
      BY <3>2 DEF Announcement
    <3>5. index[t][p].time > now => ~(index[t][p].time <= now)
      BY <3>1, <3>4
    <3> HIDE DEF v
    <3> QED
      BY Zenon, <3>1, <3>2, <3>3, <3>5 DEF Abstract!TimedOut
  <2> HIDE DEF v
  <2>2. Abstract!Expire(v, now) = v
    BY Zenon, <2>1, NothingExpires
  <2> QED
    BY Zenon, <1>1, <1>2, <2>1, <2>2
<1>3. CASE /\ AbsRow(index[t]) = Abstract!Expire(v, now)
           /\ \A p \in Peer : <<p, t>> \in dropped <=> Abstract!TimedOut(v[p], now)
  BY Zenon, <1>1, <1>3
<1>4. TimedBy(index[t], visible[t], now, t, dropped)
  BY Zenon DEF RefInv
<1> QED
  BY Zenon, <1>2, <1>3, <1>4 DEF TimedBy

\* The return of GetRequestable.
LEMMA SelectAgrees ==
  ASSUME IInv, RefInv, Select
  PROVE  Abstract!GetRequestable(caller, now) /\ RefInv'
<1> DEFINE after == [t \in TxHash |-> Abstract!Expire(Anns[t], now)]
           S == {t \in TxHash : index[t][caller].state = "CANDIDATE_BEST"}
           f == [t \in TxHash |-> index[t][caller].sequence]
           T == {t \in TxHash : Abstract!IsRequestable(t, after[t], caller, now)}
           g == [t \in TxHash |-> after[t][caller].sequence]
<1>1. /\ pc = "select" /\ caller \in Peer /\ now \in Nat /\ dropped \subseteq Peer \X TxHash
      /\ ret' = InSequence(S, f) /\ expired' = dropped
      /\ pc' = "idle" /\ visible' = index /\ index' = index /\ dropped' = {} /\ sequence' = sequence
  BY DEF Select, Finish, IInv, TypeOK
<1>2. \A t \in TxHash : after[t] = AbsRow(index[t])
  BY Zenon, <1>1, TimedAll
<1>3. Anns' = after
  <2>1. Anns' = [t \in TxHash |-> AbsRow(index[t])]
    BY Zenon, <1>1, AnnsNext
  <2>2. after = [t \in TxHash |-> after[t]]
    BY Zenon
  <2> HIDE DEF after
  <2> QED
    BY Zenon, <1>2, <2>1, <2>2
<1>4. expired' = {x \in Peer \X TxHash : Abstract!TimedOut(Anns[x[2]][x[1]], now)}
  <2>1. ASSUME NEW x \in Peer \X TxHash
        PROVE  x \in dropped <=> Abstract!TimedOut(Anns[x[2]][x[1]], now)
    <3>1. x[1] \in Peer /\ x[2] \in TxHash /\ x = <<x[1], x[2]>>
      BY ONLY x \in Peer \X TxHash
    <3>2. <<x[1], x[2]>> \in dropped <=> Abstract!TimedOut(Anns[x[2]][x[1]], now)
      BY Zenon, <1>1, <3>1, TimedAll
    <3> QED
      BY Zenon, <3>1, <3>2
  <2> QED
    BY Zenon, <1>1, <2>1
<1> HIDE DEF after
<1>5. ASSUME NEW t \in TxHash
      PROVE  /\ index[t][caller].state = "CANDIDATE_BEST" <=> Abstract!IsRequestable(t, after[t], caller, now)
             /\ index[t][caller].sequence = after[t][caller].sequence
  <2>1. /\ RowOK(index[t]) /\ RowSanity(t, index[t]) /\ index[t] \in Row
        /\ \A q \in Peer : IsWaiting(index[t][q]) => index[t][q].time > now
        /\ \A q \in Peer : IsSelectable(index[t][q]) => index[t][q].time <= now
    BY Zenon, <1>1 DEF IInv, IndexOK, SanityCheck, LoopOK, RowOK
  <2>2. index[t][caller].state = "CANDIDATE_BEST" <=> Abstract!IsRequestable(t, AbsRow(index[t]), caller, now)
    BY Zenon, <1>1, <2>1, BestIsRequestable
  <2>3. AbsRow(index[t])[caller].sequence = index[t][caller].sequence
    BY Zenon, <1>1, <2>1, AbsOfRow
  <2> QED
    BY Zenon, <1>2, <2>2, <2>3
<1>6. S = T /\ f = g
  BY Zenon, <1>5
<1>7. ret' = Abstract!InAnnouncementOrder(T, g)
  <2> HIDE DEF S, T, f, g
  <2>1. ret' = InSequence(T, g)
    BY Zenon, <1>1, <1>6
  <2> QED
    BY Zenon, <2>1, SameOrder
<1>8. RefInv'
  BY Zenon, <1>1, IdleKeeps
<1> QED
  BY Zenon, <1>1, <1>3, <1>4, <1>7, <1>8 DEF Abstract!GetRequestable, Anns, after

\* What CallsAgree says of one step.
Agrees ==
  /\ \A p \in Peer, t \in TxHash, reqtime \in Time : \A preferred \in Preference[p] :
       ReceivedInv(p, t, preferred, reqtime) => Abstract!ReceivedInv(p, t, preferred, reqtime)
  /\ \A t \in TxHash : ForgetTxHash(t) => Abstract!ForgetTxHash(t)
  /\ \A p \in Peer, t \in TxHash, expiry \in Time :
       RequestedTx(p, t, expiry) => Abstract!RequestedTx(p, t, expiry)
  /\ \A p \in Peer, t \in TxHash : ReceivedResponse(p, t) => Abstract!ReceivedResponse(p, t)
  /\ Disconnected => Abstract!DisconnectedPeer(caller)
  /\ Select => Abstract!GetRequestable(caller, now)

\* Every call does to what the caller knows what the header says of it.
LEMMA CallsDoAgree == IInv /\ RefInv => Agrees
BY Zenon, InvAgrees, ForgetAgrees, RequestAgrees, ResponseAgrees, DisconnectAgrees, SelectAgrees DEF Agrees

\* A step that returns nothing leaves what the caller knows.
LEMMA HiddenStep ==
  ASSUME UNCHANGED <<sequence, visible, ret, expired>>
  PROVE  UNCHANGED Abstract!vars
<1>1. Anns' = Anns
  BY Zenon, AnnsSame
<1> QED
  BY Zenon, <1>1 DEF Abstract!vars, Anns

\* Every step is a step of the tracker or none.
LEMMA StepRef ==
  ASSUME IInv, RefInv, [Next]_vars
  PROVE  RefInv' /\ [Abstract!Next]_(Abstract!vars)
<1>1. CASE UNCHANGED vars
  <2>1. UNCHANGED <<index, sequence, pc, caller, now, dropped, visible, ret, expired>>
    BY <1>1 DEF vars
  <2>2. RefInv'
    <3>1. CASE pc = "idle"
      BY Zenon, <2>1, <3>1, IdleKeeps DEF RefInv
    <3>2. CASE pc = "disconnect"
      BY Zenon, <2>1, <3>2, LeavingKeeps DEF RefInv
    <3>3. CASE pc \in {"forward", "backward", "select"}
      BY Zenon, <2>1, <3>3, TimingKeeps DEF RefInv
    <3> QED
      BY Zenon, <3>1, <3>2, <3>3 DEF IInv, TypeOK
  <2>3. UNCHANGED Abstract!vars
    BY Zenon, <2>1, HiddenStep
  <2> QED
    BY Zenon, <2>2, <2>3
<1>2. ASSUME NEW p \in Peer, NEW t \in TxHash, NEW reqtime \in Time, NEW preferred \in Preference[p],
             ReceivedInv(p, t, preferred, reqtime)
      PROVE  RefInv' /\ Abstract!Next
  <2>1. RefInv' /\ Abstract!ReceivedInv(p, t, preferred, reqtime)
    BY Zenon, <1>2, InvAgrees
  <2> QED
    BY Zenon, <2>1 DEF Abstract!Next
<1>3. ASSUME NEW t \in TxHash, ForgetTxHash(t) PROVE RefInv' /\ Abstract!Next
  <2>1. RefInv' /\ Abstract!ForgetTxHash(t)
    BY Zenon, <1>3, ForgetAgrees
  <2> QED
    BY Zenon, <2>1 DEF Abstract!Next
<1>4. ASSUME NEW p \in Peer, NEW t \in TxHash, NEW expiry \in Time, RequestedTx(p, t, expiry)
      PROVE  RefInv' /\ Abstract!Next
  <2>1. RefInv' /\ Abstract!RequestedTx(p, t, expiry)
    BY Zenon, <1>4, RequestAgrees
  <2> QED
    BY Zenon, <2>1 DEF Abstract!Next
<1>5. ASSUME NEW p \in Peer, NEW t \in TxHash, ReceivedResponse(p, t) PROVE RefInv' /\ Abstract!Next
  <2>1. RefInv' /\ Abstract!ReceivedResponse(p, t)
    BY Zenon, <1>5, ResponseAgrees
  <2> QED
    BY Zenon, <2>1 DEF Abstract!Next
<1>6. CASE Disconnected
  <2>1. RefInv' /\ Abstract!DisconnectedPeer(caller) /\ caller \in Peer
    BY Zenon, <1>6, DisconnectAgrees DEF Disconnected, IInv, TypeOK
  <2> QED
    BY Zenon, <2>1 DEF Abstract!Next
<1>7. CASE Select
  <2>1. RefInv' /\ Abstract!GetRequestable(caller, now) /\ caller \in Peer /\ now \in Time
    BY Zenon, <1>7, SelectAgrees DEF Select, RefInv, IInv, TypeOK
  <2> QED
    BY Zenon, <2>1 DEF Abstract!Next
<1>8. ASSUME UNCHANGED <<sequence, visible, ret, expired>>, RefInv'
      PROVE  RefInv' /\ [Abstract!Next]_(Abstract!vars)
  BY Zenon, <1>8, HiddenStep
<1>9. \A p \in Peer : DisconnectedPeer(p) => RefInv' /\ UNCHANGED <<sequence, visible, ret, expired>>
  BY StartKeeps DEF DisconnectedPeer
<1>10. \A p \in Peer, time \in Time :
         GetRequestable(p, time) => RefInv' /\ UNCHANGED <<sequence, visible, ret, expired>>
  BY StartKeeps, TimeAssumption DEF GetRequestable
<1>11. \A t \in TxHash : EraseOne(t) => RefInv' /\ UNCHANGED <<sequence, visible, ret, expired>>
  BY Zenon, EraseOneKeeps
<1>12. \A t \in TxHash, p \in Peer :
         Promote(t, p) \/ Expire(t, p) \/ Demote(t, p) => RefInv' /\ UNCHANGED <<sequence, visible, ret, expired>>
  BY Zenon, PromoteKeeps, ExpireKeeps, DemoteKeeps
<1>13. Forwarded \/ Backwarded => RefInv' /\ UNCHANGED <<sequence, visible, ret, expired>>
  BY Zenon, LoopEndKeeps
<1> QED
  BY Zenon, <1>1, <1>2, <1>3, <1>4, <1>5, <1>6, <1>7, <1>8, <1>9, <1>10, <1>11, <1>12, <1>13 DEF Next

\* The loops of the calls never show: what the caller knows follows from the
\* index all along.
THEOREM RefinementInvariant == Spec => [](IInv /\ RefInv)
<1>1. Init => IInv /\ RefInv
  <2>1. Init => RefInv
    BY DEF Init, NoCall, RefInv
  <2> QED
    BY InitInv, <2>1
<1>2. IInv /\ RefInv /\ [Next]_vars => IInv' /\ RefInv'
  BY Zenon, StepInv, StepRef
<1> QED
  BY <1>1, <1>2, PTL DEF Spec

\* Each call has exactly the effect and the result that the header promises, for
\* any peers, transactions, salts and times.
THEOREM CallsAlwaysAgree == Spec => CallsAgree
<1>1. IInv /\ RefInv /\ [Next]_vars => [Agrees]_vars
  BY Zenon, CallsDoAgree
<1> QED
  BY RefinementInvariant, <1>1, PTL DEF Spec, CallsAgree, Agrees

\* The index implements the tracker of the header.
THEOREM ImplementationIsCorrect == Spec => ImplementsTracker
<1>1. Init => Abstract!Init
  <2> SUFFICES ASSUME Init PROVE Abstract!Init
    OBVIOUS
  <2>1. \A t \in TxHash : visible[t] = [p \in Peer |-> Absent]
    BY Zenon DEF Init
  <2>2. Anns = [t \in TxHash |-> [p \in Peer |-> Abstract!Absent]]
    BY Zenon, <2>1, AbsOfNone DEF Anns
  <2> QED
    BY Zenon, <2>2 DEF Init, Abstract!Init, Anns
<1>2. IInv /\ RefInv /\ [Next]_vars => [Abstract!Next]_(Abstract!vars)
  BY Zenon, StepRef
<1> QED
  BY RefinementInvariant, <1>1, <1>2, PTL DEF Spec, ImplementsTracker, Abstract!Spec
=============================================================================
