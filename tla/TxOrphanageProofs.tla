------------------------- MODULE TxOrphanageProofs --------------------------
(***************************************************************************)
(* Proofs about TxOrphanage, for any peers, transactions, limits and       *)
(* times.                                                                  *)
(***************************************************************************)
EXTENDS TxOrphanage, NatRecursion, FiniteSetTheorems, TLAPS

-----------------------------------------------------------------------------
(* Sums.  The sum of f over S is the number of pairs of an element t of S  *)
(* and one of f[t] units.                                                  *)

Pick(s) == CHOOSE x \in s : TRUE
SumStep(f, g, s) == IF s = {} THEN 0 ELSE f[Pick(s)] + g[s \ {Pick(s)}]
Counts(f, S) == \A t \in S : f[t] \in Nat
Units(f, S) == {x \in S \X Nat : x[2] \in 1..f[x[1]]}

\* The fold that TLC evaluates.
LEMMA SumDef ==
  ASSUME NEW f, NEW S
  PROVE  SumOver(f, S) = (CHOOSE g : g = [s \in SUBSET S |-> SumStep(f, g, s)])[S]
BY DEF SumOver, MapThenSumSet, MapThenFoldSet, SumStep, Pick

\* An element has as many units as f says.
LEMMA UnitsOfOne ==
  ASSUME NEW f, NEW t, f[t] \in Nat
  PROVE  IsFiniteSet(Units(f, {t})) /\ Cardinality(Units(f, {t})) = f[t]
<1> DEFINE n == f[t]
           b == [i \in 1..n |-> <<t, i>>]
<1>1. b \in Bijection(1..n, Units(f, {t}))
  <2>1. \A i \in 1..n : b[i] \in Units(f, {t})
    BY DEF Units
  <2>2. \A x \in Units(f, {t}) : x[2] \in 1..n /\ x = b[x[2]]
    BY DEF Units
  <2>3. \A i, j \in 1..n : b[i] = b[j] => i = j
    OBVIOUS
  <2>4. b \in [1..n -> Units(f, {t})]
    BY <2>1
  <2> HIDE DEF b, n
  <2> QED
    BY <2>2, <2>3, <2>4 DEF Bijection, Injection, Surjection, IsInjective
<1>2. ExistsBijection(1..n, Units(f, {t}))
  <2> HIDE DEF b, n
  <2> QED
    BY <1>1 DEF ExistsBijection
<1>3. n \in Nat
  OBVIOUS
<1> HIDE DEF n
<1>4. IsFiniteSet(Units(f, {t}))
  BY <1>2, <1>3, FS_NatBijection
<1>5. Cardinality(Units(f, {t})) = n
  BY <1>2, <1>3, FS_CountingElements
<1> QED
  BY <1>4, <1>5 DEF n

\* The units of a set are those of one element and those of the others.
LEMMA UnitsSplit ==
  ASSUME NEW f, NEW S, NEW t \in S
  PROVE  /\ Units(f, S) = Units(f, {t}) \cup Units(f, S \ {t})
         /\ Units(f, {t}) \cap Units(f, S \ {t}) = {}
BY DEF Units

\* There are finitely many, by induction on the size of the set.
LEMMA UnitsFinite ==
  ASSUME NEW f, NEW S, IsFiniteSet(S), Counts(f, S)
  PROVE  IsFiniteSet(Units(f, S))
<1> DEFINE Bad(s) == ~IsFiniteSet(Units(f, s))
           T == {n \in Nat : \E s \in SUBSET S : Cardinality(s) = n /\ Bad(s)}
<1>0. \A s \in SUBSET S : IsFiniteSet(s) /\ Cardinality(s) \in Nat
  BY Zenon, FS_Subset, FS_CardinalityType
<1> SUFFICES ASSUME T # {} PROVE FALSE
  BY <1>0
<1>1. PICK n \in T : \A m \in T : n <= m
  <2>1. T \subseteq Nat
    OBVIOUS
  <2> HIDE DEF T
  <2> QED
    BY <2>1, Least
<1>2. PICK s \in SUBSET S : Cardinality(s) = n /\ Bad(s)
  BY <1>1
<1>3. CASE s = {}
  <2>1. Units(f, s) = {}
    BY <1>3 DEF Units
  <2> QED
    BY Zenon, <1>2, <2>1, FS_EmptySet
<1>4. CASE s # {}
  <2>1. PICK t : t \in s
    BY <1>4
  <2>2. s \ {t} \in SUBSET S /\ Cardinality(s \ {t}) = n - 1 /\ Cardinality(s \ {t}) \in Nat /\ n \in Nat
    BY <1>0, <1>2, <2>1, FS_RemoveElement
  <2>3. ~Bad(s \ {t})
    <3>1. Cardinality(s \ {t}) \notin T
      BY <1>1, <2>2
    <3> QED
      BY <2>2, <3>1
  <2>4. IsFiniteSet(Units(f, {t}))
    BY <2>1, UnitsOfOne DEF Counts
  <2>5. IsFiniteSet(Units(f, s))
    <3>1. PICK A, B : A = Units(f, {t}) /\ B = Units(f, s \ {t})
      OBVIOUS
    <3>2. IsFiniteSet(A \cup B)
      BY Zenon, <2>3, <2>4, <3>1, FS_Union
    <3>3. Units(f, s) = A \cup B
      BY <2>1, <3>1, UnitsSplit
    <3> QED
      BY <3>2, <3>3
  <2> QED
    BY <1>2, <2>5
<1> QED
  BY <1>3, <1>4

\* Taking an element out takes its units out.
LEMMA UnitsRemove ==
  ASSUME NEW f, NEW S, IsFiniteSet(S), Counts(f, S), NEW t \in S
  PROVE  Cardinality(Units(f, S)) = f[t] + Cardinality(Units(f, S \ {t}))
<1>1. IsFiniteSet(Units(f, {t})) /\ Cardinality(Units(f, {t})) = f[t] /\ f[t] \in Nat
  BY UnitsOfOne DEF Counts
<1>2. IsFiniteSet(Units(f, S \ {t}))
  <2>1. IsFiniteSet(S \ {t}) /\ Counts(f, S \ {t})
    BY FS_RemoveElement DEF Counts
  <2> QED
    BY Zenon, <2>1, UnitsFinite
<1>3. PICK A, B : A = Units(f, {t}) /\ B = Units(f, S \ {t})
  OBVIOUS
<1>4. Units(f, S) = A \cup B /\ A \cap B = {}
  BY <1>3, UnitsSplit
<1>5. Cardinality(A \cup B) = Cardinality(A) + Cardinality(B) - Cardinality(A \cap B)
  BY Zenon, <1>1, <1>2, <1>3, FS_Union
<1>6. Cardinality(A \cap B) = 0 /\ Cardinality(B) \in Nat
  BY Zenon, <1>2, <1>3, <1>4, FS_EmptySet, FS_CardinalityType
<1> QED
  BY <1>1, <1>3, <1>4, <1>5, <1>6

\* The fold computes the number of units: the function that counts units
\* satisfies its equations, and no other function does.
LEMMA SumIsUnits ==
  ASSUME NEW f, NEW S, IsFiniteSet(S), Counts(f, S)
  PROVE  SumOver(f, S) = Cardinality(Units(f, S))
<1> DEFINE U == [s \in SUBSET S |-> Cardinality(Units(f, s))]
           Def(g) == [s \in SUBSET S |-> SumStep(f, g, s)]
<1>0. \A s \in SUBSET S : IsFiniteSet(s) /\ Cardinality(s) \in Nat /\ Counts(f, s)
  BY Zenon, FS_Subset, FS_CardinalityType DEF Counts
<1>1. ASSUME NEW s \in SUBSET S, s # {} PROVE Pick(s) \in s /\ s \ {Pick(s)} \in SUBSET S
  <2>1. Pick(s) \in s
    BY <1>1 DEF Pick
  <2> QED
    BY <2>1
<1>2. ASSUME NEW s \in SUBSET S PROVE U[s] = SumStep(f, U, s)
  <2>1. CASE s = {}
    <3>1. Units(f, s) = {}
      BY <2>1 DEF Units
    <3>2. Cardinality(Units(f, s)) = 0
      BY Zenon, <3>1, FS_EmptySet
    <3> QED
      BY <2>1, <3>2 DEF SumStep
  <2>2. CASE s # {}
    <3>1. PICK x \in s : x = Pick(s)
      BY <1>1, <2>2
    <3>2. Cardinality(Units(f, s)) = f[x] + Cardinality(Units(f, s \ {x}))
      BY <1>0, <3>1, UnitsRemove
    <3> QED
      BY <1>1, <2>2, <3>1, <3>2 DEF SumStep
  <2> QED
    BY <2>1, <2>2
<1>3. U = Def(U)
  BY <1>2
<1>4. ASSUME NEW g, g = Def(g) PROVE g[S] = U[S]
  <2>1. \A s \in SUBSET S : g[s] = SumStep(f, g, s)
    BY <1>4
  <2> DEFINE T == {n \in Nat : \E s \in SUBSET S : Cardinality(s) = n /\ g[s] # U[s]}
  <2> SUFFICES ASSUME T # {} PROVE FALSE
    BY <1>0
  <2>2. PICK n \in T : \A m \in T : n <= m
    <3>1. T \subseteq Nat
      OBVIOUS
    <3> HIDE DEF T
    <3> QED
      BY <3>1, Least
  <2>3. PICK s \in SUBSET S : Cardinality(s) = n /\ g[s] # U[s]
    BY <2>2
  <2> HIDE DEF U
  <2>4. CASE s = {}
    BY <1>2, <2>1, <2>3, <2>4 DEF SumStep
  <2>5. CASE s # {}
    <3>1. PICK x \in s : x = Pick(s) /\ s \ {x} \in SUBSET S
      BY <1>1, <2>5
    <3>2. Cardinality(s \ {x}) = n - 1 /\ Cardinality(s \ {x}) \in Nat /\ n \in Nat
      BY <1>0, <2>3, <3>1, FS_RemoveElement
    <3>3. g[s \ {x}] = U[s \ {x}]
      <4>1. Cardinality(s \ {x}) \notin T
        <5>1. PICK m : m = Cardinality(s \ {x})
          OBVIOUS
        <5>2. ~(n <= m)
          BY <3>2, <5>1
        <5> HIDE DEF T
        <5> QED
          BY Zenon, <2>2, <5>1, <5>2
      <4> QED
        BY <3>1, <3>2, <4>1
    <3> QED
      BY <1>2, <2>1, <2>3, <2>5, <3>1, <3>3 DEF SumStep
  <2> QED
    BY <2>4, <2>5
<1>5. PICK g : g = CHOOSE h : h = Def(h)
  OBVIOUS
<1>6. g = Def(g)
  <2> HIDE DEF Def, U
  <2> QED
    BY Zenon, <1>3, <1>5
<1>7. SumOver(f, S) = g[S]
  BY <1>5, SumDef
<1> QED
  BY <1>4, <1>6, <1>7

\* A sum of naturals is one, and is zero for no elements.
LEMMA SumType ==
  ASSUME NEW f, NEW S, IsFiniteSet(S), Counts(f, S)
  PROVE  SumOver(f, S) \in Nat /\ (S = {} => SumOver(f, S) = 0)
<1>1. IsFiniteSet(Units(f, S)) /\ SumOver(f, S) = Cardinality(Units(f, S))
  BY Zenon, UnitsFinite, SumIsUnits
<1>2. S = {} => Units(f, S) = {}
  BY DEF Units
<1> QED
  BY Zenon, <1>1, <1>2, FS_CardinalityType, FS_EmptySet

\* Taking an element out of a sum.
LEMMA SumRemove ==
  ASSUME NEW f, NEW S, IsFiniteSet(S), Counts(f, S), NEW t \in S
  PROVE  SumOver(f, S) = f[t] + SumOver(f, S \ {t})
<1>1. IsFiniteSet(S \ {t}) /\ Counts(f, S \ {t})
  BY FS_RemoveElement DEF Counts
<1>2. SumOver(f, S) = Cardinality(Units(f, S)) /\ SumOver(f, S \ {t}) = Cardinality(Units(f, S \ {t}))
  BY Zenon, <1>1, SumIsUnits
<1>3. Cardinality(Units(f, S)) = f[t] + Cardinality(Units(f, S \ {t}))
  BY UnitsRemove
<1> QED
  BY Zenon, <1>2, <1>3

\* A sum depends on the values of f on S only.
LEMMA SumSame ==
  ASSUME NEW f, NEW g, NEW S, IsFiniteSet(S), Counts(f, S), \A t \in S : f[t] = g[t]
  PROVE  SumOver(f, S) = SumOver(g, S)
<1>1. Counts(g, S)
  BY DEF Counts
<1>2. Units(f, S) = Units(g, S)
  BY DEF Units
<1> QED
  BY Zenon, <1>1, <1>2, SumIsUnits

-----------------------------------------------------------------------------
(* The inductive invariant                                                 *)

\* m_orphan_list and list_pos are inverse to each other.
ListInv ==
  /\ Len(list) = Cardinality(orphans)
  /\ \A t \in orphans : pos[t] \in 1..Len(list) /\ list[pos[t]] = t
  /\ \A i \in 1..Len(list) : list[i] \in orphans /\ pos[list[i]] = i

\* A loop visits orphans only.
LoopInv == todo \subseteq orphans /\ (pc \in {"idle", "evict"} => todo = {})

\* Every orphan has an announcer, and a peer that is gone announces only what
\* the loop of its EraseForPeer has still to visit.
PeerInv ==
  /\ \A t \in orphans : announcers[t] # {}
  /\ pc = "peer" => caller \in gone
  /\ \A p \in gone : p \notin infos /\ usage[p] = 0 /\ work[p] = {}
  /\ \A p \in gone, t \in Wtxid : p \in announcers[t] => pc = "peer" /\ caller = p /\ t \in todo

\* The next sweep is early enough for every orphan in the pool, and for any that
\* may still be added.
SweepInv ==
  /\ nextSweep <= now + ExpireTime
  /\ \A t \in orphans : nextSweep <= expire[t] + ExpireInterval
  /\ pc = "sweep" => minExp <= now + ExpireTime - ExpireInterval
  /\ pc = "sweep" => \A t \in orphans \ todo : minExp <= expire[t] /\ expire[t] > now
  /\ pc = "evict" => \A t \in orphans : expire[t] + ExpireInterval > now

IInv == TypeOK /\ ListInv /\ IndexIsExact /\ LoopInv /\ PeerInv /\ SweepInv

\* A bound that moves only upwards.
LEMMA LaterBound ==
  ASSUME NEW a \in Int, NEW b \in Nat, NEW c \in Nat, NEW d \in Nat, a <= b + d, c >= b
  PROVE  a <= c + d
OBVIOUS

\* The places of the vector.
LEMMA ListDomain ==
  ASSUME TypeOK
  PROVE  DOMAIN list = 1..Len(list)
<1>1. list \in Seq(Wtxid)
  BY Zenon DEF TypeOK
<1> QED
  BY <1>1

\* Two naturals neither of which is greater are equal.
LEMMA NotGreater ==
  ASSUME NEW a \in Nat, NEW b \in Nat, a <= b, ~(b > a)
  PROVE  a = b
OBVIOUS

USE WtxidAssumption, PeerAssumption, TxAssumption, LimitAssumption

\* The empty orphanage satisfies the invariant.
LEMMA InitInv == Init => IInv
<1> SUFFICES ASSUME Init PROVE IInv
  OBVIOUS
<1>1. TypeOK
  BY DEF Init, TypeOK
<1>2. Cardinality({}) = 0
  BY FS_EmptySet
<1>3. ListInv
  BY <1>2 DEF Init, ListInv
<1>4. IndexIsExact /\ LoopInv /\ PeerInv /\ SweepInv
  BY DEF Init, IndexIsExact, LoopInv, PeerInv, SweepInv
<1> QED
  BY <1>1, <1>3, <1>4 DEF IInv

\* Taking an orphan out of the vector keeps the vector exact.
LEMMA VacatedIsExact ==
  ASSUME TypeOK, ListInv, NEW t \in orphans, Vacated(t), orphans' = orphans \ {t}
  PROVE  ListInv' /\ list' \in Seq(Wtxid) /\ pos' \in [Wtxid -> Nat]
<1> DEFINE n == Len(list)
           moved == [list EXCEPT ![pos[t]] = list[n]]
<1>1. IsFiniteSet(orphans) /\ Cardinality(orphans) \in Nat
  BY Zenon, FS_Subset, FS_CardinalityType DEF TypeOK
<1>2. Cardinality(orphans \ {t}) = Cardinality(orphans) - 1
  BY Zenon, <1>1, FS_RemoveElement
<1>3. n \in Nat /\ n >= 1 /\ pos[t] \in 1..n /\ list[n] \in orphans /\ list[n] \in Wtxid
  BY DEF TypeOK, ListInv
<1>4. moved \in Seq(Wtxid) /\ Len(moved) = n
  BY <1>3 DEF TypeOK
<1>5. \A i \in 1..n : moved[i] = IF i = pos[t] THEN list[n] ELSE list[i]
  BY <1>3, <1>4 DEF TypeOK
<1>6. list' = SubSeq(moved, 1, n - 1)
  BY DEF Vacated, Last
<1> HIDE DEF moved
<1>7. list' \in Seq(Wtxid) /\ Len(list') = n - 1 /\ \A i \in 1..n-1 : list'[i] = moved[i]
  BY <1>3, <1>4, <1>6
<1>8. pos' = [u \in Wtxid |-> IF u = t THEN 0 ELSE IF u = list[n] THEN pos[t] ELSE pos[u]]
  BY DEF Vacated, Last
<1>9. pos' \in [Wtxid -> Nat]
  BY <1>3, <1>8 DEF TypeOK
<1>10. Len(list') = Cardinality(orphans')
  BY <1>2, <1>7 DEF ListInv
<1>11. ASSUME NEW u \in orphans' PROVE pos'[u] \in 1..Len(list') /\ list'[pos'[u]] = u
  <2>1. u \in orphans /\ u # t /\ u \in Wtxid /\ pos[u] \in 1..n /\ list[pos[u]] = u
    BY <1>11 DEF TypeOK, ListInv
  <2>2. pos[u] # pos[t]
    BY <2>1 DEF ListInv
  <2>3. CASE u = list[n]
    <3>1. pos[u] = n /\ pos'[u] = pos[t]
      BY <1>3, <1>8, <2>1, <2>3 DEF ListInv
    <3>2. pos[t] \in 1..n-1
      BY <1>3, <2>2, <3>1
    <3>3. list'[pos[t]] = list[n] /\ Len(list') = n - 1
      BY Zenon, <1>3, <1>5, <1>7, <3>2
    <3> QED
      BY Zenon, <2>3, <3>1, <3>2, <3>3
  <2>4. CASE u # list[n]
    <3>1. pos'[u] = pos[u] /\ pos[u] # n
      BY <1>8, <2>1, <2>4
    <3>2. pos[u] \in 1..n-1
      BY <1>3, <2>1, <3>1
    <3> QED
      BY Zenon, <1>5, <1>7, <2>1, <2>2, <3>1, <3>2
  <2> QED
    BY <2>3, <2>4
<1>12. ASSUME NEW i \in 1..Len(list') PROVE list'[i] \in orphans' /\ pos'[list'[i]] = i
  <2>1. i \in 1..n-1 /\ i \in 1..n /\ i # n
    BY <1>3, <1>7
  <2>2. list[n] # t \/ pos[t] = n
    BY <1>3 DEF ListInv
  <2>3. CASE i = pos[t]
    <3>1. list'[i] = list[n] /\ list[n] # t
      BY Zenon, <1>5, <1>7, <2>1, <2>2, <2>3
    <3> QED
      BY <1>3, <1>8, <2>3, <3>1
  <2>4. CASE i # pos[t]
    <3>1. list'[i] = list[i] /\ list[i] \in orphans /\ pos[list[i]] = i
      BY Zenon, <1>5, <1>7, <2>1, <2>4 DEF ListInv
    <3>2. list[i] # t /\ list[i] # list[n] /\ list[i] \in Wtxid
      BY <1>3, <2>1, <2>4, <3>1 DEF ListInv, TypeOK
    <3> QED
      BY <1>8, <3>1, <3>2
  <2> QED
    BY <2>3, <2>4
<1> QED
  BY <1>7, <1>9, <1>10, <1>11, <1>12 DEF ListInv

\* What the entries of the pool satisfy between any two steps.
EntryInv == TypeOK /\ ListInv /\ IndexIsExact

\* EraseTx keeps them, and touches no other orphan and no peer's work.
LEMMA ErasedIsExact ==
  ASSUME EntryInv, NEW t \in orphans, NEW peers, NEW count \in Int, Erased(t, peers, count),
         pc' \in {"idle", "peer", "block", "sweep", "evict"},
         caller' = caller, pc' = pc, todo' \subseteq Wtxid, minExp' \in Int,
         UNCHANGED <<nextSweep, now, gone, ret>>
  PROVE  EntryInv'
<1> USE DEF EntryInv
<1>1. orphans' = orphans \ {t} /\ Vacated(t)
  BY DEF Erased
<1>2. ListInv' /\ list' \in Seq(Wtxid) /\ pos' \in [Wtxid -> Nat]
  BY <1>1, VacatedIsExact
<1>3. t \in Wtxid /\ Weight[t] \in Nat /\ Inputs[t] \subseteq Outpoint
  BY DEF TypeOK
<1>4. byPrev' \in [Outpoint -> SUBSET Wtxid] /\ IndexIsExact'
  BY Zenon, <1>1, <1>3 DEF Erased, TypeOK, IndexIsExact
<1>5. /\ orphans' \subseteq Wtxid
      /\ announcers' \in [Wtxid -> SUBSET Peer]
      /\ \A u \in Wtxid : u \notin orphans' => announcers'[u] = {}
      /\ expire' \in [Wtxid -> Nat]
      /\ totalUsage' \in Int /\ totalAnn' \in Int
  <2>1. /\ announcers' = [announcers EXCEPT ![t] = {}] /\ expire' = [expire EXCEPT ![t] = 0]
        /\ totalUsage' = totalUsage - Weight[t] /\ totalAnn' = totalAnn - count
    BY Zenon DEF Erased
  <2>2. totalUsage' \in Int /\ totalAnn' \in Int
    BY <1>3, <2>1 DEF TypeOK
  <2>3. expire' \in [Wtxid -> Nat]
    BY <2>1 DEF TypeOK
  <2> QED
    BY Zenon, <1>1, <2>1, <2>2, <2>3 DEF TypeOK
<1>6. usage' \in [Peer -> Int] /\ infos' \subseteq Peer /\ work' \in [Peer -> SUBSET Wtxid]
  BY <1>3 DEF Erased, TypeOK
<1>7. TypeOK'
  BY Zenon, <1>2, <1>4, <1>5, <1>6 DEF TypeOK
<1> QED
  BY <1>2, <1>4, <1>7

\* The number of announcers is a number.
LEMMA AnnouncersAreFinite ==
  ASSUME TypeOK, NEW t \in Wtxid
  PROVE  Cardinality(announcers[t]) \in Int
<1>1. announcers[t] \subseteq Peer /\ IsFiniteSet(Peer)
  BY Zenon, PeerAssumption DEF TypeOK
<1>2. Cardinality(announcers[t]) \in Nat
  BY Zenon, <1>1, FS_Subset, FS_CardinalityType
<1> QED
  BY ONLY <1>2

\* AddTx of a new orphan puts it at the end of the vector and into the index.
LEMMA NewOrphanIsExact ==
  ASSUME EntryInv, NEW t \in Wtxid \ orphans, NEW p \in Peer, NewOrphan(t, p),
         UNCHANGED <<loopVars, nextSweep, now, gone, ret>>
  PROVE  EntryInv'
<1> USE DEF EntryInv
<1>1. orphans' = orphans \cup {t} /\ list' = Append(list, t) /\ Weight[t] \in Nat
  BY DEF NewOrphan
<1>2. Cardinality(orphans') = Cardinality(orphans) + 1
  <2>1. IsFiniteSet(orphans)
    BY Zenon, FS_Subset DEF TypeOK
  <2> QED
    BY Zenon, <1>1, <2>1, FS_AddElement
<1>3. pos' = [pos EXCEPT ![t] = Len(list) + 1]
  BY DEF NewOrphan
<1>4. ListInv'
  <2>1. Len(list) \in Nat /\ Len(list') = Len(list) + 1 /\ list'[Len(list) + 1] = t
        /\ \A i \in 1..Len(list) : list'[i] = list[i]
    BY <1>1 DEF TypeOK
  <2>2. Len(list') = Cardinality(orphans')
    BY <1>2, <2>1 DEF ListInv
  <2>3. ASSUME NEW u \in orphans' PROVE pos'[u] \in 1..Len(list') /\ list'[pos'[u]] = u
    BY <1>1, <1>3, <2>1, <2>3 DEF ListInv, TypeOK
  <2>4. ASSUME NEW i \in 1..Len(list') PROVE list'[i] \in orphans' /\ pos'[list'[i]] = i
    <3>1. CASE i = Len(list) + 1
      BY <1>1, <1>3, <2>1, <3>1 DEF TypeOK
    <3>2. CASE i # Len(list) + 1
      <4>1. i \in 1..Len(list) /\ list'[i] = list[i] /\ list[i] \in orphans /\ pos[list[i]] = i
        BY <2>1, <3>2 DEF ListInv
      <4> QED
        BY Zenon, <1>1, <1>3, <4>1 DEF TypeOK
    <3> QED
      BY <3>1, <3>2
  <2> QED
    BY <2>2, <2>3, <2>4 DEF ListInv
<1>5. IndexIsExact' /\ byPrev' \in [Outpoint -> SUBSET Wtxid]
  BY Zenon, <1>1 DEF NewOrphan, IndexIsExact, TypeOK
<1>6. /\ orphans' \subseteq Wtxid
      /\ announcers' \in [Wtxid -> SUBSET Peer]
      /\ \A u \in Wtxid : u \notin orphans' => announcers'[u] = {}
      /\ expire' \in [Wtxid -> Nat]
      /\ pos' \in [Wtxid -> Nat]
      /\ list' \in Seq(Wtxid)
  <2>1. orphans' \subseteq Wtxid /\ list' \in Seq(Wtxid) /\ Len(list) \in Nat
    BY <1>1 DEF TypeOK
  <2>2. pos' \in [Wtxid -> Nat]
    BY <1>3, <2>1 DEF TypeOK
  <2>3. expire' \in [Wtxid -> Nat]
    <3>1. now + ExpireTime \in Nat
      BY LimitAssumption DEF TypeOK
    <3>2. expire' = [expire EXCEPT ![t] = now + ExpireTime]
      BY Zenon DEF NewOrphan
    <3> QED
      BY Zenon, <3>1, <3>2 DEF TypeOK
  <2>4. announcers' = [announcers EXCEPT ![t] = {p}]
    BY DEF NewOrphan
  <2>5. announcers' \in [Wtxid -> SUBSET Peer] /\ \A u \in Wtxid : u \notin orphans' => announcers'[u] = {}
    BY Zenon, <1>1, <2>4 DEF TypeOK
  <2> QED
    BY <2>1, <2>2, <2>3, <2>5
<1>7. /\ totalUsage' \in Int /\ totalAnn' \in Int
      /\ usage' \in [Peer -> Int] /\ infos' \subseteq Peer /\ work' \in [Peer -> SUBSET Wtxid]
  <2>1. /\ totalUsage' = totalUsage + Weight[t] /\ totalAnn' = totalAnn + 1
        /\ usage' = [usage EXCEPT ![p] = @ + Weight[t]]
        /\ infos' = infos \cup {p} /\ work' = work
    BY Zenon DEF NewOrphan
  <2> QED
    BY <1>1, <2>1 DEF TypeOK
<1>8. TypeOK'
  BY Zenon, <1>5, <1>6, <1>7 DEF TypeOK, loopVars
<1> QED
  BY <1>4, <1>5, <1>8

\* What a loop and a sweep rely on survives the erasure of an orphan that the
\* loop has no business with any more.
LEMMA ErasedKeeps ==
  ASSUME IInv, NEW t \in orphans, NEW peers \in SUBSET Peer, NEW count \in Int,
         Erased(t, peers, count), pc' = pc, caller' = caller, gone' = gone,
         nextSweep' = nextSweep, now' = now, ret' = ret, minExp' = minExp, todo' = todo \ {t},
         pc \in {"idle", "evict"} => t \notin todo
  PROVE  IInv'
<1> USE DEF IInv
<1>1. t \in Wtxid /\ orphans' = orphans \ {t} /\ announcers' = [announcers EXCEPT ![t] = {}]
      /\ expire' = [expire EXCEPT ![t] = 0] /\ infos' = infos /\ work' = work
  BY Zenon DEF Erased, TypeOK
<1>2. EntryInv'
  BY Zenon, ErasedIsExact DEF EntryInv, TypeOK
<1>3. LoopInv'
  BY <1>1 DEF LoopInv
<1>4. PeerInv'
  <2>1. \A u \in orphans' : announcers'[u] # {}
    BY <1>1 DEF PeerInv, TypeOK
  <2>2. \A p \in gone : usage'[p] = usage[p]
    BY DEF Erased, PeerInv, TypeOK
  <2>3. \A p \in gone, u \in Wtxid : p \in announcers'[u] => pc = "peer" /\ caller = p /\ u \in todo \ {t}
    BY Zenon, <1>1 DEF PeerInv, TypeOK
  <2> QED
    BY <1>1, <2>1, <2>2, <2>3 DEF PeerInv
<1>5. SweepInv'
  <2>1. \A u \in orphans' : u \in orphans /\ expire'[u] = expire[u]
    BY <1>1 DEF TypeOK
  <2>2. orphans' \ todo' \subseteq orphans \ todo
    BY <1>1
  <2> QED
    BY <1>1, <2>1, <2>2 DEF SweepInv
<1> QED
  BY Zenon, <1>2, <1>3, <1>4, <1>5 DEF EntryInv

\* An orphan erased inside a loop leaves the loop's list as well.
LEMMA ErasedFullyKeeps ==
  ASSUME IInv, NEW t \in orphans, ErasedFully(t), pc' = pc, caller' = caller, gone' = gone,
         nextSweep' = nextSweep, now' = now, ret' = ret, minExp' = minExp, todo' = todo \ {t}
  PROVE  IInv'
<1>1. t \in Wtxid /\ announcers[t] \in SUBSET Peer
  BY DEF IInv, TypeOK
<1>2. Cardinality(announcers[t]) \in Int
  BY Zenon, <1>1, AnnouncersAreFinite DEF IInv
<1>3. pc \in {"idle", "evict"} => t \notin todo
  BY DEF IInv, LoopInv
<1> QED
  BY <1>1, <1>2, <1>3, ErasedKeeps DEF ErasedFully

\* AddAnnouncer, or AddTx of a known orphan.
LEMMA AnnouncerKeeps ==
  ASSUME IInv, pc = "idle", NEW t \in orphans, NEW p \in Peer \ gone, Announcer(t, p),
         UNCHANGED <<loopVars, nextSweep, now, gone, ret>>
  PROVE  IInv'
<1> USE DEF IInv
<1>1. t \in Wtxid /\ Weight[t] \in Nat
  BY DEF TypeOK
<1>2. UNCHANGED <<orphans, expire, pos, list, byPrev, totalUsage, work>>
  BY DEF Announcer
<1>3. announcers' = [announcers EXCEPT ![t] = @ \cup {p}] /\ infos' = infos \cup {p}
      /\ usage' = [usage EXCEPT ![p] = @ + Weight[t]] /\ totalAnn' = totalAnn + 1
  BY DEF Announcer
<1>4. TypeOK'
  <2>1. totalAnn' \in Int /\ usage' \in [Peer -> Int]
    BY <1>1, <1>3 DEF TypeOK
  <2> QED
    BY Zenon, <1>1, <1>2, <1>3, <2>1 DEF TypeOK, loopVars
<1>5. ListInv' /\ IndexIsExact' /\ LoopInv' /\ SweepInv'
  BY Zenon, <1>2 DEF ListInv, IndexIsExact, LoopInv, SweepInv, loopVars
<1>6. PeerInv'
  <2>1. \A u \in orphans : announcers'[u] # {}
    BY Zenon, <1>1, <1>3 DEF PeerInv, TypeOK
  <2>2. \A q \in gone : q \notin infos' /\ usage'[q] = 0
    BY Zenon, <1>1, <1>3 DEF PeerInv, TypeOK
  <2>3. \A q \in gone, u \in Wtxid : q \in announcers'[u] => q \in announcers[u]
    BY Zenon, <1>1, <1>3 DEF PeerInv, TypeOK
  <2> QED
    BY Zenon, <1>2, <2>1, <2>2, <2>3 DEF PeerInv, loopVars
<1> QED
  BY <1>4, <1>5, <1>6

\* AddTx of a new orphan puts it at the end of the list.
LEMMA NewOrphanKeeps ==
  ASSUME IInv, pc = "idle", NEW t \in Wtxid \ orphans, NEW p \in Peer \ gone, NewOrphan(t, p),
         UNCHANGED <<loopVars, nextSweep, now, gone, ret>>
  PROVE  IInv'
<1> USE DEF IInv
<1>1. EntryInv'
  BY Zenon, NewOrphanIsExact DEF EntryInv
<1>2. /\ orphans' = orphans \cup {t} /\ announcers' = [announcers EXCEPT ![t] = {p}]
      /\ expire' = [expire EXCEPT ![t] = now + ExpireTime] /\ infos' = infos \cup {p}
      /\ usage' = [usage EXCEPT ![p] = @ + Weight[t]] /\ work' = work
  BY DEF NewOrphan
<1>3. LoopInv'
  BY Zenon, <1>2 DEF LoopInv, loopVars
<1>4. PeerInv'
  <2>1. ASSUME NEW u \in orphans' PROVE announcers'[u] # {}
    <3>1. CASE u = t
      BY Zenon, <1>2, <3>1 DEF TypeOK
    <3>2. CASE u # t
      BY Zenon, <1>2, <3>2 DEF PeerInv, TypeOK
    <3> QED
      BY Zenon, <3>1, <3>2
  <2>2. \A q \in gone : q \notin infos' /\ usage'[q] = 0
    BY Zenon, <1>2 DEF PeerInv, TypeOK
  <2>3. \A q \in gone, u \in Wtxid : q \in announcers'[u] => q \in announcers[u]
    BY Zenon, <1>2 DEF PeerInv, TypeOK
  <2> QED
    BY Zenon, <1>2, <2>1, <2>2, <2>3 DEF PeerInv, loopVars
<1>5. SweepInv'
  <2>1. \A u \in orphans' : nextSweep <= expire'[u] + ExpireInterval
    <3>1. nextSweep <= now + ExpireTime /\ nextSweep \in Int /\ now \in Nat
      BY DEF SweepInv, TypeOK
    <3>2. nextSweep <= (now + ExpireTime) + ExpireInterval
      BY ONLY <3>1, LimitAssumption
    <3>3. expire \in [Wtxid -> Nat] /\ orphans \subseteq Wtxid
      BY DEF TypeOK
    <3>4. expire'[t] = now + ExpireTime
      BY Zenon, <1>2, <3>3
    <3>5. \A u \in orphans : u # t /\ expire'[u] = expire[u]
      BY Zenon, <1>2, <3>3
    <3> QED
      BY Zenon, <1>2, <3>2, <3>4, <3>5 DEF SweepInv
  <2> QED
    BY Zenon, <2>1 DEF SweepInv, loopVars
<1> QED
  BY Zenon, <1>1, <1>3, <1>4, <1>5 DEF EntryInv

\* The start of the loop of EraseForPeer.
LEMMA EraseForPeerKeeps ==
  ASSUME IInv, NEW p \in Peer, EraseForPeer(p)
  PROVE  IInv'
<1> USE DEF IInv
<1>1. /\ pc = "idle" /\ pc' = "peer" /\ caller' = p /\ todo' = orphans /\ gone' = gone \cup {p}
      /\ infos' = infos \ {p} /\ usage' = [usage EXCEPT ![p] = 0] /\ work' = [work EXCEPT ![p] = {}]
      /\ UNCHANGED <<entryVars, minExp, nextSweep, now, ret>>
  BY Zenon DEF EraseForPeer
<1>2. TypeOK'
  <2>1. usage' \in [Peer -> Int] /\ pc' \in {"idle", "peer", "block", "sweep", "evict"}
    BY <1>1 DEF TypeOK
  <2> QED
    BY Zenon, <1>1, <2>1 DEF TypeOK, entryVars
<1>3. ListInv' /\ IndexIsExact' /\ LoopInv' /\ SweepInv'
  BY Zenon, <1>1 DEF ListInv, IndexIsExact, LoopInv, SweepInv, entryVars
<1>4. PeerInv'
  <2>1. \A q \in gone' : q \notin infos' /\ usage'[q] = 0 /\ work'[q] = {}
    BY <1>1 DEF PeerInv, TypeOK
  <2>2. \A q \in gone', u \in Wtxid : q \in announcers[u] => q = p /\ u \in orphans
    BY Zenon, <1>1 DEF PeerInv, TypeOK
  <2> QED
    BY Zenon, <1>1, <2>1, <2>2 DEF PeerInv, entryVars
<1> QED
  BY Zenon, <1>2, <1>3, <1>4

\* One turn of the loop of EraseForPeer.
LEMMA EraseOneForPeerKeeps ==
  ASSUME IInv, NEW t \in Wtxid, EraseOneForPeer(t)
  PROVE  IInv'
<1> USE DEF IInv
<1>1. /\ pc = "peer" /\ t \in todo /\ t \in orphans /\ todo' = todo \ {t} /\ caller \in Peer
      /\ UNCHANGED <<pc, caller, minExp, nextSweep, now, gone, ret>>
  BY DEF EraseOneForPeer, LoopInv, TypeOK
<1>2. CASE caller \notin announcers[t] /\ UNCHANGED <<entryVars, infoVars>>
  <2>1. TypeOK' /\ ListInv' /\ IndexIsExact' /\ LoopInv'
    BY Zenon, <1>1, <1>2 DEF TypeOK, ListInv, IndexIsExact, LoopInv, entryVars, infoVars
  <2>2. PeerInv' /\ SweepInv'
    BY <1>1, <1>2 DEF PeerInv, SweepInv, entryVars, infoVars
  <2> QED
    BY Zenon, <2>1, <2>2
<1>3. CASE announcers[t] = {caller} /\ Erased(t, {}, 1)
  <2>1. IInv
    OBVIOUS
  <2> QED
    BY <1>1, <1>3, <2>1, ErasedKeeps
<1>4. CASE caller \in announcers[t] /\ announcers[t] # {caller} /\ Unannounce(t)
  <2>1. announcers' = [announcers EXCEPT ![t] = @ \ {caller}] /\ totalAnn' = totalAnn - 1
        /\ UNCHANGED <<orphans, expire, pos, list, byPrev, totalUsage, infos, usage, work>>
    BY Zenon, <1>4 DEF Unannounce, infoVars
  <2>2. TypeOK'
    <3>1. totalAnn' \in Int
      BY <2>1 DEF TypeOK
    <3> QED
      BY Zenon, <1>1, <2>1, <3>1 DEF TypeOK
  <2>3. ListInv' /\ IndexIsExact' /\ LoopInv' /\ SweepInv'
    BY <1>1, <2>1 DEF ListInv, IndexIsExact, LoopInv, SweepInv
  <2>4. \A u \in orphans : announcers'[u] # {}
    BY Zenon, <1>1, <1>4, <2>1 DEF PeerInv, TypeOK
  <2>5. \A q \in gone, u \in Wtxid : q \in announcers'[u] => caller = q /\ u \in todo \ {t}
    BY Zenon, <1>1, <1>4, <2>1 DEF PeerInv, TypeOK
  <2>6. PeerInv'
    BY Zenon, <1>1, <2>1, <2>4, <2>5 DEF PeerInv
  <2> QED
    BY Zenon, <2>2, <2>3, <2>6
<1> QED
  BY Zenon, <1>2, <1>3, <1>4 DEF EraseOneForPeer

\* One iteration of the sweep.
LEMMA SweepOneKeeps ==
  ASSUME IInv, NEW t \in Wtxid, SweepOne(t)
  PROVE  IInv'
<1>1. /\ pc = "sweep" /\ t \in todo /\ t \in orphans /\ todo' = todo \ {t}
      /\ UNCHANGED <<pc, caller, nextSweep, now, gone, ret>>
  BY DEF SweepOne, LoopInv, IInv
<1>2. CASE expire[t] <= now /\ ErasedFully(t) /\ UNCHANGED minExp
  BY Zenon, <1>1, <1>2, ErasedFullyKeeps
<1>3. CASE /\ expire[t] > now /\ minExp' = (IF expire[t] < minExp THEN expire[t] ELSE minExp)
           /\ UNCHANGED <<entryVars, infoVars>>
  <2> USE DEF IInv
  <2>1. expire[t] \in Nat /\ minExp \in Int /\ minExp' \in Int /\ now \in Nat
    BY <1>3 DEF TypeOK
  <2>2. TypeOK' /\ ListInv' /\ IndexIsExact' /\ LoopInv'
    BY Zenon, <1>1, <1>3, <2>1 DEF TypeOK, ListInv, IndexIsExact, LoopInv, entryVars, infoVars
  <2>3. PeerInv'
    BY <1>1, <1>3 DEF PeerInv, entryVars, infoVars
  <2>4. minExp' <= minExp /\ minExp' <= expire[t]
    BY <1>3, <2>1
  <2>5. ASSUME NEW u \in orphans \ (todo \ {t}) PROVE minExp' <= expire[u] /\ expire[u] > now
    <3>1. u \in Wtxid /\ expire[u] \in Nat
      BY DEF TypeOK
    <3>2. CASE u = t
      BY Zenon, <1>3, <2>4, <3>2
    <3>3. CASE u # t
      <4>1. minExp <= expire[u] /\ expire[u] > now
        BY Zenon, <1>1, <2>5, <3>3 DEF SweepInv
      <4> QED
        BY <2>1, <2>4, <3>1, <4>1
    <3> QED
      BY <3>2, <3>3
  <2>6. minExp' <= now + ExpireTime - ExpireInterval
    <3>1. minExp <= now + ExpireTime - ExpireInterval
      BY Zenon, <1>1 DEF SweepInv
    <3> QED
      BY <2>1, <2>4, <3>1
  <2>7. SweepInv'
    BY Zenon, <1>1, <1>3, <2>5, <2>6 DEF SweepInv, entryVars
  <2> QED
    BY Zenon, <2>2, <2>3, <2>7
<1> QED
  BY Zenon, <1>2, <1>3 DEF SweepOne

\* The calls that change no entry.
LEMMA EndSweepKeeps == ASSUME IInv, EndSweep PROVE IInv'
<1> USE DEF IInv
<1>1. /\ pc = "sweep" /\ todo = {} /\ nextSweep' = minExp + ExpireInterval /\ pc' = "evict" /\ minExp' = 0
      /\ UNCHANGED <<entryVars, infoVars, caller, todo, now, gone, ret>>
  BY Zenon DEF EndSweep
<1>2. TypeOK' /\ ListInv' /\ IndexIsExact' /\ LoopInv'
  <2>1. nextSweep' \in Int /\ minExp' \in Int /\ pc' # "peer"
        /\ pc' \in {"idle", "peer", "block", "sweep", "evict"}
    BY <1>1 DEF TypeOK
  <2> QED
    BY Zenon, <1>1, <2>1 DEF TypeOK, ListInv, IndexIsExact, LoopInv, entryVars, infoVars
<1>3. PeerInv'
  BY Zenon, <1>1 DEF PeerInv, entryVars, infoVars
<1>4. SweepInv'
  <2>1. minExp \in Int /\ now \in Nat /\ \A t \in orphans : expire[t] \in Nat
    BY DEF TypeOK
  <2>2. minExp <= now + ExpireTime - ExpireInterval /\ \A t \in orphans : minExp <= expire[t] /\ expire[t] > now
    BY <1>1 DEF SweepInv
  <2>3. nextSweep' <= now + ExpireTime /\ \A t \in orphans : nextSweep' <= expire[t] + ExpireInterval /\ expire[t] + ExpireInterval > now
    BY <1>1, <2>1, <2>2
  <2> QED
    BY <1>1, <2>3 DEF SweepInv, entryVars
<1> QED
  BY <1>2, <1>3, <1>4

\* LimitOrphans starts to sweep or to evict.
LEMMA LimitOrphansKeeps == ASSUME IInv, LimitOrphans PROVE IInv'
<1> USE DEF IInv
<1>1. /\ pc = "idle" /\ UNCHANGED <<entryVars, infoVars, caller, nextSweep, now, gone, ret>>
      /\ \/ nextSweep <= now /\ pc' = "sweep" /\ todo' = orphans /\ minExp' = now + ExpireTime - ExpireInterval
         \/ nextSweep > now /\ pc' = "evict" /\ UNCHANGED <<todo, minExp>>
  BY DEF LimitOrphans
<1>2. TypeOK' /\ ListInv' /\ IndexIsExact' /\ LoopInv'
  <2>1. minExp' \in Int /\ todo' \subseteq Wtxid /\ pc' \in {"sweep", "evict"}
    <3>1. now \in Nat /\ minExp \in Int /\ orphans \subseteq Wtxid /\ todo \subseteq Wtxid
      BY DEF TypeOK
    <3>2. now + ExpireTime - ExpireInterval \in Int
      BY <3>1
    <3> QED
      BY Zenon, <1>1, <3>1, <3>2
  <2>2. TypeOK'
    BY <1>1, <2>1 DEF TypeOK, entryVars, infoVars
  <2>3. ListInv' /\ IndexIsExact'
    BY Zenon, <1>1 DEF ListInv, IndexIsExact, entryVars
  <2>4. LoopInv'
    BY Zenon, <1>1 DEF LoopInv, entryVars
  <2> QED
    BY Zenon, <2>2, <2>3, <2>4
<1>3. PeerInv'
  BY Zenon, <1>1 DEF PeerInv, entryVars, infoVars
<1>4. SweepInv'
  <2>1. minExp \in Int /\ now \in Nat /\ nextSweep \in Int /\ \A t \in orphans : expire[t] \in Nat
    BY Zenon DEF TypeOK
  <2>2. nextSweep > now => \A t \in orphans : expire[t] + ExpireInterval > now
    BY <2>1 DEF SweepInv
  <2> QED
    BY <1>1, <2>1, <2>2 DEF SweepInv, entryVars
<1> QED
  BY <1>2, <1>3, <1>4

\* EraseForBlock lists the orphans in conflict with the block.
LEMMA EraseForBlockKeeps ==
  ASSUME IInv, NEW spends \in Spent, EraseForBlock(spends)
  PROVE  IInv'
<1> USE DEF IInv
<1>1. /\ pc = "idle" /\ pc' = "block" /\ todo' = UNION {byPrev[o] : o \in spends}
      /\ UNCHANGED <<entryVars, infoVars, caller, minExp, nextSweep, now, gone, ret>>
  BY Zenon DEF EraseForBlock
<1>2. todo' \subseteq orphans /\ orphans \subseteq Wtxid
  <2>1. \A o \in spends : byPrev[o] \subseteq orphans
    BY Zenon DEF IndexIsExact
  <2>2. \A u \in UNION {byPrev[o] : o \in spends} : u \in orphans
    BY Zenon, <2>1
  <2> QED
    BY Zenon, <1>1, <2>2 DEF TypeOK
<1>3. TypeOK'
  BY Zenon, <1>1, <1>2 DEF TypeOK, entryVars, infoVars
<1>4. ListInv' /\ IndexIsExact' /\ LoopInv'
  BY Zenon, <1>1, <1>2 DEF ListInv, IndexIsExact, LoopInv, entryVars
<1>5. PeerInv' /\ SweepInv'
  BY <1>1 DEF PeerInv, SweepInv, entryVars, infoVars
<1> QED
  BY Zenon, <1>3, <1>4, <1>5

\* The loops end with nothing left in their lists.
LEMMA EndKeeps == ASSUME IInv, EndErase \/ EndEvict PROVE IInv'
<1> USE DEF IInv
<1>1. /\ pc' = "idle" /\ caller' \in Peer \cup {NoPeer} /\ todo = {} /\ pc # "idle"
      /\ UNCHANGED <<entryVars, infoVars, todo, minExp, nextSweep, now, gone, ret>>
  BY Zenon DEF EndErase, EndEvict, LoopInv, TypeOK
<1>2. TypeOK'
  BY Zenon, <1>1 DEF TypeOK, entryVars, infoVars
<1>3. ListInv' /\ IndexIsExact' /\ LoopInv'
  BY Zenon, <1>1 DEF ListInv, IndexIsExact, LoopInv, entryVars
<1>4. PeerInv' /\ SweepInv'
  BY <1>1 DEF PeerInv, SweepInv, entryVars, infoVars
<1> QED
  BY Zenon, <1>2, <1>3, <1>4

\* Only announcers are given work, and none of them is gone.
LEMMA AddChildrenKeeps ==
  ASSUME IInv, NEW outs \in Created, AddChildrenToWorkSet(outs)
  PROVE  IInv'
<1> USE DEF IInv
<1>1. pc = "idle" /\ UNCHANGED <<entryVars, usage, loopVars, nextSweep, now, gone, ret>>
  BY Zenon DEF AddChildrenToWorkSet
<1>2. PICK pick \in [Found(outs) -> Peer] :
        /\ \A x \in Found(outs) : pick[x] \in announcers[x[2]]
        /\ work' = [p \in Peer |-> work[p] \cup {x[2] : x \in {y \in Found(outs) : pick[y] = p}}]
        /\ infos' = infos \cup {pick[x] : x \in Found(outs)}
  BY Zenon DEF AddChildrenToWorkSet
<1>3. \A x \in Found(outs) : x[2] \in orphans /\ x[2] \in Wtxid
  BY Zenon DEF Found, TypeOK
<1>4. \A x \in Found(outs) : pick[x] \in Peer /\ pick[x] \notin gone
  BY Zenon, <1>1, <1>2, <1>3 DEF PeerInv
<1>5. work' \in [Peer -> SUBSET Wtxid] /\ infos' \subseteq Peer
  <2>1. \A p \in Peer : {x[2] : x \in {y \in Found(outs) : pick[y] = p}} \subseteq Wtxid
    BY Zenon, <1>3
  <2>2. work \in [Peer -> SUBSET Wtxid] /\ infos \subseteq Peer
    BY Zenon DEF TypeOK
  <2>3. \A p \in Peer : work[p] \cup {x[2] : x \in {y \in Found(outs) : pick[y] = p}} \in SUBSET Wtxid
    BY Zenon, <2>1, <2>2
  <2> QED
    BY Zenon, <1>2, <1>4, <2>2, <2>3
<1>6. ASSUME NEW p \in gone PROVE p \notin infos' /\ work'[p] = work[p]
  <2>1. p \in Peer /\ p \notin infos
    BY DEF PeerInv, TypeOK
  <2>2. {y \in Found(outs) : pick[y] = p} = {}
    BY Zenon, <1>4
  <2>3. p \notin {pick[x] : x \in Found(outs)}
    BY Zenon, <1>4
  <2> QED
    BY <1>2, <2>1, <2>2, <2>3
<1>7. TypeOK'
  BY Zenon, <1>1, <1>5 DEF TypeOK, entryVars, loopVars
<1>8. ListInv' /\ IndexIsExact' /\ LoopInv' /\ SweepInv'
  BY Zenon, <1>1 DEF ListInv, IndexIsExact, LoopInv, SweepInv, entryVars, loopVars
<1>9. PeerInv'
  BY Zenon, <1>1, <1>6 DEF PeerInv, entryVars, loopVars
<1> QED
  BY Zenon, <1>7, <1>8, <1>9

\* GetTxToReconsider takes an orphan out of a peer's work set.
LEMMA GetTxKeeps ==
  ASSUME IInv, NEW p \in Peer, GetTxToReconsider(p)
  PROVE  IInv'
<1> USE DEF IInv
<1>1. pc = "idle" /\ p \notin gone /\ UNCHANGED <<entryVars, infos, usage, loopVars, nextSweep, now, gone>>
  BY Zenon DEF GetTxToReconsider
<1>2. work' \in [Peer -> SUBSET Wtxid] /\ \A q \in Peer \ {p} : work'[q] = work[q]
  BY DEF GetTxToReconsider, TypeOK
<1>3. TypeOK'
  BY Zenon, <1>1, <1>2 DEF TypeOK, entryVars, loopVars
<1>4. ListInv' /\ IndexIsExact' /\ LoopInv' /\ SweepInv'
  BY Zenon, <1>1 DEF ListInv, IndexIsExact, LoopInv, SweepInv, entryVars, loopVars
<1>5. PeerInv'
  BY Zenon, <1>1, <1>2 DEF PeerInv, TypeOK, entryVars, loopVars
<1> QED
  BY Zenon, <1>3, <1>4, <1>5

\* Time passes between two calls, or nothing happens.
LEMMA IdleKeeps ==
  ASSUME IInv, UNCHANGED <<entryVars, infoVars, loopVars, nextSweep, gone, ret>>,
         now' \in Nat, now' >= now, now' # now => pc = "idle"
  PROVE  IInv'
<1> USE DEF IInv
<1>1. TypeOK'
  BY DEF TypeOK, entryVars, infoVars, loopVars
<1>2. ListInv' /\ IndexIsExact' /\ LoopInv' /\ PeerInv'
  BY DEF ListInv, IndexIsExact, LoopInv, PeerInv, entryVars, infoVars, loopVars
<1>3. SweepInv'
  <2>1. UNCHANGED <<orphans, expire, nextSweep, pc, todo, minExp>>
    BY Zenon DEF entryVars, loopVars
  <2>2. now \in Nat /\ nextSweep \in Int
    BY DEF TypeOK
  <2>3. nextSweep <= now' + ExpireTime
    <3>1. nextSweep <= now + ExpireTime
      BY DEF SweepInv
    <3>2. ExpireTime \in Nat /\ now' \in Nat /\ now' >= now
      OBVIOUS
    <3> QED
      BY ONLY Zenon, <2>2, <3>1, <3>2, LaterBound
  <2>4. pc \in {"sweep", "evict"} => now' = now
    OBVIOUS
  <2> QED
    BY Zenon, <2>1, <2>3, <2>4 DEF SweepInv
<1> QED
  BY <1>1, <1>2, <1>3

\* Every step keeps the invariant.
LEMMA StepInv == IInv /\ [Next]_vars => IInv'
<1> SUFFICES ASSUME IInv, [Next]_vars PROVE IInv'
  BY Zenon
<1>0. now \in Nat /\ orphans \subseteq Wtxid
  BY Zenon DEF IInv, TypeOK
<1>1. ASSUME NEW t \in Wtxid, NEW p \in Peer, AddTx(t, p) \/ AddAnnouncer(t, p) PROVE IInv'
  <2>1. pc = "idle" /\ p \in Peer \ gone /\ UNCHANGED <<loopVars, nextSweep, now, gone, ret>>
    BY Zenon, <1>1 DEF AddTx, AddAnnouncer
  <2>2. CASE t \in orphans /\ Announcer(t, p)
    BY Zenon, <2>1, <2>2, AnnouncerKeeps
  <2>3. CASE t \notin orphans /\ NewOrphan(t, p)
    BY Zenon, <2>1, <2>3, NewOrphanKeeps
  <2>4. CASE UNCHANGED <<entryVars, infoVars>>
    BY <1>0, <2>1, <2>4, IdleKeeps
  <2> QED
    BY Zenon, <1>1, <2>2, <2>3, <2>4 DEF AddTx, AddAnnouncer
<1>2. ASSUME NEW t \in Wtxid, EraseTx(t) PROVE IInv'
  <2>1. pc = "idle" /\ UNCHANGED <<loopVars, nextSweep, now, gone, ret>>
    BY Zenon, <1>2 DEF EraseTx
  <2>2. CASE t \in orphans /\ ErasedFully(t)
    <3>1. todo' = todo \ {t}
      BY Zenon, <2>1 DEF loopVars, IInv, LoopInv
    <3> QED
      BY Zenon, <2>1, <2>2, <3>1, ErasedFullyKeeps DEF loopVars
  <2>3. CASE UNCHANGED <<entryVars, infoVars>>
    BY <1>0, <2>1, <2>3, IdleKeeps
  <2> QED
    BY Zenon, <1>2, <2>2, <2>3 DEF EraseTx
<1>3. ASSUME NEW t \in Wtxid, EraseOneForBlock(t) PROVE IInv'
  <2>1. t \in orphans
    BY Zenon, <1>3 DEF EraseOneForBlock, IInv, LoopInv
  <2> QED
    BY Zenon, <1>3, <2>1, ErasedFullyKeeps DEF EraseOneForBlock
<1>4. ASSUME NEW i \in 1..Cardinality(Wtxid), EvictOne(i) PROVE IInv'
  <2>1. pc = "evict" /\ i \in DOMAIN list /\ ErasedFully(list[i])
        /\ UNCHANGED <<loopVars, nextSweep, now, gone, ret>>
    BY Zenon, <1>4 DEF EvictOne
  <2>2. list[i] \in orphans
    BY Zenon, <2>1, ListDomain DEF IInv, ListInv
  <2>3. todo' = todo \ {list[i]}
    BY Zenon, <2>1 DEF loopVars, IInv, LoopInv
  <2> QED
    BY Zenon, <2>1, <2>2, <2>3, ErasedFullyKeeps DEF loopVars
<1>5. CASE Tick
  BY <1>0, <1>5, IdleKeeps DEF Tick
<1>6. CASE UNCHANGED vars
  BY <1>0, <1>6, IdleKeeps DEF vars
<1> QED
  BY <1>1, <1>2, <1>3, <1>4, <1>5, <1>6, EraseForPeerKeeps, EraseOneForPeerKeeps, EraseForBlockKeeps,
     EndKeeps, LimitOrphansKeeps, SweepOneKeeps, EndSweepKeeps, AddChildrenKeeps, GetTxKeeps DEF Next

-----------------------------------------------------------------------------
(* The counters                                                            *)

\* The counters are those of the pool inside the loops as well; EraseForPeer
\* drops the counter of its peer before the announcements it counts.  Who
\* announces an orphan and is not gone has an entry.
CountInv ==
  /\ totalAnn = SumOver(Announcements, orphans)
  /\ totalUsage = WeightOf(orphans)
  /\ \A p \in Peer \ gone : usage[p] = WeightOf(AnnouncedBy(p))
  /\ \A t \in orphans : announcers[t] \ gone \subseteq infos

\* The weight of a set of transactions, with one more or one less.
LEMMA WeightChange ==
  ASSUME NEW S \in SUBSET Wtxid
  PROVE  /\ WeightOf(S) \in Nat
         /\ S = {} => WeightOf(S) = 0
         /\ \A t \in Wtxid \ S : WeightOf(S \cup {t}) = WeightOf(S) + Weight[t]
         /\ \A t \in S : WeightOf(S \ {t}) = WeightOf(S) - Weight[t]
<1>0. \A T \in SUBSET Wtxid : IsFiniteSet(T) /\ Counts(Weight, T)
  BY FS_Subset DEF Counts
<1>1. \A T \in SUBSET Wtxid : WeightOf(T) \in Nat
  BY Zenon, <1>0, SumType DEF WeightOf
<1>2. S = {} => WeightOf(S) = 0
  BY Zenon, <1>0, SumType DEF WeightOf
<1>3. ASSUME NEW T \in SUBSET Wtxid, NEW t \in T PROVE WeightOf(T) = Weight[t] + WeightOf(T \ {t})
  <2>1. IsFiniteSet(T) /\ Counts(Weight, T)
    BY <1>0
  <2> QED
    BY <2>1, SumRemove DEF WeightOf
<1>4. ASSUME NEW t \in Wtxid \ S PROVE WeightOf(S \cup {t}) = WeightOf(S) + Weight[t]
  <2>0. (S \cup {t}) \ {t} = S /\ S \cup {t} \in SUBSET Wtxid
    OBVIOUS
  <2>1. PICK T \in SUBSET Wtxid : T = S \cup {t} /\ t \in T /\ T \ {t} = S
    BY Zenon, <2>0
  <2>2. WeightOf(T) = Weight[t] + WeightOf(S) /\ WeightOf(S) \in Nat /\ Weight[t] \in Nat
    BY <1>1, <1>3, <2>1
  <2> QED
    BY <2>1, <2>2
<1>5. ASSUME NEW t \in S PROVE WeightOf(S \ {t}) = WeightOf(S) - Weight[t]
  <2>1. WeightOf(S) = Weight[t] + WeightOf(S \ {t}) /\ WeightOf(S \ {t}) \in Nat /\ Weight[t] \in Nat
    BY <1>1, <1>3
  <2> QED
    BY <2>1
<1> QED
  BY <1>1, <1>2, <1>4, <1>5

\* The numbers of announcers are numbers.
LEMMA AnnouncementsType ==
  ASSUME NEW a \in [Wtxid -> SUBSET Peer]
  PROVE  [t \in Wtxid |-> Cardinality(a[t])] \in [Wtxid -> Nat]
<1>1. \A t \in Wtxid : Cardinality(a[t]) \in Nat
  <2> TAKE t \in Wtxid
  <2>1. a[t] \in SUBSET Peer
    OBVIOUS
  <2> QED
    BY Zenon, <2>1, FS_Subset, FS_CardinalityType
<1> QED
  BY <1>1

\* A sum in which the value of t changes from f[t] to g[t], or goes.
Changed(f, g, S, t) ==
  /\ SumOver(g, S) = SumOver(f, S) - f[t] + g[t]
  /\ SumOver(g, S \ {t}) = SumOver(f, S) - f[t]

\* A sum over the orphans when the value of one of them changes.
LEMMA SumChange ==
  ASSUME NEW f \in [Wtxid -> Nat], NEW g \in [Wtxid -> Nat], NEW S \in SUBSET Wtxid, NEW t \in S,
         \A u \in S \ {t} : f[u] = g[u]
  PROVE  Changed(f, g, S, t)
<1>0. IsFiniteSet(S) /\ IsFiniteSet(S \ {t}) /\ Counts(f, S) /\ Counts(g, S) /\ Counts(f, S \ {t})
  BY FS_Subset DEF Counts
<1>1. SumOver(f, S) = f[t] + SumOver(f, S \ {t}) /\ SumOver(g, S) = g[t] + SumOver(g, S \ {t})
  BY <1>0, SumRemove
<1>2. PICK R : R = S \ {t} /\ IsFiniteSet(R) /\ Counts(f, R) /\ \A u \in R : f[u] = g[u]
  BY Zenon, <1>0
<1>4. SumOver(f, R) = SumOver(g, R)
  BY <1>2, SumSame
<1>5. SumOver(f, R) \in Nat
  BY Zenon, <1>2, SumType
<1>3. f[t] \in Nat /\ g[t] \in Nat
  OBVIOUS
<1> QED
  BY <1>1, <1>2, <1>3, <1>4, <1>5 DEF Changed

\* AddAnnouncer charges the announcer.
LEMMA AnnouncerCounts ==
  ASSUME IInv, CountInv, NEW t \in orphans, NEW p \in Peer \ gone, p \notin announcers[t],
         Announcer(t, p), gone' = gone
  PROVE  CountInv'
<1>0. /\ orphans \subseteq Wtxid /\ t \in Wtxid /\ announcers \in [Wtxid -> SUBSET Peer]
      /\ infos \subseteq Peer /\ usage \in [Peer -> Int] /\ totalAnn \in Int
  BY DEF IInv, TypeOK
<1>1. /\ announcers' = [announcers EXCEPT ![t] = @ \cup {p}] /\ totalAnn' = totalAnn + 1
      /\ infos' = infos \cup {p} /\ usage' = [usage EXCEPT ![p] = @ + Weight[t]]
      /\ orphans' = orphans /\ totalUsage' = totalUsage
  BY Zenon DEF Announcer
<1>2. announcers' \in [Wtxid -> SUBSET Peer]
  BY <1>0, <1>1
<1>3. totalAnn' = SumOver(Announcements', orphans)
  <2>1. PICK f \in [Wtxid -> Nat], g \in [Wtxid -> Nat] : f = Announcements /\ g = Announcements'
    BY <1>0, <1>2, AnnouncementsType DEF Announcements
  <2>2. g[t] = f[t] + 1
    <3>1. f[t] = Cardinality(announcers[t]) /\ g[t] = Cardinality(announcers[t] \cup {p})
      BY <1>0, <1>1, <2>1 DEF Announcements
    <3>2. IsFiniteSet(announcers[t])
      BY <1>0, FS_Subset
    <3> QED
      BY Zenon, <3>1, <3>2, FS_AddElement
  <2>3. \A u \in orphans \ {t} : f[u] = g[u]
    BY <1>0, <1>1, <2>1 DEF Announcements
  <2>4. SumOver(g, orphans) = SumOver(f, orphans) - f[t] + g[t]
    <3>1. Changed(f, g, orphans, t)
      BY Zenon, <1>0, <2>3, SumChange
    <3> QED
      BY Zenon, <3>1 DEF Changed
  <2>5. totalAnn = SumOver(f, orphans)
    BY Zenon, <2>1 DEF CountInv
  <2>6. totalAnn' = SumOver(g, orphans)
    BY <1>0, <1>1, <2>1, <2>2, <2>4, <2>5
  <2> QED
    BY Zenon, <2>1, <2>6
<1>4. ASSUME NEW q \in Peer \ gone PROVE usage'[q] = WeightOf(AnnouncedBy(q)')
  <2>1. usage[q] = WeightOf(AnnouncedBy(q)) /\ AnnouncedBy(q) \in SUBSET Wtxid
    BY <1>0 DEF CountInv, AnnouncedBy
  <2>2. CASE q = p
    <3>1. AnnouncedBy(q)' = AnnouncedBy(q) \cup {t} /\ t \notin AnnouncedBy(q)
      BY <1>0, <1>1, <2>2 DEF AnnouncedBy
    <3>2. WeightOf(AnnouncedBy(q) \cup {t}) = WeightOf(AnnouncedBy(q)) + Weight[t]
      BY <1>0, <2>1, <3>1, WeightChange
    <3>3. usage'[q] = usage[q] + Weight[t]
      BY <1>0, <1>1, <2>2
    <3> QED
      BY Zenon, <2>1, <3>1, <3>2, <3>3
  <2>3. CASE q # p
    <3>1. AnnouncedBy(q)' = AnnouncedBy(q) /\ usage'[q] = usage[q]
      BY <1>0, <1>1, <2>3 DEF AnnouncedBy
    <3> QED
      BY Zenon, <2>1, <3>1
  <2> QED
    BY Zenon, <2>2, <2>3
<1>5. \A u \in orphans : announcers'[u] \ gone \subseteq infos'
  BY <1>0, <1>1 DEF CountInv
<1> QED
  BY Zenon, <1>1, <1>3, <1>4, <1>5 DEF CountInv

\* AddTx of a new orphan counts it and its first announcer.
LEMMA NewOrphanCounts ==
  ASSUME IInv, CountInv, NEW t \in Wtxid \ orphans, NEW p \in Peer \ gone, NewOrphan(t, p), gone' = gone
  PROVE  CountInv'
<1>0. /\ orphans \subseteq Wtxid /\ announcers \in [Wtxid -> SUBSET Peer] /\ announcers[t] = {}
      /\ infos \subseteq Peer /\ usage \in [Peer -> Int] /\ totalAnn \in Int /\ totalUsage \in Int
  BY DEF IInv, TypeOK
<1>1. /\ announcers' = [announcers EXCEPT ![t] = {p}] /\ totalAnn' = totalAnn + 1
      /\ infos' = infos \cup {p} /\ usage' = [usage EXCEPT ![p] = @ + Weight[t]]
      /\ orphans' = orphans \cup {t} /\ totalUsage' = totalUsage + Weight[t]
  BY Zenon DEF NewOrphan
<1>2. announcers' \in [Wtxid -> SUBSET Peer]
  BY <1>0, <1>1
<1>3. totalAnn' = SumOver(Announcements', orphans')
  <2>1. PICK f \in [Wtxid -> Nat], g \in [Wtxid -> Nat] : f = Announcements /\ g = Announcements'
    BY <1>0, <1>2, AnnouncementsType DEF Announcements
  <2>2. g[t] = 1
    <3>1. g[t] = Cardinality({p})
      BY <1>0, <1>1, <2>1 DEF Announcements
    <3> QED
      BY Zenon, <3>1, FS_Singleton
  <2>3. \A u \in orphans' \ {t} : g[u] = f[u]
    BY <1>0, <1>1, <2>1 DEF Announcements
  <2>4. orphans' \in SUBSET Wtxid /\ t \in orphans' /\ orphans' \ {t} = orphans
    BY <1>0, <1>1
  <2>5. SumOver(f, orphans) = SumOver(g, orphans') - g[t]
    <3>1. Changed(g, f, orphans', t)
      BY Zenon, <2>3, <2>4, SumChange
    <3> QED
      BY Zenon, <2>4, <3>1 DEF Changed
  <2>6. SumOver(g, orphans') \in Nat
    <3>1. IsFiniteSet(orphans') /\ Counts(g, orphans')
      BY <2>4, FS_Subset DEF Counts
    <3> QED
      BY Zenon, <3>1, SumType
  <2>7. totalAnn = SumOver(f, orphans)
    BY Zenon, <2>1 DEF CountInv
  <2>8. totalAnn' = SumOver(g, orphans')
    BY <1>0, <1>1, <2>2, <2>5, <2>6, <2>7
  <2> QED
    BY Zenon, <2>1, <2>8
<1>4. totalUsage' = WeightOf(orphans')
  <2>1. WeightOf(orphans \cup {t}) = WeightOf(orphans) + Weight[t]
    BY <1>0, WeightChange
  <2> QED
    BY Zenon, <1>1, <2>1 DEF CountInv
<1>5. ASSUME NEW q \in Peer \ gone PROVE usage'[q] = WeightOf(AnnouncedBy(q)')
  <2>1. usage[q] = WeightOf(AnnouncedBy(q)) /\ AnnouncedBy(q) \in SUBSET Wtxid
    BY <1>0 DEF CountInv, AnnouncedBy
  <2>2. CASE q = p
    <3>1. AnnouncedBy(q)' = AnnouncedBy(q) \cup {t} /\ t \notin AnnouncedBy(q)
      BY <1>0, <1>1, <2>2 DEF AnnouncedBy
    <3>2. WeightOf(AnnouncedBy(q) \cup {t}) = WeightOf(AnnouncedBy(q)) + Weight[t]
      BY <1>0, <2>1, <3>1, WeightChange
    <3>3. usage'[q] = usage[q] + Weight[t]
      BY <1>0, <1>1, <2>2
    <3> QED
      BY Zenon, <2>1, <3>1, <3>2, <3>3
  <2>3. CASE q # p
    <3>1. AnnouncedBy(q)' = AnnouncedBy(q) /\ usage'[q] = usage[q]
      BY <1>0, <1>1, <2>3 DEF AnnouncedBy
    <3> QED
      BY Zenon, <2>1, <3>1
  <2> QED
    BY Zenon, <2>2, <2>3
<1>6. \A u \in orphans' : announcers'[u] \ gone \subseteq infos'
  BY <1>0, <1>1 DEF CountInv
<1> QED
  BY Zenon, <1>1, <1>3, <1>4, <1>5, <1>6 DEF CountInv

\* EraseTx gives back what the orphan cost the pool and each of its announcers;
\* "peers" may leave out the peer that is going away.
LEMMA ErasedCounts ==
  ASSUME IInv, CountInv, NEW t \in orphans, NEW peers \in SUBSET announcers[t],
         announcers[t] \ peers \subseteq gone,
         NEW count, count = Cardinality(announcers[t]), Erased(t, peers, count), gone' = gone
  PROVE  CountInv'
<1>0. /\ orphans \subseteq Wtxid /\ t \in Wtxid /\ announcers \in [Wtxid -> SUBSET Peer]
      /\ infos \subseteq Peer /\ usage \in [Peer -> Int] /\ totalAnn \in Int /\ totalUsage \in Int
  BY DEF IInv, TypeOK
<1>1. /\ announcers' = [announcers EXCEPT ![t] = {}] /\ totalAnn' = totalAnn - count
      /\ infos' = infos /\ orphans' = orphans \ {t} /\ totalUsage' = totalUsage - Weight[t]
      /\ usage' = [p \in Peer |-> IF p \in peers \cap infos THEN usage[p] - Weight[t] ELSE usage[p]]
  BY Zenon DEF Erased
<1>2. announcers' \in [Wtxid -> SUBSET Peer]
  BY <1>0, <1>1
<1>3. totalAnn' = SumOver(Announcements', orphans')
  <2>1. PICK f \in [Wtxid -> Nat], g \in [Wtxid -> Nat] : f = Announcements /\ g = Announcements'
    BY <1>0, <1>2, AnnouncementsType DEF Announcements
  <2>2. f[t] = count
    BY <1>0, <2>1 DEF Announcements
  <2>3. \A u \in orphans \ {t} : f[u] = g[u]
    BY <1>0, <1>1, <2>1 DEF Announcements
  <2>4. SumOver(g, orphans \ {t}) = SumOver(f, orphans) - f[t]
    <3>1. Changed(f, g, orphans, t)
      BY Zenon, <1>0, <2>3, SumChange
    <3> QED
      BY Zenon, <3>1 DEF Changed
  <2>5. totalAnn = SumOver(f, orphans)
    BY Zenon, <2>1 DEF CountInv
  <2>6. totalAnn' = SumOver(g, orphans')
    BY Zenon, <1>1, <2>2, <2>4, <2>5
  <2> QED
    BY Zenon, <2>1, <2>6
<1>4. totalUsage' = WeightOf(orphans')
  <2>1. WeightOf(orphans \ {t}) = WeightOf(orphans) - Weight[t]
    BY <1>0, WeightChange
  <2> QED
    BY Zenon, <1>1, <2>1 DEF CountInv
<1>5. ASSUME NEW q \in Peer \ gone PROVE usage'[q] = WeightOf(AnnouncedBy(q)')
  <2>1. usage[q] = WeightOf(AnnouncedBy(q)) /\ AnnouncedBy(q) \in SUBSET Wtxid
    BY <1>0 DEF CountInv, AnnouncedBy
  <2>2. CASE q \in announcers[t]
    <3>1. AnnouncedBy(q)' = AnnouncedBy(q) \ {t} /\ t \in AnnouncedBy(q)
      BY <1>0, <1>1, <2>2 DEF AnnouncedBy
    <3>2. WeightOf(AnnouncedBy(q) \ {t}) = WeightOf(AnnouncedBy(q)) - Weight[t]
      BY <1>0, <2>1, <3>1, WeightChange
    <3>3. q \in peers \cap infos
      BY <2>2 DEF CountInv
    <3>4. usage'[q] = usage[q] - Weight[t]
      BY <1>0, <1>1, <3>3
    <3> QED
      BY Zenon, <2>1, <3>1, <3>2, <3>4
  <2>3. CASE q \notin announcers[t]
    <3>1. AnnouncedBy(q)' = AnnouncedBy(q) /\ usage'[q] = usage[q]
      BY <1>0, <1>1, <2>3 DEF AnnouncedBy
    <3> QED
      BY Zenon, <2>1, <3>1
  <2> QED
    BY Zenon, <2>2, <2>3
<1>6. \A u \in orphans' : announcers'[u] \ gone \subseteq infos'
  BY <1>0, <1>1 DEF CountInv
<1> QED
  BY Zenon, <1>1, <1>3, <1>4, <1>5, <1>6 DEF CountInv

\* One announcement of a peer that is gone is given up.
LEMMA UnannounceCounts ==
  ASSUME IInv, CountInv, NEW t \in orphans, caller \in announcers[t], caller \in gone, Unannounce(t), gone' = gone
  PROVE  CountInv'
<1>0. /\ orphans \subseteq Wtxid /\ t \in Wtxid /\ announcers \in [Wtxid -> SUBSET Peer]
      /\ infos \subseteq Peer /\ usage \in [Peer -> Int] /\ totalAnn \in Int
  BY DEF IInv, TypeOK
<1>1. /\ announcers' = [announcers EXCEPT ![t] = @ \ {caller}] /\ totalAnn' = totalAnn - 1
      /\ infos' = infos /\ orphans' = orphans /\ totalUsage' = totalUsage /\ usage' = usage
  BY Zenon DEF Unannounce, infoVars
<1>2. announcers' \in [Wtxid -> SUBSET Peer]
  BY <1>0, <1>1
<1>3. totalAnn' = SumOver(Announcements', orphans)
  <2>1. PICK f \in [Wtxid -> Nat], g \in [Wtxid -> Nat] : f = Announcements /\ g = Announcements'
    BY <1>0, <1>2, AnnouncementsType DEF Announcements
  <2>2. g[t] = f[t] - 1
    <3>1. f[t] = Cardinality(announcers[t]) /\ g[t] = Cardinality(announcers[t] \ {caller})
      BY <1>0, <1>1, <2>1 DEF Announcements
    <3>2. IsFiniteSet(announcers[t])
      BY <1>0, FS_Subset
    <3> QED
      <4>1. PICK A : A = announcers[t] /\ IsFiniteSet(A) /\ caller \in A
        BY Zenon, <3>2
      <4>2. Cardinality(A \ {caller}) = Cardinality(A) - 1
        BY Zenon, <4>1, FS_RemoveElement
      <4> QED
        BY Zenon, <3>1, <4>1, <4>2
  <2>3. \A u \in orphans \ {t} : f[u] = g[u]
    BY <1>0, <1>1, <2>1 DEF Announcements
  <2>4. SumOver(g, orphans) = SumOver(f, orphans) - f[t] + g[t]
    <3>1. Changed(f, g, orphans, t)
      BY Zenon, <1>0, <2>3, SumChange
    <3> QED
      BY Zenon, <3>1 DEF Changed
  <2>5. totalAnn = SumOver(f, orphans)
    BY Zenon, <2>1 DEF CountInv
  <2>6. totalAnn' = SumOver(g, orphans)
    BY <1>0, <1>1, <2>1, <2>2, <2>4, <2>5
  <2> QED
    BY Zenon, <2>1, <2>6
<1>4. ASSUME NEW q \in Peer \ gone PROVE usage'[q] = WeightOf(AnnouncedBy(q)')
  <2>1. AnnouncedBy(q)' = AnnouncedBy(q)
    BY <1>0, <1>1 DEF AnnouncedBy
  <2> QED
    BY Zenon, <1>1, <2>1 DEF CountInv
<1>5. \A u \in orphans : announcers'[u] \ gone \subseteq infos'
  BY <1>0, <1>1 DEF CountInv
<1> QED
  BY Zenon, <1>1, <1>3, <1>4, <1>5 DEF CountInv

\* The counters survive when announcements and counters stay, and entries are
\* only added or belong to peers that go.
LEMMA SameCounts ==
  ASSUME IInv, CountInv, UNCHANGED entryVars, gone \subseteq gone',
         \A p \in Peer \ gone' : usage'[p] = usage[p],
         infos \subseteq infos' \cup gone'
  PROVE  CountInv'
<1>1. UNCHANGED <<orphans, announcers, totalAnn, totalUsage>>
  BY Zenon DEF entryVars
<1>2. totalAnn' = SumOver(Announcements, orphans)' /\ totalUsage' = WeightOf(orphans')
  BY Zenon, <1>1 DEF CountInv, Announcements
<1>3. ASSUME NEW p \in Peer \ gone' PROVE usage'[p] = WeightOf(AnnouncedBy(p)')
  BY Zenon, <1>1, <1>3 DEF CountInv, AnnouncedBy
<1>4. \A t \in orphans : announcers[t] \ gone' \subseteq infos'
  BY DEF CountInv
<1> QED
  BY Zenon, <1>1, <1>2, <1>3, <1>4 DEF CountInv

\* Every step keeps the counters.
LEMMA StepCounts == IInv /\ CountInv /\ [Next]_vars => CountInv'
<1> SUFFICES ASSUME IInv, CountInv, [Next]_vars PROVE CountInv'
  BY Zenon
<1>0. ASSUME NEW t \in orphans, ErasedFully(t), gone' = gone PROVE CountInv'
  <2>1. announcers[t] \ announcers[t] \subseteq gone /\ announcers[t] \in SUBSET announcers[t]
    OBVIOUS
  <2> QED
    BY Zenon, <1>0, <2>1, ErasedCounts DEF ErasedFully
<1>1. ASSUME UNCHANGED <<entryVars, infoVars, gone>> PROVE CountInv'
  <2>1. infos \subseteq infos' \cup gone' /\ gone \subseteq gone' /\ usage' = usage
    BY Zenon, <1>1 DEF infoVars
  <2> QED
    BY Zenon, <1>1, <2>1, SameCounts
<1>2. ASSUME NEW t \in Wtxid, NEW p \in Peer, AddTx(t, p) \/ AddAnnouncer(t, p) PROVE CountInv'
  <2>1. p \in Peer \ gone /\ gone' = gone
    BY Zenon, <1>2 DEF AddTx, AddAnnouncer
  <2>2. CASE t \in orphans /\ p \notin announcers[t] /\ Announcer(t, p)
    BY Zenon, <2>1, <2>2, AnnouncerCounts
  <2>3. CASE t \notin orphans /\ NewOrphan(t, p)
    BY Zenon, <2>1, <2>3, NewOrphanCounts
  <2>4. CASE UNCHANGED <<entryVars, infoVars>>
    BY Zenon, <1>1, <2>1, <2>4
  <2> QED
    BY Zenon, <1>2, <2>2, <2>3, <2>4 DEF AddTx, AddAnnouncer
<1>3. ASSUME NEW t \in Wtxid, EraseTx(t) PROVE CountInv'
  BY Zenon, <1>0, <1>1, <1>3 DEF EraseTx
<1>4. ASSUME NEW p \in Peer, EraseForPeer(p) PROVE CountInv'
  <2>1. /\ UNCHANGED entryVars /\ gone' = gone \cup {p} /\ infos' = infos \ {p}
        /\ usage' = [usage EXCEPT ![p] = 0]
    BY Zenon, <1>4 DEF EraseForPeer
  <2>2. usage \in [Peer -> Int]
    BY Zenon DEF IInv, TypeOK
  <2>3. /\ gone \subseteq gone' /\ infos \subseteq infos' \cup gone'
        /\ \A q \in Peer \ gone' : usage'[q] = usage[q]
    BY <2>1, <2>2
  <2> QED
    BY Zenon, <2>1, <2>3, SameCounts
<1>5. ASSUME NEW t \in Wtxid, EraseOneForPeer(t) PROVE CountInv'
  <2>1. t \in orphans /\ gone' = gone /\ caller \in gone
    BY Zenon, <1>5 DEF EraseOneForPeer, IInv, LoopInv, PeerInv
  <2>2. CASE announcers[t] = {caller} /\ Erased(t, {}, 1)
    <3>1. 1 = Cardinality(announcers[t])
      BY Zenon, <2>2, FS_Singleton
    <3>2. {} \in SUBSET announcers[t] /\ announcers[t] \ {} \subseteq gone
      BY <2>1, <2>2
    <3> QED
      BY Zenon, <2>1, <2>2, <3>1, <3>2, ErasedCounts
  <2>3. CASE caller \in announcers[t] /\ Unannounce(t)
    BY Zenon, <2>1, <2>3, UnannounceCounts
  <2>4. CASE UNCHANGED <<entryVars, infoVars>>
    BY Zenon, <1>1, <2>1, <2>4
  <2> QED
    BY Zenon, <1>5, <2>2, <2>3, <2>4 DEF EraseOneForPeer
<1>6. ASSUME NEW t \in Wtxid, EraseOneForBlock(t) \/ SweepOne(t) PROVE CountInv'
  <2>1. t \in orphans /\ gone' = gone
    BY Zenon, <1>6 DEF EraseOneForBlock, SweepOne, IInv, LoopInv
  <2> QED
    BY Zenon, <1>0, <1>1, <1>6, <2>1 DEF EraseOneForBlock, SweepOne
<1>7. ASSUME NEW i \in 1..Cardinality(Wtxid), EvictOne(i) PROVE CountInv'
  <2>1. i \in DOMAIN list /\ ErasedFully(list[i]) /\ gone' = gone
    BY Zenon, <1>7 DEF EvictOne
  <2>2. list[i] \in orphans
    BY Zenon, <2>1, ListDomain DEF IInv, ListInv
  <2> QED
    BY Zenon, <1>0, <2>1, <2>2
<1>8. ASSUME NEW outs \in Created, AddChildrenToWorkSet(outs) PROVE CountInv'
  <2>1. UNCHANGED entryVars /\ gone' = gone /\ usage' = usage /\ infos \subseteq infos'
    BY Zenon, <1>8 DEF AddChildrenToWorkSet
  <2>2. infos \subseteq infos' \cup gone' /\ gone \subseteq gone'
    BY Zenon, <2>1
  <2> QED
    BY Zenon, <2>1, <2>2, SameCounts
<1>9. ASSUME NEW p \in Peer, GetTxToReconsider(p) PROVE CountInv'
  <2>1. UNCHANGED entryVars /\ gone' = gone /\ usage' = usage /\ infos \subseteq infos' \cup gone' /\ gone \subseteq gone'
    BY Zenon, <1>9 DEF GetTxToReconsider
  <2> QED
    BY Zenon, <2>1, SameCounts
<1>10. ASSUME NEW spends \in Spent, EraseForBlock(spends) PROVE CountInv'
  BY Zenon, <1>1, <1>10 DEF EraseForBlock
<1>11. CASE EndErase \/ LimitOrphans \/ EndSweep \/ EndEvict \/ Tick
  BY Zenon, <1>1, <1>11 DEF EndErase, LimitOrphans, EndSweep, EndEvict, Tick
<1>12. CASE UNCHANGED vars
  BY Zenon, <1>1, <1>12 DEF vars
<1> QED
  BY <1>2, <1>3, <1>4, <1>5, <1>6, <1>7, <1>8, <1>9, <1>10, <1>11, <1>12 DEF Next

-----------------------------------------------------------------------------
(* The theorems                                                            *)

\* The strengthened invariant of the orphanage holds in every reachable state.
THEOREM OrphanageInvariant == Spec => []IInv
<1>1. Init => IInv
  BY Zenon, InitInv
<1>2. IInv /\ [Next]_vars => IInv'
  BY StepInv
<1> QED
  BY <1>1, <1>2, PTL DEF Spec

\* The variables always have their types, and only orphans have announcers.
THEOREM TypeCorrect == Spec => []TypeOK
<1>1. IInv => TypeOK
  BY DEF IInv
<1> QED
  BY <1>1, OrphanageInvariant, PTL

\* EraseTx never fails its assertion: list_pos is the place of the orphan in
\* m_orphan_list, whatever was moved into holes before.
THEOREM ListIsExactHolds == Spec => []ListIsExact
<1>1. IInv => ListIsExact
  BY Zenon, ListDomain DEF IInv, ListInv, ListIsExact
<1> QED
  BY <1>1, OrphanageInvariant, PTL

\* SanityCheck never fails: the totals, which are only ever added to and
\* subtracted from, are those of the pool, for any peers, transactions and
\* weights.
THEOREM SanityCheckHolds == Spec => []SanityCheck
<1>1. Init => CountInv
  <2> SUFFICES ASSUME Init PROVE CountInv
    OBVIOUS
  <2>1. WeightOf({}) = 0
    BY WeightChange
  <2>2. SumOver(Announcements, {}) = 0
    <3>1. IsFiniteSet({}) /\ Counts(Announcements, {})
      BY FS_EmptySet DEF Counts
    <3> QED
      BY Zenon, <3>1, SumType
  <2>3. orphans = {} /\ totalAnn = 0 /\ totalUsage = 0 /\ \A p \in Peer : usage[p] = 0 /\ AnnouncedBy(p) = {}
    BY DEF Init, AnnouncedBy
  <2> QED
    BY <2>1, <2>2, <2>3 DEF CountInv
<1>2. IInv /\ CountInv => SanityCheck
  <2> SUFFICES ASSUME IInv, CountInv, pc = "idle" PROVE SanityCheck
    BY Zenon DEF SanityCheck
  <2>1. \A t \in orphans : announcers[t] # {}
    BY Zenon DEF IInv, PeerInv
  <2>2. ASSUME NEW p \in Peer PROVE usage[p] = WeightOf(AnnouncedBy(p)) /\ (usage[p] # 0 => p \in infos)
    <3>1. AnnouncedBy(p) \in SUBSET Wtxid
      BY DEF IInv, TypeOK, AnnouncedBy
    <3>2. CASE p \in gone
      <4>1. usage[p] = 0 /\ AnnouncedBy(p) = {}
        BY <3>2 DEF IInv, PeerInv, AnnouncedBy, TypeOK
      <4> QED
        BY <3>1, <4>1, WeightChange
    <3>3. CASE p \notin gone
      <4>1. usage[p] = WeightOf(AnnouncedBy(p))
        BY <3>3 DEF CountInv
      <4>2. ASSUME usage[p] # 0 PROVE p \in infos
        <5>1. AnnouncedBy(p) # {}
          BY <3>1, <4>1, <4>2, WeightChange
        <5> QED
          BY <3>3, <5>1 DEF CountInv, AnnouncedBy
      <4> QED
        BY <4>1, <4>2
    <3> QED
      BY <3>2, <3>3
  <2> QED
    BY Zenon, <2>1, <2>2 DEF SanityCheck, CountInv
<1>3. IInv /\ CountInv /\ [Next]_vars => CountInv'
  BY StepCounts
<1> QED
  BY <1>1, <1>2, <1>3, OrphanageInvariant, PTL DEF Spec

\* The outpoint index never misses an orphan and never holds a dead one.
THEOREM IndexIsExactHolds == Spec => []IndexIsExact
<1>1. IInv => IndexIsExact
  BY DEF IInv
<1> QED
  BY <1>1, OrphanageInvariant, PTL

\* Once EraseForPeer returned, nothing refers to the peer, and nothing will.
THEOREM GonePeersAreForgotten == Spec => []NothingOfGonePeers
<1>1. IInv => NothingOfGonePeers
  BY DEF IInv, PeerInv, NothingOfGonePeers
<1> QED
  BY <1>1, OrphanageInvariant, PTL

\* LimitOrphans returns with the pool within its limit and nothing in it long
\* past its expiry, for every choice of the expiry time and the sweep interval.
THEOREM LimitsHold == Spec => LimitHolds
<1>1. IInv /\ [Next]_vars => [EndEvict =>
        /\ Cardinality(orphans) <= MaxOrphans
        /\ \A t \in orphans : expire[t] + ExpireInterval > now]_vars
  BY DEF EndEvict, IInv, SweepInv
<1> QED
  BY <1>1, OrphanageInvariant, PTL DEF Spec, LimitHolds

\* No queued orphan is dropped from a work set while it waits in the pool.
THEOREM WorkIsNotLost == Spec => WorkIsKept
<1> DEFINE Kept == \A p \in Peer, t \in Wtxid :
             t \in work[p] \ work'[p] /\ t \in orphans' => ret' = t \/ p \in gone'
<1>1. IInv /\ [Next]_vars => [Kept]_vars
  <2> SUFFICES ASSUME IInv, Next, NEW q \in Peer, NEW u \in Wtxid, u \in work[q], u \notin work'[q], u \in orphans'
               PROVE  ret' = u \/ q \in gone'
    BY Zenon
  <2>0. work \in [Peer -> SUBSET Wtxid] /\ orphans \subseteq Wtxid
    BY Zenon DEF IInv, TypeOK
  <2>1. CASE work' = work
    BY Zenon, <2>1
  <2>2. ASSUME NEW p \in Peer, EraseForPeer(p) PROVE q \in gone'
    BY Zenon, <2>0, <2>2 DEF EraseForPeer
  <2>3. ASSUME NEW p \in Peer, GetTxToReconsider(p) PROVE ret' = u
    <3>1. orphans' = orphans
      BY Zenon, <2>3 DEF GetTxToReconsider, entryVars
    <3>2. p = q
      BY Zenon, <2>0, <2>3 DEF GetTxToReconsider
    <3>3. u \in work[p] \cap orphans
      BY Zenon, <3>1, <3>2
    <3>4. PICK t \in work[p] \cap orphans :
            /\ \A v \in work[p] \cap orphans : t <= v
            /\ work' = [work EXCEPT ![p] = {v \in @ : v > t}] /\ ret' = t
      BY Zenon, <2>3, <3>3 DEF GetTxToReconsider
    <3>5. t \in Nat /\ u \in Nat /\ t <= u /\ ~(u > t)
      BY Zenon, <2>0, <3>2, <3>3, <3>4
    <3>6. t = u
      BY ONLY Zenon, <3>5, NotGreater
    <3> QED
      BY Zenon, <3>4, <3>6
  <2>4. ASSUME NEW outs \in Created, AddChildrenToWorkSet(outs) PROVE FALSE
    BY Zenon, <2>0, <2>4 DEF AddChildrenToWorkSet
  <2>5. ASSUME NEW t \in Wtxid, NEW p \in Peer, AddTx(t, p) \/ AddAnnouncer(t, p) PROVE work' = work
    BY Zenon, <2>5 DEF AddTx, AddAnnouncer, NewOrphan, Announcer, infoVars
  <2>6. ASSUME NEW t \in Wtxid, EraseTx(t) \/ EraseOneForPeer(t) \/ EraseOneForBlock(t) \/ SweepOne(t)
        PROVE work' = work
    BY Zenon, <2>6 DEF EraseTx, EraseOneForPeer, EraseOneForBlock, SweepOne, ErasedFully, Erased, Unannounce, infoVars
  <2>7. ASSUME NEW i \in 1..Cardinality(Wtxid), EvictOne(i) PROVE work' = work
    BY Zenon, <2>7 DEF EvictOne, ErasedFully, Erased
  <2>8. ASSUME NEW spends \in Spent, EraseForBlock(spends) PROVE work' = work
    BY Zenon, <2>8 DEF EraseForBlock, infoVars
  <2>9. ASSUME EndErase \/ LimitOrphans \/ EndSweep \/ EndEvict \/ Tick PROVE work' = work
    BY <2>9 DEF EndErase, LimitOrphans, EndSweep, EndEvict, Tick, infoVars
  <2> QED
    BY Zenon, <2>1, <2>2, <2>3, <2>4, <2>5, <2>6, <2>7, <2>8, <2>9 DEF Next
<1> QED
  BY <1>1, OrphanageInvariant, PTL DEF Spec, WorkIsKept
=============================================================================
