---------------------------- MODULE NatRecursion ----------------------------
(***************************************************************************)
(* Least elements of sets of naturals, and functions defined by recursion  *)
(* on a loop counter.  Proofs by induction on n are written as proofs that *)
(* there is no least counterexample.                                       *)
(***************************************************************************)
EXTENDS Integers, TLAPS, WellFoundedInduction

\* A non-empty set of naturals has a least element.
LEMMA Least ==
    ASSUME NEW T, T \subseteq Nat, T # {}
    PROVE  \E m \in T : \A n \in T : m <= n
  <1>1. \E m \in T : \A n \in T : ~(<<n, m>> \in OpToRel(<, Nat))
    BY WFMin, NatLessThanWellFounded, Zenon
  <1>2. PICK m \in T : \A n \in T : ~(<<n, m>> \in OpToRel(<, Nat))
    BY <1>1
  <1>3. \A n \in T : ~(n < m)
    BY <1>2 DEF OpToRel
  <1> QED BY <1>3

\* Induction on a loop counter, for a set of good values.
LEMMA LoopInduction ==
    ASSUME NEW N \in Nat, NEW G, 0 \in G, \A n \in 1 .. N : n - 1 \in G => n \in G
    PROVE  \A n \in 0 .. N : n \in G
  <1> DEFINE T == {n \in 0 .. N : n \notin G}
  <1> SUFFICES ASSUME T # {} PROVE FALSE
    OBVIOUS
  <1>1. T \subseteq Nat
    OBVIOUS
  <1>2. PICK k \in T : \A j \in T : k <= j
    <2> HIDE DEF T
    <2> QED BY <1>1, Least
  <1>3. k - 1 \in 0 .. N /\ k \in 1 .. N /\ k - 1 \notin T
    BY <1>2
  <1> QED BY <1>3

\* f follows the recursion up to n.
Follows(f, n, S, base, step) ==
    /\ f \in [Nat -> S] /\ f[0] = base
    /\ \A m \in Nat : m < n => f[m + 1] = step[<<m, f[m]>>]

\* For every n there is such a function.
LEMMA FollowsExists ==
    ASSUME NEW S, NEW base \in S, NEW step \in [Nat \X S -> S], NEW n \in Nat
    PROVE  \E f : Follows(f, n, S, base, step)
  <1> DEFINE T == {k \in Nat : ~\E f : Follows(f, k, S, base, step)}
  <1> SUFFICES ASSUME T # {} PROVE FALSE
    OBVIOUS
  <1>1. PICK k \in T : \A j \in T : k <= j
    BY Least
  <1>2. Follows([j \in Nat |-> base], 0, S, base, step)
    BY DEF Follows
  <1>3. k # 0
    BY <1>2
  <1>4. PICK f : Follows(f, k - 1, S, base, step)
    BY <1>1, <1>3
  <1> DEFINE g == [f EXCEPT ![k] = step[<<k - 1, f[k - 1]>>]]
  <1>5. k \in Nat /\ k - 1 \in Nat /\ f \in [Nat -> S] /\ f[k - 1] \in S
    BY <1>3, <1>4 DEF Follows
  <1>6. step[<<k - 1, f[k - 1]>>] \in S
    BY <1>5
  <1>7. g \in [Nat -> S] /\ g[k] = step[<<k - 1, f[k - 1]>>] /\ \A j \in Nat : j # k => g[j] = f[j]
    BY <1>5, <1>6
  <1>8. Follows(g, k, S, base, step)
    <2> HIDE DEF g
    <2>1. g[0] = base
      BY <1>3, <1>4, <1>7 DEF Follows
    <2>2. ASSUME NEW m \in Nat, m < k PROVE g[m + 1] = step[<<m, g[m]>>]
      <3>1. g[m] = f[m]
        BY <1>7, <2>2
      <3>2. CASE m = k - 1
        BY <1>7, <3>1, <3>2
      <3>3. CASE m < k - 1
        <4>1. g[m + 1] = f[m + 1]
          BY <1>7, <3>3
        <4> QED BY <4>1, <3>1, <3>3, <1>4 DEF Follows
      <3> QED BY <3>2, <3>3, <2>2, <1>5
    <2> QED BY <1>7, <2>1, <2>2 DEF Follows
  <1> QED BY <1>8

\* Two such functions agree at n.
LEMMA FollowsUnique ==
    ASSUME NEW S, NEW base \in S, NEW step \in [Nat \X S -> S], NEW n \in Nat, NEW f, NEW g,
           Follows(f, n, S, base, step), Follows(g, n, S, base, step)
    PROVE  f[n] = g[n]
  <1> DEFINE T == {k \in Nat : k <= n /\ f[k] # g[k]}
  <1> SUFFICES ASSUME T # {} PROVE FALSE
    OBVIOUS
  <1>1. PICK k \in T : \A j \in T : k <= j
    BY Least
  <1>2. k # 0
    BY DEF Follows
  <1>3. k - 1 \in Nat /\ k - 1 < n /\ f[k - 1] = g[k - 1]
    BY <1>1, <1>2
  <1>4. f[(k - 1) + 1] = g[(k - 1) + 1]
    BY <1>3 DEF Follows
  <1>5. (k - 1) + 1 = k
    OBVIOUS
  <1> QED BY <1>4, <1>5

\* f follows the recursion for ever.
IsRecursion(f, S, base, step) ==
    /\ f \in [Nat -> S] /\ f[0] = base
    /\ \A n \in Nat : f[n + 1] = step[<<n, f[n]>>]

\* There is such a function.
LEMMA Recursion ==
    ASSUME NEW S, NEW base \in S, NEW step \in [Nat \X S -> S]
    PROVE  \E f : IsRecursion(f, S, base, step)
  <1> DEFINE A(n) == CHOOSE f : Follows(f, n, S, base, step)
             F == [n \in Nat |-> A(n)[n]]
  <1>1. \A n \in Nat : Follows(A(n), n, S, base, step)
    BY FollowsExists, Zenon
  <1> HIDE DEF A
  <1>2. F \in [Nat -> S] /\ F[0] = base
    BY <1>1 DEF Follows
  <1>3. ASSUME NEW n \in Nat PROVE F[n + 1] = step[<<n, F[n]>>]
    <2>1. Follows(A(n + 1), n + 1, S, base, step) /\ Follows(A(n), n, S, base, step)
      BY <1>1
    <2>2. Follows(A(n + 1), n, S, base, step)
      BY <2>1 DEF Follows
    <2>3. A(n + 1)[n] = A(n)[n]
      BY <2>1, <2>2, FollowsUnique
    <2>4. A(n + 1)[n + 1] = step[<<n, A(n + 1)[n]>>]
      BY <2>1 DEF Follows
    <2> QED BY <2>3, <2>4
  <1>4. IsRecursion(F, S, base, step)
    BY <1>2, <1>3 DEF IsRecursion
  <1> QED BY <1>4

\* A loop over 1 .. N that starts with base and goes from each value to the
\* next by step.
IsLoop(f, N, S, base, step) ==
    /\ f \in [0 .. N -> S] /\ f[0] = base
    /\ \A n \in 1 .. N : f[n] = step[<<n, f[n - 1]>>]

\* There is such a loop.
LEMMA LoopExists ==
    ASSUME NEW N \in Nat, NEW S, NEW base \in S, NEW step \in [(1 .. N) \X S -> S]
    PROVE  \E f : IsLoop(f, N, S, base, step)
  <1> DEFINE full == [p \in Nat \X S |-> IF p[1] < N THEN step[<<p[1] + 1, p[2]>>] ELSE p[2]]
  <1>1. ASSUME NEW p \in Nat \X S PROVE full[p] \in S
    <2>1. CASE p[1] < N
      <3>1. <<p[1] + 1, p[2]>> \in (1 .. N) \X S
        BY <2>1
      <3> QED BY <3>1, <2>1
    <2>2. CASE ~(p[1] < N)
      BY <2>2
    <2> QED BY <2>1, <2>2
  <1>2. full \in [Nat \X S -> S]
    BY <1>1
  <1>3. PICK f : IsRecursion(f, S, base, full)
    <2> HIDE DEF full
    <2> QED BY <1>2, Recursion, Zenon
  <1> DEFINE g == [n \in 0 .. N |-> f[n]]
  <1>4. ASSUME NEW n \in 1 .. N PROVE g[n] = step[<<n, g[n - 1]>>]
    <2>1. n - 1 \in Nat /\ n - 1 < N /\ (n - 1) + 1 = n /\ n \in 0 .. N /\ n - 1 \in 0 .. N
      OBVIOUS
    <2>2. f[n] = full[<<n - 1, f[n - 1]>>]
      <3> HIDE DEF full
      <3>1. f[(n - 1) + 1] = full[<<n - 1, f[n - 1]>>]
        BY <1>3, <2>1 DEF IsRecursion
      <3> QED BY <3>1, <2>1
    <2>3. f[n - 1] \in S
      BY <1>3, <2>1 DEF IsRecursion
    <2>4. full[<<n - 1, f[n - 1]>>] = step[<<n, f[n - 1]>>]
      BY <2>1, <2>3
    <2> QED BY <2>1, <2>2, <2>4
  <1>5. g \in [0 .. N -> S] /\ g[0] = base
    BY <1>3 DEF IsRecursion
  <1>6. IsLoop(g, N, S, base, step)
    BY <1>4, <1>5 DEF IsLoop
  <1> QED BY <1>6

=============================================================================
