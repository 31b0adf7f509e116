----------------------- MODULE ChainstateFlushProofs -----------------------
(***************************************************************************)
(* Proofs about ChainstateFlush for any block tree, any transactions, any  *)
(* batches and any number of crashes.                                      *)
(*                                                                         *)
(* The argument: connecting or rolling forward a block gives the outputs   *)
(* it mentions their final coin whatever they had before, and undoing it   *)
(* gives them the coin its parent had.  So both are right on a UTXO set,   *)
(* and on a mixture of two they take each coin to the right one unless it  *)
(* is already that of the tip the replay moves to.                         *)
(***************************************************************************)
EXTENDS ChainstateFlush, NatRecursion, TLAPS

-----------------------------------------------------------------------------
(* The loops over the transactions of a block.                             *)

\* An element of a sequence over S is in S.
LEMMA SeqElement ==
    ASSUME NEW S, NEW s \in Seq(S)
    PROVE  Len(s) \in Nat /\ DOMAIN s = 1 .. Len(s) /\ \A i \in DOMAIN s : s[i] \in S
  OBVIOUS

\* The transactions of a block are records of two sets of outpoints.
LEMMA BlockFacts ==
    ASSUME NEW b \in Blocks
    PROVE  /\ Height[b] \in Nat /\ Len(Txs[b]) \in Nat
           /\ DOMAIN Txs[b] = 1 .. Len(Txs[b])
           /\ \A i \in DOMAIN Txs[b] : /\ Txs[b][i].ins \subseteq Outpoints
                                       /\ Txs[b][i].outs \subseteq Outpoints
  <1> DEFINE R == [ins : SUBSET Outpoints, outs : SUBSET Outpoints]
  <1>1. Height[b] \in Nat
    BY TreeAssumption
  <1>2. Txs[b] \in Seq(R)
    BY TxAssumption
  <1>3. Len(Txs[b]) \in Nat /\ DOMAIN Txs[b] = 1 .. Len(Txs[b]) /\ \A i \in DOMAIN Txs[b] : Txs[b][i] \in R
    <2> HIDE DEF R
    <2> QED BY <1>2, SeqElement, Zenon
  <1>4. \A r \in R : r.ins \subseteq Outpoints /\ r.outs \subseteq Outpoints
    OBVIOUS
  <1> QED BY <1>1, <1>3, <1>4, Zenon

\* UpdateCoins maps UTXO maps to UTXO maps.
LEMMA UpdateCoinsType ==
    ASSUME NEW coins \in UtxoMap, NEW tx, NEW h \in Nat
    PROVE  UpdateCoins(coins, tx, h) \in UtxoMap
  BY DEF UtxoMap, UpdateCoins, AddCoins, SpendCoins

\* The loop over the transactions of a block.
AfterLoop(A, coins, b) ==
    /\ A \in [0 .. Len(Txs[b]) -> UtxoMap] /\ A[0] = coins
    /\ \A n \in 1 .. Len(Txs[b]) : A[n] = UpdateCoins(A[n - 1], Txs[b][n], Height[b])

\* The recursive function CoinsAfter exists and has the values of ConnectBlock's
\* loop over the transactions.
LEMMA CoinsAfterLoop ==
    ASSUME NEW coins \in UtxoMap, NEW b \in Blocks
    PROVE  AfterLoop(CoinsAfter(coins, b), coins, b)
  <1> DEFINE N == Len(Txs[b])
             step == [p \in (1 .. N) \X UtxoMap |-> UpdateCoins(p[2], Txs[b][p[1]], Height[b])]
             Val(g, n) == IF n = 0 THEN coins ELSE UpdateCoins(g[n - 1], Txs[b][n], Height[b])
             Def(g) == [n \in 0 .. N |-> Val(g, n)]
  <1>1. Height[b] \in Nat /\ N \in Nat
    BY BlockFacts
  <1>2. step \in [(1 .. N) \X UtxoMap -> UtxoMap]
    BY <1>1, UpdateCoinsType
  <1>3. PICK f : IsLoop(f, N, UtxoMap, coins, step)
    <2> HIDE DEF step, N
    <2> QED BY <1>1, <1>2, LoopExists, Zenon
  <1>4. f = Def(f)
    <2>1. f \in [0 .. N -> UtxoMap] /\ f[0] = coins
      BY <1>3 DEF IsLoop
    <2>2. ASSUME NEW n \in 1 .. N PROVE f[n] = UpdateCoins(f[n - 1], Txs[b][n], Height[b])
      <3>1. f[n] = step[<<n, f[n - 1]>>]
        <4> HIDE DEF step
        <4> QED BY <1>3 DEF IsLoop
      <3>2. f[n - 1] \in UtxoMap
        BY <2>1, <1>1
      <3> QED BY <3>1, <3>2
    <2>3. \A n \in 0 .. N : n # 0 => n \in 1 .. N
      BY <1>1
    <2> QED BY <2>1, <2>2, <2>3
  <1>5. CoinsAfter(coins, b) = CHOOSE g : g = Def(g)
    BY DEF CoinsAfter
  <1>6. PICK A : A = CoinsAfter(coins, b)
    OBVIOUS
  <1>7. A = Def(A)
    <2> HIDE DEF Def
    <2> QED BY <1>4, <1>5, <1>6, Zenon
  <1>8. DOMAIN A = 0 .. N /\ \A n \in 0 .. N : A[n] = Val(A, n)
    <2> HIDE DEF Val, N
    <2> QED BY <1>7
  <1>9. A[0] = coins /\ \A n \in 1 .. N : A[n] = UpdateCoins(A[n - 1], Txs[b][n], Height[b])
    <2>1. 0 \in 0 .. N /\ \A n \in 1 .. N : n \in 0 .. N /\ n # 0
      BY <1>1
    <2> QED BY <1>8, <2>1, Zenon
  <1> DEFINE G == {n \in 0 .. N : A[n] \in UtxoMap}
  <1>10. 0 \in G
    BY <1>1, <1>9
  <1>11. ASSUME NEW n \in 1 .. N, n - 1 \in G PROVE n \in G
    BY <1>1, <1>9, <1>11, UpdateCoinsType
  <1>12. \A n \in 0 .. N : n \in G
    <2> HIDE DEF G, N
    <2> QED BY <1>1, <1>10, <1>11, LoopInduction
  <1>13. A \in [0 .. N -> UtxoMap]
    <2> HIDE DEF Val, N
    <2> QED BY <1>7, <1>8, <1>12
  <1> QED BY <1>6, <1>9, <1>13 DEF AfterLoop

\* Undoing the i-th transaction of b.
UndoTx(coins, b, u, i) == RestoreInputs(SpendCoins(coins, Txs[b][i].outs), u[i])

\* Undo data holds coins.
UndoTyped(u, b) == \A i \in DOMAIN Txs[b] : \A o \in DOMAIN u[i] : u[i][o] \in Nat \cup {NoCoin}

\* Undoing a transaction maps UTXO maps to UTXO maps.
LEMMA UndoTxType ==
    ASSUME NEW coins \in UtxoMap, NEW b \in Blocks, NEW u, UndoTyped(u, b), NEW i \in 1 .. Len(Txs[b])
    PROVE  UndoTx(coins, b, u, i) \in UtxoMap
  <1>1. \A o \in DOMAIN u[i] : u[i][o] \in Nat \cup {NoCoin}
    BY BlockFacts DEF UndoTyped
  <1> QED BY <1>1 DEF UtxoMap, UndoTx, RestoreInputs, SpendCoins

\* The loop that undoes the transactions of a block, last to first.
UndoneLoop(D, coins, b, u) ==
    /\ D \in [0 .. Len(Txs[b]) -> UtxoMap] /\ D[0] = coins
    /\ \A n \in 1 .. Len(Txs[b]) : D[n] = UndoTx(D[n - 1], b, u, Len(Txs[b]) - n + 1)

\* The recursive function CoinsUndone exists and has the values of
\* DisconnectBlock's loop.
LEMMA CoinsUndoneLoop ==
    ASSUME NEW coins \in UtxoMap, NEW b \in Blocks, NEW u, UndoTyped(u, b)
    PROVE  UndoneLoop(CoinsUndone(coins, b, u), coins, b, u)
  <1> DEFINE N == Len(Txs[b])
             step == [p \in (1 .. N) \X UtxoMap |-> UndoTx(p[2], b, u, N - p[1] + 1)]
             Val(g, n) == IF n = 0 THEN coins ELSE UndoTx(g[n - 1], b, u, N - n + 1)
             Def(g) == [n \in 0 .. N |-> Val(g, n)]
  <1>1. Height[b] \in Nat /\ N \in Nat
    BY BlockFacts
  <1>2. step \in [(1 .. N) \X UtxoMap -> UtxoMap]
    BY <1>1, UndoTxType
  <1>3. PICK f : IsLoop(f, N, UtxoMap, coins, step)
    <2> HIDE DEF step, N
    <2> QED BY <1>1, <1>2, LoopExists, Zenon
  <1>4. f = Def(f)
    <2>1. f \in [0 .. N -> UtxoMap] /\ f[0] = coins
      BY <1>3 DEF IsLoop
    <2>2. ASSUME NEW n \in 1 .. N PROVE f[n] = UndoTx(f[n - 1], b, u, N - n + 1)
      <3>1. f[n] = step[<<n, f[n - 1]>>]
        <4> HIDE DEF step
        <4> QED BY <1>3 DEF IsLoop
      <3>2. f[n - 1] \in UtxoMap
        BY <2>1, <1>1
      <3> QED BY <3>1, <3>2
    <2>3. \A n \in 0 .. N : n # 0 => n \in 1 .. N
      BY <1>1
    <2> QED BY <2>1, <2>2, <2>3
  <1>5. CoinsUndone(coins, b, u) = CHOOSE g : g = Def(g)
    BY DEF CoinsUndone, UndoTx
  <1>6. PICK A : A = CoinsUndone(coins, b, u)
    OBVIOUS
  <1>7. A = Def(A)
    <2> HIDE DEF Def
    <2> QED BY <1>4, <1>5, <1>6, Zenon
  <1>8. DOMAIN A = 0 .. N /\ \A n \in 0 .. N : A[n] = Val(A, n)
    <2> HIDE DEF Val, N
    <2> QED BY <1>7
  <1>9. A[0] = coins /\ \A n \in 1 .. N : A[n] = UndoTx(A[n - 1], b, u, N - n + 1)
    <2>1. 0 \in 0 .. N /\ \A n \in 1 .. N : n \in 0 .. N /\ n # 0
      BY <1>1
    <2> QED BY <1>8, <2>1, Zenon
  <1> DEFINE G == {n \in 0 .. N : A[n] \in UtxoMap}
  <1>10. 0 \in G
    BY <1>1, <1>9
  <1>11. ASSUME NEW n \in 1 .. N, n - 1 \in G PROVE n \in G
    BY <1>1, <1>9, <1>11, UndoTxType
  <1>12. \A n \in 0 .. N : n \in G
    <2> HIDE DEF G, N
    <2> QED BY <1>1, <1>10, <1>11, LoopInduction
  <1>13. A \in [0 .. N -> UtxoMap]
    <2> HIDE DEF Val, N
    <2> QED BY <1>7, <1>8, <1>12
  <1> QED BY <1>6, <1>9, <1>13 DEF UndoneLoop

-----------------------------------------------------------------------------
(* What the loops compute.                                                 *)

Spends(b, i, o) == o \in Txs[b][i].ins
Creates(b, i, o) == o \in Txs[b][i].outs

\* The coin of o after the first n transactions of b.
TouchedUpTo(b, n, o) == \E i \in 1 .. n : Spends(b, i, o) \/ Creates(b, i, o)
CreatedUpTo(b, n, o) ==
    \E i \in 1 .. n : Creates(b, i, o) /\ \A j \in 1 .. n : i < j => ~Spends(b, j, o)
CoinUpTo(b, n, coins, o) ==
    IF TouchedUpTo(b, n, o) THEN IF CreatedUpTo(b, n, o) THEN Height[b] ELSE NoCoin
                            ELSE coins[o]

\* The n-th transaction changes the coins it mentions only.
LEMMA CoinUpToStep ==
    ASSUME NEW b \in Blocks, NEW n \in 1 .. Len(Txs[b]), NEW coins, NEW o \in Outpoints
    PROVE  CoinUpTo(b, n, coins, o) = IF Creates(b, n, o) THEN Height[b]
                                      ELSE IF Spends(b, n, o) THEN NoCoin
                                      ELSE CoinUpTo(b, n - 1, coins, o)
  <1>1. n \in Nat /\ n \in 1 .. n /\ \A i \in 1 .. n : ~(n < i) /\ (i = n \/ i \in 1 .. (n - 1))
    BY BlockFacts
  <1>2. \A i \in 1 .. (n - 1) : i \in 1 .. n /\ i < n /\ i # n
    BY <1>1
  <1>3. CASE Creates(b, n, o)
    BY <1>1, <1>3, Zenon DEF CoinUpTo, TouchedUpTo, CreatedUpTo
  <1>4. CASE Spends(b, n, o) /\ ~Creates(b, n, o)
    <2>1. TouchedUpTo(b, n, o)
      BY <1>1, <1>4, Zenon DEF TouchedUpTo
    <2>2. ~CreatedUpTo(b, n, o)
      <3> SUFFICES ASSUME NEW i \in 1 .. n, Creates(b, i, o),
                          \A j \in 1 .. n : i < j => ~Spends(b, j, o)
                   PROVE  FALSE
        BY Zenon DEF CreatedUpTo
      <3>1. i # n
        BY <1>4
      <3>2. i < n
        BY <1>1, <3>1
      <3> QED BY <1>1, <1>4, <3>2, Zenon
    <2> QED BY <1>4, <2>1, <2>2, Zenon DEF CoinUpTo
  <1>5. CASE ~Spends(b, n, o) /\ ~Creates(b, n, o)
    <2>1. TouchedUpTo(b, n, o) <=> TouchedUpTo(b, n - 1, o)
      BY <1>1, <1>2, <1>5, Zenon DEF TouchedUpTo
    <2>2. CreatedUpTo(b, n, o) <=> CreatedUpTo(b, n - 1, o)
      BY <1>1, <1>2, <1>5, Zenon DEF CreatedUpTo
    <2> QED BY <1>5, <2>1, <2>2, Zenon DEF CoinUpTo
  <1> QED BY <1>3, <1>4, <1>5, Zenon

\* The effect of one transaction on one coin.
StepCoin(A, b, n, o) ==
    A[n][o] = IF Creates(b, n, o) THEN Height[b]
              ELSE IF Spends(b, n, o) THEN NoCoin ELSE A[n - 1][o]

\* One round of ConnectBlock's loop, for one coin.
LEMMA AfterLoopStep ==
    ASSUME NEW coins, NEW b \in Blocks, NEW A, AfterLoop(A, coins, b), NEW o \in Outpoints,
           NEW n \in 1 .. Len(Txs[b])
    PROVE  StepCoin(A, b, n, o)
  <1>1. A[n] = UpdateCoins(A[n - 1], Txs[b][n], Height[b])
    BY DEF AfterLoop
  <1> QED BY <1>1 DEF StepCoin, UpdateCoins, AddCoins, SpendCoins, Creates, Spends

\* After n rounds of ConnectBlock's loop every coin is what the first n
\* transactions make it.
LEMMA AfterLoopCoin ==
    ASSUME NEW coins, NEW b \in Blocks, NEW A, AfterLoop(A, coins, b), NEW o \in Outpoints
    PROVE  \A n \in 0 .. Len(Txs[b]) : A[n][o] = CoinUpTo(b, n, coins, o)
  <1> DEFINE N == Len(Txs[b])
             G == {n \in 0 .. N : A[n][o] = CoinUpTo(b, n, coins, o)}
  <1>1. N \in Nat
    BY BlockFacts
  <1>2. 0 \in G
    <2>1. ~TouchedUpTo(b, 0, o)
      BY DEF TouchedUpTo
    <2> QED BY <1>1, <2>1 DEF CoinUpTo, AfterLoop
  <1>3. ASSUME NEW n \in 1 .. N, n - 1 \in G PROVE n \in G
    <2>2. StepCoin(A, b, n, o)
      BY AfterLoopStep, Zenon
    <2>3. A[n - 1][o] = CoinUpTo(b, n - 1, coins, o)
      BY <1>3
    <2>4. A[n][o] = CoinUpTo(b, n, coins, o)
      BY <2>2, <2>3, CoinUpToStep, Zenon DEF StepCoin
    <2>5. n \in 0 .. N
      BY <1>1
    <2> QED BY <2>4, <2>5
  <1>4. \A n \in 0 .. N : n \in G
    <2> HIDE DEF G, N
    <2> QED BY <1>1, <1>2, <1>3, LoopInduction
  <1> QED BY <1>4

\* Connecting or rolling forward a block gives the outputs it mentions their
\* final coin, whatever they had before, and leaves the others alone.
LEMMA AppliedCoin ==
    ASSUME NEW coins \in UtxoMap, NEW b \in Blocks, NEW o \in Outpoints
    PROVE  CoinsAfter(coins, b)[Len(Txs[b])][o] =
               IF o \in Touched(b) THEN IF CreatedIn(b, o) THEN Height[b] ELSE NoCoin
                                   ELSE coins[o]
  <1> DEFINE N == Len(Txs[b])
  <1>1. N \in Nat /\ N \in 0 .. N /\ DOMAIN Txs[b] = 1 .. N
    BY BlockFacts
  <1>2. CoinsAfter(coins, b)[N][o] = CoinUpTo(b, N, coins, o)
    BY <1>1, CoinsAfterLoop, AfterLoopCoin, Zenon
  <1>3. o \in Touched(b) <=> TouchedUpTo(b, N, o)
    BY <1>1 DEF Touched, TouchedUpTo, Spends, Creates
  <1>4. CreatedIn(b, o) <=> CreatedUpTo(b, N, o)
    BY <1>1, Zenon DEF CreatedIn, CreatedUpTo, Spends, Creates
  <1> QED BY <1>2, <1>3, <1>4, Zenon DEF CoinUpTo

\* What BlockUndo records.
LEMMA UndoData ==
    ASSUME NEW P \in UtxoMap, NEW b \in Blocks, NEW A, A = CoinsAfter(P, b), NEW u, u = BlockUndo(P, b)
    PROVE  /\ UndoTyped(u, b)
           /\ \A i \in 1 .. Len(Txs[b]) : /\ DOMAIN u[i] = Txs[b][i].ins
                                          /\ \A x \in Txs[b][i].ins : u[i][x] = A[i - 1][x]
  <1> DEFINE N == Len(Txs[b])
  <1>2. N \in Nat /\ DOMAIN Txs[b] = 1 .. N
    BY BlockFacts
  <1>3. AfterLoop(A, P, b)
    BY CoinsAfterLoop
  <1>4. \A i \in 1 .. N : u[i] = [x \in Txs[b][i].ins |-> A[i - 1][x]]
    BY <1>2 DEF BlockUndo
  <1>5. \A i \in 1 .. N : A[i - 1] \in UtxoMap /\ Txs[b][i].ins \subseteq Outpoints
    <2>1. \A i \in 1 .. N : i - 1 \in 0 .. N
      BY <1>2
    <2>2. \A i \in 0 .. N : A[i] \in UtxoMap
      BY <1>3 DEF AfterLoop
    <2>3. \A i \in 1 .. N : Txs[b][i].ins \subseteq Outpoints
      BY <1>2, BlockFacts
    <2> QED BY <2>1, <2>2, <2>3, Zenon
  <1>6. \A i \in 1 .. N : \A x \in Txs[b][i].ins : A[i - 1][x] \in Nat \cup {NoCoin}
    BY <1>5 DEF UtxoMap
  <1>7. \A i \in 1 .. N : DOMAIN u[i] = Txs[b][i].ins /\ \A x \in Txs[b][i].ins : u[i][x] = A[i - 1][x]
    <2> TAKE i \in 1 .. N
    <2>1. u[i] = [x \in Txs[b][i].ins |-> A[i - 1][x]]
      BY <1>4
    <2> QED BY <2>1
  <1>8. UndoTyped(u, b)
    <2> SUFFICES ASSUME NEW i \in 1 .. N, NEW x \in DOMAIN u[i] PROVE u[i][x] \in Nat \cup {NoCoin}
      BY <1>2 DEF UndoTyped
    <2>1. x \in Txs[b][i].ins /\ u[i][x] = A[i - 1][x]
      BY <1>7
    <2> QED BY <2>1, <1>6
  <1> QED BY <1>7, <1>8, Zenon

\* Undoing a block, with the undo data ConnectBlock wrote when it connected
\* it on a UTXO map P, restores the coins P has at the outputs the block
\* mentions, whatever they are now, and leaves the others alone.
LEMMA UndoneCoin ==
    ASSUME NEW P \in UtxoMap, NEW b \in Blocks, b # Genesis, ConnectsCleanly(P, b),
           NEW coins \in UtxoMap, NEW o \in Outpoints
    PROVE  DisconnectBlock(coins, b, BlockUndo(P, b))[o] =
               IF o \in Touched(b) THEN P[o] ELSE coins[o]
  <1> DEFINE N == Len(Txs[b])
  <1>1. PICK A, u, D : A = CoinsAfter(P, b) /\ u = BlockUndo(P, b) /\ D = CoinsUndone(coins, b, u)
    OBVIOUS
  <1>2. N \in Nat /\ DOMAIN Txs[b] = 1 .. N
    BY BlockFacts
  <1>3. AfterLoop(A, P, b)
    BY <1>1, CoinsAfterLoop
  <1>4. UndoTyped(u, b) /\ \A i \in 1 .. N : DOMAIN u[i] = Txs[b][i].ins /\ \A x \in Txs[b][i].ins : u[i][x] = A[i - 1][x]
    BY <1>1, UndoData
  <1>5. UndoneLoop(D, coins, b, u)
    BY <1>1, <1>4, CoinsUndoneLoop
  <1> DEFINE Later(k) == \E j \in 1 .. N : N - k < j /\ (Spends(b, j, o) \/ Creates(b, j, o))
             Val(k) == IF Later(k) THEN A[N - k][o] ELSE coins[o]
             G == {k \in 0 .. N : D[k][o] = Val(k)}
  <1>6. 0 \in G
    BY <1>2, <1>5 DEF UndoneLoop
  <1>7. ASSUME NEW k \in 1 .. N, k - 1 \in G PROVE k \in G
    <2>1. PICK i : i = N - k + 1
      OBVIOUS
    <2>2. i \in 1 .. N /\ N - k = i - 1 /\ N - (k - 1) = i /\ k \in 0 .. N
      BY <1>2, <2>1
    <2>3. D[k] = UndoTx(D[k - 1], b, u, i)
      BY <1>5, <2>1 DEF UndoneLoop
    <2>4. D[k][o] = IF Spends(b, i, o) THEN A[i - 1][o]
                    ELSE IF Creates(b, i, o) THEN NoCoin ELSE D[k - 1][o]
      BY <1>4, <2>2, <2>3 DEF UndoTx, RestoreInputs, SpendCoins, Spends, Creates
    <2>5. StepCoin(A, b, i, o)
      BY <1>3, <2>2, AfterLoopStep, Zenon
    <2>6. Creates(b, i, o) => A[i - 1][o] = NoCoin
      BY <1>1, <1>2, <2>2 DEF ConnectsCleanly, Creates
    <2>7. Later(k) <=> Later(k - 1) \/ Spends(b, i, o) \/ Creates(b, i, o)
      <3>1. \A j \in 1 .. N : N - k < j <=> j = i \/ N - (k - 1) < j
        BY <1>2, <2>2
      <3> HIDE DEF N
      <3> QED BY <2>2, <3>1, Zenon
    <2>8. D[k - 1][o] = IF Later(k - 1) THEN A[i][o] ELSE coins[o]
      BY <1>7, <2>2
    <2>9. D[k][o] = IF Later(k) THEN A[i - 1][o] ELSE coins[o]
      <3> HIDE DEF Later
      <3> QED BY <2>4, <2>5, <2>6, <2>7, <2>8, Zenon DEF StepCoin
    <2> QED BY <2>2, <2>9
  <1>8. \A k \in 0 .. N : k \in G
    <2> HIDE DEF G, N
    <2> QED BY <1>2, <1>6, <1>7, LoopInduction
  <1>9. D[N][o] = IF Later(N) THEN A[0][o] ELSE coins[o]
    BY <1>2, <1>8
  <1>10. Later(N) <=> o \in Touched(b)
    BY <1>2 DEF Touched, Spends, Creates
  <1>11. A[0] = P
    BY <1>3 DEF AfterLoop
  <1> QED BY <1>1, <1>9, <1>10, <1>11 DEF DisconnectBlock

\* Undone right after it was connected, every block is undone cleanly.
LEMMA UndoneCleanly ==
    ASSUME NEW P \in UtxoMap, NEW b \in Blocks, b # Genesis, ConnectsCleanly(P, b)
    PROVE  DisconnectsOK(Connected(P, b), b, BlockUndo(P, b))
  <1> DEFINE N == Len(Txs[b])
  <1>1. PICK A, u, D : A = CoinsAfter(P, b) /\ u = BlockUndo(P, b) /\ D = CoinsUndone(A[N], b, u)
    OBVIOUS
  <1>2. N \in Nat /\ DOMAIN Txs[b] = 1 .. N /\ Connected(P, b) = A[N]
    BY <1>1, BlockFacts DEF Connected
  <1>3. AfterLoop(A, P, b)
    BY <1>1, CoinsAfterLoop
  <1>4. UndoTyped(u, b) /\ \A i \in 1 .. N : DOMAIN u[i] = Txs[b][i].ins /\ \A x \in Txs[b][i].ins : u[i][x] = A[i - 1][x]
    BY <1>1, UndoData
  <1>5. A[N] \in UtxoMap
    BY <1>2, <1>3 DEF AfterLoop
  <1>6. UndoneLoop(D, A[N], b, u)
    BY <1>1, <1>4, <1>5, CoinsUndoneLoop
  <1> DEFINE G == {k \in 0 .. N : D[k] = A[N - k]}
  <1>7. 0 \in G
    BY <1>2, <1>6 DEF UndoneLoop
  <1>8. ASSUME NEW k \in 1 .. N, k - 1 \in G PROVE k \in G
    <2>1. PICK i : i = N - k + 1
      OBVIOUS
    <2>2. i \in 1 .. N /\ N - k = i - 1 /\ N - (k - 1) = i /\ k \in 0 .. N /\ i - 1 \in 0 .. N
      BY <1>2, <2>1
    <2>3. D[k] = UndoTx(A[i], b, u, i)
      BY <1>6, <1>8, <2>1, <2>2 DEF UndoneLoop
    <2>4. ASSUME NEW o \in Outpoints PROVE D[k][o] = A[i - 1][o]
      <3>1. D[k][o] = IF Spends(b, i, o) THEN A[i - 1][o]
                      ELSE IF Creates(b, i, o) THEN NoCoin ELSE A[i][o]
        BY <1>4, <2>2, <2>3 DEF UndoTx, RestoreInputs, SpendCoins, Spends, Creates
      <3>2. StepCoin(A, b, i, o)
        BY <1>3, <2>2, AfterLoopStep, Zenon
      <3>3. Creates(b, i, o) => A[i - 1][o] = NoCoin
        BY <1>1, <1>2, <2>2 DEF ConnectsCleanly, Creates
      <3> QED BY <3>1, <3>2, <3>3, Zenon DEF StepCoin
    <2>5. D[k] \in UtxoMap /\ A[i - 1] \in UtxoMap
      BY <1>3, <1>6, <2>2 DEF AfterLoop, UndoneLoop
    <2>6. D[k] = A[i - 1]
      BY <2>4, <2>5 DEF UtxoMap
    <2> QED BY <2>2, <2>6
  <1>9. \A k \in 0 .. N : D[k] = A[N - k]
    <2>1. \A k \in 0 .. N : k \in G
      <3> HIDE DEF G, N
      <3> QED BY <1>2, <1>7, <1>8, LoopInduction
    <2> QED BY <2>1
  <1>10. ASSUME NEW i \in 1 .. N
         PROVE  /\ \A o \in Txs[b][i].outs : D[N - i][o] = Height[b]
                /\ \A o \in Txs[b][i].ins : SpendCoins(D[N - i], Txs[b][i].outs)[o] = NoCoin
    <2>1. D[N - i] = A[i]
      <3>1. N - i \in 0 .. N /\ N - (N - i) = i
        BY <1>2
      <3> QED BY <1>9, <3>1
    <2>2. \A o \in Txs[b][i].outs \cup Txs[b][i].ins : o \in Outpoints
      BY <1>2, BlockFacts
    <2>3. \A o \in Outpoints : StepCoin(A, b, i, o)
      BY <1>3, AfterLoopStep, Zenon
    <2> QED BY <2>1, <2>2, <2>3 DEF StepCoin, SpendCoins, Spends, Creates
  <1> QED BY <1>1, <1>2, <1>10 DEF DisconnectsOK

-----------------------------------------------------------------------------
(* The block tree and the UTXO sets of its chains.                         *)

\* A chain has one block of every height up to its own.
ChainOK(b) ==
    /\ Genesis \in Ancestors[b]
    /\ \A x \in Ancestors[b] : Height[x] <= Height[b] /\ Ancestors[x] \subseteq Ancestors[b]
    /\ \A x, y \in Ancestors[b] : Height[x] = Height[y] => x = y
    /\ \A h \in 0 .. Height[b] : \E x \in Ancestors[b] : Height[x] = h

\* A block and its parent.
LEMMA ParentFacts ==
    ASSUME NEW b \in Blocks
    PROVE  /\ Ancestors[b] = {b} \cup Ancestors[Parent[b]] /\ b \in Ancestors[b]
           /\ Ancestors[b] \subseteq Blocks /\ Height[b] \in Nat
           /\ b = Genesis => Parent[b] = Null /\ Height[b] = 0 /\ Ancestors[b] = {b}
           /\ b # Genesis => /\ Parent[b] \in Blocks /\ Height[Parent[b]] \in Nat
                             /\ Height[b] = Height[Parent[b]] + 1
  <1>1. b \in Blocks \cup {Null} /\ Ancestors[b] \subseteq Blocks
    BY TreeAssumption
  <1>2. Height[b] \in Nat /\ Parent[b] \in Blocks \cup {Null} /\ (Parent[b] = Null <=> b = Genesis)
        /\ Ancestors[b] = {b} \cup Ancestors[Parent[b]]
    BY TreeAssumption
  <1>3. b # Genesis => Parent[b] \in Blocks /\ Height[Parent[b]] \in Nat
    BY <1>2, TreeAssumption
  <1>4. b # Genesis => Height[b] = Height[Parent[b]] + 1
    BY TreeAssumption
  <1>5. b = Genesis => Height[b] = 0 /\ Ancestors[b] = {b}
    BY <1>2, TreeAssumption
  <1> QED BY <1>1, <1>2, <1>3, <1>4, <1>5

\* Every block ends a chain, by induction on its height.
LEMMA Chains ==
    ASSUME NEW b \in Blocks
    PROVE  ChainOK(b)
  <1> DEFINE T == {n \in Nat : \E x \in Blocks : Height[x] = n /\ ~ChainOK(x)}
  <1> SUFFICES ASSUME T # {} PROVE FALSE
    BY ParentFacts
  <1>1. PICK n \in T : \A m \in T : n <= m
    <2>1. T \subseteq Nat
      OBVIOUS
    <2> HIDE DEF T
    <2> QED BY <2>1, Least
  <1>2. PICK x \in Blocks : Height[x] = n /\ ~ChainOK(x)
    BY <1>1
  <1>3. CASE x = Genesis
    <2>1. Ancestors[x] = {x} /\ Height[x] = 0
      BY <1>3, ParentFacts
    <2> QED BY <1>2, <1>3, <2>1 DEF ChainOK
  <1>4. CASE x # Genesis
    <2>1. PICK p \in Blocks : p = Parent[x] /\ Height[x] = Height[p] + 1 /\ Height[p] \in Nat
                              /\ Ancestors[x] = {x} \cup Ancestors[p] /\ Ancestors[p] \subseteq Blocks
      BY <1>4, ParentFacts
    <2>2. ChainOK(p)
      <3>1. Height[p] \notin T
        BY <1>1, <1>2, <2>1
      <3> QED BY <3>1, <2>1
    <2>3. \A y \in Ancestors[p] : Height[y] \in Nat /\ Height[y] < Height[x]
      <3>1. \A y \in Ancestors[p] : Height[y] \in Nat /\ Height[y] <= Height[p]
        BY <2>1, <2>2, ParentFacts DEF ChainOK
      <3> QED BY <2>1, <3>1
    <2>4. Genesis \in Ancestors[x]
      BY <2>1, <2>2 DEF ChainOK
    <2>5. \A y \in Ancestors[x] : Height[y] <= Height[x] /\ Ancestors[y] \subseteq Ancestors[x]
      <3> TAKE y \in Ancestors[x]
      <3>1. CASE y = x
        BY <3>1, ParentFacts
      <3>2. CASE y \in Ancestors[p]
        <4>1. Height[y] \in Nat /\ Height[y] < Height[x] /\ Height[x] \in Nat
          BY <2>3, <3>2, ParentFacts
        <4>2. Ancestors[y] \subseteq Ancestors[p]
          BY <3>2, <2>2 DEF ChainOK
        <4> QED BY <2>1, <4>1, <4>2
      <3> QED BY <2>1, <3>1, <3>2
    <2>6. ASSUME NEW y \in Ancestors[x], NEW z \in Ancestors[x], Height[y] = Height[z] PROVE y = z
      <3>1. (y = x \/ y \in Ancestors[p]) /\ (z = x \/ z \in Ancestors[p])
        BY <2>1
      <3>2. y \in Ancestors[p] /\ z \in Ancestors[p] => y = z
        BY <2>2, <2>6 DEF ChainOK
      <3>3. Height[x] \in Nat
        BY ParentFacts
      <3> QED BY <2>3, <2>6, <3>1, <3>2, <3>3
    <2>7. ASSUME NEW h \in 0 .. Height[x] PROVE \E y \in Ancestors[x] : Height[y] = h
      <3>1. CASE h = Height[x]
        BY <2>1, <3>1
      <3>2. CASE h # Height[x]
        <4>1. h \in 0 .. Height[p]
          BY <2>1, <3>2
        <4>2. PICK y \in Ancestors[p] : Height[y] = h
          BY <2>2, <4>1 DEF ChainOK
        <4> QED BY <4>2, <2>1
      <3> QED BY <3>1, <3>2
    <2>8. ChainOK(x)
      BY <2>4, <2>5, <2>6, <2>7 DEF ChainOK
    <2> QED BY <1>2, <2>8
  <1> QED BY <1>3, <1>4

\* A chain has one block of each height.
LEMMA SameHeight ==
    ASSUME NEW b \in Blocks, NEW x \in Ancestors[b], NEW y \in Ancestors[b], Height[x] = Height[y]
    PROVE  x = y
  BY Chains DEF ChainOK

\* The UTXO set of a chain is a UTXO map.
LEMMA UtxoType ==
    ASSUME NEW b \in Blocks \cup {Null}
    PROVE  Utxo(b) \in UtxoMap
  <1> SUFFICES ASSUME NEW o \in Outpoints, Creators(b, o) # {}
               PROVE  Height[CHOOSE x \in Creators(b, o) : TRUE] \in Nat
    BY DEF Utxo, UtxoMap
  <1>1. Creators(b, o) \subseteq Blocks
    BY TreeAssumption DEF Creators
  <1>2. (CHOOSE x \in Creators(b, o) : TRUE) \in Creators(b, o)
    <2> HIDE DEF Creators
    <2> QED OBVIOUS
  <1> QED BY <1>1, <1>2, ParentFacts

\* Before the first block and after the genesis block there are no coins.
LEMMA UtxoBase == Utxo(Null) = EmptyUtxo /\ Utxo(Genesis) = EmptyUtxo
  <1>1. Ancestors[Null] = {} /\ Ancestors[Genesis] = {Genesis}
    BY TreeAssumption
  <1>2. \A o \in Outpoints : Creators(Null, o) = {} /\ Creators(Genesis, o) = {}
    BY <1>1 DEF Creators
  <1> QED BY <1>2 DEF Utxo, EmptyUtxo

\* What a block changes in the UTXO set.
LEMMA UtxoStep ==
    ASSUME NEW b \in Blocks, b # Genesis, NEW o \in Outpoints
    PROVE  Utxo(b)[o] = IF o \in Touched(b) THEN IF CreatedIn(b, o) THEN Height[b] ELSE NoCoin
                        ELSE Utxo(Parent[b])[o]
  <1>1. PICK p \in Blocks : p = Parent[b] /\ Height[b] = Height[p] + 1 /\ Height[p] \in Nat
                            /\ Ancestors[b] = {b} \cup Ancestors[p] /\ Ancestors[p] \subseteq Blocks
    BY ParentFacts
  <1>2. \A x \in Ancestors[p] : Height[x] \in Nat /\ Height[x] < Height[b] /\ x # b
    <2>1. \A x \in Ancestors[p] : Height[x] \in Nat /\ Height[x] <= Height[p]
      BY <1>1, Chains, ParentFacts DEF ChainOK
    <2> QED BY <1>1, <2>1
  <1>3. ~(Height[b] < Height[b]) /\ \A x \in Ancestors[p] : ~(Height[b] < Height[x])
    BY <1>1, <1>2
  <1>4. CASE o \in Touched(b)
    <2>1. Creators(b, o) = IF CreatedIn(b, o) THEN {b} ELSE {}
      BY <1>1, <1>2, <1>3, <1>4 DEF Creators
    <2>2. CASE CreatedIn(b, o)
      <3>1. Creators(b, o) = {b}
        BY <2>1, <2>2
      <3>2. (CHOOSE x \in {b} : TRUE) = b
        OBVIOUS
      <3> QED BY <1>4, <2>2, <3>1, <3>2 DEF Utxo
    <2>3. CASE ~CreatedIn(b, o)
      BY <1>4, <2>1, <2>3 DEF Utxo
    <2> QED BY <2>2, <2>3
  <1>5. CASE o \notin Touched(b)
    <2>1. ~CreatedIn(b, o)
      BY <1>5 DEF CreatedIn, Touched
    <2>2. Creators(b, o) = Creators(p, o)
      BY <1>1, <1>5, <2>1 DEF Creators
    <2> QED BY <1>1, <1>5, <2>2 DEF Utxo
  <1> QED BY <1>4, <1>5

-----------------------------------------------------------------------------
(* The inductive invariant.                                                *)

Up == phase \in {"run", "replay", "indexed", "replayed"}

\* A block index has the parent of every block in it.
Closed(I) == I \subseteq Blocks /\ \A b \in I : Parent[b] \in I \cup {Null}

\* The undo data of a block are the coins it spends from the UTXO set of its
\* parent, on which it was connected.
UndoExact(u) ==
    /\ DOMAIN u \subseteq Blocks \ {Genesis}
    /\ \A b \in DOMAIN u : /\ ConnectsCleanly(Utxo(Parent[b]), b)
                           /\ u[b] = BlockUndo(Utxo(Parent[b]), b)

\* The blocks and undo data of the chain ending in b are there.
Ready(b, h, u) == Ancestors[b] \ {Genesis} \subseteq h \cap DOMAIN u

\* Every coin is that of one of two chains.
Between(coins, a, b) ==
    coins \in UtxoMap /\ \A o \in Outpoints : coins[o] \in {Utxo(a)[o], Utxo(b)[o]}

\* A coins database d names blocks of the block index k on disk only, ...
Named(d, k) ==
    /\ d.best \in k.index \cup {Null}
    /\ d.heads # <<>> => /\ d.best = Null
                         /\ d.heads = <<d.heads[1], d.heads[2]>>
                         /\ d.heads[1] \in k.index
                         /\ d.heads[2] \in k.index \cup {Null}

\* ... has the coins of its best block, or is between its heads, ...
Exact(d) == IF d.heads = <<>> THEN d.coins = Utxo(d.best)
                              ELSE Between(d.coins, d.heads[1], d.heads[2])

\* ... and without pruning the block files allow a replay.
Replayable(d, k) ==
    /\ Ready(d.best, k.have, k.undo)
    /\ d.heads # <<>> => /\ Ready(d.heads[1], k.have, k.undo)
                         /\ Ready(d.heads[2], k.have, k.undo)

GoodDatabase(d, k) == Named(d, k) /\ Exact(d) /\ (~Prune => Replayable(d, k))
GoodIndex(k) == Closed(k.index) /\ k.have \subseteq k.index /\ UndoExact(k.undo)

\* What is on disk.
DiskInv == GoodIndex(disk) /\ GoodDatabase(cdb, disk) /\ GoodDatabase(synced, disk)

\* The block index in memory has all that the one on disk has.
MemInv ==
    Up => /\ Closed(index) /\ disk.index \subseteq index /\ Genesis \in index
          /\ have \subseteq index /\ tip \in index \cup {Null}
          /\ UndoExact(undo)
          /\ ~Prune => disk.have \subseteq have /\ DOMAIN disk.undo \subseteq DOMAIN undo

\* Outside of a flush the database is at a tip; in one, the tip is in the
\* index on disk and is where the database is moving to; a replay is on the
\* old or on the new branch, its coins between where it is and where it goes.
PhaseInv ==
    /\ phase = "run" => /\ cdb.heads = <<>> /\ tipCoins = Utxo(tip)
                        /\ ~Prune => Ready(tip, have, undo)
    /\ phase \in {"indexed", "replayed"} =>
          /\ tip \in disk.index /\ tipCoins = Utxo(tip)
          /\ cdb.heads # <<>> => cdb.heads[1] = tip
          /\ ~Prune => Ready(tip, disk.have, disk.undo)
    /\ phase = "replay" =>
          /\ cdb.heads # <<>>
          /\ tip \in Ancestors[cdb.heads[1]] \cup Ancestors[cdb.heads[2]] \cup {Null}
          /\ Between(tipCoins, tip, cdb.heads[1])
    /\ ~Prune => phase # "failed"

IInv == TypeOK /\ DiskInv /\ MemInv /\ PhaseInv /\ unclean = FALSE

-----------------------------------------------------------------------------
(* Whole blocks.                                                           *)

\* So are those of a block and of its parent.
LEMMA ParentUtxo ==
    ASSUME NEW b \in Blocks
    PROVE  Utxo(Parent[b]) \in UtxoMap /\ Utxo(b) \in UtxoMap
  <1>1. Parent[b] \in Blocks \cup {Null}
    BY TreeAssumption
  <1> QED BY <1>1, UtxoType

\* Applying a block to a UTXO map gives one.
LEMMA AppliedType ==
    ASSUME NEW coins \in UtxoMap, NEW b \in Blocks
    PROVE  CoinsAfter(coins, b)[Len(Txs[b])] \in UtxoMap
  <1>1. AfterLoop(CoinsAfter(coins, b), coins, b)
    BY CoinsAfterLoop
  <1>2. Len(Txs[b]) \in 0 .. Len(Txs[b])
    BY BlockFacts
  <1> QED BY <1>1, <1>2 DEF AfterLoop

\* Two UTXO maps with the same coins are the same.
LEMMA SameCoins ==
    ASSUME NEW c \in UtxoMap, NEW d \in UtxoMap, \A o \in Outpoints : c[o] = d[o]
    PROVE  c = d
  BY DEF UtxoMap

\* Connecting a block on the UTXO set of its parent gives its own.
LEMMA ConnectExact ==
    ASSUME NEW b \in Blocks
    PROVE  Connected(Utxo(Parent[b]), b) = Utxo(b)
  <1>1. CASE b = Genesis
    BY <1>1, ParentFacts, UtxoBase DEF Connected
  <1>2. CASE b # Genesis
    <2>1. PICK P \in UtxoMap : P = Utxo(Parent[b])
      BY ParentUtxo
    <2>2. PICK C \in UtxoMap : C = CoinsAfter(P, b)[Len(Txs[b])]
      BY AppliedType
    <2>3. \A o \in Outpoints : C[o] = Utxo(b)[o]
      <3> TAKE o \in Outpoints
      <3>1. C[o] = IF o \in Touched(b) THEN IF CreatedIn(b, o) THEN Height[b] ELSE NoCoin ELSE P[o]
        BY <2>2, AppliedCoin
      <3> QED BY <1>2, <2>1, <3>1, UtxoStep
    <2>4. C = Utxo(b)
      BY <2>3, ParentUtxo, SameCoins
    <2> QED BY <1>2, <2>1, <2>2, <2>4 DEF Connected
  <1> QED BY <1>1, <1>2

\* Rolling a block forward on coins that are partly those of its parent and
\* partly those of t gives coins that are partly its own.
LEMMA ForwardBetween ==
    ASSUME NEW b \in Blocks, b # Genesis, NEW coins, NEW t, Between(coins, Parent[b], t)
    PROVE  Between(CoinsAfter(coins, b)[Len(Txs[b])], b, t)
  <1>1. coins \in UtxoMap
    BY DEF Between
  <1>2. PICK C \in UtxoMap : C = CoinsAfter(coins, b)[Len(Txs[b])]
    BY <1>1, AppliedType
  <1>3. ASSUME NEW o \in Outpoints PROVE C[o] \in {Utxo(b)[o], Utxo(t)[o]}
    <2>1. C[o] = IF o \in Touched(b) THEN IF CreatedIn(b, o) THEN Height[b] ELSE NoCoin ELSE coins[o]
      BY <1>1, <1>2, AppliedCoin
    <2>2. Utxo(b)[o] = IF o \in Touched(b) THEN IF CreatedIn(b, o) THEN Height[b] ELSE NoCoin
                       ELSE Utxo(Parent[b])[o]
      BY UtxoStep
    <2>3. coins[o] \in {Utxo(Parent[b])[o], Utxo(t)[o]}
      BY DEF Between
    <2> QED BY <2>1, <2>2, <2>3
  <1> QED BY <1>2, <1>3 DEF Between

\* Undoing it takes them back to its parent's.
LEMMA BackwardBetween ==
    ASSUME NEW b \in Blocks, b # Genesis, NEW coins, NEW t, Between(coins, b, t),
           ConnectsCleanly(Utxo(Parent[b]), b)
    PROVE  Between(DisconnectBlock(coins, b, BlockUndo(Utxo(Parent[b]), b)), Parent[b], t)
  <1>1. PICK P \in UtxoMap : P = Utxo(Parent[b])
    BY ParentUtxo
  <1>2. coins \in UtxoMap
    BY DEF Between
  <1>3. PICK C : C = DisconnectBlock(coins, b, BlockUndo(P, b))
    OBVIOUS
  <1>4. C \in UtxoMap
    <2>1. UndoTyped(BlockUndo(P, b), b)
      BY UndoData
    <2>2. UndoneLoop(CoinsUndone(coins, b, BlockUndo(P, b)), coins, b, BlockUndo(P, b))
      BY <1>2, <2>1, CoinsUndoneLoop
    <2>3. Len(Txs[b]) \in 0 .. Len(Txs[b])
      BY BlockFacts
    <2> QED BY <1>3, <2>2, <2>3 DEF UndoneLoop, DisconnectBlock
  <1>5. ASSUME NEW o \in Outpoints PROVE C[o] \in {Utxo(Parent[b])[o], Utxo(t)[o]}
    <2>1. C[o] = IF o \in Touched(b) THEN P[o] ELSE coins[o]
      BY <1>1, <1>2, <1>3, UndoneCoin
    <2>2. o \notin Touched(b) => Utxo(b)[o] = P[o]
      BY <1>1, UtxoStep
    <2>3. coins[o] \in {Utxo(b)[o], Utxo(t)[o]}
      BY DEF Between
    <2> QED BY <1>1, <2>1, <2>2, <2>3
  <1>6. Between(C, Parent[b], t)
    BY <1>4, <1>5 DEF Between
  <1> QED BY <1>1, <1>3, <1>6

\* Coins between a chain and itself are that chain's.
LEMMA BetweenSame ==
    ASSUME NEW b \in Blocks \cup {Null}, NEW coins, Between(coins, b, b)
    PROVE  coins = Utxo(b)
  <1>1. coins \in UtxoMap /\ \A o \in Outpoints : coins[o] = Utxo(b)[o]
    BY DEF Between
  <1> QED BY <1>1, UtxoType, SameCoins

\* A UTXO set is between its own block and any other.
LEMMA UtxoBetween ==
    ASSUME NEW a \in Blocks \cup {Null}, NEW b
    PROVE  Between(Utxo(a), a, b)
  BY UtxoType DEF Between

\* Disconnecting the tip takes its UTXO set to its parent's, cleanly.
LEMMA DisconnectExact ==
    ASSUME NEW b \in Blocks, NEW u, UndoExact(u), b \in DOMAIN u
    PROVE  DisconnectBlock(Utxo(b), b, u[b]) = Utxo(Parent[b]) /\ DisconnectsOK(Utxo(b), b, u[b])
  <1>1. b # Genesis /\ ConnectsCleanly(Utxo(Parent[b]), b) /\ u[b] = BlockUndo(Utxo(Parent[b]), b)
    BY DEF UndoExact
  <1>2. Parent[b] \in Blocks \cup {Null}
    BY TreeAssumption
  <1>3. Between(DisconnectBlock(Utxo(b), b, u[b]), Parent[b], Parent[b])
    BY <1>1, UtxoBetween, BackwardBetween
  <1>4. DisconnectsOK(Connected(Utxo(Parent[b]), b), b, BlockUndo(Utxo(Parent[b]), b))
    BY <1>1, ParentUtxo, UndoneCleanly
  <1> QED BY <1>1, <1>2, <1>3, <1>4, BetweenSame, ConnectExact

-----------------------------------------------------------------------------
(* One lemma per action.                                                   *)

\* What is on disk stays good, and one database may replace the other.
LEMMA SameDisk ==
    ASSUME DiskInv, disk' = disk, cdb' \in {cdb, synced}, synced' \in {cdb, synced}
    PROVE  DiskInv'
  BY Zenon DEF DiskInv

\* AcceptBlock only adds to the index in memory.
LEMMA AcceptBlockStep ==
    ASSUME IInv, NEW b \in Blocks, AcceptBlock(b)
    PROVE  IInv'
  <1>1. /\ phase = "run" /\ phase' = phase /\ index' = index \cup {b} /\ have' = have \cup {b}
        /\ Parent[b] \in index
        /\ UNCHANGED <<tip, tipCoins, undo, disk, cdb, synced, unclean, crashes>>
    BY Zenon DEF AcceptBlock
  <1>2. TypeOK'
    BY <1>1 DEF IInv, TypeOK
  <1>3. DiskInv'
    BY <1>1, SameDisk, Zenon DEF IInv
  <1>4. MemInv'
    BY <1>1 DEF IInv, MemInv, Up, Closed, UndoExact
  <1>5. PhaseInv'
    BY <1>1 DEF IInv, PhaseInv, Ready
  <1> QED BY <1>1, <1>2, <1>3, <1>4, <1>5, Zenon DEF IInv

\* Undo data written for a block connected on its parent's UTXO set.
LEMMA UndoAdded ==
    ASSUME NEW u, UndoExact(u), NEW b \in Blocks \ {Genesis}, ConnectsCleanly(Utxo(Parent[b]), b)
    PROVE  UndoExact([x \in DOMAIN u \cup {b} |->
                          IF x = b THEN BlockUndo(Utxo(Parent[b]), b) ELSE u[x]])
  BY DEF UndoExact

\* ConnectTip moves to the UTXO set of the new tip and has its undo data.
LEMMA ConnectTipStep ==
    ASSUME IInv, NEW b \in Blocks, ConnectTip(b)
    PROVE  IInv'
  <1>1. /\ phase = "run" /\ phase' = phase /\ Parent[b] = tip /\ b \in have /\ tip' = b
        /\ ConnectsCleanly(tipCoins, b) /\ tipCoins' = Connected(tipCoins, b)
        /\ undo' = IF b = Genesis \/ b \in DOMAIN undo THEN undo
                   ELSE [x \in DOMAIN undo \cup {b} |->
                            IF x = b THEN BlockUndo(tipCoins, b) ELSE undo[x]]
        /\ UNCHANGED <<index, have, disk, cdb, synced, unclean, crashes>>
    BY Zenon DEF ConnectTip
  <1>2. tipCoins = Utxo(Parent[b]) /\ cdb.heads = <<>>
    BY <1>1 DEF IInv, PhaseInv
  <1>3. tipCoins' = Utxo(b)
    BY <1>1, <1>2, ConnectExact
  <1>4. UndoExact(undo)
    BY <1>1 DEF IInv, MemInv, Up
  <1>5. UndoExact(undo') /\ DOMAIN undo \subseteq DOMAIN undo' /\ (b # Genesis => b \in DOMAIN undo')
    <2>1. CASE b = Genesis \/ b \in DOMAIN undo
      BY <1>1, <1>4, <2>1
    <2>2. CASE ~(b = Genesis \/ b \in DOMAIN undo)
      <3>1. undo' = [x \in DOMAIN undo \cup {b} |->
                        IF x = b THEN BlockUndo(Utxo(Parent[b]), b) ELSE undo[x]]
        BY <1>1, <1>2, <2>2
      <3>2. UndoExact(undo')
        BY <1>1, <1>2, <1>4, <2>2, <3>1, UndoAdded
      <3> QED BY <3>1, <3>2
    <2> QED BY <2>1, <2>2
  <1>6. TypeOK'
    <2>1. tipCoins' \in UtxoMap /\ DOMAIN undo' \subseteq Blocks
      BY <1>3, <1>5, ParentUtxo DEF UndoExact
    <2> QED BY <1>1, <2>1 DEF IInv, TypeOK
  <1>7. DiskInv'
    BY <1>1, SameDisk, Zenon DEF IInv
  <1>8. MemInv'
    BY <1>1, <1>5 DEF IInv, MemInv, Up, Closed
  <1>9. PhaseInv'
    <2>1. ~Prune => Ready(b, have', undo')
      <3>1. ~Prune => Ready(Parent[b], have, undo)
        BY <1>1 DEF IInv, PhaseInv
      <3>2. Ancestors[b] = {b} \cup Ancestors[Parent[b]]
        BY ParentFacts
      <3> QED BY <1>1, <1>5, <3>1, <3>2 DEF Ready
    <2> QED BY <1>1, <1>2, <1>3, <2>1 DEF IInv, PhaseInv
  <1> QED BY <1>1, <1>6, <1>7, <1>8, <1>9, Zenon DEF IInv

\* DisconnectTip finds the block clean and moves to its parent's UTXO set.
LEMMA DisconnectTipStep ==
    ASSUME IInv, DisconnectTip
    PROVE  IInv'
  <1>1. /\ phase = "run" /\ tip \in have /\ tip \in DOMAIN undo /\ tip # Genesis
        /\ UNCHANGED <<index, have, undo, disk, cdb, synced, crashes>>
    BY DEF DisconnectTip
  <1>2. tip \in Blocks /\ tipCoins = Utxo(tip) /\ UndoExact(undo) /\ cdb.heads = <<>>
    BY <1>1 DEF IInv, PhaseInv, MemInv, Up, TypeOK
  <1>3. DisconnectsOK(tipCoins, tip, undo[tip])
        /\ DisconnectBlock(tipCoins, tip, undo[tip]) = Utxo(Parent[tip])
    BY <1>1, <1>2, DisconnectExact
  <1>4. tip' = Parent[tip] /\ tipCoins' = Utxo(Parent[tip]) /\ UNCHANGED <<phase, unclean>>
    BY <1>3, Zenon DEF DisconnectTip
  <1>5. Parent[tip] \in Blocks /\ tipCoins' \in UtxoMap
        /\ Ancestors[tip] = {tip} \cup Ancestors[Parent[tip]]
    BY <1>1, <1>2, <1>4, ParentFacts, ParentUtxo
  <1>6. TypeOK'
    BY <1>1, <1>4, <1>5 DEF IInv, TypeOK
  <1>7. DiskInv'
    BY <1>1, SameDisk, Zenon DEF IInv
  <1>8. MemInv'
    BY <1>1, <1>4 DEF IInv, MemInv, Up, Closed
  <1>9. PhaseInv'
    <2>1. ~Prune => Ready(tip', have', undo')
      BY <1>1, <1>4, <1>5 DEF IInv, PhaseInv, Ready
    <2> QED BY <1>1, <1>2, <1>4, <2>1 DEF IInv, PhaseInv
  <1> QED BY <1>4, <1>6, <1>7, <1>8, <1>9, Zenon DEF IInv

\* A database stays good on a larger block index.
LEMMA LargerIndex ==
    ASSUME NEW d, NEW k, NEW m, GoodDatabase(d, k), k.index \subseteq m.index,
           ~Prune => k.have \subseteq m.have /\ DOMAIN k.undo \subseteq DOMAIN m.undo
    PROVE  GoodDatabase(d, m)
  BY DEF GoodDatabase, Named, Replayable, Ready

\* FlushStateToDisk up to the coins: the index on disk grows to the one in
\* memory, which has the tip and, without pruning, its blocks and undo data.
LEMMA FlushBlockIndexStep ==
    ASSUME IInv, NEW S \in SUBSET Prunable, FlushBlockIndex(S)
    PROVE  IInv'
  <1>1. /\ phase = "run" /\ have' = have \ S /\ undo' = Restrict(undo, DOMAIN undo \ S)
        /\ disk' = [index |-> index, have |-> have', undo |-> undo']
        /\ phase' = IF tip = Null THEN "run" ELSE "indexed"
        /\ UNCHANGED <<tip, tipCoins, index, cdb, synced, unclean, crashes>>
    BY Zenon DEF FlushBlockIndex
  <1>2. disk'.index = index /\ disk'.have = have' /\ disk'.undo = undo'
    BY <1>1
  <1>3. ~Prune => S = {}
    BY DEF Prunable
  <1>4. /\ Closed(index) /\ disk.index \subseteq index /\ Genesis \in index
        /\ have \subseteq index /\ tip \in index \cup {Null} /\ UndoExact(undo)
        /\ ~Prune => disk.have \subseteq have /\ DOMAIN disk.undo \subseteq DOMAIN undo
    BY <1>1 DEF IInv, MemInv, Up
  <1>5. DOMAIN undo' = DOMAIN undo \ S /\ \A b \in DOMAIN undo' : undo'[b] = undo[b]
    BY <1>1 DEF Restrict
  <1>6. UndoExact(undo')
    BY <1>4, <1>5 DEF UndoExact
  <1>7. ~Prune => have' = have /\ DOMAIN undo' = DOMAIN undo
    BY <1>1, <1>3, <1>5
  <1>8. TypeOK'
    <2>1. have' \subseteq Blocks /\ DOMAIN undo' \subseteq Blocks /\ index' \subseteq Blocks
      BY <1>1, <1>5 DEF IInv, TypeOK
    <2> QED BY <1>1, <1>2, <2>1 DEF IInv, TypeOK
  <1>9. DiskInv'
    <2>1. GoodIndex(disk')
      BY <1>1, <1>2, <1>4, <1>6 DEF GoodIndex
    <2>2. ASSUME NEW d, GoodDatabase(d, disk) PROVE GoodDatabase(d, disk')
      BY <1>2, <1>4, <1>7, <2>2, LargerIndex
    <2> QED BY <1>1, <2>1, <2>2, Zenon DEF IInv, DiskInv
  <1>10. MemInv'
    BY <1>1, <1>2, <1>4, <1>6 DEF MemInv
  <1>11. PhaseInv'
    <2>1. cdb.heads = <<>> /\ tipCoins = Utxo(tip) /\ (~Prune => Ready(tip, have, undo))
      BY <1>1 DEF IInv, PhaseInv
    <2>2. ~Prune => Ready(tip', have', undo') /\ Ready(tip', disk'.have, disk'.undo)
      BY <1>1, <1>2, <1>7, <2>1 DEF Ready
    <2>3. phase' \in {"run", "indexed"} /\ (phase' = "indexed" => tip' \in disk'.index)
      BY <1>1, <1>2, <1>4
    <2> QED BY <1>1, <2>1, <2>2, <2>3 DEF PhaseInv
  <1> QED BY <1>1, <1>8, <1>9, <1>10, <1>11, Zenon DEF IInv

\* A coin batch leaves the database between the tip and the tip it left before
\* the first batch, also when the flush resumes an interrupted one.
LEMMA WritePartialBatchStep ==
    ASSUME IInv, NEW S \in SUBSET Pending, WritePartialBatch(S)
    PROVE  IInv'
  <1>1. PICK old : old = OldTip
    OBVIOUS
  <1>2. PICK new : new = [o \in Outpoints |-> IF o \in S THEN tipCoins[o] ELSE cdb.coins[o]]
    OBVIOUS
  <1>3. /\ phase \in {"indexed", "replayed"}
        /\ cdb' = [coins |-> new, best |-> Null, heads |-> <<tip, old>>]
        /\ UNCHANGED <<phase, tip, tipCoins, index, have, undo, disk, synced, unclean, crashes>>
    BY <1>1, <1>2 DEF WritePartialBatch, mem
  <1>4. cdb'.coins = new /\ cdb'.best = Null /\ cdb'.heads = <<tip, old>>
    BY <1>3
  <1>5. cdb'.heads # <<>> /\ cdb'.heads[1] = tip /\ cdb'.heads[2] = old
    BY <1>4
  <1>6. /\ tip \in disk.index /\ tipCoins = Utxo(tip) /\ (cdb.heads # <<>> => cdb.heads[1] = tip)
        /\ ~Prune => Ready(tip, disk.have, disk.undo)
    BY <1>3 DEF IInv, PhaseInv
  <1>7. /\ disk.index \subseteq Blocks /\ tip \in Blocks /\ tipCoins \in UtxoMap /\ cdb.coins \in UtxoMap
    BY <1>6 DEF IInv, TypeOK
  <1>8. Named(cdb, disk) /\ Exact(cdb) /\ (~Prune => Replayable(cdb, disk))
    BY DEF IInv, DiskInv, GoodDatabase
  <1>9. IF cdb.heads = <<>> THEN old = cdb.best ELSE old = cdb.heads[2]
    BY <1>1, <1>8 DEF OldTip, Named
  <1>10. /\ old \in disk.index \cup {Null} /\ Between(cdb.coins, tip, old)
         /\ ~Prune => Ready(old, disk.have, disk.undo)
    <2>1. CASE cdb.heads = <<>>
      <3>1. old = cdb.best /\ cdb.coins = Utxo(old)
        BY <1>8, <1>9, <2>1 DEF Exact
      <3> QED BY <1>7, <1>8, <3>1 DEF Named, Replayable, Between
    <2>2. CASE cdb.heads # <<>>
      <3>1. old = cdb.heads[2] /\ tip = cdb.heads[1]
        BY <1>6, <1>9, <2>2
      <3> QED BY <1>8, <2>2, <3>1 DEF Named, Replayable, Exact
    <2> QED BY <2>1, <2>2
  <1>11. Between(new, tip, old)
    <2>1. new \in UtxoMap
      BY <1>2, <1>7 DEF UtxoMap
    <2>2. \A o \in Outpoints : new[o] \in {Utxo(tip)[o], Utxo(old)[o]}
      BY <1>2, <1>6, <1>10 DEF Between
    <2> QED BY <2>1, <2>2 DEF Between
  <1>12. TypeOK'
    <2>1. cdb'.coins \in UtxoMap
      BY <1>4, <1>11 DEF Between
    <2>2. cdb'.heads \in Blocks \X (Blocks \cup {Null})
      BY <1>4, <1>7, <1>10
    <2>3. cdb'.best = Null
      BY <1>4
    <2> HIDE DEF WritePartialBatch
    <2> QED BY <1>3, <2>1, <2>2, <2>3 DEF IInv, TypeOK
  <1>13. DiskInv'
    <2>1. Named(cdb', disk)
      BY <1>4, <1>5, <1>6, <1>10 DEF Named
    <2>2. Exact(cdb')
      BY <1>4, <1>5, <1>11 DEF Exact
    <2>3. ~Prune => Replayable(cdb', disk)
      <3>1. Ready(Null, disk.have, disk.undo)
        BY TreeAssumption DEF Ready
      <3> QED BY <1>4, <1>5, <1>6, <1>10, <3>1 DEF Replayable
    <2>4. GoodDatabase(cdb', disk)
      BY <2>1, <2>2, <2>3, Zenon DEF GoodDatabase
    <2> QED BY <1>3, <2>4, Zenon DEF IInv, DiskInv
  <1>14. MemInv'
    BY <1>3 DEF IInv, MemInv, Up
  <1>15. PhaseInv'
    BY <1>3, <1>5, <1>6 DEF IInv, PhaseInv
  <1> QED BY <1>3, <1>12, <1>13, <1>14, <1>15, Zenon DEF IInv

\* The last batch leaves the database at the tip.
LEMMA WriteFinalBatchStep ==
    ASSUME IInv, WriteFinalBatch
    PROVE  IInv'
  <1>1. /\ phase \in {"indexed", "replayed"} /\ phase' = "run"
        /\ cdb' = [coins |-> tipCoins, best |-> tip, heads |-> <<>>]
        /\ UNCHANGED <<tip, tipCoins, index, have, undo, disk, synced, unclean, crashes>>
    BY DEF WriteFinalBatch, mem
  <1>2. cdb'.coins = tipCoins /\ cdb'.best = tip /\ cdb'.heads = <<>>
    BY <1>1
  <1>3. /\ tip \in disk.index /\ tipCoins = Utxo(tip)
        /\ ~Prune => Ready(tip, disk.have, disk.undo)
    BY <1>1 DEF IInv, PhaseInv
  <1>4. TypeOK'
    BY <1>1, <1>2 DEF IInv, TypeOK
  <1>5. DiskInv'
    <2>1. GoodDatabase(cdb', disk)
      BY <1>2, <1>3 DEF GoodDatabase, Named, Exact, Replayable
    <2> QED BY <1>1, <2>1, Zenon DEF IInv, DiskInv
  <1>6. MemInv'
    BY <1>1 DEF IInv, MemInv, Up
  <1>7. PhaseInv'
    <2>1. ~Prune => disk.have \subseteq have /\ DOMAIN disk.undo \subseteq DOMAIN undo
      BY <1>1 DEF IInv, MemInv, Up
    <2>2. ~Prune => Ready(tip, have, undo)
      BY <1>3, <2>1 DEF Ready
    <2> QED BY <1>1, <1>2, <1>3, <2>2 DEF PhaseInv
  <1> QED BY <1>1, <1>4, <1>5, <1>6, <1>7, Zenon DEF IInv

\* A sync makes the current database the one that survives.
LEMMA SyncLogStep ==
    ASSUME IInv, SyncLog
    PROVE  IInv'
  <1>1. /\ synced' = cdb
        /\ UNCHANGED <<phase, tip, tipCoins, index, have, undo, disk, cdb, unclean, crashes>>
    BY DEF SyncLog, mem
  <1>2. TypeOK' /\ MemInv' /\ PhaseInv'
    BY <1>1 DEF IInv, TypeOK, MemInv, Up, PhaseInv
  <1>3. DiskInv'
    BY <1>1, SameDisk, Zenon DEF IInv
  <1> QED BY <1>1, <1>2, <1>3, Zenon DEF IInv

\* A crash leaves one of two good databases.
LEMMA CrashStep ==
    ASSUME IInv, NEW survivor \in {cdb, synced}, Crash(survivor)
    PROVE  IInv'
  <1>1. /\ phase' = "down" /\ crashes < MaxCrashes /\ crashes' = crashes + 1
        /\ cdb' = survivor /\ synced' \in {cdb, synced}
        /\ tip' = Null /\ tipCoins' = EmptyUtxo /\ index' = {} /\ have' = {} /\ undo' = NoUndos
        /\ UNCHANGED <<disk, unclean>>
    BY DEF Crash
  <1>2. DiskInv'
    BY <1>1, SameDisk DEF IInv
  <1>3. MemInv' /\ PhaseInv'
    BY <1>1 DEF MemInv, Up, PhaseInv
  <1>4. TypeOK'
    <2>1. Named(survivor, disk) /\ Exact(survivor)
      BY DEF IInv, DiskInv, GoodDatabase
    <2>2. disk.index \subseteq Blocks
      BY DEF IInv, TypeOK
    <2>3. survivor.best \in Blocks \cup {Null}
          /\ (survivor.heads = <<>> \/ survivor.heads \in Blocks \X (Blocks \cup {Null}))
      BY <2>1, <2>2 DEF Named
    <2>4. survivor.coins \in UtxoMap
      <3>1. CASE survivor.heads = <<>>
        BY <2>1, <2>3, <3>1, UtxoType DEF Exact
      <3>2. CASE survivor.heads # <<>>
        BY <2>1, <3>2 DEF Exact, Between
      <3> QED BY <3>1, <3>2
    <2>5. tipCoins' \in UtxoMap /\ DOMAIN undo' \subseteq Blocks
      BY <1>1 DEF EmptyUtxo, UtxoMap, NoUndos
    <2>6. crashes' \in 0 .. MaxCrashes
      BY <1>1, BoundAssumption DEF IInv, TypeOK
    <2> QED BY <1>1, <2>3, <2>4, <2>5, <2>6 DEF IInv, TypeOK
  <1> QED BY <1>1, <1>2, <1>3, <1>4, Zenon DEF IInv

\* The index that Restart loads has every block the coins database names.
LEMMA IndexNamesHeads ==
    ASSUME IInv
    PROVE  (Range(cdb.heads) \cup {cdb.best}) \ {Null} \subseteq disk.index \cup {Genesis}
  <1>1. Named(cdb, disk)
    BY DEF IInv, DiskInv, GoodDatabase
  <1>2. Range(cdb.heads) \subseteq disk.index \cup {Null}
    <2>1. CASE cdb.heads = <<>>
      BY <2>1 DEF Range
    <2>2. CASE cdb.heads # <<>>
      <3>1. PICK x, y : cdb.heads = <<x, y>> /\ x \in disk.index /\ y \in disk.index \cup {Null}
        BY <1>1, <2>2 DEF Named
      <3> QED BY <3>1 DEF Range
    <2> QED BY <2>1, <2>2
  <1> QED BY <1>1, <1>2 DEF Named

\* A start finds all it needs, and begins a replay between two tips.
LEMMA RestartStep ==
    ASSUME IInv, Restart
    PROVE  IInv'
  <1>1. /\ phase = "down" /\ index' = disk.index \cup {Genesis}
        /\ have' = disk.have \cup (IF Genesis \in disk.index THEN {} ELSE {Genesis})
        /\ undo' = disk.undo
        /\ UNCHANGED <<disk, cdb, synced, unclean, crashes>>
    BY Zenon DEF Restart
  <1>2. Named(cdb, disk) /\ Exact(cdb) /\ (~Prune => Replayable(cdb, disk)) /\ GoodIndex(disk)
    BY DEF IInv, DiskInv, GoodDatabase
  <1>3. (Range(cdb.heads) \cup {cdb.best}) \ {Null} \subseteq index'
    BY <1>1, IndexNamesHeads
  <1>4. /\ phase' = IF cdb.heads = <<>> THEN "run" ELSE "replay"
        /\ tip' = IF cdb.heads = <<>> THEN cdb.best ELSE cdb.heads[2]
        /\ tipCoins' = cdb.coins
    BY <1>3, Zenon DEF Restart
  <1>5. tip' \in disk.index \cup {Null}
    BY <1>2, <1>4 DEF Named
  <1>6. TypeOK'
    BY <1>1, <1>4, <1>5, TreeAssumption DEF IInv, TypeOK
  <1>7. DiskInv'
    BY <1>1, SameDisk, Zenon DEF IInv
  <1>8. MemInv'
    <2>1. Closed(index')
      BY <1>1, <1>2, TreeAssumption DEF GoodIndex, Closed
    <2>2. have' \subseteq index' /\ UndoExact(undo')
      BY <1>1, <1>2 DEF GoodIndex
    <2> QED BY <1>1, <1>5, <2>1, <2>2 DEF MemInv
  <1>9. PhaseInv'
    <2>1. CASE cdb.heads = <<>>
      <3>1. phase' = "run" /\ tip' = cdb.best /\ tipCoins' = Utxo(tip')
        BY <1>2, <1>4, <2>1 DEF Exact
      <3>2. ~Prune => Ready(tip', have', undo')
        BY <1>1, <1>2, <3>1 DEF Replayable, Ready
      <3> QED BY <1>1, <2>1, <3>1, <3>2 DEF PhaseInv
    <2>2. CASE cdb.heads # <<>>
      <3>1. phase' = "replay" /\ tip' = cdb.heads[2]
        BY <1>4, <2>2
      <3>2. Between(tipCoins', tip', cdb.heads[1])
        BY <1>2, <1>4, <2>2, <3>1 DEF Exact, Between
      <3>3. tip' \in Ancestors[cdb.heads[2]] \cup {Null}
        <4>1. disk.index \subseteq Blocks
          BY DEF IInv, TypeOK
        <4> QED BY <1>5, <3>1, <4>1, ParentFacts
      <3> QED BY <1>1, <2>2, <3>1, <3>2, <3>3 DEF PhaseInv
    <2> QED BY <2>1, <2>2
  <1> QED BY <1>1, <1>6, <1>7, <1>8, <1>9, Zenon DEF IInv

\* What holds during a replay.
LEMMA ReplayFacts ==
    ASSUME IInv, phase = "replay"
    PROVE  /\ cdb.heads # <<>> /\ ReplayTarget \in Blocks /\ ReplayTarget \in disk.index
           /\ tip \in Ancestors[ReplayTarget] \cup Ancestors[cdb.heads[2]] \cup {Null}
           /\ Ancestors[cdb.heads[2]] \subseteq Blocks
           /\ tip \in Blocks \cup {Null} /\ Between(tipCoins, tip, ReplayTarget)
           /\ UndoExact(undo)
           /\ ~Prune => /\ Ready(ReplayTarget, disk.have, disk.undo)
                        /\ Ready(ReplayTarget, have, undo) /\ Ready(cdb.heads[2], have, undo)
  <1>1. /\ cdb.heads # <<>> /\ Between(tipCoins, tip, cdb.heads[1])
        /\ tip \in Ancestors[cdb.heads[1]] \cup Ancestors[cdb.heads[2]] \cup {Null}
    BY DEF IInv, PhaseInv
  <1>2. cdb.heads[1] \in disk.index /\ cdb.heads[2] \in disk.index \cup {Null}
    BY <1>1 DEF IInv, DiskInv, GoodDatabase, Named
  <1>3. cdb.heads[1] \in Blocks /\ cdb.heads[2] \in Blocks \cup {Null} /\ tip \in Blocks \cup {Null}
    BY <1>2 DEF IInv, TypeOK
  <1>4. Ancestors[cdb.heads[2]] \subseteq Blocks
    BY <1>3, TreeAssumption
  <1>5. UndoExact(undo) /\ (~Prune => disk.have \subseteq have /\ DOMAIN disk.undo \subseteq DOMAIN undo)
    BY DEF IInv, MemInv, Up
  <1>6. ~Prune => Ready(cdb.heads[1], disk.have, disk.undo) /\ Ready(cdb.heads[2], disk.have, disk.undo)
    BY <1>1 DEF IInv, DiskInv, GoodDatabase, Replayable
  <1>7. ~Prune => Ready(cdb.heads[1], have, undo) /\ Ready(cdb.heads[2], have, undo)
    BY <1>5, <1>6 DEF Ready
  <1> QED BY <1>1, <1>2, <1>3, <1>4, <1>5, <1>6, <1>7 DEF ReplayTarget

\* A step of the replay changes memory only.
LEMMA ReplayMemory ==
    ASSUME IInv, phase = "replay", phase' \in {"replay", "replayed", "failed"},
           UNCHANGED <<index, have, undo, disk, cdb, synced, unclean, crashes>>,
           tip' \in index \cup {Null}, tipCoins' \in UtxoMap
    PROVE  TypeOK' /\ DiskInv' /\ MemInv' /\ unclean' = FALSE
  <1>1. TypeOK'
    BY DEF IInv, TypeOK
  <1>2. DiskInv'
    BY SameDisk, Zenon DEF IInv
  <1>3. MemInv'
    BY DEF IInv, MemInv, Up
  <1> QED BY <1>1, <1>2, <1>3, Zenon DEF IInv

\* ReplayBlocks undoes a block of the old branch.
LEMMA RollbackBlockStep ==
    ASSUME IInv, RollbackBlock
    PROVE  IInv'
  <1>1. phase = "replay" /\ tip \notin Ancestors[ReplayTarget] /\ tip # Null
        /\ UNCHANGED <<index, have, undo, disk, cdb, synced, unclean, crashes>>
    BY DEF RollbackBlock, AtFork
  <1>2. /\ cdb.heads # <<>> /\ ReplayTarget \in Blocks /\ tip \in Blocks
        /\ tip \in Ancestors[cdb.heads[2]]
        /\ Between(tipCoins, tip, ReplayTarget) /\ UndoExact(undo)
        /\ ~Prune => Ready(cdb.heads[2], have, undo)
    BY <1>1, ReplayFacts
  <1>3. tip # Genesis
    BY <1>1, <1>2, Chains DEF ChainOK
  <1>4. tip \in index /\ Closed(index)
    BY <1>1 DEF IInv, MemInv, Up
  <1>5. CASE tip \in have \cap DOMAIN undo
    <2>1. phase' = phase /\ tip' = Parent[tip] /\ tipCoins' = DisconnectBlock(tipCoins, tip, undo[tip])
      BY <1>5, Zenon DEF RollbackBlock
    <2>2. ConnectsCleanly(Utxo(Parent[tip]), tip) /\ undo[tip] = BlockUndo(Utxo(Parent[tip]), tip)
      BY <1>2, <1>5 DEF UndoExact
    <2>3. Between(tipCoins', tip', ReplayTarget)
      BY <1>2, <1>3, <2>1, <2>2, BackwardBetween
    <2>4. TypeOK' /\ DiskInv' /\ MemInv' /\ unclean' = FALSE
      <3>1. tip' \in index \cup {Null} /\ tipCoins' \in UtxoMap /\ phase' = "replay"
        BY <1>1, <1>4, <2>1, <2>3 DEF Closed, Between
      <3> QED BY <1>1, <3>1, ReplayMemory
    <2>5. tip' \in Ancestors[cdb.heads[2]] \cup {Null}
      <3>1. cdb.heads[2] \in Blocks
        <4>1. cdb.heads[2] \in disk.index \cup {Null} /\ disk.index \subseteq Blocks
          BY <1>2 DEF IInv, TypeOK, DiskInv, GoodDatabase, Named
        <4> QED BY <1>2, <4>1, TreeAssumption
      <3>2. Ancestors[tip] \subseteq Ancestors[cdb.heads[2]]
        BY <1>2, <3>1, Chains DEF ChainOK
      <3>3. Parent[tip] \in Ancestors[tip]
        BY <1>2, <1>3, ParentFacts
      <3> QED BY <2>1, <3>2, <3>3
    <2>6. PhaseInv'
      BY <1>1, <1>2, <2>1, <2>3, <2>5 DEF PhaseInv, ReplayTarget
    <2> QED BY <2>4, <2>6, Zenon DEF IInv
  <1>6. CASE ~(tip \in have \cap DOMAIN undo)
    <2>1. phase' = "failed" /\ UNCHANGED <<tip, tipCoins>>
      BY <1>6, Zenon DEF RollbackBlock
    <2>2. Prune
      BY <1>2, <1>3, <1>6 DEF Ready
    <2>3. TypeOK' /\ DiskInv' /\ MemInv' /\ unclean' = FALSE
      <3>1. tip' \in index \cup {Null} /\ tipCoins' \in UtxoMap
        BY <1>2, <1>4, <2>1 DEF Between
      <3> QED BY <1>1, <2>1, <3>1, ReplayMemory
    <2> QED BY <2>1, <2>2, <2>3 DEF IInv, PhaseInv
  <1> QED BY <1>5, <1>6

\* ReplayBlocks applies the next block of the new branch.
LEMMA RollforwardBlockStep ==
    ASSUME IInv, NEW b \in Blocks, RollforwardBlock(b)
    PROVE  IInv'
  <1>1. phase = "replay" /\ tip \in Ancestors[ReplayTarget] \cup {Null}
        /\ b \in Ancestors[ReplayTarget] /\ Height[b] = ForkHeight + 1
        /\ UNCHANGED <<index, have, undo, disk, cdb, synced, unclean, crashes>>
    BY DEF RollforwardBlock, AtFork
  <1>2. /\ cdb.heads # <<>> /\ ReplayTarget \in Blocks /\ tip \in Blocks \cup {Null}
        /\ ReplayTarget \in disk.index
        /\ Between(tipCoins, tip, ReplayTarget)
        /\ ~Prune => Ready(ReplayTarget, have, undo)
    BY <1>1, ReplayFacts
  <1>3. b # Genesis /\ Utxo(Parent[b]) = Utxo(tip)
    <2>1. ForkHeight \in Nat /\ Height[Genesis] = 0
      BY <1>2, ParentFacts, TreeAssumption DEF ForkHeight
    <2>2. b # Genesis
      BY <1>1, <2>1
    <2>3. Parent[b] \in Blocks /\ Height[b] = Height[Parent[b]] + 1 /\ Height[Parent[b]] \in Nat
          /\ Parent[b] \in Ancestors[b]
      BY <2>2, ParentFacts
    <2>4. Height[Parent[b]] = ForkHeight
      BY <1>1, <2>1, <2>3
    <2>5. Parent[b] \in Ancestors[ReplayTarget] /\ Genesis \in Ancestors[ReplayTarget]
      BY <1>1, <1>2, <2>3, Chains DEF ChainOK
    <2>6. CASE tip = Null
      <3>1. Parent[b] = Genesis
        <4>1. Height[Parent[b]] = Height[Genesis]
          BY <2>1, <2>4, <2>6 DEF ForkHeight
        <4> QED BY <1>2, <2>5, <4>1, SameHeight
      <3> QED BY <2>2, <2>6, <3>1, UtxoBase
    <2>7. CASE tip # Null
      <3>1. Parent[b] = tip
        <4>1. Height[Parent[b]] = Height[tip] /\ tip \in Ancestors[ReplayTarget]
          BY <1>1, <2>4, <2>7 DEF ForkHeight
        <4> QED BY <1>2, <2>5, <4>1, SameHeight
      <3> QED BY <2>2, <3>1
    <2> QED BY <2>6, <2>7
  <1>4. CASE b \in have
    <2>1. phase' = phase /\ tip' = b /\ tipCoins' = CoinsAfter(tipCoins, b)[Len(Txs[b])]
      BY <1>4, Zenon DEF RollforwardBlock
    <2>2. Between(tipCoins, Parent[b], ReplayTarget)
      BY <1>2, <1>3 DEF Between
    <2>3. Between(tipCoins', tip', ReplayTarget)
      BY <1>3, <2>1, <2>2, ForwardBetween
    <2>4. TypeOK' /\ DiskInv' /\ MemInv' /\ unclean' = FALSE
      <3>1. have \subseteq index
        BY <1>1 DEF IInv, MemInv, Up
      <3>2. tip' \in index \cup {Null} /\ tipCoins' \in UtxoMap /\ phase' = "replay"
        BY <1>1, <1>4, <2>1, <2>3, <3>1 DEF Between
      <3> QED BY <1>1, <3>2, ReplayMemory
    <2>5. PhaseInv'
      BY <1>1, <1>2, <2>1, <2>3 DEF PhaseInv, ReplayTarget
    <2> QED BY <2>4, <2>5, Zenon DEF IInv
  <1>5. CASE b \notin have
    <2>1. phase' = "failed" /\ UNCHANGED <<tip, tipCoins>>
      BY <1>5, Zenon DEF RollforwardBlock
    <2>2. Prune
      BY <1>1, <1>2, <1>3, <1>5 DEF Ready
    <2>3. TypeOK' /\ DiskInv' /\ MemInv' /\ unclean' = FALSE
      <3>1. tip \in index \cup {Null}
        BY <1>1 DEF IInv, MemInv, Up
      <3>2. tip' \in index \cup {Null} /\ tipCoins' \in UtxoMap
        BY <1>2, <2>1, <3>1 DEF Between
      <3> QED BY <1>1, <2>1, <3>2, ReplayMemory
    <2> QED BY <2>1, <2>2, <2>3 DEF IInv, PhaseInv
  <1> QED BY <1>4, <1>5

\* At the end of ReplayBlocks the mixture of two UTXO sets is the one of the
\* new tip.
LEMMA FinishReplayStep ==
    ASSUME IInv, FinishReplay
    PROVE  IInv'
  <1>1. phase = "replay" /\ tip \in Ancestors[ReplayTarget] \cup {Null}
        /\ ForkHeight = Height[ReplayTarget] /\ phase' = "replayed" /\ tip' = ReplayTarget
        /\ UNCHANGED <<tipCoins, index, have, undo, disk, cdb, synced, unclean, crashes>>
    BY DEF FinishReplay, AtFork
  <1>2. /\ cdb.heads # <<>> /\ ReplayTarget \in Blocks /\ tip \in Blocks \cup {Null}
        /\ ReplayTarget \in disk.index
        /\ Between(tipCoins, tip, ReplayTarget)
        /\ ~Prune => Ready(ReplayTarget, disk.have, disk.undo)
    BY <1>1, ReplayFacts
  <1>3. Utxo(tip) = Utxo(ReplayTarget)
    <2>1. ReplayTarget \in Ancestors[ReplayTarget] /\ Genesis \in Ancestors[ReplayTarget]
          /\ Height[Genesis] = 0
      BY <1>2, Chains, ParentFacts, TreeAssumption DEF ChainOK
    <2>2. CASE tip = Null
      <3>1. ReplayTarget = Genesis
        <4>1. Height[ReplayTarget] = Height[Genesis]
          BY <1>1, <2>1, <2>2 DEF ForkHeight
        <4> QED BY <1>2, <2>1, <4>1, SameHeight
      <3> QED BY <2>2, <3>1, UtxoBase
    <2>3. CASE tip # Null
      <3>1. ReplayTarget = tip
        <4>1. Height[ReplayTarget] = Height[tip] /\ tip \in Ancestors[ReplayTarget]
          BY <1>1, <2>3 DEF ForkHeight
        <4> QED BY <1>2, <2>1, <4>1, SameHeight
      <3> QED BY <3>1
    <2> QED BY <2>2, <2>3
  <1>4. tipCoins = Utxo(ReplayTarget)
    <2>1. Between(tipCoins, ReplayTarget, ReplayTarget)
      BY <1>2, <1>3 DEF Between
    <2> QED BY <1>2, <2>1, BetweenSame
  <1>5. TypeOK' /\ DiskInv' /\ MemInv' /\ unclean' = FALSE
    <2>1. disk.index \subseteq index
      BY <1>1 DEF IInv, MemInv, Up
    <2>2. tip' \in index \cup {Null} /\ tipCoins' \in UtxoMap
      BY <1>1, <1>2, <2>1 DEF Between
    <2> QED BY <1>1, <2>2, ReplayMemory
  <1>6. PhaseInv'
    BY <1>1, <1>2, <1>4 DEF PhaseInv, ReplayTarget
  <1> QED BY <1>5, <1>6, Zenon DEF IInv

-----------------------------------------------------------------------------
(* Theorems.                                                               *)

\* IInv is inductive.
THEOREM FlushInvariant == Spec => []IInv
  <1>1. Init => IInv
    <2> SUFFICES ASSUME Init PROVE IInv
      OBVIOUS
    <2> USE DEF Init
    <2>1. EmptyUtxo \in UtxoMap /\ EmptyUtxo = Utxo(Null)
      BY UtxoBase DEF EmptyUtxo, UtxoMap
    <2>2. UndoExact(NoUndos) /\ DOMAIN NoUndos = {} /\ \A h : Ready(Null, h, NoUndos)
      BY TreeAssumption DEF UndoExact, NoUndos, Ready
    <2>3. TypeOK
      <3>1. DOMAIN undo \subseteq Blocks /\ DOMAIN disk.undo \subseteq Blocks
        BY <2>2
      <3>2. crashes \in 0 .. MaxCrashes /\ unclean \in BOOLEAN
        <4>1. crashes = 0 /\ unclean = FALSE
          OBVIOUS
        <4>2. 0 \in 0 .. MaxCrashes
          <5> HIDE DEF Init
          <5> QED BY BoundAssumption
        <4> QED BY <4>1, <4>2, Zenon
      <3>3. cdb.coins \in UtxoMap /\ cdb.best = Null /\ cdb.heads = <<>>
        BY <2>1
      <3>4. index \subseteq Blocks /\ have \subseteq Blocks /\ disk.index \subseteq Blocks /\ disk.have \subseteq Blocks
        BY TreeAssumption
      <3>5. phase = "run" /\ tip = Null /\ tipCoins \in UtxoMap
        BY <2>1
      <3> HIDE DEF Init
      <3> QED BY <3>1, <3>2, <3>3, <3>4, <3>5 DEF TypeOK
    <2>4. DiskInv
      <3>1. GoodDatabase(cdb, disk)
        BY <2>1, <2>2 DEF GoodDatabase, Named, Exact, Replayable
      <3>2. GoodIndex(disk)
        BY <2>2 DEF GoodIndex, Closed
      <3> QED BY <3>1, <3>2 DEF DiskInv
    <2>5. MemInv
      BY <2>2, TreeAssumption DEF MemInv, Up, Closed
    <2>6. PhaseInv
      BY <2>1, <2>2 DEF PhaseInv
    <2> QED BY <2>3, <2>4, <2>5, <2>6 DEF IInv
  <1>2. IInv /\ [Next]_vars => IInv'
    <2> SUFFICES ASSUME IInv, [Next]_vars PROVE IInv'
      OBVIOUS
    <2>1. CASE UNCHANGED vars
      <3>1. UNCHANGED <<phase, tip, tipCoins, index, have, undo, disk, cdb, synced, unclean, crashes>>
        BY <2>1 DEF vars, mem
      <3>2. DiskInv'
        BY <3>1, SameDisk, Zenon DEF IInv
      <3> QED BY <3>1, <3>2 DEF IInv, TypeOK, MemInv, Up, PhaseInv
    <2>2. CASE \E b \in Blocks : AcceptBlock(b) \/ ConnectTip(b)
      BY <2>2, AcceptBlockStep, ConnectTipStep
    <2>3. CASE DisconnectTip
      BY <2>3, DisconnectTipStep
    <2>4. CASE \E S \in SUBSET Prunable : FlushBlockIndex(S)
      BY <2>4, FlushBlockIndexStep
    <2>5. CASE \E S \in SUBSET Pending : WritePartialBatch(S)
      BY <2>5, WritePartialBatchStep
    <2>6. CASE WriteFinalBatch
      BY <2>6, WriteFinalBatchStep
    <2>7. CASE SyncLog
      BY <2>7, SyncLogStep
    <2>8. CASE \E survivor \in {cdb, synced} : (survivor = cdb \/ PowerLoss) /\ Crash(survivor)
      BY <2>8, CrashStep
    <2>9. CASE Restart
      BY <2>9, RestartStep
    <2>10. CASE RollbackBlock
      BY <2>10, RollbackBlockStep
    <2>11. CASE \E b \in Blocks : RollforwardBlock(b)
      BY <2>11, RollforwardBlockStep
    <2>12. CASE FinishReplay
      BY <2>12, FinishReplayStep
    <2> QED BY <2>1, <2>2, <2>3, <2>4, <2>5, <2>6, <2>7, <2>8, <2>9, <2>10, <2>11, <2>12
            DEF Next, ReplayStep
  <1> QED BY <1>1, <1>2, PTL DEF Spec

\* The variables keep their types.
THEOREM TypeCorrect == Spec => []TypeOK
  <1>1. IInv => TypeOK
    BY DEF IInv
  <1> QED BY FlushInvariant, <1>1, PTL

\* For any block tree and transactions, any order of connecting,
\* disconnecting, flushing and replaying, and any number of crashes and power
\* losses in between, the coins the node works on are the UTXO set of its
\* tip, and so are those on disk.
THEOREM CoinsStayExact == Spec => []CoinsAreExact
  <1>1. IInv => CoinsAreExact
    BY DEF IInv, PhaseInv, DiskInv, GoodDatabase, Exact, CoinsAreExact
  <1> QED BY FlushInvariant, <1>1, PTL

\* A flush cut short at any point, also while the last one is being repaired,
\* leaves coins of two chains only, and so does every step of the repair.
THEOREM AlwaysRepairable == Spec => []CrashIsRepairable
  <1>1. IInv => CrashIsRepairable
    BY DEF IInv, PhaseInv, DiskInv, GoodDatabase, Exact, Between, CrashIsRepairable, ReplayTarget
  <1> QED BY FlushInvariant, <1>1, PTL

\* A node that does not prune never refuses its data directory.
THEOREM StartupAlwaysSucceeds ==
    ASSUME ~Prune
    PROVE  Spec => []StartupSucceeds
  <1>1. IInv => StartupSucceeds
    BY DEF IInv, PhaseInv, StartupSucceeds
  <1> QED BY FlushInvariant, <1>1, PTL

\* BatchWrite's assertion holds: whatever a crash interrupted, and however
\* often, a flush into a database between two tips has the tip it moves to.
THEOREM FlushAlwaysResumes == Spec => []FlushResumesHeads
  <1>1. IInv => FlushResumesHeads
    BY DEF IInv, PhaseInv, FlushResumesHeads
  <1> QED BY FlushInvariant, <1>1, PTL

\* DisconnectTip never meets a block it cannot undo cleanly.
THEOREM AlwaysDisconnectsCleanly == Spec => []DisconnectsCleanly
  <1>1. IInv => DisconnectsCleanly
    BY DEF IInv, DisconnectsCleanly
  <1> QED BY FlushInvariant, <1>1, PTL

\* FlushStateToDisk writes the block index before the coins: the coins
\* database on disk, also the one a power loss falls back to, never names a
\* block that the block index on disk lacks.
IndexBeforeCoins ==
    \A d \in {cdb, synced} :
        /\ d.best \in disk.index \cup {Null}
        /\ d.heads # <<>> => /\ d.heads[1] \in disk.index
                             /\ d.heads[2] \in disk.index \cup {Null}

\* IndexBeforeCoins always holds, pruning or not.
THEOREM IndexReachesDiskFirst == Spec => []IndexBeforeCoins
  <1>1. IInv => IndexBeforeCoins
    BY DEF IInv, DiskInv, GoodDatabase, Named, IndexBeforeCoins
  <1> QED BY FlushInvariant, <1>1, PTL

\* Pruning or not, the block index that a start has just loaded has the best
\* block for LoadChainTip and both heads for ReplayBlocks: with pruning, only
\* a replay that needs a deleted file fails.
THEOREM LoadedIndexSuffices == Spec => [][Restart => phase' # "failed"]_vars
  <1>1. IInv /\ [Next]_vars => [Restart => phase' # "failed"]_vars
    <2> SUFFICES ASSUME IInv, Restart PROVE phase' # "failed"
      OBVIOUS
    <2>1. (Range(cdb.heads) \cup {cdb.best}) \ {Null} \subseteq index'
      <3>1. index' = disk.index \cup {Genesis}
        BY Zenon DEF Restart
      <3> QED BY <3>1, IndexNamesHeads
    <2>2. phase' = IF cdb.heads = <<>> THEN "run" ELSE "replay"
      BY <2>1, Zenon DEF Restart
    <2> QED BY <2>2
  <1> QED BY FlushInvariant, <1>1, PTL DEF Spec
=============================================================================
