-------------------------- MODULE CoinsCacheProofs --------------------------
(***************************************************************************)
(* For every set of outpoints, coins and block hashes: the flag discipline *)
(* of the coins caches is an invariant, no call throws, and the stack of   *)
(* caches implements the stack of full UTXO sets of CoinsView.             *)
(***************************************************************************)
EXTENDS CoinsCache, TLAPS

-----------------------------------------------------------------------------
(* The operations on one cache return a cache.                             *)

\* An entry built from its three fields, or a cached one, is typed.
LEMMA EntryFacts ==
    /\ \A c \in MaybeCoin, d, f \in BOOLEAN :
          [coin |-> c, dirty |-> d, fresh |-> f] \in Entry
    /\ \A c \in Cache, o \in Outpoints : Has(c, o) =>
          c[o] \in Entry /\ c[o].coin \in MaybeCoin /\ c[o].dirty \in BOOLEAN /\ c[o].fresh \in BOOLEAN
    /\ EmptyCache \in Cache
  BY DEF Entry, Cache, Has, EmptyCache

\* FetchCoin, AddCoin, SpendCoin, Uncache and the snapshot's Emplace keep
\* cacheCoins a map from outpoints to entries.
LEMMA OperationTypes ==
    ASSUME NEW c \in Cache, NEW o \in Outpoints, NEW b \in MaybeCoin, NEW w \in BOOLEAN
    PROVE  /\ FetchCoin(c, o, b) \in Cache
           /\ AddCoin(c, o, b, w) \in Cache
           /\ SpendCoin(c, o, b) \in Cache
           /\ Uncache(c, o) \in Cache
           /\ EmplaceCoinInternalDANGER(c, o, b) \in Cache
           /\ CoinIn(c, o, b) \in MaybeCoin
<1>1. FetchCoin(c, o, b) \in Cache
  BY Zenon, EntryFacts DEF FetchCoin, Cache, Has
<1>2. AddCoin(c, o, b, w) \in Cache
  BY Zenon, EntryFacts DEF AddCoin, Emplaced, Cache, Has, MaybeCoin
<1>3. SpendCoin(c, o, b) \in Cache
  BY Zenon, <1>1, EntryFacts DEF SpendCoin, Cache, MaybeCoin
<1>4. Uncache(c, o) \in Cache
  BY DEF Uncache, Cache
<1>5. EmplaceCoinInternalDANGER(c, o, b) \in Cache
  BY Zenon, EntryFacts DEF EmplaceCoinInternalDANGER, Cache
<1>6. CoinIn(c, o, b) \in MaybeCoin
  BY EntryFacts DEF CoinIn
<1> QED
  BY <1>1, <1>2, <1>3, <1>4, <1>5, <1>6

\* Writing a cache into its base, and Sync's cursor, return maps of the
\* right type.
LEMMA WriteTypes ==
    ASSUME NEW p \in Cache, NEW c \in Cache, NEW d \in [Outpoints -> MaybeCoin]
    PROVE  /\ BatchWrite(p, c) \in Cache
           /\ BatchWriteDB(d, c) \in [Outpoints -> MaybeCoin]
           /\ NextAndMaybeErase(c) \in Cache
<1>1. BatchWrite(p, c) \in Cache
  <2> SUFFICES ASSUME NEW o \in Outpoints, Dirty(c, o)
               PROVE  Merge(p[o], c[o]) \in Entry \cup {NoEntry}
    BY DEF BatchWrite, Cache
  <2> QED
    BY Zenon, EntryFacts DEF Merge, Dirty, Has
<1>2. BatchWriteDB(d, c) \in [Outpoints -> MaybeCoin]
  BY EntryFacts DEF BatchWriteDB, Dirty
<1>3. NextAndMaybeErase(c) \in Cache
  BY Zenon, EntryFacts DEF NextAndMaybeErase, Cache
<1> QED
  BY <1>1, <1>2, <1>3

-----------------------------------------------------------------------------
(* The invariant.                                                          *)

\* The coins the two levels answer with are typed.
LEMMA CoinTypes ==
    ASSUME TypeOK, NEW o \in Outpoints
    PROVE  /\ db[o] \in MaybeCoin
           /\ TipCoin(o) \in MaybeCoin
           /\ ViewCoin(o) \in MaybeCoin
  BY OperationTypes DEF TypeOK, TipCoin, ViewCoin

\* Every step keeps the state typed.
LEMMA TypeStep == TypeOK /\ [Next]_vars => TypeOK'
<1> SUFFICES ASSUME TypeOK, [Next]_vars PROVE TypeOK'
  OBVIOUS
<1>1. CASE OpenView
  BY <1>1 DEF TypeOK, OpenView, hashes
<1>2. CASE DropView
  BY Zenon, <1>2, EntryFacts DEF TypeOK, DropView
<1>3. CASE FlushView
  BY Zenon, <1>3, WriteTypes, EntryFacts DEF TypeOK, FlushView
<1>4. CASE FlushTip
  BY <1>4, WriteTypes, EntryFacts DEF TypeOK, FlushTip, WriteTip, TipBest
<1>5. CASE SyncTip
  BY <1>5, WriteTypes DEF TypeOK, SyncTip, WriteTip, TipBest
<1>6. CASE GetBestBlock
  BY <1>6 DEF TypeOK, GetBestBlock, TipBest, ViewBest
<1>7. ASSUME NEW h \in Hashes, SetBestBlock(h) PROVE TypeOK'
  BY <1>7 DEF TypeOK, SetBestBlock
<1>8. ASSUME NEW o \in Outpoints, GetCoin(o) PROVE TypeOK'
  BY <1>8, CoinTypes, OperationTypes DEF TypeOK, GetCoin, TipAfterFetch, TopCoin, hashes
<1>9. ASSUME NEW o \in Outpoints, DoSpendCoin(o) PROVE TypeOK'
  BY <1>9, CoinTypes, OperationTypes DEF TypeOK, DoSpendCoin, TipAfterFetch, TopCoin, hashes
<1>10. ASSUME NEW o \in Outpoints, UncacheTip(o) PROVE TypeOK'
  BY <1>10, OperationTypes, NoCoinAssumption DEF TypeOK, UncacheTip, hashes, MaybeCoin
<1>11. ASSUME NEW o \in Outpoints, NEW c \in Coins, NEW w \in BOOLEAN, DoAddCoin(o, c, w)
       PROVE  TypeOK'
  BY <1>11, OperationTypes DEF TypeOK, DoAddCoin, hashes, MaybeCoin
<1>12. ASSUME NEW o \in Outpoints, NEW c \in Coins, AddCoinChecked(o, c) PROVE TypeOK'
  <2> DEFINE have == TopCoin(o) # NoCoin
             t == TipAfterFetch(o)
             v == FetchCoin(view, o, TipCoin(o))
  <2>1. t \in Cache /\ v \in Cache /\ c \in MaybeCoin /\ have \in BOOLEAN
    BY CoinTypes, OperationTypes DEF TypeOK, TipAfterFetch, MaybeCoin
  <2>2. AddCoin(t, o, c, have) \in Cache /\ AddCoin(v, o, c, have) \in Cache
    <3> HIDE DEF have, t, v
    <3> QED BY Zenon, <2>1, OperationTypes
  <2> QED
    BY Zenon, <1>12, <2>1, <2>2 DEF TypeOK, AddCoinChecked, hashes
<1>13. ASSUME NEW o \in Outpoints, NEW c \in Coins, LoadSnapshotCoin(o, c) PROVE TypeOK'
  BY <1>13, OperationTypes DEF TypeOK, LoadSnapshotCoin, hashes, MaybeCoin
<1>14. CASE UNCHANGED vars
  BY <1>14 DEF TypeOK, vars
<1> QED
  BY <1>1, <1>2, <1>3, <1>4, <1>5, <1>6, <1>7, <1>8, <1>9, <1>10, <1>11, <1>12, <1>13, <1>14
     DEF Next

-----------------------------------------------------------------------------
(* What each operation on one cache does to the coin a reader sees, entry  *)
(* by entry.                                                               *)

\* The entry of o in cache c is consistent with the coin b of its base.
Sound(c, o, b) ==
    Has(c, o) => /\ c[o].fresh \/ c[o].coin = NoCoin => c[o].dirty
                 /\ ~(c[o].fresh /\ c[o].coin = NoCoin)
                 /\ c[o].fresh => b = NoCoin
                 /\ ~c[o].dirty => c[o].coin = b

\* g differs from c at most at o, is sound there, and shows coin x there.
Shows(g, c, o, b, x) ==
    /\ Sound(g, o, b)
    /\ CoinIn(g, o, b) = x
    /\ \A p \in Outpoints : p # o => g[p] = c[p]

\* FetchCoin does not change what a reader sees.
LEMMA FetchEffect ==
    ASSUME NEW c \in Cache, NEW o \in Outpoints, NEW b \in MaybeCoin, Sound(c, o, b)
    PROVE  Shows(FetchCoin(c, o, b), c, o, b, CoinIn(c, o, b))
  BY NoEntryAssumption, EntryFacts DEF Shows, Sound, FetchCoin, CoinIn, Has, Cache

\* AddCoin does not throw under its contract and shows the new coin.
LEMMA AddEffect ==
    ASSUME NEW c \in Cache, NEW o \in Outpoints, NEW b \in MaybeCoin, Sound(c, o, b),
           NEW x \in Coins, NEW w \in BOOLEAN, w \/ CoinIn(c, o, b) = NoCoin
    PROVE  /\ ~AddCoinThrows(c, o, w)
           /\ Shows(AddCoin(c, o, x, w), c, o, b, x)
<1>1. ~AddCoinThrows(c, o, w)
  BY DEF AddCoinThrows, Emplaced, CoinIn, Has
<1>2. CASE Has(c, o)
  <2>1. AddCoin(c, o, x, w)[o] =
            [coin |-> x, dirty |-> TRUE, fresh |-> c[o].fresh \/ (~w /\ ~c[o].dirty)]
    BY <1>2 DEF AddCoin, Emplaced, Cache
  <2>2. Has(AddCoin(c, o, x, w), o)
    BY <2>1, <1>2, NoEntryAssumption, EntryFacts DEF Has, MaybeCoin
  <2> QED
    BY <1>1, <1>2, <2>1, <2>2, NoCoinAssumption, EntryFacts
       DEF Shows, Sound, AddCoin, CoinIn, Cache
<1>3. CASE ~Has(c, o)
  <2>1. AddCoin(c, o, x, w)[o] = [coin |-> x, dirty |-> TRUE, fresh |-> ~w]
    BY <1>3 DEF AddCoin, Emplaced, Cache
  <2>2. Has(AddCoin(c, o, x, w), o)
    BY Zenon, <2>1, NoEntryAssumption, EntryFacts DEF Has, MaybeCoin
  <2> QED
    BY Zenon, <1>1, <1>3, <2>1, <2>2, NoCoinAssumption DEF Shows, Sound, AddCoin, CoinIn, Cache
<1> QED
  BY <1>2, <1>3

\* After SpendCoin no reader sees a coin, whether or not the entry was
\* erased for being FRESH.
LEMMA SpendEffect ==
    ASSUME NEW c \in Cache, NEW o \in Outpoints, NEW b \in MaybeCoin, Sound(c, o, b)
    PROVE  Shows(SpendCoin(c, o, b), c, o, b, NoCoin)
<1> DEFINE f == FetchCoin(c, o, b)
<1>1. f \in Cache /\ Shows(f, c, o, b, CoinIn(c, o, b))
  BY Zenon, FetchEffect, OperationTypes
<1>2. ~Has(f, o) => b = NoCoin
  BY Zenon, EntryFacts, NoEntryAssumption DEF FetchCoin, Has, Cache
<1>3. SpendCoin(c, o, b) = IF ~Has(f, o) THEN f
                           ELSE IF f[o].fresh THEN [f EXCEPT ![o] = NoEntry]
                           ELSE [f EXCEPT ![o] = [coin |-> NoCoin, dirty |-> TRUE, fresh |-> FALSE]]
  BY DEF SpendCoin
<1>4. [coin |-> NoCoin, dirty |-> TRUE, fresh |-> FALSE] # NoEntry
  BY Zenon, NoEntryAssumption, EntryFacts DEF MaybeCoin
<1> HIDE DEF f
<1> QED
  BY <1>1, <1>2, <1>3, <1>4 DEF Shows, Sound, CoinIn, Has, Cache

\* Uncache drops only an entry that repeats its base.
LEMMA UncacheEffect ==
    ASSUME NEW c \in Cache, NEW o \in Outpoints, NEW b \in MaybeCoin, Sound(c, o, b)
    PROVE  Shows(Uncache(c, o), c, o, b, CoinIn(c, o, b))
  BY DEF Shows, Sound, Uncache, CoinIn, Has, Cache

\* A coin of a snapshot, emplaced where there was none, is seen.
LEMMA EmplaceEffect ==
    ASSUME NEW c \in Cache, NEW o \in Outpoints, NEW x \in Coins, ~Has(c, o)
    PROVE  Shows(EmplaceCoinInternalDANGER(c, o, x), c, o, NoCoin, x)
  BY NoEntryAssumption, NoCoinAssumption, EntryFacts
     DEF Shows, Sound, EmplaceCoinInternalDANGER, CoinIn, Has, Cache, MaybeCoin

\* BatchWrite into a parent cache: no throw, and the parent then shows what
\* the child showed.
LEMMA BatchWriteEffect ==
    ASSUME NEW p \in Cache, NEW c \in Cache, NEW o \in Outpoints, NEW d \in MaybeCoin,
           Sound(p, o, d), Sound(c, o, CoinIn(p, o, d))
    PROVE  /\ ~(Dirty(c, o) /\ c[o].fresh /\ Has(p, o) /\ p[o].coin # NoCoin)
           /\ Sound(BatchWrite(p, c), o, d)
           /\ CoinIn(BatchWrite(p, c), o, d) = CoinIn(c, o, CoinIn(p, o, d))
<1>1. CASE ~Dirty(c, o)
  BY <1>1 DEF BatchWrite, Sound, CoinIn, Has, Dirty
<1>2. CASE Dirty(c, o) /\ ~Has(p, o)
  <2>1. BatchWrite(p, c)[o] = IF c[o].fresh /\ c[o].coin = NoCoin THEN NoEntry
                              ELSE [coin |-> c[o].coin, dirty |-> TRUE, fresh |-> c[o].fresh]
    BY <1>2 DEF BatchWrite, Merge, Has
  <2>2. [coin |-> c[o].coin, dirty |-> TRUE, fresh |-> c[o].fresh] # NoEntry
    BY Zenon, <1>2, NoEntryAssumption, EntryFacts DEF Dirty
  <2> QED
    BY <1>2, <2>1, <2>2 DEF Sound, CoinIn, Has, Dirty
<1>3. CASE Dirty(c, o) /\ Has(p, o)
  <2>1. BatchWrite(p, c)[o] = IF p[o].fresh /\ c[o].coin = NoCoin THEN NoEntry
                              ELSE [coin |-> c[o].coin, dirty |-> TRUE, fresh |-> p[o].fresh]
    BY <1>3 DEF BatchWrite, Merge, Has
  <2>2. [coin |-> c[o].coin, dirty |-> TRUE, fresh |-> p[o].fresh] # NoEntry
    BY Zenon, <1>3, NoEntryAssumption, EntryFacts DEF Dirty
  <2> QED
    BY <1>3, <2>1, <2>2 DEF Sound, CoinIn, Has, Dirty
<1> QED
  BY <1>1, <1>2, <1>3

\* Writing the tip to the database: the database then holds what the tip
\* showed, and the entries Sync keeps repeat it.
LEMMA WriteEffect ==
    ASSUME NEW c \in Cache, NEW d \in [Outpoints -> MaybeCoin], NEW o \in Outpoints,
           Sound(c, o, d[o])
    PROVE  /\ BatchWriteDB(d, c)[o] = CoinIn(c, o, d[o])
           /\ Sound(NextAndMaybeErase(c), o, BatchWriteDB(d, c)[o])
           /\ CoinIn(NextAndMaybeErase(c), o, BatchWriteDB(d, c)[o]) = BatchWriteDB(d, c)[o]
<1>1. BatchWriteDB(d, c)[o] = CoinIn(c, o, d[o])
  BY EntryFacts DEF BatchWriteDB, CoinIn, Dirty, Sound, Has
<1>2. CASE Has(c, o)
  <2>1. [coin |-> c[o].coin, dirty |-> FALSE, fresh |-> FALSE] # NoEntry
    BY Zenon, <1>2, NoEntryAssumption, EntryFacts
  <2> QED
    BY <1>1, <1>2, <2>1 DEF NextAndMaybeErase, CoinIn, Sound, Has
<1>3. CASE ~Has(c, o)
  BY <1>1, <1>3 DEF NextAndMaybeErase, CoinIn, Sound, Has
<1> QED
  BY <1>1, <1>2, <1>3

-----------------------------------------------------------------------------
(* The invariant, restated entry by entry.                                 *)

SoundInv == \A o \in Outpoints : Sound(tip, o, db[o]) /\ Sound(view, o, TipCoin(o))

IInv == TypeOK /\ SoundInv /\ ClosedViewIsEmpty /\ NeverThrows

\* The invariant the properties are conjuncts of, in the form the steps use.
LEMMA CacheInvIsIInv == CacheInv <=> IInv
  BY DEF CacheInv, IInv, SoundInv, Sound, SanityCheck, ValidFlags, FreshIsAbsentBelow,
         CleanMatchesBelow

\* An empty cache is sound over any base.
LEMMA EmptySound ==
    \A o \in Outpoints : \A b : Sound(EmptyCache, o, b) /\ CoinIn(EmptyCache, o, b) = b
  BY DEF Sound, CoinIn, EmptyCache, Has

\* Soundness and the visible coin depend only on the entry itself.
LEMMA SameEntry ==
    ASSUME NEW g, NEW c, NEW p, NEW b, g[p] = c[p]
    PROVE  (Sound(g, p, b) <=> Sound(c, p, b)) /\ CoinIn(g, p, b) = CoinIn(c, p, b)
  BY DEF Sound, CoinIn, Has

\* A step that leaves the database alone and shows coin x at o in the tip.
LEMMA TipShows ==
    ASSUME IInv, NEW o \in Outpoints, NEW x, db' = db, Shows(tip', tip, o, db[o], x)
    PROVE  \A p \in Outpoints : /\ Sound(tip', p, db'[p])
                                /\ TipCoin(p)' = IF p = o THEN x ELSE TipCoin(p)
<1> TAKE p \in Outpoints
<1>1. CASE p = o
  BY <1>1 DEF Shows, TipCoin
<1>2. CASE p # o
  <2>1. tip'[p] = tip[p]
    BY <1>2 DEF Shows
  <2> QED
    BY <1>2, <2>1, SameEntry DEF IInv, SoundInv, TipCoin
<1> QED
  BY <1>1, <1>2

\* A step that changes no tip coin and shows coin x at o in the view.
LEMMA ViewShows ==
    ASSUME IInv, NEW o \in Outpoints, NEW x,
           \A p \in Outpoints : TipCoin(p)' = TipCoin(p),
           Shows(view', view, o, TipCoin(o), x)
    PROVE  \A p \in Outpoints : /\ Sound(view', p, TipCoin(p)')
                                /\ ViewCoin(p)' = IF p = o THEN x ELSE ViewCoin(p)
<1> TAKE p \in Outpoints
<1>1. CASE p = o
  BY <1>1 DEF Shows, ViewCoin
<1>2. CASE p # o
  <2>1. view'[p] = view[p]
    BY <1>2 DEF Shows
  <2> QED
    BY <1>2, <2>1, SameEntry DEF IInv, SoundInv, ViewCoin
<1> QED
  BY <1>1, <1>2

\* Reading through to the tip changes no coin the tip shows.
LEMMA TipFetch ==
    ASSUME IInv, NEW o \in Outpoints, db' = db, tip' = TipAfterFetch(o)
    PROVE  \A p \in Outpoints : Sound(tip', p, db'[p]) /\ TipCoin(p)' = TipCoin(p)
<1>1. CASE tip' = tip
  BY <1>1 DEF IInv, SoundInv, TipCoin
<1>2. CASE tip' = FetchCoin(tip, o, db[o])
  <2>1. tip \in Cache /\ db[o] \in MaybeCoin /\ Sound(tip, o, db[o])
    BY DEF IInv, TypeOK, SoundInv
  <2>2. Shows(tip', tip, o, db[o], TipCoin(o))
    BY <1>2, <2>1, FetchEffect DEF TipCoin
  <2> QED
    BY <2>2, TipShows
<1> QED
  BY <1>1, <1>2 DEF TipAfterFetch

-----------------------------------------------------------------------------
(* One lemma per operation: it keeps the invariant and is the step of      *)
(* CoinsView of the same meaning, or no step at all.                       *)

AbsTip == [o \in Outpoints |-> TipCoin(o)]
AbsView == IF live THEN [o \in Outpoints |-> ViewCoin(o)] ELSE <<>>
AbsTop == IF live THEN AbsView ELSE AbsTip

\* Under an open view, a step that reads through the tip and shows x at o
\* in the view.
LEMMA WriteLiveView ==
    ASSUME IInv, TypeOK', live, NEW o \in Outpoints, NEW x,
           live' = live, db' = db, threw' = threw, tip' = TipAfterFetch(o) \/ tip' = tip,
           Shows(view', view, o, TipCoin(o), x)
    PROVE  /\ IInv'
           /\ AbsTip' = AbsTip
           /\ AbsView' = [AbsView EXCEPT ![o] = x]
<1>1. \A p \in Outpoints : Sound(tip', p, db'[p]) /\ TipCoin(p)' = TipCoin(p)
  BY TipFetch DEF IInv, SoundInv, TipCoin
<1>2. \A p \in Outpoints : /\ Sound(view', p, TipCoin(p)')
                           /\ ViewCoin(p)' = IF p = o THEN x ELSE ViewCoin(p)
  BY <1>1, ViewShows
<1>3. SoundInv'
  BY <1>1, <1>2 DEF SoundInv
<1>4. IInv'
  BY <1>3 DEF IInv, ClosedViewIsEmpty, NeverThrows
<1>5. AbsTip' = AbsTip
  BY <1>1 DEF AbsTip
<1>6. AbsView' = [AbsView EXCEPT ![o] = x]
  BY Zenon, <1>2 DEF AbsView
<1> QED
  BY <1>4, <1>5, <1>6

\* With no view open, a step that shows x at o in the tip.
LEMMA WriteBareTip ==
    ASSUME IInv, TypeOK', ~live, NEW o \in Outpoints, NEW x,
           live' = live, db' = db, threw' = threw, view' = view, viewHash' = viewHash,
           Shows(tip', tip, o, db[o], x)
    PROVE  /\ IInv'
           /\ AbsTip' = [AbsTip EXCEPT ![o] = x]
           /\ AbsView' = AbsView
<1>1. \A p \in Outpoints : /\ Sound(tip', p, db'[p])
                           /\ TipCoin(p)' = IF p = o THEN x ELSE TipCoin(p)
  BY Zenon, TipShows
<1>2. \A p \in Outpoints : Sound(view', p, TipCoin(p)')
  BY EmptySound DEF IInv, ClosedViewIsEmpty
<1>3. SoundInv'
  BY <1>1, <1>2 DEF SoundInv
<1>4. IInv'
  BY <1>3 DEF IInv, ClosedViewIsEmpty, NeverThrows
<1>5. AbsTip' = [AbsTip EXCEPT ![o] = x]
  BY Zenon, <1>1 DEF AbsTip
<1> QED
  BY <1>4, <1>5 DEF AbsView

\* The facts about the state that every operation below starts from.
LEMMA StateFacts ==
    ASSUME IInv, NEW o \in Outpoints
    PROVE  /\ tip \in Cache /\ view \in Cache
           /\ db[o] \in MaybeCoin /\ TipCoin(o) \in MaybeCoin
           /\ Sound(tip, o, db[o]) /\ Sound(view, o, TipCoin(o))
           /\ AbsTop[o] = TopCoin(o)
  BY CoinTypes DEF IInv, TypeOK, SoundInv, AbsTop, AbsTip, AbsView, TopCoin

\* Reads fill caches and return the coin of the topmost level.
LEMMA GetCoinStep ==
    ASSUME IInv, TypeOK', NEW o \in Outpoints, GetCoin(o)
    PROVE  IInv' /\ Views!Read(o)
<1>1. ret' = AbsTop[o] /\ UNCHANGED <<live, db, dbHash, tipHash, viewHash, threw>>
  BY StateFacts DEF GetCoin, hashes
<1>2. CASE live
  <2>1. Shows(view', view, o, TipCoin(o), ViewCoin(o))
    BY <1>2, StateFacts, FetchEffect DEF GetCoin, ViewCoin
  <2>2. IInv' /\ AbsTip' = AbsTip /\ AbsView' = [AbsView EXCEPT ![o] = ViewCoin(o)]
    BY <1>1, <1>2, <2>1, WriteLiveView DEF GetCoin
  <2>3. AbsView' = AbsView
    BY <1>2, <2>2 DEF AbsView
  <2> QED
    BY <1>1, <2>2, <2>3 DEF Views!Read, Views!Top, AbsTop, AbsTip, AbsView, TipBest, ViewBest
<1>3. CASE ~live
  <2>1. Shows(tip', tip, o, db[o], TipCoin(o))
    BY <1>3, StateFacts, FetchEffect DEF GetCoin, TipCoin, TipAfterFetch
  <2>2. IInv' /\ AbsTip' = [AbsTip EXCEPT ![o] = TipCoin(o)] /\ AbsView' = AbsView
    BY <1>1, <1>3, <2>1, WriteBareTip DEF GetCoin
  <2>3. AbsTip' = AbsTip
    BY Zenon, <2>2 DEF AbsTip
  <2> QED
    BY <1>1, <2>2, <2>3 DEF Views!Read, Views!Top, AbsTop, AbsTip, AbsView, TipBest, ViewBest
<1> QED
  BY <1>2, <1>3

\* A step that shows x at o in the topmost level and touches no best block
\* keeps the invariant and writes the topmost abstract level.
LEMMA WriteTop ==
    ASSUME IInv, TypeOK', NEW o \in Outpoints, NEW x,
           UNCHANGED <<live, db, threw, hashes>>,
           live => /\ tip' = TipAfterFetch(o) \/ tip' = tip
                   /\ Shows(view', view, o, TipCoin(o), x),
           ~live => view' = view /\ Shows(tip', tip, o, db[o], x)
    PROVE  IInv' /\ Views!SetTop([AbsTop EXCEPT ![o] = x])
<1>1. CASE live
  <2>1. IInv' /\ AbsTip' = AbsTip /\ AbsView' = [AbsView EXCEPT ![o] = x]
    BY <1>1, WriteLiveView DEF hashes
  <2> QED
    BY <1>1, <2>1 DEF Views!SetTop, AbsTop, AbsTip, AbsView
<1>2. CASE ~live
  <2>1. IInv' /\ AbsTip' = [AbsTip EXCEPT ![o] = x] /\ AbsView' = AbsView
    BY <1>2, WriteBareTip DEF hashes
  <2> QED
    BY <1>2, <2>1 DEF Views!SetTop, AbsTop, AbsTip, AbsView
<1> QED
  BY <1>1, <1>2

\* Spending removes the coin from the topmost level only and returns it.
LEMMA SpendCoinStep ==
    ASSUME IInv, TypeOK', NEW o \in Outpoints, DoSpendCoin(o)
    PROVE  IInv' /\ Views!Spend(o)
<1>1. ret' = AbsTop[o] /\ UNCHANGED <<live, db, threw, hashes>>
  BY StateFacts DEF DoSpendCoin
<1>2. live => tip' = TipAfterFetch(o) /\ Shows(view', view, o, TipCoin(o), NoCoin)
  BY StateFacts, SpendEffect DEF DoSpendCoin
<1>3. ~live => view' = view /\ Shows(tip', tip, o, db[o], NoCoin)
  BY StateFacts, SpendEffect DEF DoSpendCoin
<1>4. IInv' /\ Views!SetTop([AbsTop EXCEPT ![o] = NoCoin])
  BY <1>1, <1>2, <1>3, WriteTop
<1> QED
  BY <1>1, <1>4 DEF Views!Spend, Views!Top, AbsTop, AbsTip, AbsView, hashes, TipBest, ViewBest

\* AddCoin under its contract never throws and adds to the topmost level.
LEMMA AddCoinStep ==
    ASSUME IInv, TypeOK', NEW o \in Outpoints, NEW c \in Coins, NEW w \in BOOLEAN,
           DoAddCoin(o, c, w)
    PROVE  IInv' /\ Views!Add(o, c)
<1>1. UNCHANGED <<live, db, hashes, ret>> /\ (w \/ TopCoin(o) = NoCoin)
  BY Zenon DEF DoAddCoin
<1>2. live => /\ ~AddCoinThrows(view, o, w)
              /\ Shows(AddCoin(view, o, c, w), view, o, TipCoin(o), c)
  BY Zenon, <1>1, StateFacts, AddEffect DEF TopCoin, ViewCoin
<1>3. ~live => /\ ~AddCoinThrows(tip, o, w)
               /\ Shows(AddCoin(tip, o, c, w), tip, o, db[o], c)
  BY <1>1, StateFacts, AddEffect DEF TopCoin, TipCoin
<1>4. /\ threw' = threw
      /\ live => tip' = tip /\ Shows(view', view, o, TipCoin(o), c)
      /\ ~live => view' = view /\ Shows(tip', tip, o, db[o], c)
  BY <1>2, <1>3 DEF DoAddCoin
<1>5. IInv' /\ Views!SetTop([AbsTop EXCEPT ![o] = c])
  BY <1>1, <1>4, WriteTop
<1> QED
  BY <1>1, <1>5 DEF Views!Add, Views!Top, AbsTop, AbsTip, AbsView, hashes, TipBest, ViewBest

\* Asking HaveCoin first always satisfies AddCoin's contract.
LEMMA AddCoinCheckedStep ==
    ASSUME IInv, TypeOK', NEW o \in Outpoints, NEW c \in Coins, AddCoinChecked(o, c)
    PROVE  IInv' /\ Views!Add(o, c)
<1> DEFINE have == TopCoin(o) # NoCoin
           t == TipAfterFetch(o)
           v == FetchCoin(view, o, TipCoin(o))
<1>1. UNCHANGED <<live, db, hashes, ret>> /\ have \in BOOLEAN
  BY Zenon DEF AddCoinChecked
<1>2. live => /\ ~AddCoinThrows(v, o, have)
              /\ Shows(AddCoin(v, o, c, have), view, o, TipCoin(o), c)
  <2> SUFFICES ASSUME live PROVE /\ ~AddCoinThrows(v, o, have)
                                 /\ Shows(AddCoin(v, o, c, have), view, o, TipCoin(o), c)
    BY Zenon
  <2>1. v \in Cache /\ Shows(v, view, o, TipCoin(o), ViewCoin(o))
    BY Zenon, StateFacts, FetchEffect, OperationTypes DEF ViewCoin
  <2>2. Sound(v, o, TipCoin(o)) /\ (have \/ CoinIn(v, o, TipCoin(o)) = NoCoin)
    BY <2>1 DEF Shows, TopCoin
  <2>3. ~AddCoinThrows(v, o, have) /\ Shows(AddCoin(v, o, c, have), v, o, TipCoin(o), c)
    <3> HIDE DEF v, have
    <3> QED BY <1>1, <2>1, <2>2, StateFacts, AddEffect
  <2> QED
    BY <2>1, <2>3 DEF Shows
<1>3. ~live => /\ ~AddCoinThrows(t, o, have)
               /\ Shows(AddCoin(t, o, c, have), tip, o, db[o], c)
  <2> SUFFICES ASSUME ~live PROVE /\ ~AddCoinThrows(t, o, have)
                                  /\ Shows(AddCoin(t, o, c, have), tip, o, db[o], c)
    OBVIOUS
  <2>1. t \in Cache /\ Shows(t, tip, o, db[o], TipCoin(o))
    BY Zenon, StateFacts, FetchEffect, OperationTypes DEF TipCoin, TipAfterFetch
  <2>2. Sound(t, o, db[o]) /\ (have \/ CoinIn(t, o, db[o]) = NoCoin)
    BY <2>1 DEF Shows, TopCoin
  <2>3. ~AddCoinThrows(t, o, have) /\ Shows(AddCoin(t, o, c, have), t, o, db[o], c)
    <3> HIDE DEF t, have
    <3> QED BY <1>1, <2>1, <2>2, StateFacts, AddEffect
  <2> QED
    BY <2>1, <2>3 DEF Shows
<1>4. /\ threw' = threw
      /\ live => tip' = TipAfterFetch(o) /\ Shows(view', view, o, TipCoin(o), c)
      /\ ~live => view' = view /\ Shows(tip', tip, o, db[o], c)
  BY <1>2, <1>3 DEF AddCoinChecked
<1>5. IInv' /\ Views!SetTop([AbsTop EXCEPT ![o] = c])
  BY <1>1, <1>4, WriteTop
<1> QED
  BY <1>1, <1>5 DEF Views!Add, Views!Top, AbsTop, AbsTip, AbsView, hashes, TipBest, ViewBest

\* A snapshot coin is added to the tip.
LEMMA LoadSnapshotStep ==
    ASSUME IInv, TypeOK', NEW o \in Outpoints, NEW c \in Coins, LoadSnapshotCoin(o, c)
    PROVE  IInv' /\ Views!Add(o, c)
<1>1. UNCHANGED <<live, db, hashes, ret, threw, view>> /\ ~live /\ db[o] = NoCoin
  BY Zenon DEF LoadSnapshotCoin, TipCoin, CoinIn
<1>2. Shows(tip', tip, o, db[o], c)
  BY <1>1, StateFacts, EmplaceEffect DEF LoadSnapshotCoin
<1>3. IInv' /\ Views!SetTop([AbsTop EXCEPT ![o] = c])
  BY <1>1, <1>2, WriteTop
<1> QED
  BY Zenon, <1>1, <1>3 DEF Views!Add, Views!Top, AbsTop, AbsTip, AbsView, hashes, TipBest, ViewBest

\* Uncache is invisible.
LEMMA UncacheStep ==
    ASSUME IInv, TypeOK', NEW o \in Outpoints, UncacheTip(o)
    PROVE  IInv' /\ UNCHANGED Views!vars
<1>1. UNCHANGED <<live, db, hashes, ret, threw, view>> /\ ~live
  BY Zenon DEF UncacheTip
<1>2. Shows(tip', tip, o, db[o], TipCoin(o))
  BY <1>1, StateFacts, UncacheEffect DEF UncacheTip, TipCoin
<1>3. IInv' /\ AbsTip' = [AbsTip EXCEPT ![o] = TipCoin(o)] /\ AbsView' = AbsView
  BY <1>1, <1>2, WriteBareTip DEF hashes
<1>4. AbsTip' = AbsTip
  BY Zenon, <1>3 DEF AbsTip
<1> QED
  BY <1>1, <1>3, <1>4 DEF Views!vars, AbsTip, AbsView, hashes, TipBest, ViewBest

\* The best block is read through the levels and set on the topmost one.
LEMMA HashSteps ==
    ASSUME IInv, TypeOK'
    PROVE  /\ GetBestBlock => IInv' /\ Views!ReadHash
           /\ \A h \in Hashes : SetBestBlock(h) => IInv' /\ Views!SetHash(h)
<1>1. ASSUME GetBestBlock PROVE IInv' /\ Views!ReadHash
  <2>1. UNCHANGED <<live, db, tip, view, dbHash, threw>>
    BY <1>1 DEF GetBestBlock
  <2>2. ~live => viewHash' = NullHash
    BY <1>1 DEF GetBestBlock, IInv, ClosedViewIsEmpty
  <2>3. IInv'
    BY <2>1, <2>2 DEF IInv, SoundInv, TipCoin, ClosedViewIsEmpty, NeverThrows
  <2>4. UNCHANGED <<AbsTip, AbsView>>
    BY <2>1 DEF AbsTip, AbsView, TipCoin, ViewCoin
  <2>5. TipBest' = TipBest /\ (live => ViewBest' = ViewBest)
    BY <1>1 DEF GetBestBlock, TipBest, ViewBest
  <2> QED
    BY <1>1, <2>1, <2>3, <2>4, <2>5 DEF Views!ReadHash, Views!TopHash, GetBestBlock, AbsTip, AbsView
<1>2. ASSUME NEW h \in Hashes, SetBestBlock(h) PROVE IInv' /\ Views!SetHash(h)
  <2>1. UNCHANGED <<live, db, tip, view, dbHash, ret, threw>>
    BY <1>2 DEF SetBestBlock
  <2>2. IInv'
    BY <1>2, <2>1 DEF IInv, SoundInv, TipCoin, ClosedViewIsEmpty, NeverThrows, SetBestBlock
  <2>3. UNCHANGED <<AbsTip, AbsView>>
    BY <2>1 DEF AbsTip, AbsView, TipCoin, ViewCoin
  <2> QED
    BY <1>2, <2>1, <2>2, <2>3, NullHashAssumption
       DEF Views!SetHash, SetBestBlock, AbsTip, AbsView, TipBest, ViewBest
<1> QED
  BY <1>1, <1>2

\* Opening a view copies the tip; dropping it changes no other level.
LEMMA OpenDropSteps ==
    ASSUME IInv, TypeOK'
    PROVE  (OpenView => IInv' /\ Views!OpenView) /\ (DropView => IInv' /\ Views!CloseView)
<1>1. ASSUME OpenView PROVE IInv' /\ Views!OpenView
  <2>1. UNCHANGED <<db, tip, view, hashes, ret, threw>> /\ ~live /\ live'
        /\ view = EmptyCache /\ viewHash = NullHash
    BY <1>1 DEF OpenView, IInv, ClosedViewIsEmpty
  <2>2. IInv'
    BY <2>1 DEF IInv, SoundInv, TipCoin, ClosedViewIsEmpty, NeverThrows
  <2>3. AbsTip' = AbsTip /\ AbsView' = AbsTip
    BY <2>1, EmptySound DEF AbsTip, AbsView, TipCoin, ViewCoin
  <2> QED
    BY <1>1, <2>1, <2>2, <2>3 DEF Views!OpenView, OpenView, AbsTip, AbsView, hashes, TipBest, ViewBest
<1>2. ASSUME DropView PROVE IInv' /\ Views!CloseView
  <2>1. UNCHANGED <<db, tip, dbHash, tipHash, ret, threw>> /\ live /\ ~live'
        /\ view' = EmptyCache /\ viewHash' = NullHash
    BY <1>2 DEF DropView
  <2>2. IInv'
    BY <2>1, EmptySound DEF IInv, SoundInv, TipCoin, ClosedViewIsEmpty, NeverThrows
  <2>3. AbsTip' = AbsTip
    BY Zenon, <2>1 DEF AbsTip, TipCoin
  <2> QED
    BY <1>2, <2>1, <2>2, <2>3 DEF Views!CloseView, Views!NoView, DropView, AbsTip, AbsView, TipBest
<1> QED
  BY <1>1, <1>2

\* Flushing the view never throws and makes the tip what the view was.
LEMMA FlushViewStep ==
    ASSUME IInv, TypeOK', FlushView
    PROVE  IInv' /\ Views!CommitView
<1>1. \A o \in Outpoints :
          /\ ~(Dirty(view, o) /\ view[o].fresh /\ Has(tip, o) /\ tip[o].coin # NoCoin)
          /\ Sound(BatchWrite(tip, view), o, db[o])
          /\ CoinIn(BatchWrite(tip, view), o, db[o]) = ViewCoin(o)
  BY Zenon, StateFacts, BatchWriteEffect DEF TipCoin, ViewCoin
<1>2. ~BatchWriteThrows(tip, view)
  BY <1>1 DEF BatchWriteThrows
<1>3. /\ threw' = threw /\ tip' = BatchWrite(tip, view) /\ tipHash' = viewHash
      /\ view' = EmptyCache /\ viewHash' = NullHash /\ ~live' /\ live
      /\ UNCHANGED <<db, dbHash, ret>> /\ viewHash # NullHash
  BY Zenon, <1>2 DEF FlushView
<1>4. \A o \in Outpoints : Sound(tip', o, db'[o]) /\ TipCoin(o)' = ViewCoin(o)
  BY <1>1, <1>3 DEF TipCoin
<1>5. IInv'
  BY <1>3, <1>4, EmptySound DEF IInv, SoundInv, ClosedViewIsEmpty, NeverThrows
<1>6. AbsTip' = AbsView
  BY Zenon, <1>3, <1>4 DEF AbsTip, AbsView
<1> QED
  BY Zenon, <1>3, <1>5, <1>6, FlushView DEF FlushView, Views!CommitView, Views!NoView, AbsTip, AbsView, TipBest, ViewBest

\* Flush and Sync of the tip write exactly the tip's UTXO set.
LEMMA WriteTipStep ==
    ASSUME IInv, TypeOK', FlushTip \/ SyncTip
    PROVE  IInv' /\ Views!CommitTip
<1>1. /\ ~live /\ TipBest # NullHash /\ db' = BatchWriteDB(db, tip)
      /\ dbHash' = TipBest /\ tipHash' = TipBest
      /\ UNCHANGED <<live, view, viewHash, ret, threw>>
      /\ tip' = EmptyCache \/ tip' = NextAndMaybeErase(tip)
  BY Zenon DEF FlushTip, SyncTip, WriteTip
<1>2. \A o \in Outpoints :
          /\ BatchWriteDB(db, tip)[o] = TipCoin(o)
          /\ Sound(NextAndMaybeErase(tip), o, BatchWriteDB(db, tip)[o])
          /\ CoinIn(NextAndMaybeErase(tip), o, BatchWriteDB(db, tip)[o]) = TipCoin(o)
  BY StateFacts, WriteEffect DEF TipCoin, IInv, TypeOK
<1>3. \A o \in Outpoints : Sound(tip', o, db'[o]) /\ TipCoin(o)' = TipCoin(o)
  BY Zenon, <1>1, <1>2, EmptySound DEF TipCoin
<1>4. IInv'
  BY Zenon, <1>1, <1>3, EmptySound DEF IInv, SoundInv, ClosedViewIsEmpty, NeverThrows
<1>5. AbsTip' = AbsTip /\ db' = AbsTip
  BY Zenon, <1>1, <1>2, <1>3 DEF AbsTip, BatchWriteDB
<1> QED
  BY <1>1, <1>4, <1>5 DEF Views!CommitTip, AbsTip, AbsView, TipBest, ViewBest

-----------------------------------------------------------------------------
(* The theorems.                                                           *)

\* Every step of the caches keeps the invariant and is a step, or a
\* stutter, of the abstract views.
LEMMA EveryStep == IInv /\ [Next]_vars => IInv' /\ [Views!Next]_(Views!vars)
<1> SUFFICES ASSUME IInv, [Next]_vars PROVE IInv' /\ [Views!Next]_(Views!vars)
  OBVIOUS
<1>0. TypeOK'
  BY Zenon, TypeStep DEF IInv
<1>1. CASE UNCHANGED vars
  BY <1>1 DEF IInv, TypeOK, SoundInv, ClosedViewIsEmpty, NeverThrows, vars, Views!vars,
              TipCoin, ViewCoin, TipBest, ViewBest
<1>2. CASE OpenView
  BY <1>0, <1>2, OpenDropSteps DEF Views!Next
<1>3. CASE DropView
  BY <1>0, <1>3, OpenDropSteps DEF Views!Next
<1>4. CASE FlushView
  BY <1>0, <1>4, FlushViewStep DEF Views!Next
<1>5. CASE FlushTip \/ SyncTip
  BY <1>0, <1>5, WriteTipStep DEF Views!Next
<1>6. CASE GetBestBlock
  BY <1>0, <1>6, HashSteps DEF Views!Next
<1>7. ASSUME NEW h \in Hashes, SetBestBlock(h) PROVE IInv' /\ [Views!Next]_(Views!vars)
  BY <1>0, <1>7, HashSteps DEF Views!Next
<1>8. ASSUME NEW o \in Outpoints, GetCoin(o) PROVE IInv' /\ [Views!Next]_(Views!vars)
  BY <1>0, <1>8, GetCoinStep DEF Views!Next
<1>9. ASSUME NEW o \in Outpoints, DoSpendCoin(o) PROVE IInv' /\ [Views!Next]_(Views!vars)
  BY <1>0, <1>9, SpendCoinStep DEF Views!Next
<1>10. ASSUME NEW o \in Outpoints, UncacheTip(o) PROVE IInv' /\ [Views!Next]_(Views!vars)
  BY <1>0, <1>10, UncacheStep
<1>11. ASSUME NEW o \in Outpoints, NEW c \in Coins,
              \/ \E w \in BOOLEAN : DoAddCoin(o, c, w)
              \/ AddCoinChecked(o, c) \/ LoadSnapshotCoin(o, c)
       PROVE  IInv' /\ [Views!Next]_(Views!vars)
  <2>1. IInv' /\ Views!Add(o, c)
    BY <1>0, <1>11, AddCoinStep, AddCoinCheckedStep, LoadSnapshotStep
  <2> QED
    BY <2>1 DEF Views!Next
<1> QED
  BY <1>1, <1>2, <1>3, <1>4, <1>5, <1>6, <1>7, <1>8, <1>9, <1>10, <1>11 DEF Next

\* The initial state satisfies the invariant and maps to empty views.
LEMMA InitStep == Init => IInv /\ Views!Init
<1> SUFFICES ASSUME Init PROVE IInv /\ Views!Init
  BY Zenon
<1>1. TypeOK
  BY Zenon, EntryFacts DEF Init, TypeOK, MaybeCoin
<1>2. \A o \in Outpoints : TipCoin(o) = NoCoin
  BY Zenon, EmptySound DEF Init, TipCoin
<1>3. IInv
  BY <1>1, EmptySound DEF Init, IInv, SoundInv, ClosedViewIsEmpty, NeverThrows
<1> QED
  BY <1>2, <1>3 DEF Init, Views!Init, Views!NoView, TipBest

\* The whole invariant holds in every reachable state.
THEOREM CacheInvariant == Spec => []CacheInv
<1>1. Init => IInv
  BY InitStep
<1>2. IInv /\ [Next]_vars => IInv'
  BY EveryStep
<1> QED
  BY <1>1, <1>2, CacheInvIsIInv, PTL DEF Spec

\* FRESH entries never hide an unspent coin of the level below.
THEOREM FreshIsSafe == Spec => []FreshIsAbsentBelow
<1>1. CacheInv => FreshIsAbsentBelow
  BY DEF CacheInv
<1> QED
  BY <1>1, CacheInvariant, PTL

\* Every variable keeps its type: in particular a flag is never set on an
\* entry that is not in the map.
THEOREM TypeCorrect == Spec => []TypeOK
<1>1. CacheInv => TypeOK
  BY DEF CacheInv
<1> QED
  BY <1>1, CacheInvariant, PTL

\* Entries that are not DIRTY repeat the level below.
THEOREM CleanIsSafe == Spec => []CleanMatchesBelow
<1>1. CacheInv => CleanMatchesBelow
  BY DEF CacheInv
<1> QED
  BY <1>1, CacheInvariant, PTL

\* SanityCheck's assertion on the flags never fails.
THEOREM SanityHolds == Spec => []SanityCheck
<1>1. CacheInv => SanityCheck
  BY DEF CacheInv
<1> QED
  BY <1>1, CacheInvariant, PTL

\* Neither AddCoin nor BatchWrite ever throws its logic_error.
THEOREM NoLogicError == Spec => []NeverThrows
<1>1. CacheInv => NeverThrows
  BY DEF CacheInv
<1> QED
  BY <1>1, CacheInvariant, PTL

\* The caches implement the stack of full UTXO sets.
THEOREM CacheRefinesViews == Spec => RefinesViews
<1>1. Init => IInv /\ Views!Init
  BY InitStep
<1>2. IInv /\ [Next]_vars => IInv' /\ [Views!Next]_(Views!vars)
  BY EveryStep
<1> QED
  BY <1>1, <1>2, PTL DEF Spec, RefinesViews, Views!Spec
=============================================================================
