----------------------------- MODULE CoinsCache -----------------------------
(***************************************************************************)
(* CCoinsViewCache (coins.h, coins.cpp) as the node stacks it: a scratch   *)
(* view on CoinsTip on the coins database.  A level holds only the entries *)
(* it has touched, each with a DIRTY flag (may differ from the level below)*)
(* and a FRESH flag (the level below has no unspent coin for it).  All     *)
(* three levels are used under cs_main, one call at a time.                *)
(*                                                                         *)
(* db, dbHash: CCoinsViewDB, a map written by BatchWrite in one step here; *)
(*             its partial batches are the subject of ChainstateFlush.     *)
(* tip, tipHash / view, viewHash: cacheCoins and hashBlock of the caches.  *)
(* threw: one of the logic_errors of coins.cpp was thrown.                 *)
(***************************************************************************)
CONSTANTS Outpoints,  \* COutPoint
          Coins,      \* unspent, spendable Coin values
          Hashes,     \* block hashes
          NoCoin,     \* a spent (null) Coin, or an absent database key
          NullHash,   \* uint256() as a block hash
          NoEntry     \* "not in cacheCoins"

MaybeCoin == Coins \cup {NoCoin}
Entry == [coin : MaybeCoin, dirty : BOOLEAN, fresh : BOOLEAN]

ASSUME NoCoinAssumption == NoCoin \notin Coins
ASSUME NullHashAssumption == NullHash \notin Hashes
ASSUME NoEntryAssumption == NoEntry \notin Entry

VARIABLES live, db, tip, view, dbHash, tipHash, viewHash, ret, threw

vars == <<live, db, tip, view, dbHash, tipHash, viewHash, ret, threw>>
hashes == <<dbHash, tipHash, viewHash>>

-----------------------------------------------------------------------------
(* One cache: c is its cacheCoins, b the coin its base returns.            *)

Cache == [Outpoints -> Entry \cup {NoEntry}]
EmptyCache == [o \in Outpoints |-> NoEntry]

Has(c, o) == c[o] # NoEntry

\* What GetCoin returns for o, NoCoin standing for std::nullopt.
CoinIn(c, o, b) == IF Has(c, o) THEN c[o].coin ELSE b

\* cacheCoins after FetchCoin.  A base never returns a spent coin, so an
\* absent coin leaves the cache as it was.
FetchCoin(c, o, b) ==
    IF Has(c, o) \/ b = NoCoin
    THEN c
    ELSE [c EXCEPT ![o] = [coin |-> b, dirty |-> FALSE, fresh |-> FALSE]]

\* The entry AddCoin finds, default constructed when it was just emplaced.
Emplaced(c, o) ==
    IF Has(c, o) THEN c[o] ELSE [coin |-> NoCoin, dirty |-> FALSE, fresh |-> FALSE]

AddCoinThrows(c, o, overwrite) == ~overwrite /\ Emplaced(c, o).coin # NoCoin

\* Mutants: FRESH regardless of a spentness not yet flushed; FRESH even when
\* the caller said the coin may be overwritten.
AddCoinFreshAfterSpend(c, o, coin, overwrite) ==
    LET e == Emplaced(c, o)
    IN  [c EXCEPT ![o] = [coin |-> coin, dirty |-> TRUE, fresh |-> e.fresh \/ ~overwrite]]
AddCoinAlwaysFresh(c, o, coin, overwrite) ==
    [c EXCEPT ![o] = [coin |-> coin, dirty |-> TRUE, fresh |-> TRUE]]

AddCoin(c, o, coin, overwrite) ==
    LET e == Emplaced(c, o)
        fresh == ~overwrite /\ ~e.dirty
    IN  [c EXCEPT ![o] = [coin |-> coin, dirty |-> TRUE, fresh |-> e.fresh \/ fresh]]

\* Mutant: a FRESH entry is kept, spent, instead of being erased.
SpendCoinKeepsFresh(c, o, b) ==
    LET f == FetchCoin(c, o, b)
    IN  IF ~Has(f, o) THEN f
        ELSE [f EXCEPT ![o] = [coin |-> NoCoin, dirty |-> TRUE, fresh |-> f[o].fresh]]

SpendCoin(c, o, b) ==
    LET f == FetchCoin(c, o, b)
    IN  IF ~Has(f, o) THEN f
        ELSE IF f[o].fresh THEN [f EXCEPT ![o] = NoEntry]
        ELSE [f EXCEPT ![o] = [coin |-> NoCoin, dirty |-> TRUE, fresh |-> FALSE]]

EmplaceCoinInternalDANGER(c, o, coin) ==
    IF Has(c, o) THEN c
    ELSE [c EXCEPT ![o] = [coin |-> coin, dirty |-> TRUE, fresh |-> FALSE]]

\* Mutant: Uncache forgets to look at DIRTY.
UncacheDirty(c, o) == IF Has(c, o) /\ ~c[o].fresh THEN [c EXCEPT ![o] = NoEntry] ELSE c

Uncache(c, o) ==
    IF Has(c, o) /\ ~c[o].dirty /\ ~c[o].fresh THEN [c EXCEPT ![o] = NoEntry] ELSE c

-----------------------------------------------------------------------------
(* Writing a child cache into its base.                                    *)

Dirty(c, o) == Has(c, o) /\ c[o].dirty

BatchWriteThrows(parent, child) ==
    \E o \in Outpoints : /\ Dirty(child, o) /\ child[o].fresh
                         /\ Has(parent, o) /\ parent[o].coin # NoCoin

\* Mutant: a normal modification of the parent's entry without SetDirty.
MergeNotDirty(p, e) ==
    IF p = NoEntry
    THEN IF e.fresh /\ e.coin = NoCoin THEN NoEntry
         ELSE [coin |-> e.coin, dirty |-> TRUE, fresh |-> e.fresh]
    ELSE IF p.fresh /\ e.coin = NoCoin THEN NoEntry
         ELSE [coin |-> e.coin, dirty |-> p.dirty, fresh |-> p.fresh]

\* CCoinsViewCache::BatchWrite for one entry e, p being the parent's entry.
Merge(p, e) ==
    IF p = NoEntry
    THEN IF e.fresh /\ e.coin = NoCoin THEN NoEntry
         ELSE [coin |-> e.coin, dirty |-> TRUE, fresh |-> e.fresh]
    ELSE IF p.fresh /\ e.coin = NoCoin THEN NoEntry
         ELSE [coin |-> e.coin, dirty |-> TRUE, fresh |-> p.fresh]

BatchWrite(parent, child) ==
    [o \in Outpoints |-> IF Dirty(child, o) THEN Merge(parent[o], child[o]) ELSE parent[o]]

\* CCoinsViewDB::BatchWrite: a spent coin erases its key.
BatchWriteDB(d, child) ==
    [o \in Outpoints |-> IF Dirty(child, o) THEN child[o].coin ELSE d[o]]

\* Sync keeps the cache: the cursor erases the flagged entries that are
\* spent and clears the flags of the others.
NextAndMaybeErase(c) ==
    [o \in Outpoints |->
        IF Has(c, o) /\ (c[o].dirty \/ c[o].fresh)
        THEN IF c[o].coin = NoCoin THEN NoEntry
             ELSE [coin |-> c[o].coin, dirty |-> FALSE, fresh |-> FALSE]
        ELSE c[o]]

-----------------------------------------------------------------------------
(* The stack.                                                              *)

TipCoin(o) == CoinIn(tip, o, db[o])
ViewCoin(o) == CoinIn(view, o, TipCoin(o))
TopCoin(o) == IF live THEN ViewCoin(o) ELSE TipCoin(o)

TipBest == IF tipHash = NullHash THEN dbHash ELSE tipHash
ViewBest == IF viewHash = NullHash THEN TipBest ELSE viewHash

\* A miss in the view asks the tip, which caches the coin as well.
TipAfterFetch(o) == IF live /\ Has(view, o) THEN tip ELSE FetchCoin(tip, o, db[o])

Init == /\ live = FALSE
        /\ db = [o \in Outpoints |-> NoCoin]
        /\ tip = EmptyCache
        /\ view = EmptyCache
        /\ dbHash = NullHash
        /\ tipHash = NullHash
        /\ viewHash = NullHash
        /\ ret = NoCoin
        /\ threw = FALSE

\* CCoinsViewCache view(&CoinsTip()) in ConnectTip and DisconnectTip.
OpenView == /\ ~live
            /\ live' = TRUE
            /\ UNCHANGED <<db, tip, view, hashes, ret, threw>>

\* The scratch view goes out of scope unflushed: the block was rejected.
DropView == /\ live
            /\ live' = FALSE
            /\ view' = EmptyCache
            /\ viewHash' = NullHash
            /\ UNCHANGED <<db, tip, dbHash, tipHash, ret, threw>>

\* GetCoin, AccessCoin and HaveCoin on the topmost level.
GetCoin(o) ==
    /\ ret' = TopCoin(o)
    /\ tip' = TipAfterFetch(o)
    /\ view' = IF live THEN FetchCoin(view, o, TipCoin(o)) ELSE view
    /\ UNCHANGED <<live, db, hashes, threw>>

\* AddCoin on the topmost level.  The callers pass possible_overwrite for a
\* coinbase; otherwise ConnectBlock has established (BIP30, BIP34) that the
\* view has no unspent coin there.
DoAddCoin(o, coin, overwrite) ==
    LET top == IF live THEN view ELSE tip
    IN  /\ overwrite \/ TopCoin(o) = NoCoin
        /\ IF AddCoinThrows(top, o, overwrite)
           THEN threw' = TRUE /\ UNCHANGED <<tip, view>>
           ELSE /\ threw' = threw
                /\ IF live THEN view' = AddCoin(view, o, coin, overwrite) /\ tip' = tip
                           ELSE tip' = AddCoin(tip, o, coin, overwrite) /\ view' = view
        /\ UNCHANGED <<live, db, hashes, ret>>

\* AddCoins with check_for_overwrite, and ApplyTxInUndo: HaveCoin decides.
AddCoinChecked(o, coin) ==
    LET have == TopCoin(o) # NoCoin
        t == TipAfterFetch(o)
        v == FetchCoin(view, o, TipCoin(o))
        top == IF live THEN v ELSE t
    IN  /\ IF AddCoinThrows(top, o, have)
           THEN threw' = TRUE /\ UNCHANGED <<tip, view>>
           ELSE /\ threw' = threw
                /\ IF live THEN view' = AddCoin(v, o, coin, have) /\ tip' = t
                           ELSE tip' = AddCoin(t, o, coin, have) /\ view' = view
        /\ UNCHANGED <<live, db, hashes, ret>>

DoSpendCoin(o) ==
    /\ ret' = TopCoin(o)
    /\ IF live THEN view' = SpendCoin(view, o, TipCoin(o)) /\ tip' = TipAfterFetch(o)
               ELSE tip' = SpendCoin(tip, o, db[o]) /\ view' = view
    /\ UNCHANGED <<live, db, hashes, threw>>

\* Loading a snapshot: each coin of the file once, into a new chainstate.
LoadSnapshotCoin(o, coin) ==
    /\ ~live
    /\ TipCoin(o) = NoCoin
    /\ ~Has(tip, o)
    /\ tip' = EmplaceCoinInternalDANGER(tip, o, coin)
    /\ UNCHANGED <<live, db, view, hashes, ret, threw>>

SetBestBlock(h) ==
    /\ IF live THEN viewHash' = h /\ tipHash' = tipHash
               ELSE tipHash' = h /\ viewHash' = viewHash
    /\ UNCHANGED <<live, db, tip, view, dbHash, ret, threw>>

\* hashBlock is filled from the base on first use, at each level asked.
GetBestBlock ==
    /\ ret' = IF live THEN ViewBest ELSE TipBest
    /\ viewHash' = IF live THEN ViewBest ELSE viewHash
    /\ tipHash' = IF live /\ viewHash # NullHash THEN tipHash ELSE TipBest
    /\ UNCHANGED <<live, db, tip, view, dbHash, threw>>

\* view.Flush() at the end of ConnectTip and DisconnectTip.  ConnectBlock
\* and DisconnectBlock have called SetBestBlock on the view.
FlushView ==
    /\ live
    /\ viewHash # NullHash
    /\ IF BatchWriteThrows(tip, view)
       THEN threw' = TRUE /\ UNCHANGED <<live, tip, view, tipHash, viewHash>>
       ELSE /\ threw' = threw
            /\ tip' = BatchWrite(tip, view)
            /\ tipHash' = viewHash
            /\ view' = EmptyCache
            /\ viewHash' = NullHash
            /\ live' = FALSE
    /\ UNCHANGED <<db, dbHash, ret>>

\* FlushStateToDisk writes nothing while GetBestBlock() is null.
WriteTip(after) ==
    /\ ~live
    /\ TipBest # NullHash
    /\ db' = BatchWriteDB(db, tip)
    /\ dbHash' = TipBest
    /\ tipHash' = TipBest
    /\ tip' = after
    /\ UNCHANGED <<live, view, viewHash, ret, threw>>

FlushTip == WriteTip(EmptyCache)
SyncTip == WriteTip(NextAndMaybeErase(tip))

UncacheTip(o) ==
    /\ ~live
    /\ tip' = Uncache(tip, o)
    /\ UNCHANGED <<live, db, view, hashes, ret, threw>>

Next == \/ OpenView \/ DropView \/ FlushView \/ FlushTip \/ SyncTip \/ GetBestBlock
        \/ \E h \in Hashes : SetBestBlock(h)
        \/ \E o \in Outpoints : GetCoin(o) \/ DoSpendCoin(o) \/ UncacheTip(o)
        \/ \E o \in Outpoints, c \in Coins :
              \/ \E overwrite \in BOOLEAN : DoAddCoin(o, c, overwrite)
              \/ AddCoinChecked(o, c)
              \/ LoadSnapshotCoin(o, c)

Spec == Init /\ [][Next]_vars

-----------------------------------------------------------------------------
(* Properties.                                                             *)

\* Type invariant: the levels are maps from outpoints to coins or entries.
TypeOK == /\ live \in BOOLEAN
          /\ db \in [Outpoints -> MaybeCoin]
          /\ tip \in Cache
          /\ view \in Cache
          /\ dbHash \in Hashes \cup {NullHash}
          /\ tipHash \in Hashes \cup {NullHash}
          /\ viewHash \in Hashes \cup {NullHash}
          /\ ret \in MaybeCoin \cup Hashes \cup {NullHash}
          /\ threw \in BOOLEAN

\* Of the eight combinations of DIRTY, FRESH and spent, only the ones
\* SanityCheck allows occur: an entry that is FRESH or spent is DIRTY, and
\* no entry is FRESH and spent.
ValidFlags(c) ==
    \A o \in Outpoints : Has(c, o) =>
        /\ c[o].fresh \/ c[o].coin = NoCoin => c[o].dirty
        /\ ~(c[o].fresh /\ c[o].coin = NoCoin)

\* SanityCheck's attribute assertion holds in both caches.
SanityCheck == ValidFlags(tip) /\ ValidFlags(view)

\* A FRESH entry may be erased when spent, without telling the level below,
\* only if the level below has no unspent coin to resurrect.
FreshIsAbsentBelow ==
    \A o \in Outpoints :
        /\ Has(tip, o) /\ tip[o].fresh => db[o] = NoCoin
        /\ Has(view, o) /\ view[o].fresh => TipCoin(o) = NoCoin

\* An entry that is not DIRTY may be dropped (Uncache, Flush) because it
\* repeats what the level below says.
CleanMatchesBelow ==
    \A o \in Outpoints :
        /\ Has(tip, o) /\ ~tip[o].dirty => tip[o].coin = db[o]
        /\ Has(view, o) /\ ~view[o].dirty => view[o].coin = TipCoin(o)

\* No sequence of calls that keeps the callers' contract makes AddCoin or
\* BatchWrite throw its logic_error.
NeverThrows == ~threw

\* A scratch view that is not open holds nothing.
ClosedViewIsEmpty == ~live => view = EmptyCache /\ viewHash = NullHash

\* The strengthened invariant: the parts above are inductive together.
CacheInv == /\ TypeOK
            /\ SanityCheck
            /\ FreshIsAbsentBelow
            /\ CleanMatchesBelow
            /\ ClosedViewIsEmpty
            /\ NeverThrows

\* The stack of caches is indistinguishable from a stack of full UTXO sets.
Views == INSTANCE CoinsView WITH
            tip <- [o \in Outpoints |-> TipCoin(o)],
            view <- IF live THEN [o \in Outpoints |-> ViewCoin(o)] ELSE <<>>,
            tipHash <- TipBest,
            viewHash <- IF live THEN ViewBest ELSE NullHash

\* Refinement: every call reads and writes what the abstract views would.
RefinesViews == Views!Spec
=============================================================================
