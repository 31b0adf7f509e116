-------------------------- MODULE ChainstateFlush --------------------------
(***************************************************************************)
(* How the node moves its UTXO set to disk and gets it back after a crash: *)
(* FlushStateToDisk writes the block index and then, in batches that may   *)
(* be cut short by a crash, the coins (CCoinsViewDB::BatchWrite); at the   *)
(* next start ReplayBlocks repairs a half-written coins database.          *)
(*                                                                         *)
(* CoinsTip is one UTXO map here: CoinsCache shows that the caches behave  *)
(* as such a map and that the entries they skip repeat the database.       *)
(* A Coin is its height, the field that differs when one transaction is    *)
(* confirmed in two branches.                                              *)
(***************************************************************************)
EXTENDS Integers, Sequences, Functions

CONSTANTS Blocks, Genesis, Null,
          Parent,      \* pprev
          Height,      \* nHeight
          Ancestors,   \* a block with all the blocks below it; none for Null
          Txs,         \* vtx: the outpoints each transaction spends and creates
          Outpoints, NoCoin,
          Prune,       \* is the node pruning?
          KeepBlocks,  \* MIN_BLOCKS_TO_KEEP
          PowerLoss,   \* may a crash lose coin batches not yet synced?
          MaxCrashes   \* bound on crashes

ASSUME TreeAssumption ==
    /\ Genesis \in Blocks /\ Null \notin Blocks
    /\ Parent \in [Blocks -> Blocks \cup {Null}]
    /\ Height \in [Blocks -> Nat] /\ Height[Genesis] = 0
    /\ Ancestors \in [Blocks \cup {Null} -> SUBSET Blocks] /\ Ancestors[Null] = {}
    /\ \A b \in Blocks : /\ Parent[b] = Null <=> b = Genesis
                         /\ Ancestors[b] = {b} \cup Ancestors[Parent[b]]
                         /\ b # Genesis => Height[b] = Height[Parent[b]] + 1
ASSUME TxAssumption ==
    /\ Txs \in [Blocks -> Seq([ins : SUBSET Outpoints, outs : SUBSET Outpoints])]
    /\ NoCoin \notin Nat
ASSUME BoundAssumption == KeepBlocks \in Nat /\ MaxCrashes \in Nat

VARIABLES
    phase,   \* "run", "replay", "indexed" and "replayed" (inside BatchWrite), "down", "failed"
    tip, tipCoins,       \* m_chain.Tip() and CoinsTip(), or where ReplayBlocks is and its cache
    index, have, undo,   \* block index in memory: known blocks, BLOCK_HAVE_DATA, undo data
    disk,    \* the block index database and the files it points to
    cdb,     \* coins database: coins, DB_BEST_BLOCK, DB_HEAD_BLOCKS
    synced,  \* a state of cdb that survives a power loss
    unclean, \* DisconnectTip met a block it could not undo cleanly
    crashes

mem == <<tip, tipCoins, index, have, undo>>
vars == <<phase, mem, disk, cdb, synced, unclean, crashes>>

-----------------------------------------------------------------------------
(* The UTXO set of a chain, defined without the code: an output has a coin *)
(* when the last block that mentions it created it and did not spend it    *)
(* again.                                                                  *)

Touched(b) == UNION {Txs[b][i].ins \cup Txs[b][i].outs : i \in DOMAIN Txs[b]}
CreatedIn(b, o) ==
    \E i \in DOMAIN Txs[b] : /\ o \in Txs[b][i].outs
                             /\ \A j \in DOMAIN Txs[b] : i < j => o \notin Txs[b][j].ins
Creators(b, o) ==
    {x \in Ancestors[b] \ {Genesis} :
        /\ CreatedIn(x, o)
        /\ \A y \in Ancestors[b] : Height[x] < Height[y] => o \notin Touched(y)}
Utxo(b) ==
    [o \in Outpoints |-> IF Creators(b, o) = {} THEN NoCoin
                         ELSE Height[CHOOSE x \in Creators(b, o) : TRUE]]

-----------------------------------------------------------------------------
(* Applying and undoing a block on a UTXO map.                             *)

EmptyUtxo == [o \in Outpoints |-> NoCoin]
SpendCoins(coins, S) == [o \in Outpoints |-> IF o \in S THEN NoCoin ELSE coins[o]]
AddCoins(coins, S, h) == [o \in Outpoints |-> IF o \in S THEN h ELSE coins[o]]
UpdateCoins(coins, tx, h) == AddCoins(SpendCoins(coins, tx.ins), tx.outs, h)

\* The coins after each transaction of b, in ConnectBlock and RollforwardBlock.
CoinsAfter(coins, b) ==
    LET after[n \in 0 .. Len(Txs[b])] ==
            IF n = 0 THEN coins ELSE UpdateCoins(after[n - 1], Txs[b][n], Height[b])
    IN  after

\* The transactions of the genesis block are not connected.
Connected(coins, b) == IF b = Genesis THEN coins ELSE CoinsAfter(coins, b)[Len(Txs[b])]

\* What ConnectBlock refuses (and AddCoin throws on): an input that has no
\* coin, an output that has one.
ConnectsCleanly(coins, b) ==
    b # Genesis =>
        \A i \in DOMAIN Txs[b] :
            /\ \A o \in Txs[b][i].ins : CoinsAfter(coins, b)[i - 1][o] # NoCoin
            /\ \A o \in Txs[b][i].outs : CoinsAfter(coins, b)[i - 1][o] = NoCoin

\* Mutant: the undo record is taken after the inputs were spent.
BlockUndoLate(coins, b) ==
    [i \in DOMAIN Txs[b] |-> [o \in Txs[b][i].ins |-> CoinsAfter(coins, b)[i][o]]]

\* The coins each transaction of b spends.
BlockUndo(coins, b) ==
    [i \in DOMAIN Txs[b] |-> [o \in Txs[b][i].ins |-> CoinsAfter(coins, b)[i - 1][o]]]

\* ApplyTxInUndo for the inputs of a transaction.
RestoreInputs(coins, u) == [o \in Outpoints |-> IF o \in DOMAIN u THEN u[o] ELSE coins[o]]

\* Mutant: transactions are undone first to last.
CoinsUndoneForward(coins, b, u) ==
    LET undone[n \in 0 .. Len(Txs[b])] ==
            IF n = 0 THEN coins
            ELSE RestoreInputs(SpendCoins(undone[n - 1], Txs[b][n].outs), u[n])
    IN  undone

\* The coins after the last n transactions of b were undone, last to first.
CoinsUndone(coins, b, u) ==
    LET undone[n \in 0 .. Len(Txs[b])] ==
            IF n = 0 THEN coins
            ELSE LET i == Len(Txs[b]) - n + 1
                 IN  RestoreInputs(SpendCoins(undone[n - 1], Txs[b][i].outs), u[i])
    IN  undone

DisconnectBlock(coins, b, u) == CoinsUndone(coins, b, u)[Len(Txs[b])]

\* DISCONNECT_OK: every output was there as the block made it, and no input
\* was there.
DisconnectsOK(coins, b, u) ==
    \A i \in DOMAIN Txs[b] :
        LET c == CoinsUndone(coins, b, u)[Len(Txs[b]) - i]
        IN  /\ \A o \in Txs[b][i].outs : c[o] = Height[b]
            /\ \A o \in Txs[b][i].ins : SpendCoins(c, Txs[b][i].outs)[o] = NoCoin

-----------------------------------------------------------------------------
NoUndos == [b \in {} |-> <<>>]

Init == /\ phase = "run"
        /\ tip = Null /\ tipCoins = EmptyUtxo
        /\ index = {Genesis} /\ have = {Genesis} /\ undo = NoUndos
        /\ disk = [index |-> {}, have |-> {}, undo |-> NoUndos]
        /\ cdb = [coins |-> EmptyUtxo, best |-> Null, heads |-> <<>>]
        /\ synced = cdb
        /\ unclean = FALSE
        /\ crashes = 0

\* A block arrives and is stored; its index entry is only in memory so far.
AcceptBlock(b) ==
    /\ phase = "run"
    /\ b \notin have
    /\ Parent[b] \in index
    /\ index' = index \cup {b}
    /\ have' = have \cup {b}
    /\ UNCHANGED <<phase, tip, tipCoins, undo, disk, cdb, synced, unclean, crashes>>

ConnectTip(b) ==
    /\ phase = "run"
    /\ Parent[b] = tip
    /\ b \in have
    /\ ConnectsCleanly(tipCoins, b)
    /\ tipCoins' = Connected(tipCoins, b)
    /\ undo' = IF b = Genesis \/ b \in DOMAIN undo THEN undo
               ELSE [x \in DOMAIN undo \cup {b} |->
                        IF x = b THEN BlockUndo(tipCoins, b) ELSE undo[x]]
    /\ tip' = b
    /\ UNCHANGED <<phase, index, have, disk, cdb, synced, unclean, crashes>>

\* A reorganisation or an invalidated block; only a clean undo is accepted.
\* (Its block and undo data are there unless they were pruned; the fatal error
\* of a node that has to go back below its pruned blocks is not modelled.)
DisconnectTip ==
    /\ phase = "run"
    /\ tip \in (have \cap DOMAIN undo) \ {Genesis}
    /\ IF DisconnectsOK(tipCoins, tip, undo[tip])
       THEN /\ tip' = Parent[tip]
            /\ tipCoins' = DisconnectBlock(tipCoins, tip, undo[tip])
            /\ UNCHANGED <<phase, unclean>>
       ELSE unclean' = TRUE /\ phase' = "failed" /\ UNCHANGED <<tip, tipCoins>>
    /\ UNCHANGED <<index, have, undo, disk, cdb, synced, crashes>>

Prunable == {b \in have \cap index : tip # Null /\ Prune /\ Height[b] <= Height[tip] - KeepBlocks}

\* Mutant: the undo positions are left out of the block index batch.
FlushBlockIndexNoUndo(pruned) ==
    /\ phase = "run"
    /\ have' = have \ pruned
    /\ undo' = Restrict(undo, DOMAIN undo \ pruned)
    /\ disk' = [index |-> index, have |-> have', undo |-> disk.undo]
    /\ phase' = IF tip = Null THEN "run" ELSE "indexed"
    /\ UNCHANGED <<tip, tipCoins, index, cdb, synced, unclean, crashes>>

\* FlushStateToDisk up to the coins: prune, then block files, then the block
\* index in one synced batch.  Nothing more is written while the view has
\* no best block.
FlushBlockIndex(pruned) ==
    /\ phase = "run"
    /\ have' = have \ pruned
    /\ undo' = Restrict(undo, DOMAIN undo \ pruned)
    /\ disk' = [index |-> index, have |-> have', undo |-> undo']
    /\ phase' = IF tip = Null THEN "run" ELSE "indexed"
    /\ UNCHANGED <<tip, tipCoins, index, cdb, synced, unclean, crashes>>

Pending == {o \in Outpoints : tipCoins[o] # cdb.coins[o]}

\* Mutant: the old tip of the interrupted flush is not taken over.
OldTipUnset == cdb.best

OldTip == IF cdb.best = Null /\ cdb.heads # <<>> THEN cdb.heads[2] ELSE cdb.best

\* Mutant: DB_HEAD_BLOCKS without the old tip.
WritePartialBatchOneHead(S) ==
    /\ phase \in {"indexed", "replayed"}
    /\ cdb' = [coins |-> [o \in Outpoints |-> IF o \in S THEN tipCoins[o] ELSE cdb.coins[o]],
               best  |-> Null,
               heads |-> <<tip>>]
    /\ UNCHANGED <<phase, mem, disk, synced, unclean, crashes>>

\* A batch of CCoinsViewDB::BatchWrite that is not the last.
WritePartialBatch(S) ==
    /\ phase \in {"indexed", "replayed"}
    /\ cdb' = [coins |-> [o \in Outpoints |-> IF o \in S THEN tipCoins[o] ELSE cdb.coins[o]],
               best  |-> Null,
               heads |-> <<tip, OldTip>>]
    /\ UNCHANGED <<phase, mem, disk, synced, unclean, crashes>>

\* The last batch: the rest of the coins and the new best block.
WriteFinalBatch ==
    /\ phase \in {"indexed", "replayed"}
    /\ cdb' = [coins |-> tipCoins, best |-> tip, heads |-> <<>>]
    /\ phase' = "run"
    /\ UNCHANGED <<mem, disk, synced, unclean, crashes>>

\* LevelDB syncs its log on its own schedule; WriteBatch does not ask it to.
SyncLog == /\ PowerLoss
           /\ synced' = cdb
           /\ UNCHANGED <<phase, mem, disk, cdb, unclean, crashes>>

Crash(survivor) ==
    /\ phase \in {"run", "replay", "indexed", "replayed"}
    /\ crashes < MaxCrashes
    /\ crashes' = crashes + 1
    /\ phase' = "down"
    /\ cdb' = survivor
    /\ synced' = IF PowerLoss THEN survivor ELSE synced
    /\ tip' = Null /\ tipCoins' = EmptyUtxo
    /\ index' = {} /\ have' = {} /\ undo' = NoUndos
    /\ UNCHANGED <<disk, unclean>>

\* Mutant: startup does not replay; a database between two tips has no best
\* block and is taken for an empty one.
RestartWithoutReplay ==
    /\ phase = "down"
    /\ index' = disk.index \cup {Genesis}
    /\ have' = disk.have \cup (IF Genesis \in disk.index THEN {} ELSE {Genesis})
    /\ undo' = disk.undo
    /\ phase' = "run"
    /\ tip' = cdb.best
    /\ tipCoins' = IF cdb.best = Null THEN EmptyUtxo ELSE cdb.coins
    /\ UNCHANGED <<disk, cdb, synced, unclean, crashes>>

\* CompleteChainstateInitialization: load the block index; load the chain
\* tip, or start ReplayBlocks if the coins database is between two tips.
Restart ==
    /\ phase = "down"
    /\ index' = disk.index \cup {Genesis}
    /\ have' = disk.have \cup (IF Genesis \in disk.index THEN {} ELSE {Genesis})
    /\ undo' = disk.undo
    /\ IF (Range(cdb.heads) \cup {cdb.best}) \ {Null} \subseteq index'
       THEN /\ phase' = IF cdb.heads = <<>> THEN "run" ELSE "replay"
            /\ tip' = IF cdb.heads = <<>> THEN cdb.best ELSE cdb.heads[2]
            /\ tipCoins' = cdb.coins
       ELSE phase' = "failed" /\ UNCHANGED <<tip, tipCoins>>
    /\ UNCHANGED <<disk, cdb, synced, unclean, crashes>>

\* ReplayBlocks, rollback along the old branch: the next block, down to one
\* of the new branch.  An unclean result is expected and ignored.
ReplayTarget == cdb.heads[1]
AtFork == tip \in Ancestors[ReplayTarget] \cup {Null}

RollbackBlock ==
    /\ phase = "replay" /\ ~AtFork
    /\ IF tip \in have \cap DOMAIN undo
       THEN /\ tipCoins' = DisconnectBlock(tipCoins, tip, undo[tip])
            /\ tip' = Parent[tip]
            /\ UNCHANGED phase
       ELSE phase' = "failed" /\ UNCHANGED <<tip, tipCoins>>
    /\ UNCHANGED <<index, have, undo, disk, cdb, synced, unclean, crashes>>

\* Roll forward from the fork, or from height 1 if there was no old tip.
ForkHeight == IF tip = Null THEN 0 ELSE Height[tip]

RollforwardBlock(b) ==
    /\ phase = "replay" /\ AtFork
    /\ b \in Ancestors[ReplayTarget] /\ Height[b] = ForkHeight + 1
    /\ IF b \in have
       THEN /\ tipCoins' = CoinsAfter(tipCoins, b)[Len(Txs[b])]
            /\ tip' = b
            /\ UNCHANGED phase
       ELSE phase' = "failed" /\ UNCHANGED <<tip, tipCoins>>
    /\ UNCHANGED <<index, have, undo, disk, cdb, synced, unclean, crashes>>

\* The end of ReplayBlocks: the cache gets its best block and is flushed.
FinishReplay ==
    /\ phase = "replay" /\ AtFork /\ ForkHeight = Height[ReplayTarget]
    /\ tip' = ReplayTarget
    /\ phase' = "replayed"
    /\ UNCHANGED <<tipCoins, index, have, undo, disk, cdb, synced, unclean, crashes>>

ReplayStep == RollbackBlock \/ (\E b \in Blocks : RollforwardBlock(b)) \/ FinishReplay

Next == \/ \E b \in Blocks : AcceptBlock(b) \/ ConnectTip(b)
        \/ DisconnectTip
        \/ \E S \in SUBSET Prunable : FlushBlockIndex(S)
        \/ \E S \in SUBSET Pending : WritePartialBatch(S)
        \/ WriteFinalBatch \/ SyncLog
        \/ \E survivor \in {cdb, synced} :
              (survivor = cdb \/ PowerLoss) /\ Crash(survivor)
        \/ Restart \/ ReplayStep

\* A node that is down is started again, and a write that was begun goes on.
Fairness == WF_vars(Restart) /\ WF_vars(ReplayStep) /\ WF_vars(WriteFinalBatch)

Spec == Init /\ [][Next]_vars /\ Fairness

-----------------------------------------------------------------------------
(* Properties.                                                             *)

UtxoMap == [Outpoints -> Nat \cup {NoCoin}]

\* Type invariant.
TypeOK == /\ phase \in {"run", "replay", "indexed", "replayed", "down", "failed"}
          /\ tip \in Blocks \cup {Null} /\ tipCoins \in UtxoMap
          /\ index \subseteq Blocks /\ have \subseteq Blocks /\ DOMAIN undo \subseteq Blocks
          /\ disk.index \subseteq Blocks /\ disk.have \subseteq Blocks /\ DOMAIN disk.undo \subseteq Blocks
          /\ cdb.coins \in UtxoMap /\ cdb.best \in Blocks \cup {Null}
          /\ cdb.heads = <<>> \/ cdb.heads \in Blocks \X (Blocks \cup {Null})
          /\ unclean \in BOOLEAN /\ crashes \in 0 .. MaxCrashes

\* Whatever was connected, disconnected, flushed or replayed before, the
\* coins the node works on are the UTXO set of its tip, and a coins database
\* with a best block holds exactly that block's UTXO set.
CoinsAreExact ==
    /\ phase \in {"run", "indexed", "replayed"} => tipCoins = Utxo(tip)
    /\ cdb.heads = <<>> => cdb.coins = Utxo(cdb.best)

\* Whenever the flush, or the flush of a replay, is cut short, every coin on
\* disk is the coin of the tip the database is moving to or of the tip it
\* left; on the way from one to the other so is every coin of the replay,
\* although ReplayBlocks cannot know which coins had been written.
CrashIsRepairable ==
    cdb.heads # <<>> =>
        \A o \in Outpoints :
            /\ cdb.coins[o] \in {Utxo(cdb.heads[1])[o], Utxo(cdb.heads[2])[o]}
            /\ phase = "replay" => tipCoins[o] \in {Utxo(tip)[o], Utxo(ReplayTarget)[o]}

\* Startup never refuses the data directory: the block index and the undo
\* data reach the disk before the coins that need them.
StartupSucceeds == phase # "failed"

\* BatchWrite's assertion: a flush into a database that is between two tips
\* finishes the transition that was interrupted.
FlushResumesHeads ==
    phase \in {"indexed", "replayed"} /\ cdb.heads # <<>> => cdb.heads[1] = tip

\* DisconnectBlock reports DISCONNECT_OK for every block DisconnectTip undoes.
DisconnectsCleanly == ~unclean

\* A node that goes down comes back up with a consistent database.
Recovers == phase = "down" ~> (phase = "run" /\ cdb.heads = <<>>)
=============================================================================
