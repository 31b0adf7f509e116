# A TLA+ verification of qbitcoin

qbitcoin is a fork of Bitcoin Core with Dilithium keys. This directory holds TLA+
models of parts of it, the TLC configurations that check them on small instances,
and proofs that TLAPS checks for instances of every size. File names below are
those of the repository's `src/` directory. `PROJECT.json` lists the components,
the runs, the source lines behind every definition, the mutants that show that each
property can fail, the hazards, and the theorems.

    tlc -workers 2 -config MCCoinsCache.cfg MCCoinsCache      # one run
    tlapm CoinsCacheProofs.tla                                # the proofs of one part

## The system and its parts

| part | module | what is hard about it |
|---|---|---|
| coins caches (`coins.cpp`) | `CoinsCache`, abstractly `CoinsView` | DIRTY and FRESH are promises about the level below; a wrong flag loses a coin several calls later |
| chainstate flush and recovery (`validation.cpp`, `txdb.cpp`, `node/chainstate.cpp`) | `ChainstateFlush` | the process may die between any two writes, also while it repairs the last crash |
| script check queue (`checkqueue.h`) | `CheckQueue` | verdicts of concurrent workers, wakeups, reuse by the next block |
| compressed quantum keys (`compressed_quantum_keys.cpp`) | `QuantumWallet` | keys recomputed from seeds after a restart, a file rewritten in place |
| block tree and best-chain selection (`validation.cpp`, `node/blockstorage.cpp`) | `ChainSelection` | the candidate set against blocks out of order, failures found late, and calls of the operator while cs_main is released |
| transaction request tracker (`txrequest.cpp`) | `TxRequest`, abstractly `TxRequestTracker` | the best candidate is found by its place in an order, never by a search |
| transaction orphanage (`txorphanage.cpp`) | `TxOrphanage` | a map, a vector, an index and counters that must agree in the middle of every loop |

How they interact. Blocks and headers enter the block tree (ChainSelection), which
decides which block becomes the tip. ConnectTip opens a scratch cache on the tip's
cache (CoinsCache), ConnectBlock reads and changes coins in it and hands the script
checks to the check queue (CheckQueue), whose verdict decides whether the scratch
cache is flushed into the tip's cache or dropped. FlushStateToDisk writes the tip's
cache to the database (ChainstateFlush). Each of the modules takes from its
neighbours what the neighbour's module establishes: ChainstateFlush treats CoinsTip as
one UTXO map because CoinsCache shows that the caches behave as one, and
ChainSelection treats ConnectBlock as a verdict on a block. The tracker and the
orphanage serve the download of transactions; the quantum keys make transactions
and are not called by validation.

For each part `X` there is `X` (state, actions, properties), `MCX` (constants for TLC)
with its `.cfg` files, and `XProofs` (theorems). `NatRecursion` holds the lemmas
about loop counters that two of the proof modules need. Definitions whose comment
begins with "Mutant" are plausible bugs; no specification uses them.

## How the models correspond to the code

**CoinsCache.** `db`, `tip` and `view` are `CCoinsViewDB`, `Chainstate::CoinsTip` and
the scratch view; an entry is a coin (or spent) with two flags; the linked list of
flagged entries is the set of entries that have a flag. An action is a call on the
topmost level, with the fetches it causes below. `DoAddCoin` carries the callers'
contract (no unspent coin is overwritten unless `possible_overwrite`),
`AddCoinChecked` is the variant that asks `HaveCoin` first. `threw` records a
`logic_error`. Memory accounting (`cachedCoinsUsage`) is left out.

**ChainstateFlush.** Coins are maps from outpoints to heights, once in memory
(`tipCoins`) and once in the database (`cdb`, with `best` and `heads`). A flush is
`FlushBlockIndex` (prune, block files, index and undo positions in one synced
batch), any number of `WritePartialBatch` with any set of coins, and
`WriteFinalBatch`. `Crash` may happen anywhere; with `PowerLoss` it takes the coins
database back to any state since the last log sync. `Restart` is
CompleteChainstateInitialization; the loops of ReplayBlocks take one step per block
(`RollbackBlock`, `RollforwardBlock`, `FinishReplay`), and a crash may come between
two of them. `Utxo(b)`, which the properties compare with, is defined from the chain
without the code's loops.
A flush may begin at any time, which includes the IF_NEEDED flushes of ConnectTip and
DisconnectTip. A failed write ends the process in the code and is a crash here; a
failed flush of the block files is only logged, and the model assumes it succeeds.
DisconnectTip of a block whose data was pruned, a fatal error, is not modelled.
`KeepBlocks = 1` stands for MIN_BLOCKS_TO_KEEP (288). The two blocks of the main
chain that BIP30 exempts (a coinbase that overwrites an earlier one) are left out.

**CheckQueue.** One action per critical section of `Loop`, one for the work outside
the lock, one for each notification sent after an unlock. A waiting thread leaves its
wait only by a notification or spuriously. A check is its session and whether it
fails; `returned` records what Complete returned and what the checks imply.

**QuantumWallet.** A seed is a sequence (a child's is the parent's with the index
appended), a Dilithium key is the number of the `MakeNewKey` call that made it, a
hash is the tuple of what is hashed. `SaveToFile` is a truncation and one write per
item, so a crash leaves any prefix; LoadFromFile takes one step per key, and may be
cut short as well. A key cut short lacks its valid flag and is rejected; a count
that could not be read is uninitialised, and nothing follows it. Key generation and
signing that fail return early and change nothing. The aggregator
(`dilithium/aggregation.h`, not in the repository) is external: it verifies what it
aggregated. `compressed_quantum_keys.cpp` and its header disagree on a member
(`ecdsa_key` against `quantum_key`) and no build file of the repository lists them; the
model follows the .cpp file.

**TxRequest.** `index` is the multi-index container, `peerinfo` the counters beside
it. Neighbours in the ByTxHash order are looked up as the code does, by the order
alone. GetRequestable (with SetTimePoint) and DisconnectedPeer take one step per
iteration; the other calls are one step. `visible` is history: the index as the last
finished call left it, which is all a caller can know. TxRequestTracker is the
promise of `txrequest.h`: announcements without an index, every call atomic,
GetRequestable defined by its rules. The map from the one to the other forgets which
kind of candidate an announcement is. Time may go backwards, as the code allows.

**TxOrphanage.** The map of orphans with its values, the vector for eviction with
`list_pos`, the index by outpoint, the totals, and the entries per peer. The loops of
EraseForPeer, EraseForBlock and LimitOrphans take one step per orphan, in any
order; the random choices of the code are choices here. The clock does not go
backwards, and a NodeId is not used twice. The read-only queries are left out.

**ChainSelection.** A step is a section under cs_main, or one turn of a loop in such a
section. ActivateBestChain and InvalidateBlock exclude each other by
m_chainstate_mutex and release cs_main between their rounds; headers, blocks,
preciousblock and reconsiderblock run in the gaps. Blocks that ContextualCheckBlock
or ConnectBlock refuses are constants. Left out: pruning and re-download,
m_best_header and m_best_invalid, disk errors, interruption by shutdown, the second
chainstate of a snapshot, loading the index from disk, and the batches of 32 blocks
in which ActivateBestChainStep lists the blocks to connect (it connects one block
and then looks again at whether to stop, as the model does).
Without pruning, FindMostWorkChain's branch for candidates whose data is missing is
never taken (`PathIsReady`), and with a careful operator AcceptBlockHeader's walk over
m_failed_blocks finds nothing, so that its assertion on the block it finds is not
reached.

`CheckBlockIndex` is the code's function of that name with one exception. While
InvalidateBlock runs, a block that arrived after it listed the blocks to add may be
missing from setBlockIndexCandidates. Its comment (validation.cpp:3772-3776) calls this
"technically" an "inconsistency in the block index" that should be "essentially
unobservable"; the assertion (5429) makes no exception, and InvalidateBlock calls
CheckBlockIndex before it adds the missing blocks (3755). The property exempts these
states and holds in all others.

`CarefulOperator` restricts calls that the code accepts. Each of the four cases breaks
an assertion of CheckBlockIndex, which is compiled into every build and enabled on
regtest:

* reconsiderblock names a block whose parent is not marked failed. Otherwise an ancestor
  becomes valid and not a candidate (5429): the finding of `chain_reconsider`;
* reconsiderblock is not called while invalidateblock is between two turns. Otherwise
  blocks stay marked without a failed ancestor (5368): the finding of `chain_wait`;
* reconsiderblock does not clear a block that ContextualCheckBlock refused once a
  child of it has its data. That child was not put into m_blocks_unlinked when it came,
  since its parent was failed at the time, and CheckBlockIndex looks for it there
  (5453);
* preciousblock on the tip does not give the tip a larger sequence number than it has.
  The counter starts at -1 again when the chain has grown. Without this the tip can
  move behind a block of equal work that has left the candidates (5429), although the
  help says that the block is treated "as if it were received before others with the
  same work" (rpc/blockchain.cpp:1590).

The last two have no run of their own. `MCChainWait.cfg` shows the third with
`BadContext = {3}`, `Invalidatable = {}`, `Reconsiderable = {3}`, and the fourth with
`BadContext`, `BadScripts`, `Invalidatable` and `Reconsiderable` empty, `Preciousable =
{3, 5}` and `MaxRpcs = 3`.

Theorems and properties that need these restrictions say so: TLAPS proves them
as `CarefulOperator => (Spec => ...)`.

## Runs

| run | instance | distinct states |
|---|---|---|
| `coins_cache` | 2 outpoints, 2 coins, 2 block hashes, symmetric | 57,332 |
| `flush_crash` | 6 blocks, 4 outpoints, 2 crashes that may lose writes | 570,343 |
| `check_queue` | 2 workers, 2 masters, 2 sessions of at most 4 checks, batches of at most 2 | 174,049 |
| `wallet` | 3 Dilithium keys, 2 seeds, children, up to 2 inputs, symmetric | 75,210 |
| `tx_request` | 3 peers, 2 transactions, 2 times, 3 announcements | 495,042 |
| `orphanage` | 2 peers, 3 orphans, 5 clock readings, room for one orphan, symmetric | 427,416 |
| `chain_selection` | 7 blocks, 2 calls of a careful operator | 417,497 |
| `flush_prune` | the same blocks, pruning, 1 crash | **violated** |
| `wallet_reload` | as `wallet`, no transactions | **violated** |
| `wallet_accept` | as `wallet` | **violated** |
| `chain_reconsider` | as `chain_selection`, any operator | **violated** |
| `chain_wait` | the same blocks, invalidateblock and reconsiderblock of one block | **violated** |

What they show.

* `coins_cache`: the flags keep their discipline (`SanityCheck`, `FreshIsAbsentBelow`,
  `CleanMatchesBelow`), nothing throws (`NeverThrows`), and the stack of caches
  implements the stack of full UTXO sets (`RefinesViews`).
* `flush_crash`: the coins are the UTXO set of the tip (`CoinsAreExact`), every crash,
  also one that takes back the batches since the last sync, leaves a database that can
  be repaired (`CrashIsRepairable`) with what the block index and files hold
  (`StartupSucceeds`), BatchWrite's assertion on the heads holds (`FlushResumesHeads`),
  DisconnectTip never meets a block it cannot undo (`DisconnectsCleanly`), and a node
  that goes down comes back (`Recovers`).
* `check_queue`: Complete returns the verdict of its own checks (`CompleteIsExact`), the
  counters are exact (`TodoIsPending`, `CountsAreThreads`), Complete and the destructor
  return (`CompleteReturns`, `DestructorReturns`); deadlock is checked.
* `wallet`: the address index is exact, a load restores a prefix of the saved seeds,
  all of them when the file is complete, and a witness fits its inputs.
* `tx_request`: the code's own checks hold after every iteration (`SanityCheck`,
  `PostGetRequestableSanityCheck`), the counters are exact, nothing is requested twice
  from one peer (`NeverAskedTwice`), every call does what the header promises
  (`CallsAgree`), and the index implements the abstract tracker (`ImplementsTracker`).
* `orphanage`: totals, vector and index are those of the map; nothing refers to a peer
  that is gone; LimitOrphans keeps its limits; queued work is not lost.
* `chain_selection`: CheckBlockIndex's assertions hold whenever cs_main is free, every
  block about to be connected is ready, the active chain has no failed block, a node at
  rest is on its best chain, a round never ends on a worse tip than it began with,
  and the activation comes to rest (`Settles`).

Bounds. Cache operations touch one outpoint, except flushes, which treat entries
independently: two outpoints show one changing beside another, two coins an overwrite.
The block tree of the flush has transactions confirmed in both branches at different
heights, a spend inside a block and a block ConnectBlock refuses, and its branches
differ in length; two crashes include one during the repair of the other. The queue
splits a batch between threads and has two sessions, so that leftovers would be seen.
Three keys allow a wallet to be saved, loaded and extended. With three candidates a
better one can arrive and the next best take over when it is gone. One orphan fits, so
that every addition may evict. The tree of ChainSelection has two branches that tie
twice, a block refused on arrival below one that may come first, and one refused in the
middle of a reorganisation; two calls include every pair out of invalidate, reconsider
and precious. What does not depend on these sizes is proved (below).

Fairness. ChainstateFlush: a stopped node is started again, and a flush that has begun
goes on. CheckQueue: weak fairness of every thread, that is, a runnable thread runs
and gets a mutex that is free; wakeups are not assumed beyond the notifications the
code sends, and `Add` by a master is not assumed at all. ChainSelection: the thread
that holds a lock goes on, and one that waits for m_chainstate_mutex gets it; nothing
makes headers, blocks or calls arrive. The other modules have no fairness and no
liveness property: nothing in them runs on its own.

## Findings

* **Pruning before the coins are on disk** (`flush_prune`). FlushStateToDisk unlinks
  block files before it writes the coins. When the database is far behind, a crash
  between two coin batches needs a block that is gone; startup refuses. The comment on
  the flush says that it is done so that no redownload is needed after a crash.
* **A reloaded key pair has another address** (`wallet_reload`). FromSeed computes a
  seed for the Dilithium key and then calls `MakeNewKey`, which takes none. The
  comment there and the test of determinism say the key depends on the seed only.
* **The validator rejects what the builder signs** (`wallet_accept`). The address is
  the hash of both keys in FromSeed and of the Dilithium key alone in
  VerifyAddressKeyMatch; the header says the latter, the test expects acceptance.
* **A reconsidered ancestor is not activated** (`chain_reconsider`). ResetBlockFailureFlags
  clears the flags of ancestors and makes only the block and its descendants candidates.
  The help of reconsiderblock says that ancestors are reconsidered for activation too.
* **reconsiderblock inside invalidateblock** (`chain_wait`). Called on the same block in
  a gap of invalidateblock, it clears the block's flag; the last section of
  InvalidateBlock marks the descendants all the same, and they stay out of the chain.
  CheckBlockIndex asserts that blocks without a failed ancestor are not marked.

## Proofs

Every safety invariant, every action property and both refinements that a passing run
checks are proved for all values of the constants. The assumptions are the named
ASSUMEs of the modules: null values outside of their sets, finite sets of threads,
peers and transactions, a block tree that is one (`TreeAssumption`), and no
collision of the tie-breaking hash among the peers of one transaction
(`SaltAssumption`). TLC evaluates all of them on the runs.

**CoinsCacheProofs.** `CacheInv`: typing, the flag discipline of both levels, no
exception. No part is inductive alone: that a FRESH entry hides nothing is kept by a
flush only if clean entries match the level below and a FRESH entry is never spent;
that nothing throws needs FRESH to be right in both levels at once. The proof shows
for each operation what it does to one entry (`AddEffect`, `SpendEffect`,
`BatchWriteEffect`, ...) and then for each action that the invariant is kept and the
visible coins change as in the abstract view, which is also the refinement
(`CacheRefinesViews`).

**ChainstateFlushProofs.** First what the loops over the transactions of a block
compute: connecting or rolling forward a block gives the outputs it mentions their
final coin whatever they had before, and undoing it gives them the coin its parent
had. So both are right on a UTXO set, and on a mixture of two they take each coin to
the right one unless it already is that of the tip the replay goes to. The
invariant then says: undo data, in memory and on disk, are the coins a block spends
from its parent's UTXO set; each of the two databases a crash may leave names only
blocks that the index on disk has, and is exact or between its two heads; a replay is
on one of the two branches, its coins between where it is and where it goes; without
pruning, the files that a replay needs are there. From it `CoinsStayExact`,
`AlwaysRepairable`, `StartupAlwaysSucceeds`, `AlwaysDisconnectsCleanly` and
`FlushAlwaysResumes`. With pruning too, the index reaches the disk before the coins
(`IndexReachesDiskFirst`) and only a deleted file can stop a start
(`LoadedIndexSuffices`).

**CheckQueueProofs.** A check is in one place (queue or one batch), all pending checks
are of the running session, nTodo is their number; a failure is either reported in
m_result or still in a check to be executed or reported, and a thread skips its batch
only after a failure was reported. `CompleteIsExact` alone is not inductive because it
says nothing of the checks under way.

**QuantumWalletProofs.** A Dilithium key belongs to one pair, so that addresses do not
collide; index and vector are inverse to each other; the file holds the first seeds of
the wallet it was written from at every point of a save; a load under way has read a
prefix of it.

**TxRequestProofs.** The order puts the best candidate of a transaction, if there is no
request, next to the place where the code looks for it (lemmas on `Priority` and on
neighbours), so that each change of an announcement keeps `SanityCheck`; the counters
follow by cardinalities. The refinement needs more than the invariant: `RefInv` says that
while a call loops, every transaction is either as the caller last knew it or as the
abstract call leaves it, and that the local vector of expired requests holds exactly
those of the transactions done. At the last iteration no transaction of the first kind
needs a change, so the call is one step of the tracker, and each iteration before is a
stutter (`ImplementationIsCorrect`).

**TxOrphanageProofs.** Vector and `list_pos` are inverse, the index is exact, a loop
visits orphans only, a peer that is gone is announced only where its EraseForPeer has
still to go, and the next sweep is early enough for every orphan there is or may
be (this is what `LimitHolds` needs). The totals (`CountInv`) are sums over the pool: a
sum is shown to be the number of pairs of an orphan and one of its units of weight, so
that adding or removing an orphan changes it by its weight (`SumRemove`).

**ChainSelectionProofs.** For every operator, `IInv`: what is known of a block is known of
its ancestors, candidates are linked, and neither the active chain nor the branch
ActivateBestChain is going to has a failed block. This gives `PathStaysReady` and
`ActiveChainStaysValid`. For a careful operator, `SInv` adds
  * `WaitInv`, `QueueInv`: a block with data is linked, about to be, in
    m_blocks_unlinked, or came while its parent was refused; nothing twice;
  * `FlagInv`: a marked block is above one that failed itself and whose descendants are
    all marked, or will be when InvalidateBlock goes on;
  * `CandInv`: every usable block not worse than the tip, and in a round than the tip the
    round began with, is a candidate, and nothing worse than the tip is;
  * `RoundInv`: the first tip of a round stays usable, and the search is repeated only
    while the tip is worse than it;
  * `BestInv`: unless somebody waits for ActivateBestChain, the block it is going to, or
    the tip when it has returned, is the best usable one.

`CheckBlockIndexHolds`, `TipStaysBest` and `RoundsNeverLose` follow. `TipIsBest` by itself is
not inductive: a failed reorganisation ends on the best tip only because the old tip and
everything not worse than it were kept as candidates throughout. `BranchAssumption`
(among blocks of a branch there is a lowest) stands for an induction on height.

Only model-checked: the liveness properties (`Recovers`, `CompleteReturns`,
`DestructorReturns`, `Settles`), since the provers do not reason about fairness and
ENABLED. The library's induction rules take an operator and cannot be used by the
provers at hand; where the proofs need an induction it is written as a least
counterexample (`NatRecursion`), which reaches loops over counters and sums, and
nothing here needed more. The five violated properties are refuted by TLC.

## Not modelled

* Block files and positions, assumeutxo snapshots, the mempool, the transaction
  download manager (it composes the tracker and the orphanage with the reject
  filters), header synchronisation, soft-fork deployments, scheduler and validation
  signals, indexes, the address manager and the signature cache. `PROJECT.json` gives
  the reason for each; of these the indexes and the download manager would be the
  next models worth writing.
* Networking and message handling as a whole (too large), script and consensus rules
  and cryptography (pure computation), the upstream wallet, RPC, REST, ZMQ and GUI
  (input and output around the components), vendored libraries, `quantum_mining`
  (declarations only), the quantum manager (forwards to the keys).
* The database is modelled as atomic batches, as `txdb.cpp` uses it.
