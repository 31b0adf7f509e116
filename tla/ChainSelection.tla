--------------------------- MODULE ChainSelection ---------------------------
(***************************************************************************)
(* The block tree and the choice of the active chain (validation.cpp,      *)
(* node/blockstorage.cpp): headers and blocks arrive in any order, the     *)
(* tree is kept with its failure flags, setBlockIndexCandidates holds the  *)
(* blocks the tip may move to, and ActivateBestChain moves it.             *)
(*                                                                         *)
(* Two locks matter.  cs_main guards the tree; m_chainstate_mutex keeps    *)
(* ActivateBestChain and InvalidateBlock apart.  Both of those release     *)
(* cs_main between their rounds, and headers, blocks, preciousblock and    *)
(* reconsiderblock run in the gaps.  A step of this module is a section    *)
(* under cs_main, or one turn of a loop inside such a section (pc \in      *)
(* Locked, or queue non-empty): then nothing else can run.                 *)
(***************************************************************************)
EXTENDS Integers, Sequences, FiniteSets

CONSTANTS
    Blocks,          \* the blocks that exist; a block's number is its address
    Genesis,
    Parent,          \* pprev
    Height,          \* nHeight
    Branch,          \* a block with all its ancestors
    nChainWork,
    BadContext,      \* blocks ContextualCheckBlock refuses
    BadScripts,      \* blocks ConnectBlock refuses
    Invalidatable,   \* blocks the operator calls invalidateblock on
    Reconsiderable,  \* ... reconsiderblock on
    Preciousable,    \* ... preciousblock on
    CarefulOperator, \* see PreciousBlock and ReconsiderBlock
    MaxRpcs,         \* bound: calls of the operator
    None

ASSUME TreeAssumption ==
    /\ Blocks \subseteq Nat /\ Genesis \in Blocks /\ None \notin Blocks
    /\ Parent \in [Blocks -> Blocks] /\ Height \in [Blocks -> Nat]
    /\ nChainWork \in [Blocks -> Nat]
    /\ Branch \in [Blocks -> SUBSET Blocks]
    /\ Branch[Genesis] = {Genesis} /\ Height[Genesis] = 0
    /\ \A b \in Blocks \ {Genesis} :
          /\ Branch[b] = {b} \cup Branch[Parent[b]] /\ b \notin Branch[Parent[b]]
          /\ Height[b] = Height[Parent[b]] + 1
          /\ nChainWork[Parent[b]] < nChainWork[b]
    /\ \A b \in Blocks, a \in Blocks : a \in Branch[b] =>
          /\ Branch[a] \subseteq Branch[b]
          /\ a # b => \E c \in Branch[b] \ {Genesis} : Parent[c] = a
    /\ \A b \in Blocks : \A a, c \in Branch[b] :
          Height[a] <= Height[c] => a \in Branch[c]
    /\ \A b \in Blocks : \A a \in Branch[b] :
          Height[a] <= Height[b] /\ (Height[a] = Height[b] => a = b)
    /\ Genesis \notin BadContext \cup BadScripts
    /\ MaxRpcs \in Nat

\* A branch is finite: among any blocks of it there is a lowest one.
ASSUME BranchAssumption ==
    \A b \in Blocks : \A S \in SUBSET Branch[b] :
        S # {} => \E a \in S : \A c \in S : a \in Branch[c]

VARIABLES
    index,           \* m_block_index: the headers known
    data,            \* BLOCK_HAVE_DATA, and so nTx > 0
    linked,          \* HaveNumChainTxs: it and all its ancestors were
    scripts,         \* BLOCK_VALID_SCRIPTS
    failedValid,     \* BLOCK_FAILED_VALID
    failedChild,     \* BLOCK_FAILED_CHILD
    failedBlocks,    \* m_failed_blocks
    nSequenceId,
    nBlockSequenceId,
    nBlockReverseSequenceId,
    nLastPreciousChainwork,
    candidates,      \* setBlockIndexCandidates
    unlinked,        \* m_blocks_unlinked: the entries of each parent, oldest first
    tip,             \* m_chain.Tip()
    queue,           \* the queue of ReceivedBlockTransactions
    pc,              \* the holder of m_chainstate_mutex, and where it is
    wanted,          \* a caller of ActivateBestChain waits for the mutex
    mostWork, startingTip, oldTip, connected,   \* ActivateBestChain
    target, toMark, wasInChain, byWork,         \* InvalidateBlock
    rpcs             \* calls of the operator so far

tree  == <<index, data, linked, scripts>>
flags == <<failedValid, failedChild, failedBlocks>>
keys  == <<nSequenceId, nBlockSequenceId, nBlockReverseSequenceId,
           nLastPreciousChainwork>>
abc   == <<mostWork, startingTip, oldTip, connected>>
inval == <<target, toMark, wasInChain, byWork>>
vars  == <<tree, flags, keys, candidates, unlinked, tip, queue, pc, wanted,
           abc, inval, rpcs>>

-----------------------------------------------------------------------------
(* CBlockIndexWorkComparator: less work, else received later, else at the  *)
(* higher address.                                                         *)
Worse(a, b, id) ==
    \/ nChainWork[a] < nChainWork[b]
    \/ nChainWork[a] = nChainWork[b] /\ id[a] > id[b]
    \/ nChainWork[a] = nChainWork[b] /\ id[a] = id[b] /\ a > b

Failed == failedValid \cup failedChild
Descendants(b) == {d \in index : d # b /\ b \in Branch[d]}

\* IsValid(BLOCK_VALID_TRANSACTIONS) && HaveNumChainTxs()
Connectable == {b \in index : b \in linked /\ b \notin Failed}

\* PruneBlockIndexCandidates, after the tip became t
PruneBlockIndexCandidates(cands, t, id) == {c \in cands : ~Worse(c, t, id)}

\* FindFork: f is the last block of b's chain that is in the chain of a.
IsFork(f, a, b) == /\ f \in Branch[a] \cap Branch[b]
                   /\ \A g \in Branch[a] \cap Branch[b] : Height[g] <= Height[f]

Locked == {"find", "connect"}
CsMainFree == pc \notin Locked /\ queue = <<>>

\* SetBlockFailureFlags, from InvalidChainFound: every descendant of b that
\* is known is failed because of b.
SetBlockFailureFlags(b, valid, child) ==
    /\ failedValid' = valid \ Descendants(b)
    /\ failedChild' = child \cup Descendants(b)

\* A call of the operator.
Rpc == rpcs < MaxRpcs /\ rpcs' = rpcs + 1

-----------------------------------------------------------------------------
Init ==
    /\ index = {Genesis} /\ data = {Genesis}
    /\ linked = {Genesis} /\ scripts = {Genesis}
    /\ failedValid = {} /\ failedChild = {} /\ failedBlocks = {}
    /\ nSequenceId = [b \in Blocks |-> IF b = Genesis THEN 1 ELSE 0]
    /\ nBlockSequenceId = 2 /\ nBlockReverseSequenceId = -1
    /\ nLastPreciousChainwork = 0
    /\ candidates = {Genesis} /\ tip = Genesis
    /\ unlinked = [p \in Blocks |-> <<>>]
    /\ queue = <<>> /\ pc = "idle" /\ wanted = FALSE
    /\ mostWork = None /\ startingTip = None /\ oldTip = None
    /\ connected = FALSE
    /\ target = None /\ toMark = None /\ wasInChain = FALSE /\ byWork = {}
    /\ rpcs = 0

-----------------------------------------------------------------------------
(* Headers and blocks *)

\* The blocks of m_failed_blocks a header on top of p descends from.
FailedBelow(p) == IF p \in scripts THEN {} ELSE failedBlocks \cap Branch[p]

\* AcceptBlockHeader takes b: it is new, and nothing below it is failed.
HeaderFits(b) ==
    /\ b \notin index /\ b # Genesis
    /\ Parent[b] \in index \ Failed

\* A header above a failed block that its parent does not show yet is not
\* taken: the blocks between are marked on account of the first one found.  (The
\* code asserts that this one is BLOCK_FAILED_VALID; after the calls of a careful
\* operator every known descendant of a block of m_failed_blocks is failed, so
\* that the walk finds none.)
AcceptBlockHeader(b) ==
    /\ CsMainFree /\ HeaderFits(b)
    /\ IF FailedBelow(Parent[b]) = {}
       THEN index' = index \cup {b} /\ UNCHANGED failedChild
       ELSE \E f \in FailedBelow(Parent[b]) :
               /\ \A g \in FailedBelow(Parent[b]) : f <= g
               /\ failedChild' = failedChild \cup
                     {c \in Branch[Parent[b]] : c # f /\ f \in Branch[c]}
               /\ UNCHANGED index
    /\ UNCHANGED <<data, linked, scripts, failedValid, failedBlocks, keys,
                   candidates, unlinked, tip, queue, pc, wanted, abc, inval,
                   rpcs>>

\* AcceptBlock goes on to the block's data: its header is known and not
\* failed, or is taken now, and its data is new.  (What AcceptBlock asks of a
\* block nobody requested only makes it take fewer blocks, and a block that is
\* already there only makes ProcessNewBlock call ActivateBestChain again.)
BlockIsTaken(b) ==
    /\ \/ b \in index \ Failed
       \/ HeaderFits(b) /\ FailedBelow(Parent[b]) = {}
    /\ b \notin data

\* AcceptBlock, when ContextualCheckBlock refuses the block.
AcceptBadBlock(b) ==
    /\ CsMainFree /\ b \in BadContext
    /\ BlockIsTaken(b)
    /\ index' = index \cup {b}
    /\ failedValid' = failedValid \cup {b}
    /\ UNCHANGED <<data, linked, scripts, failedChild, failedBlocks, keys,
                   candidates, unlinked, tip, queue, pc, wanted, abc, inval,
                   rpcs>>

\* Mutant: the block is linked although its parent is not.
AcceptAsLinked(b) ==
    /\ CsMainFree /\ b \notin BadContext
    /\ BlockIsTaken(b)
    /\ index' = index \cup {b}
    /\ data' = data \cup {b}
    /\ queue' = <<b>>
    /\ wanted' = TRUE
    /\ UNCHANGED <<linked, scripts, flags, keys, candidates, unlinked, tip, pc,
                   abc, inval, rpcs>>

\* AcceptBlock up to the start of ReceivedBlockTransactions' loop.  Its caller
\* ProcessNewBlock runs ActivateBestChain next.
AcceptBlock(b) ==
    /\ CsMainFree /\ b \notin BadContext
    /\ BlockIsTaken(b)
    /\ index' = index \cup {b}
    /\ data' = data \cup {b}
    /\ IF Parent[b] \in linked
       THEN queue' = <<b>> /\ UNCHANGED unlinked
       ELSE /\ unlinked' = IF Parent[b] \in Failed THEN unlinked
                           ELSE [unlinked EXCEPT ![Parent[b]] = Append(@, b)]
            /\ UNCHANGED queue
    /\ wanted' = TRUE
    /\ UNCHANGED <<linked, scripts, flags, keys, candidates, tip, pc, abc,
                   inval, rpcs>>

\* One turn of ReceivedBlockTransactions' loop, with TryAddBlockIndexCandidate.
LinkBlock ==
    /\ queue # <<>>
    /\ LET b == Head(queue)
           id == [nSequenceId EXCEPT ![b] = nBlockSequenceId]
       IN  /\ linked' = linked \cup {b}
           /\ nSequenceId' = id
           /\ nBlockSequenceId' = nBlockSequenceId + 1
           /\ candidates' = IF Worse(b, tip, id) THEN candidates
                            ELSE candidates \cup {b}
           /\ queue' = Tail(queue) \o unlinked[b]
           /\ unlinked' = [unlinked EXCEPT ![b] = <<>>]
    /\ UNCHANGED <<index, data, scripts, flags, nBlockReverseSequenceId,
                   nLastPreciousChainwork, tip, pc, wanted, abc, inval, rpcs>>

-----------------------------------------------------------------------------
(* ActivateBestChain *)

\* A waiting caller takes m_chainstate_mutex.
ActivateBestChain ==
    /\ pc = "idle" /\ wanted
    /\ pc' = "round" /\ wanted' = FALSE /\ mostWork' = None
    /\ UNCHANGED <<tree, flags, keys, candidates, unlinked, tip, queue,
                   startingTip, oldTip, connected, inval, rpcs>>

\* A round begins: cs_main is taken.
StartRound ==
    /\ pc = "round" /\ CsMainFree
    /\ pc' = "find" /\ startingTip' = tip /\ connected' = FALSE
    /\ UNCHANGED <<tree, flags, keys, candidates, unlinked, tip, queue, wanted,
                   mostWork, oldTip, inval, rpcs>>

\* c is the last of setBlockIndexCandidates.
IsBest(c) == c \in candidates /\ \A d \in candidates : ~Worse(c, d, nSequenceId)

\* Mutant: the blocks on the way are not looked at.
FindWithoutWalk ==
    /\ pc = "find" /\ mostWork = None
    /\ \E best \in Blocks : IsBest(best) /\ mostWork' = best
    /\ UNCHANGED <<tree, flags, keys, candidates, unlinked, tip, queue, pc,
                   wanted, startingTip, oldTip, connected, inval, rpcs>>

\* Mutant: a failed candidate is marked but stays a candidate.
FindKeepsCandidate ==
    /\ pc = "find" /\ mostWork = None
    /\ \E best \in Blocks :
          /\ IsBest(best)
          /\ IF (Branch[best] \ Branch[tip]) \cap Failed = {}
             THEN mostWork' = best /\ UNCHANGED failedChild
             ELSE failedChild' = failedChild \cup {best} /\ UNCHANGED mostWork
    /\ UNCHANGED <<tree, failedValid, failedBlocks, keys, candidates, unlinked,
                   tip, queue, pc, wanted, startingTip, oldTip, connected,
                   inval, rpcs>>

\* One turn of FindMostWorkChain: the best candidate is the result unless a
\* block between the active chain and it is failed; then it and the blocks
\* down to the highest failed one are failed too, and no longer candidates.
\* (A candidate whose data was pruned would go back to m_blocks_unlinked;
\* without pruning the data of a candidate is there, see PathIsReady.)
FindMostWorkChain ==
    /\ pc = "find" /\ mostWork = None
    /\ \E best \in Blocks :
          LET path == Branch[best] \ Branch[tip]
              above(test) == {b \in path : Height[b] > Height[test]}
          IN  /\ IsBest(best)
              /\ \/ /\ path \cap Failed = {}
                    /\ mostWork' = best
                    /\ UNCHANGED <<candidates, failedChild>>
                 \/ \E test \in path \cap Failed :
                       /\ above(test) \cap Failed = {}
                       /\ candidates' = candidates \ (above(test) \cup {test})
                       /\ failedChild' = failedChild \cup above(test)
                       /\ UNCHANGED mostWork
    /\ UNCHANGED <<tree, failedValid, failedBlocks, keys, unlinked, tip, queue,
                   pc, wanted, startingTip, oldTip, connected, inval, rpcs>>

\* Mutant: ActivateBestChain returns after one round.
EndAfterRound(mw, done) ==
    /\ pc' = "idle" /\ mostWork' = None
    /\ startingTip' = None /\ oldTip' = None /\ connected' = FALSE

\* The round ends and cs_main is released: ActivateBestChain returns when
\* nothing was to be done, or the tip is where it was going (mw).
EndRound(mw, done) ==
    /\ pc' = IF done /\ tip' # mw THEN "round" ELSE "idle"
    /\ mostWork' = IF done /\ tip' # mw THEN mw ELSE None
    /\ startingTip' = None /\ oldTip' = None /\ connected' = FALSE

\* There is nothing to do (any more).
NothingToDo ==
    /\ pc = "find" /\ mostWork \in {None, tip}
    /\ mostWork = None => candidates = {}
    /\ UNCHANGED <<tree, flags, keys, candidates, unlinked, tip, queue, wanted,
                   inval, rpcs>>
    /\ EndRound(mostWork, connected)

\* Mutant: cs_main is released after every step.
StepEndsRound(mw) == EndRound(mw, TRUE)

\* ActivateBestChainStep is done, and the inner loop of ActivateBestChain goes
\* on while the tip is worse than the one the round began with.
StepDone(mw) ==
    IF Worse(tip', startingTip, nSequenceId)
    THEN /\ pc' = "find" /\ mostWork' = mw /\ connected' = TRUE
         /\ oldTip' = None /\ UNCHANGED startingTip
    ELSE EndRound(mw, TRUE)

\* ActivateBestChainStep disconnects down to the fork.
DisconnectToFork ==
    /\ pc = "find" /\ mostWork \notin {None, tip}
    /\ tip' \in {f \in Branch[tip] : IsFork(f, tip, mostWork)}
    /\ IF tip' = mostWork THEN StepDone(mostWork)
       ELSE /\ pc' = "connect" /\ oldTip' = tip
            /\ UNCHANGED <<mostWork, startingTip, connected>>
    /\ UNCHANGED <<tree, flags, keys, candidates, unlinked, queue, wanted,
                   inval, rpcs>>

\* The next block on the way to pindexMostWork
NextBlock == CHOOSE b \in Branch[mostWork] : Height[b] = Height[tip] + 1

\* ConnectTip, then PruneBlockIndexCandidates; the step ends at the first tip
\* with more work than the old one.
ConnectTip ==
    /\ pc = "connect" /\ NextBlock \in data \ BadScripts
    /\ tip' = NextBlock
    /\ scripts' = scripts \cup {NextBlock}
    /\ candidates' =
          PruneBlockIndexCandidates(candidates, NextBlock, nSequenceId)
    /\ IF nChainWork[NextBlock] > nChainWork[oldTip] \/ NextBlock = mostWork
       THEN StepDone(mostWork)
       ELSE UNCHANGED <<pc, abc>>
    /\ UNCHANGED <<index, data, linked, flags, keys, unlinked, queue, wanted,
                   inval, rpcs>>

\* ConnectTip fails: InvalidBlockFound, and pindexMostWork is forgotten.
ConnectInvalid ==
    /\ pc = "connect" /\ NextBlock \in data \cap BadScripts
    /\ SetBlockFailureFlags(NextBlock, failedValid \cup {NextBlock}, failedChild)
    /\ failedBlocks' = failedBlocks \cup {NextBlock}
    /\ candidates' = candidates \ {NextBlock}
    /\ UNCHANGED <<tree, keys, unlinked, tip, queue, wanted, inval, rpcs>>
    /\ StepDone(None)

-----------------------------------------------------------------------------
(* preciousblock, reconsiderblock, invalidateblock *)

\* PreciousBlock up to its call of ActivateBestChain.  A careful operator does
\* not call it on the tip when the counter, which starts again as the chain
\* grows, has not come down to the number the tip got in an earlier count.
PreciousBlock(b) ==
    /\ CsMainFree /\ b \in index \cap Preciousable /\ Rpc
    /\ nChainWork[b] >= nChainWork[tip]
    /\ LET n == IF nChainWork[tip] > nLastPreciousChainwork THEN -1
                ELSE nBlockReverseSequenceId
           id == [nSequenceId EXCEPT ![b] = n]
       IN  /\ CarefulOperator /\ b = tip => n <= nSequenceId[tip]
           /\ nSequenceId' = id
           /\ nBlockReverseSequenceId' = n - 1
           /\ candidates' =
                IF b \in Connectable
                THEN PruneBlockIndexCandidates(candidates \cup {b}, tip, id)
                ELSE candidates \ {b}
    /\ nLastPreciousChainwork' = nChainWork[tip]
    /\ wanted' = TRUE
    /\ UNCHANGED <<tree, flags, nBlockSequenceId, unlinked, tip, queue, pc, abc,
                   inval>>

\* ResetBlockFailureFlags: b, its descendants and its ancestors are no longer
\* failed; the first two become candidates.  A careful operator names the
\* lowest failed block of a branch, waits for invalidateblock to return, and
\* leaves a block that ContextualCheckBlock refused alone once a child of it
\* has come (that child was not put in m_blocks_unlinked).
ReconsiderBlock(b) ==
    /\ CsMainFree /\ b \in index \cap Reconsiderable /\ Rpc
    /\ CarefulOperator => /\ Parent[b] \notin Failed
                          /\ pc \notin {"disconnect", "mark"}
    /\ LET down == {d \in index : b \in Branch[d] /\ d \in Failed}
           cleared == down \cup (Branch[b] \cap Failed)
       IN  /\ CarefulOperator => \A d \in data \ {Genesis} :
                                    Parent[d] \notin cleared \cap BadContext
           /\ failedValid' = failedValid \ cleared
           /\ failedChild' = failedChild \ cleared
           /\ failedBlocks' = failedBlocks \ cleared
           /\ candidates' = candidates \cup
                {d \in down : /\ d \in linked
                              /\ Worse(tip, d, nSequenceId)}
    /\ wanted' = TRUE
    /\ UNCHANGED <<tree, keys, unlinked, tip, queue, pc, abc, inval>>

\* InvalidateBlock takes m_chainstate_mutex and lists the blocks that may
\* become candidates as it goes.
InvalidateBlock(b) ==
    /\ pc = "idle" /\ CsMainFree
    /\ b \in (index \cap Invalidatable) \ {Genesis} /\ Rpc
    /\ pc' = "disconnect"
    /\ target' = b /\ toMark' = b /\ wasInChain' = FALSE
    /\ byWork' = {c \in Connectable \ Branch[tip] :
                     ~Worse(c, Parent[b], nSequenceId)}
    /\ UNCHANGED <<tree, flags, keys, candidates, unlinked, tip, queue, wanted,
                   abc>>

\* One turn of its loop: the tip is disconnected and marked, and the blocks
\* that are now not worse than the tip become candidates.
InvalidateTip ==
    /\ pc = "disconnect" /\ CsMainFree
    /\ target \in Branch[tip]
    /\ LET below == Parent[tip]
           swap == IF tip = Parent[toMark] /\ toMark \in failedValid
                   THEN {toMark} ELSE {}
           more == {c \in byWork : ~Worse(c, below, nSequenceId)}
       IN  /\ tip' = below
           /\ failedValid' = (failedValid \cup {tip}) \ swap
           /\ failedChild' = failedChild \cup swap
           /\ candidates' = (candidates \ {tip}) \cup {below} \cup more
           /\ byWork' = byWork \ more
    /\ toMark' = tip /\ wasInChain' = TRUE
    /\ UNCHANGED <<tree, failedBlocks, keys, unlinked, queue, pc, wanted, abc,
                   target, rpcs>>

\* The call is over; the RPC runs ActivateBestChain next.
InvalidateReturns ==
    /\ pc' = "idle" /\ wanted' = TRUE
    /\ target' = None /\ toMark' = None /\ wasInChain' = FALSE /\ byWork' = {}

\* The loop is left when the block is not in the active chain.
InvalidateLoopEnds ==
    /\ pc = "disconnect" /\ CsMainFree
    /\ target \notin Branch[tip]
    /\ pc' = "mark"
    /\ UNCHANGED <<tree, flags, keys, candidates, unlinked, tip, queue, wanted,
                   abc, inval, rpcs>>

\* Mutant: blocks that arrived meanwhile are not looked for.
InvalidateWithoutRescan ==
    /\ pc = "mark" /\ CsMainFree
    /\ LET fresh == IF wasInChain \/ target \in Failed THEN {} ELSE {target}
       IN  /\ SetBlockFailureFlags(toMark, failedValid \cup fresh, failedChild)
           /\ failedBlocks' = failedBlocks \cup fresh
           /\ candidates' = candidates \ fresh
    /\ InvalidateReturns
    /\ UNCHANGED <<tree, keys, unlinked, tip, queue, abc, rpcs>>

\* The last section: a block that was never in the active chain is marked,
\* every block that qualifies is made a candidate, and the descendants of the
\* last block disconnected are failed.
InvalidateMark ==
    /\ pc = "mark" /\ CsMainFree
    /\ IF toMark \in Branch[tip]
       THEN UNCHANGED <<flags, candidates>>
       ELSE LET fresh == IF wasInChain \/ target \in Failed THEN {}
                         ELSE {target}
            IN  /\ SetBlockFailureFlags(toMark, failedValid \cup fresh,
                                        failedChild)
                /\ failedBlocks' = failedBlocks \cup fresh
                /\ candidates' = (candidates \ fresh) \cup
                     {b \in Connectable \ fresh : ~Worse(b, tip, nSequenceId)}
    /\ InvalidateReturns
    /\ UNCHANGED <<tree, keys, unlinked, tip, queue, abc, rpcs>>

-----------------------------------------------------------------------------
Activation ==
    \/ ActivateBestChain \/ StartRound \/ FindMostWorkChain \/ NothingToDo
    \/ DisconnectToFork \/ ConnectTip \/ ConnectInvalid

Invalidation ==
    InvalidateTip \/ InvalidateLoopEnds \/ InvalidateMark

Next ==
    \/ \E b \in Blocks : AcceptBlockHeader(b) \/ AcceptBadBlock(b)
                         \/ AcceptBlock(b) \/ PreciousBlock(b) \/ ReconsiderBlock(b)
                         \/ InvalidateBlock(b)
    \/ LinkBlock
    \/ Activation
    \/ Invalidation

\* The thread that holds a lock goes on, and a thread that waits for
\* m_chainstate_mutex gets it; nothing makes blocks arrive.
Fairness == WF_vars(LinkBlock) /\ WF_vars(Activation) /\ WF_vars(Invalidation)

Spec == Init /\ [][Next]_vars /\ Fairness

-----------------------------------------------------------------------------
(* Properties *)

Statuses == {"idle", "round", "find", "connect", "disconnect", "mark"}

\* Every variable has its type.
TypeOK ==
    /\ index \subseteq Blocks /\ data \subseteq index
    /\ linked \subseteq data /\ scripts \subseteq linked
    /\ failedValid \subseteq index /\ failedChild \subseteq index
    /\ failedBlocks \subseteq index /\ candidates \subseteq index
    /\ nSequenceId \in [Blocks -> Int] /\ nBlockSequenceId \in Nat
    /\ nBlockReverseSequenceId \in Int /\ nLastPreciousChainwork \in Nat
    /\ unlinked \in [Blocks -> Seq(Blocks)] /\ queue \in Seq(Blocks)
    /\ tip \in index /\ pc \in Statuses
    /\ wanted \in BOOLEAN /\ connected \in BOOLEAN /\ wasInChain \in BOOLEAN
    /\ mostWork \in index \cup {None} /\ startingTip \in index \cup {None}
    /\ oldTip \in index \cup {None}
    /\ target \in index \cup {None} /\ toMark \in index \cup {None}
    /\ byWork \subseteq index /\ rpcs \in 0..MaxRpcs

Elems(s) == {s[i] : i \in DOMAIN s}
Unlinked == UNION {Elems(unlinked[p]) : p \in Blocks}
Invalid(b) == Branch[b] \cap failedValid # {}
Missing(b) == ~(Branch[b] \subseteq data)
Invalidating == pc \in {"disconnect", "mark"}

\* What CheckBlockIndex asserts of a block whenever cs_main is free: its links
\* and flags agree with those of its ancestors, it waits in m_blocks_unlinked
\* exactly while a valid chain to it lacks data, and it is in
\* setBlockIndexCandidates when it qualifies and only then.  The last of these
\* is weaker than the code's assertion: while InvalidateBlock runs, a block that
\* arrived after it made its list may be missing from the candidates.  The
\* comment before its last loop calls that an inconsistency that should be
\* unobservable; a CheckBlockIndex in between, such as InvalidateBlock's own
\* before that loop, does observe it.  PruneBlockIndexCandidates asserts that
\* it never empties the set.
CheckBlockIndex ==
    /\ candidates # {}
    /\ CsMainFree =>
        \A b \in index :
            /\ b \in linked <=> ~Missing(b)
            /\ b \notin linked => nSequenceId[b] <= 0
            /\ b \in scripts => Branch[b] \subseteq scripts
            /\ b \in Failed => Invalid(b)
            /\ b \in candidates => ~Worse(b, tip, nSequenceId) /\ ~Missing(b)
            /\ ~Worse(b, tip, nSequenceId) /\ ~Missing(b) /\ ~Invalid(b)
               => b \in candidates \/ Invalidating
            /\ b \in data /\ Missing(b) /\ ~Invalid(b) => b \in Unlinked
            /\ b \in Unlinked => b \in data /\ Missing(b)

\* The path to a new tip is always there: FindMostWorkChain only walks over
\* blocks that were linked (its assertion), the target of an activation is
\* complete and valid for as long as it is kept, also across the rounds that
\* release cs_main, and ConnectTip finds the block it reads on disk, on top of
\* the tip.
PathIsReady ==
    /\ \A c \in candidates : Branch[c] \subseteq linked
    /\ mostWork # None => Branch[mostWork] \subseteq data \ Failed
    /\ pc = "connect" => NextBlock \in data /\ Parent[NextBlock] = tip

\* While cs_main is free, no block of the active chain is marked failed,
\* whatever was invalidated, reconsidered or received in the gaps.
ActiveChainIsValid == CsMainFree => Branch[tip] \cap Failed = {}

\* When nobody holds or waits for m_chainstate_mutex, the tip is the best of
\* the blocks that could be connected: no block with all its data and no
\* failed ancestor is better in the order of the candidates.
TipIsBest ==
    CsMainFree /\ pc = "idle" /\ ~wanted =>
        \A b \in linked : Branch[b] \cap Failed = {} => ~Worse(tip, b, nSequenceId)

\* A round of ActivateBestChain gives cs_main back only with a tip that is not
\* worse than the one it started with, even when a reorganisation fails half
\* way on an invalid block.
RoundNeverLoses ==
    [][(pc \in Locked /\ pc' \notin Locked) =>
          ~Worse(tip', startingTip, nSequenceId)]_vars

\* Whoever waits for ActivateBestChain is served, and the activation comes to
\* rest: it does not chase the tip for ever.
Settles == wanted ~> pc = "idle" /\ ~wanted
=============================================================================
