------------------------ MODULE ChainSelectionProofs ------------------------
(***************************************************************************)
(* Proofs about ChainSelection for every block tree and every set of calls *)
(* of the operator.  Whatever the operator does, the path to a new tip is  *)
(* complete and valid and the active chain never contains a failed block   *)
(* (IInv).  When the operator is careful (see PreciousBlock and            *)
(* ReconsiderBlock), CheckBlockIndex's assertions hold whenever cs_main is *)
(* free, a round never loses ground, and a node at rest is on its best chain*)
(* (SInv).                                                                 *)
(***************************************************************************)
EXTENDS ChainSelection, TLAPS

\* What is known of a block is known of its ancestors, and what waits to be
\* linked has its data.
TreeInv ==
    /\ \A b \in index : Branch[b] \subseteq index
    /\ \A b \in linked : Branch[b] \subseteq linked
    /\ \A i \in 1..Len(queue) :
          queue[i] \in data \ {Genesis} /\ Parent[queue[i]] \in linked
    /\ \A p \in Blocks : \A i \in 1..Len(unlinked[p]) :
          unlinked[p][i] \in data \ {Genesis} /\ Parent[unlinked[p][i]] = p
    /\ candidates \subseteq linked /\ byWork \subseteq linked /\ tip \in linked
    /\ Genesis \in data

\* m_failed_blocks are failed, and neither the active chain nor the chain
\* ActivateBestChain is going to is.
ValidInv ==
    /\ failedBlocks \subseteq Failed
    /\ Branch[tip] \cap Failed = {}
    /\ mostWork # None => mostWork \in linked /\ Branch[mostWork] \cap Failed = {}

\* Where ActivateBestChain and InvalidateBlock are.
PhaseInv ==
    /\ pc \in {"idle", "disconnect", "mark"} => mostWork = None
    /\ pc = "connect" => /\ mostWork # None /\ mostWork # tip
                         /\ tip \in Branch[mostWork]
    /\ pc \in {"disconnect", "mark"} =>
          /\ target \in index \ {Genesis} /\ toMark \in index
          /\ ~wasInChain => toMark = target
    /\ pc = "mark" => target \notin Branch[tip]

\* TypeOK in four parts.
SetsOK ==
    /\ index \subseteq Blocks /\ data \subseteq index
    /\ linked \subseteq data /\ scripts \subseteq linked
    /\ failedValid \subseteq index /\ failedChild \subseteq index
    /\ failedBlocks \subseteq index
KeysOK ==
    /\ nSequenceId \in [Blocks -> Int] /\ nBlockSequenceId \in Nat
    /\ nBlockReverseSequenceId \in Int /\ nLastPreciousChainwork \in Nat
QueuesOK == unlinked \in [Blocks -> Seq(Blocks)] /\ queue \in Seq(Blocks)
LocalsOK ==
    /\ pc \in Statuses
    /\ wanted \in BOOLEAN /\ connected \in BOOLEAN /\ wasInChain \in BOOLEAN
    /\ mostWork \in index \cup {None} /\ startingTip \in index \cup {None}
    /\ oldTip \in index \cup {None}
    /\ target \in index \cup {None} /\ toMark \in index \cup {None}
    /\ rpcs \in 0..MaxRpcs

IInv == /\ SetsOK /\ KeysOK /\ QueuesOK /\ LocalsOK
        /\ TreeInv /\ ValidInv /\ PhaseInv

-----------------------------------------------------------------------------
\* A block is on its own branch, and a branch contains those of its blocks.
LEMMA BranchFacts ==
    ASSUME NEW b \in Blocks
    PROVE  /\ b \in Branch[b] /\ Branch[b] \subseteq Blocks
           /\ \A a \in Branch[b] : Branch[a] \subseteq Branch[b]
           /\ b # Genesis => /\ Branch[b] = {b} \cup Branch[Parent[b]]
                             /\ Parent[b] \in Blocks /\ b \notin Branch[Parent[b]]
                             /\ Parent[b] \in Branch[b]
  <1>1. \A a \in Blocks : a \in Branch[a]
    <2>1. Genesis \in Branch[Genesis]
      BY TreeAssumption
    <2>2. \A a \in Blocks \ {Genesis} : Branch[a] = {a} \cup Branch[Parent[a]]
      BY TreeAssumption
    <2> QED
      BY <2>1, <2>2
  <1>2. /\ \A a \in Branch[b] : Branch[a] \subseteq Branch[b]
        /\ Branch[b] \subseteq Blocks
    BY TreeAssumption
  <1>3. ASSUME b # Genesis
        PROVE  /\ Branch[b] = {b} \cup Branch[Parent[b]] /\ Parent[b] \in Blocks
               /\ b \notin Branch[Parent[b]]
    BY <1>3, TreeAssumption
  <1> QED
    BY <1>1, <1>2, <1>3

\* NextBlock is the child of the tip on the way to pindexMostWork.
LEMMA NextBlockFacts ==
    ASSUME mostWork \in Blocks, tip \in Branch[mostWork], tip # mostWork
    PROVE  /\ NextBlock \in Branch[mostWork] /\ NextBlock # Genesis
           /\ Parent[NextBlock] = tip /\ NextBlock \notin Branch[tip]
  <1>1. tip \in Blocks
    BY TreeAssumption
  <1>2. PICK c \in Branch[mostWork] \ {Genesis} : Parent[c] = tip
    BY <1>1, TreeAssumption
  <1>3. c \in Blocks /\ Height[c] = Height[tip] + 1
    BY <1>2, TreeAssumption
  <1>4. NextBlock \in Branch[mostWork] /\ Height[NextBlock] = Height[tip] + 1
    BY <1>2, <1>3 DEF NextBlock
  <1>5. NextBlock \in Blocks /\ Height[NextBlock] \in Nat /\ Height[c] \in Nat
    BY <1>3, <1>4, TreeAssumption
  <1>6. NextBlock \in Branch[c]
    BY <1>2, <1>3, <1>4, <1>5, TreeAssumption
  <1>7. NextBlock = c
    BY <1>3, <1>4, <1>5, <1>6, TreeAssumption
  <1> QED
    BY <1>2, <1>3, <1>7, TreeAssumption

\* The initial state satisfies the invariant.
LEMMA Initially == Init => IInv
  <1> SUFFICES ASSUME Init PROVE IInv
    OBVIOUS
  <1>1. /\ Genesis \in Blocks /\ Branch[Genesis] = {Genesis} /\ MaxRpcs \in Nat
        /\ Blocks \subseteq Nat
    BY TreeAssumption
  <1>2. SetsOK
    BY <1>1 DEF Init, SetsOK
  <1>3. LocalsOK
    <2>1. wanted \in BOOLEAN /\ connected \in BOOLEAN /\ wasInChain \in BOOLEAN
      BY Zenon DEF Init
    <2> QED
      BY <1>1, <2>1 DEF Init, LocalsOK, Statuses
  <1>4. KeysOK
    BY <1>1 DEF Init, KeysOK
  <1>5. QueuesOK
    BY DEF Init, QueuesOK
  <1>6. TreeInv
    BY <1>1 DEF Init, TreeInv
  <1>7. ValidInv
    BY DEF Init, ValidInv, Failed
  <1>8. PhaseInv
    BY DEF Init, PhaseInv
  <1> QED
    BY <1>2, <1>5, <1>6, <1>7, <1>8, <1>4, <1>3 DEF IInv

-----------------------------------------------------------------------------
(* Headers and blocks                                                      *)

\* AcceptBlockHeader keeps the invariant: a new header goes on a known parent.
LEMMA HeaderStep ==
    ASSUME IInv, NEW b \in Blocks, AcceptBlockHeader(b)
    PROVE  IInv'
  <1> USE DEF IInv
  <1>1. /\ Parent[b] \in index /\ b # Genesis /\ b \notin index
        /\ Branch[b] = {b} \cup Branch[Parent[b]]
    BY BranchFacts DEF AcceptBlockHeader, HeaderFits
  <1>2. CASE FailedBelow(Parent[b]) = {}
    <2>1. index' = index \cup {b} /\ Failed' = Failed
      BY <1>2 DEF AcceptBlockHeader, Failed
    <2>2. (SetsOK /\ KeysOK /\ QueuesOK /\ LocalsOK)'
      BY <1>2, <2>1 DEF AcceptBlockHeader, SetsOK, KeysOK, QueuesOK, LocalsOK,
           keys, abc, inval
    <2>3. TreeInv'
      BY <1>1, <1>2, <2>1 DEF AcceptBlockHeader, TreeInv, abc, inval
    <2>4. ValidInv'
      BY <1>2, <2>1 DEF AcceptBlockHeader, ValidInv, abc, inval
    <2>5. PhaseInv'
      BY <1>2, <2>1 DEF AcceptBlockHeader, PhaseInv, abc, inval
    <2> QED
      BY <2>2, <2>3, <2>4, <2>5
  <1>3. CASE FailedBelow(Parent[b]) # {}
    <2>1. PICK f \in FailedBelow(Parent[b]) :
             /\ failedChild' = failedChild \cup
                   {c \in Branch[Parent[b]] : c # f /\ f \in Branch[c]}
             /\ UNCHANGED index
      BY <1>3 DEF AcceptBlockHeader
    <2>2. f \in Failed
      BY <2>1 DEF FailedBelow, ValidInv
    <2>3. Branch[Parent[b]] \subseteq index
      BY <1>1 DEF TreeInv
    <2>4. (SetsOK /\ KeysOK /\ QueuesOK /\ LocalsOK)'
      BY Zenon, <2>1, <2>3 DEF AcceptBlockHeader, SetsOK, KeysOK, QueuesOK, LocalsOK,
           keys, abc, inval
    <2>5. TreeInv'
      BY <2>1 DEF AcceptBlockHeader, TreeInv, abc, inval
    <2>6. ASSUME NEW t \in Blocks, Branch[t] \cap Failed = {}
          PROVE  Branch[t] \cap Failed' = {}
      <3>1. \A c \in Branch[t] : f \notin Branch[c]
        BY <2>2, <2>6, BranchFacts
      <3> QED
        BY <2>1, <2>6, <3>1 DEF Failed, AcceptBlockHeader
    <2>7. tip \in Blocks /\ (mostWork # None => mostWork \in Blocks)
      BY DEF TreeInv, ValidInv, SetsOK
    <2>8. ValidInv'
      BY <2>1, <2>6, <2>7 DEF AcceptBlockHeader, ValidInv, Failed, abc, inval
    <2>9. PhaseInv'
      BY <2>1 DEF AcceptBlockHeader, PhaseInv, abc, inval
    <2> QED
      BY <2>4, <2>5, <2>8, <2>9
  <1> QED
    BY <1>2, <1>3

\* The header of a block that is taken is known or fits.
LEMMA TakenFacts ==
    ASSUME IInv, NEW b \in Blocks, BlockIsTaken(b), b # Genesis
    PROVE  /\ Branch[b] \subseteq index \cup {b} /\ b \notin data
           /\ Parent[b] \in index
  <1>1. b \in Branch[b] /\ Parent[b] \in Branch[b] /\ Branch[b] = {b} \cup Branch[Parent[b]]
    BY BranchFacts
  <1> QED
    BY Zenon, <1>1 DEF IInv, TreeInv, BlockIsTaken, HeaderFits

\* AcceptBlock of a block that fails its checks only marks it.
LEMMA BadBlockStep ==
    ASSUME IInv, NEW b \in Blocks, AcceptBadBlock(b)
    PROVE  IInv'
  <1>1. b # Genesis
    BY TreeAssumption DEF AcceptBadBlock
  <1>2. Branch[b] \subseteq index \cup {b} /\ b \notin data
    BY <1>1, TakenFacts DEF AcceptBadBlock
  <1> USE DEF IInv
  <1>3. (SetsOK /\ KeysOK /\ QueuesOK /\ LocalsOK)'
    BY DEF AcceptBadBlock, SetsOK, KeysOK, QueuesOK, LocalsOK, keys, abc, inval
  <1>4. TreeInv'
    BY <1>2 DEF AcceptBadBlock, TreeInv, inval
  <1>5. b \notin Branch[tip] /\ (mostWork # None => b \notin Branch[mostWork])
    BY <1>2 DEF TreeInv, ValidInv, SetsOK
  <1>6. ValidInv'
    BY <1>5 DEF AcceptBadBlock, ValidInv, Failed, abc
  <1>7. PhaseInv'
    BY DEF AcceptBadBlock, PhaseInv, abc, inval
  <1> QED
    BY <1>3, <1>4, <1>6, <1>7

\* AcceptBlock of a good block: it is linked or queued under its parent.
LEMMA BlockStep ==
    ASSUME IInv, NEW b \in Blocks, AcceptBlock(b)
    PROVE  IInv'
  <1>1. b # Genesis
    BY DEF AcceptBlock, BlockIsTaken, IInv, TreeInv
  <1>2. /\ Branch[b] \subseteq index \cup {b} /\ b \notin data
        /\ Parent[b] \in index
    BY Zenon, <1>1, TakenFacts DEF AcceptBlock
  <1> USE DEF IInv
  <1>3. Parent[b] \in Blocks /\ queue = <<>>
    BY Zenon, <1>2 DEF SetsOK, AcceptBlock, CsMainFree
  <1>4. (SetsOK /\ KeysOK /\ LocalsOK)'
    BY Zenon DEF AcceptBlock, SetsOK, KeysOK, LocalsOK, flags, keys, abc, inval
  <1>5. CASE Parent[b] \in linked
    <2>1. queue' = <<b>> /\ UNCHANGED unlinked
      BY <1>5 DEF AcceptBlock
    <2>2. QueuesOK'
      BY <2>1 DEF QueuesOK
    <2>3. TreeInv'
      BY <1>1, <1>2, <1>5, <2>1 DEF AcceptBlock, TreeInv, SetsOK, inval
    <2> QED
      BY <1>4, <2>2, <2>3 DEF AcceptBlock, ValidInv, PhaseInv, Failed, flags,
           abc, inval
  <1>6. CASE Parent[b] \notin linked
    <2> DEFINE u == [unlinked EXCEPT ![Parent[b]] = Append(unlinked[Parent[b]], b)]
    <2>1. queue' = queue /\ (unlinked' = unlinked \/ unlinked' = u)
      BY <1>6 DEF AcceptBlock
    <2>2. u \in [Blocks -> Seq(Blocks)]
      BY <1>3 DEF QueuesOK
    <2>3. QueuesOK'
      BY Zenon, <2>1, <2>2 DEF QueuesOK
    <2>4. ASSUME NEW p \in Blocks, NEW i \in 1..Len(u[p])
          PROVE  u[p][i] \in (data \cup {b}) \ {Genesis} /\ Parent[u[p][i]] = p
      <3>1. CASE p # Parent[b]
        BY <2>4, <3>1 DEF QueuesOK, TreeInv
      <3>2. CASE p = Parent[b]
        <4>1. u[p] = Append(unlinked[p], b) /\ unlinked[p] \in Seq(Blocks)
          BY <1>3, <3>2 DEF QueuesOK
        <4>2. CASE i = Len(unlinked[p]) + 1
          BY <1>1, <3>2, <4>1, <4>2
        <4>3. CASE i \in 1..Len(unlinked[p])
          BY <4>1, <4>3 DEF TreeInv
        <4> QED
          BY <2>4, <4>1, <4>2, <4>3
      <3> QED
        BY <3>1, <3>2
    <2> HIDE DEF u
    <2>5. TreeInv'
      BY <1>1, <1>2, <1>3, <2>1, <2>4 DEF AcceptBlock, TreeInv, SetsOK, inval
    <2> QED
      BY <1>4, <2>3, <2>5 DEF AcceptBlock, ValidInv, PhaseInv, Failed, flags,
           abc, inval
  <1> QED
    BY Zenon, <1>5, <1>6

\* One turn of ReceivedBlockTransactions: a block is linked after its parent.
LEMMA LinkStep ==
    ASSUME IInv, LinkBlock
    PROVE  IInv'
  <1> USE DEF IInv
  <1> DEFINE b == queue[1]
             id == [nSequenceId EXCEPT ![b] = nBlockSequenceId]
  <1>1. /\ queue # <<>> /\ queue \in Seq(Blocks) /\ 1 \in 1..Len(queue)
        /\ Head(queue) = b
    BY DEF LinkBlock, QueuesOK
  <1>2. b \in Blocks /\ b \in data \ {Genesis} /\ Parent[b] \in linked
    BY <1>1 DEF TreeInv
  <1>3. /\ linked' = linked \cup {b} /\ nSequenceId' = id
        /\ nBlockSequenceId' = nBlockSequenceId + 1
        /\ candidates' \subseteq candidates \cup {b}
        /\ queue' = Tail(queue) \o unlinked[b]
        /\ unlinked' = [unlinked EXCEPT ![b] = <<>>]
    BY Zenon, <1>1 DEF LinkBlock
  <1>4. SetsOK' /\ LocalsOK'
    BY Zenon, <1>2, <1>3 DEF LinkBlock, SetsOK, LocalsOK, flags, abc, inval
  <1>5. KeysOK'
    BY <1>2, <1>3 DEF LinkBlock, KeysOK
  <1>6. unlinked[b] \in Seq(Blocks) /\ Tail(queue) \in Seq(Blocks)
    BY <1>1, <1>2 DEF QueuesOK
  <1>7. QueuesOK'
    BY <1>3, <1>6 DEF QueuesOK
  <1> HIDE DEF b
  <1>8. ASSUME NEW i \in 1..Len(queue')
        PROVE  queue'[i] \in data \ {Genesis} /\ Parent[queue'[i]] \in linked'
    <2>1. CASE i <= Len(Tail(queue))
      <3>1. queue'[i] = queue[i + 1] /\ i + 1 \in 1..Len(queue)
        BY <1>1, <1>3, <1>6, <2>1
      <3> QED
        BY <1>3, <3>1 DEF TreeInv
    <2>2. CASE ~(i <= Len(Tail(queue)))
      <3> DEFINE j == i - Len(Tail(queue))
      <3>1. queue'[i] = unlinked[b][j] /\ j \in 1..Len(unlinked[b])
        BY <1>1, <1>3, <1>6, <2>2
      <3> HIDE DEF j
      <3> QED
        BY <1>2, <1>3, <3>1 DEF TreeInv
    <2> QED
      BY Zenon, <2>1, <2>2
  <1>9. Branch[b] \subseteq linked'
    <2>1. Branch[b] = {b} \cup Branch[Parent[b]]
      BY <1>2, BranchFacts
    <2> QED
      BY <1>2, <1>3, <2>1 DEF TreeInv
  <1>10. ASSUME NEW p \in Blocks, NEW i \in 1..Len(unlinked'[p])
         PROVE  unlinked'[p][i] \in data \ {Genesis} /\ Parent[unlinked'[p][i]] = p
    <2>1. CASE p = b
      BY <1>2, <1>3, <1>10, <2>1 DEF QueuesOK
    <2>2. CASE p # b
      BY Zenon, <1>3, <1>10, <2>2 DEF QueuesOK, TreeInv
    <2> QED
      BY <2>1, <2>2
  <1>11. /\ \A c \in linked' : Branch[c] \subseteq linked'
         /\ candidates' \subseteq linked' /\ byWork' \subseteq linked'
         /\ tip' \in linked' /\ Genesis \in data'
         /\ \A c \in index' : Branch[c] \subseteq index'
    BY Zenon, <1>3, <1>9 DEF LinkBlock, TreeInv, inval
  <1>12. TreeInv'
    <2>1. data' = data
      BY Zenon DEF LinkBlock
    <2> QED
      BY <1>8, <1>10, <1>11, <2>1 DEF TreeInv
  <1>13. ValidInv' /\ PhaseInv'
    BY <1>3 DEF LinkBlock, ValidInv, PhaseInv, Failed, flags, abc, inval
  <1> QED
    BY <1>4, <1>5, <1>7, <1>12, <1>13

-----------------------------------------------------------------------------
(* ActivateBestChain                                                       *)

\* ActivateBestChain takes the locks.
LEMMA BeginStep ==
    ASSUME IInv, ActivateBestChain \/ StartRound
    PROVE  IInv'
  <1> USE DEF IInv, tree, flags, keys, abc, inval
  <1>1. CASE ActivateBestChain
    <2>1. (SetsOK /\ KeysOK /\ QueuesOK /\ LocalsOK)'
      BY Zenon, <1>1 DEF ActivateBestChain, SetsOK, KeysOK, QueuesOK, LocalsOK, Statuses
    <2>2. TreeInv' /\ ValidInv' /\ PhaseInv'
      BY <1>1 DEF ActivateBestChain, TreeInv, ValidInv, PhaseInv, Failed
    <2> QED
      BY Zenon, <2>1, <2>2
  <1>2. CASE StartRound
    <2>1. (SetsOK /\ KeysOK /\ QueuesOK /\ LocalsOK)'
      BY Zenon, <1>2 DEF StartRound, SetsOK, KeysOK, QueuesOK, LocalsOK, Statuses, TreeInv
    <2>2. TreeInv' /\ ValidInv' /\ PhaseInv'
      BY <1>2 DEF StartRound, TreeInv, ValidInv, PhaseInv, Failed
    <2> QED
      BY <2>1, <2>2
  <1> QED
    BY <1>1, <1>2

\* FindMostWorkChain chooses a target whose branch is complete and valid.
LEMMA FindStep ==
    ASSUME IInv, FindMostWorkChain
    PROVE  IInv'
  <1> USE DEF IInv, tree, keys, inval
  <1> DEFINE path(best) == Branch[best] \ Branch[tip]
             above(best, test) == {b \in path(best) : Height[b] > Height[test]}
  <1>1. PICK best \in Blocks :
          /\ IsBest(best)
          /\ \/ /\ path(best) \cap Failed = {}
                /\ mostWork' = best
                /\ UNCHANGED <<candidates, failedChild>>
             \/ \E test \in path(best) \cap Failed :
                   /\ candidates' = candidates \ (above(best, test) \cup {test})
                   /\ failedChild' = failedChild \cup above(best, test)
                   /\ UNCHANGED mostWork
    BY Zenon DEF FindMostWorkChain
  <1>2. best \in linked /\ Branch[best] \subseteq linked
    BY <1>1 DEF IsBest, TreeInv
  <1>3. CASE mostWork' = best /\ path(best) \cap Failed = {}
             /\ UNCHANGED <<candidates, failedChild>>
    <2>1. (SetsOK /\ KeysOK /\ QueuesOK /\ LocalsOK)'
      BY Zenon, <1>2, <1>3 DEF FindMostWorkChain, SetsOK, KeysOK, QueuesOK, LocalsOK
    <2>2. TreeInv' /\ PhaseInv'
      BY Zenon, <1>3 DEF FindMostWorkChain, TreeInv, PhaseInv
    <2>3. ValidInv'
      BY <1>2, <1>3 DEF FindMostWorkChain, ValidInv, Failed
    <2> QED
      BY Zenon, <2>1, <2>2, <2>3
  <1>4. ASSUME NEW test \in path(best) \cap Failed,
               candidates' = candidates \ (above(best, test) \cup {test}),
               failedChild' = failedChild \cup above(best, test),
               UNCHANGED mostWork
        PROVE  IInv'
    <2>1. above(best, test) \subseteq index /\ above(best, test) \cap Branch[tip] = {}
      BY Zenon, <1>2 DEF SetsOK
    <2> HIDE DEF above
    <2>2. (SetsOK /\ KeysOK /\ QueuesOK /\ LocalsOK)'
      BY Zenon, <1>4, <2>1 DEF FindMostWorkChain, SetsOK, KeysOK, QueuesOK, LocalsOK
    <2>3. TreeInv' /\ PhaseInv'
      BY Zenon, <1>4 DEF FindMostWorkChain, TreeInv, PhaseInv
    <2>4. ValidInv'
      BY <1>4, <2>1 DEF FindMostWorkChain, ValidInv, Failed
    <2> QED
      BY <2>2, <2>3, <2>4
  <1> QED
    BY Zenon, <1>1, <1>3, <1>4

\* How a step of ActivateBestChain ends: what it is going to is kept or
\* forgotten.
LEMMA EndFacts ==
    ASSUME IInv, NEW mw, StepDone(mw) \/ \E d : EndRound(mw, d)
    PROVE  /\ pc' \in {"idle", "round", "find"}
           /\ mostWork' \in {mw, None} /\ (pc' = "idle" => mostWork' = None)
           /\ startingTip' \in {startingTip, None} /\ oldTip' = None
           /\ connected' \in BOOLEAN
  <1>1. ASSUME NEW d, EndRound(mw, d)
        PROVE  /\ pc' \in {"idle", "round", "find"}
               /\ mostWork' \in {mw, None} /\ (pc' = "idle" => mostWork' = None)
               /\ startingTip' \in {startingTip, None} /\ oldTip' = None
               /\ connected' \in BOOLEAN
    <2>1. connected' \in BOOLEAN
      BY <1>1, Zenon DEF EndRound
    <2> QED
      BY <1>1, <2>1 DEF EndRound
  <1>2. CASE StepDone(mw) /\ Worse(tip', startingTip, nSequenceId)
    <2>1. connected' \in BOOLEAN
      BY <1>2, Zenon DEF StepDone
    <2> QED
      BY <1>2, <2>1 DEF StepDone
  <1>3. CASE StepDone(mw) /\ ~Worse(tip', startingTip, nSequenceId)
    BY Zenon, <1>1, <1>3 DEF StepDone
  <1> QED
    BY <1>1, <1>2, <1>3

\* ActivateBestChain finds its target already at the tip.
LEMMA NothingStep ==
    ASSUME IInv, NothingToDo
    PROVE  IInv'
  <1> USE DEF IInv, tree, flags, keys, inval
  <1>1. /\ pc' \in {"idle", "round", "find"}
        /\ mostWork' \in {mostWork, None} /\ (pc' = "idle" => mostWork' = None)
        /\ startingTip' \in {startingTip, None} /\ oldTip' = None
        /\ connected' \in BOOLEAN
    BY EndFacts DEF NothingToDo
  <1>2. (SetsOK /\ KeysOK /\ QueuesOK /\ LocalsOK)'
    BY Zenon, <1>1 DEF NothingToDo, SetsOK, KeysOK, QueuesOK, LocalsOK, Statuses
  <1>3. TreeInv' /\ ValidInv' /\ PhaseInv'
    BY <1>1 DEF NothingToDo, TreeInv, ValidInv, PhaseInv, Failed
  <1> QED
    BY <1>2, <1>3

\* DisconnectTip steps back along the branch of the tip.
LEMMA DisconnectStep ==
    ASSUME IInv, DisconnectToFork
    PROVE  IInv'
  <1> USE DEF IInv, tree, flags, keys, inval
  <1>1. /\ tip' \in Branch[tip] \cap Branch[mostWork] /\ pc = "find"
        /\ mostWork \notin {None, tip}
    BY Zenon DEF DisconnectToFork, IsFork
  <1>2. tip \in Blocks /\ tip' \in linked /\ Branch[tip'] \subseteq Branch[tip]
    BY Zenon, <1>1, BranchFacts DEF TreeInv, SetsOK
  <1>3. \/ /\ pc' = "connect" /\ oldTip' = tip /\ tip' # mostWork
           /\ UNCHANGED <<mostWork, startingTip, connected>>
        \/ /\ pc' \in {"idle", "round", "find"}
           /\ mostWork' \in {mostWork, None} /\ (pc' = "idle" => mostWork' = None)
           /\ startingTip' \in {startingTip, None} /\ oldTip' = None
           /\ connected' \in BOOLEAN
    BY Zenon, EndFacts DEF DisconnectToFork
  <1>4. (SetsOK /\ KeysOK /\ QueuesOK /\ LocalsOK)'
    <2>1. (SetsOK /\ KeysOK /\ QueuesOK)'
      BY Zenon DEF DisconnectToFork, SetsOK, KeysOK, QueuesOK
    <2>2. /\ UNCHANGED <<index, wanted, rpcs, wasInChain, target, toMark>>
          /\ tip \in index
      BY Zenon DEF DisconnectToFork, TreeInv, SetsOK
    <2>3. pc' \in Statuses /\ connected' \in BOOLEAN
      BY <1>3 DEF LocalsOK, Statuses
    <2>4. /\ mostWork' \in index \cup {None} /\ startingTip' \in index \cup {None}
          /\ oldTip' \in index \cup {None}
      BY Zenon, <1>3, <2>2 DEF LocalsOK
    <2>5. LocalsOK'
      BY Zenon, <2>2, <2>3, <2>4 DEF LocalsOK
    <2> QED
      BY Zenon, <2>1, <2>5
  <1>5. TreeInv' /\ ValidInv'
    BY Zenon, <1>2, <1>3 DEF DisconnectToFork, TreeInv, ValidInv, Failed
  <1>6. PhaseInv'
    BY Zenon, <1>1, <1>3 DEF DisconnectToFork, PhaseInv
  <1> QED
    BY Zenon, <1>4, <1>5, <1>6

\* What ConnectTip reads, in a state where it is called.
LEMMA ConnectFacts ==
    ASSUME IInv, pc = "connect"
    PROVE  /\ mostWork \in Blocks /\ NextBlock \in Branch[mostWork] /\ NextBlock \in linked
           /\ NextBlock \in Blocks /\ Parent[NextBlock] = tip
           /\ NextBlock \notin Branch[tip] /\ NextBlock \notin Failed
           /\ Branch[NextBlock] \subseteq Branch[mostWork]
  <1>1. mostWork \in linked /\ mostWork \in Blocks
    BY DEF IInv, PhaseInv, ValidInv, SetsOK
  <1>2. /\ NextBlock \in Branch[mostWork]
        /\ Parent[NextBlock] = tip /\ NextBlock \notin Branch[tip]
    BY Zenon, <1>1, NextBlockFacts DEF IInv, PhaseInv
  <1>3. Branch[mostWork] \subseteq linked /\ Branch[mostWork] \cap Failed = {}
    BY <1>1 DEF IInv, TreeInv, ValidInv, PhaseInv
  <1> QED
    BY Zenon, <1>1, <1>2, <1>3, BranchFacts

\* ConnectTip extends the active chain by a valid block.
LEMMA ConnectStep ==
    ASSUME IInv, ConnectTip
    PROVE  IInv'
  <1>1. /\ mostWork \in Blocks /\ NextBlock \in Branch[mostWork] /\ NextBlock \in linked
        /\ Branch[NextBlock] \subseteq Branch[mostWork]
    BY ConnectFacts DEF ConnectTip
  <1>2. /\ pc = "connect" /\ tip' = NextBlock /\ scripts' = scripts \cup {NextBlock}
        /\ candidates' \subseteq candidates
    BY Zenon DEF ConnectTip, PruneBlockIndexCandidates
  <1>3. \/ NextBlock # mostWork /\ UNCHANGED <<pc, abc>>
        \/ /\ pc' \in {"idle", "round", "find"}
           /\ mostWork' \in {mostWork, None} /\ (pc' = "idle" => mostWork' = None)
           /\ startingTip' \in {startingTip, None} /\ oldTip' = None
           /\ connected' \in BOOLEAN
    BY Zenon, EndFacts DEF ConnectTip
  <1> HIDE DEF NextBlock
  <1> USE DEF IInv, flags, keys, inval, abc
  <1>4. (SetsOK /\ KeysOK /\ QueuesOK /\ LocalsOK)'
    BY Zenon, <1>1, <1>2, <1>3 DEF ConnectTip, SetsOK, KeysOK, QueuesOK, LocalsOK, Statuses
  <1>5. TreeInv' /\ ValidInv'
    <2>1. UNCHANGED <<index, data, linked, failedValid, failedChild, failedBlocks, queue,
                      unlinked, byWork>>
      BY Zenon DEF ConnectTip
    <2>2. TreeInv'
      BY Zenon, <1>1, <1>2, <2>1 DEF TreeInv
    <2>3. Failed' = Failed /\ mostWork' \in {mostWork, None}
      BY Zenon, <1>3, <2>1 DEF Failed
    <2>4. mostWork # None
      BY Zenon, <1>2 DEF PhaseInv
    <2>5. ValidInv'
      BY <1>1, <1>2, <2>1, <2>3, <2>4 DEF ValidInv
    <2> QED
      BY Zenon, <2>2, <2>5
  <1>6. PhaseInv'
    BY Zenon, <1>1, <1>2, <1>3 DEF ConnectTip, PhaseInv
  <1> QED
    BY Zenon, <1>4, <1>5, <1>6

\* ConnectTip meets an invalid block and marks it and its descendants.
LEMMA InvalidStep ==
    ASSUME IInv, ConnectInvalid
    PROVE  IInv'
  <1>1. /\ NextBlock \in linked /\ NextBlock \in Blocks
        /\ NextBlock \notin Branch[tip]
    BY ConnectFacts DEF ConnectInvalid
  <1>2. /\ pc' \in {"idle", "round", "find"} /\ mostWork' = None
        /\ startingTip' \in {startingTip, None} /\ oldTip' = None
        /\ connected' \in BOOLEAN
    BY EndFacts DEF ConnectInvalid
  <1>3. /\ failedValid' = (failedValid \cup {NextBlock}) \ Descendants(NextBlock)
        /\ failedChild' = failedChild \cup Descendants(NextBlock)
        /\ failedBlocks' = failedBlocks \cup {NextBlock}
        /\ candidates' = candidates \ {NextBlock}
    BY DEF ConnectInvalid, SetBlockFailureFlags
  <1>4. Descendants(NextBlock) \subseteq index
    BY Zenon DEF Descendants
  <1>5. Branch[tip] \cap Descendants(NextBlock) = {}
    <2>1. tip \in Blocks
      BY DEF IInv, TreeInv, SetsOK
    <2> QED
      BY Zenon, <1>1, <2>1, BranchFacts DEF Descendants
  <1>6. NextBlock \notin Descendants(NextBlock)
    BY Zenon DEF Descendants
  <1> HIDE DEF NextBlock
  <1> USE DEF IInv, tree, keys, inval
  <1>7. (SetsOK /\ KeysOK /\ QueuesOK /\ LocalsOK)'
    BY Zenon, <1>1, <1>2, <1>3, <1>4 DEF ConnectInvalid, SetsOK, KeysOK, QueuesOK, LocalsOK,
         Statuses
  <1>8. TreeInv'
    BY Zenon, <1>3 DEF ConnectInvalid, TreeInv
  <1>9. ValidInv'
    BY Zenon, <1>1, <1>2, <1>3, <1>5, <1>6 DEF ConnectInvalid, ValidInv, Failed
  <1>10. PhaseInv'
    BY <1>2 DEF ConnectInvalid, PhaseInv
  <1> QED
    BY Zenon, <1>7, <1>8, <1>9, <1>10

-----------------------------------------------------------------------------
(* preciousblock, reconsiderblock, invalidateblock                         *)

\* preciousblock renumbers a block and adds candidates that are linked.
LEMMA PreciousStep ==
    ASSUME IInv, NEW b \in Blocks, PreciousBlock(b)
    PROVE  IInv'
  <1> USE DEF IInv, tree, flags, abc, inval
  <1>1. PICK n \in Int : /\ nSequenceId' = [nSequenceId EXCEPT ![b] = n]
                         /\ nBlockReverseSequenceId' = n - 1
    <2> DEFINE m == IF nChainWork[tip] > nLastPreciousChainwork THEN -1
                    ELSE nBlockReverseSequenceId
    <2>1. m \in Int
      BY DEF KeysOK
    <2>2. /\ nSequenceId' = [nSequenceId EXCEPT ![b] = m]
          /\ nBlockReverseSequenceId' = m - 1
      BY DEF PreciousBlock
    <2> HIDE DEF m
    <2> QED
      BY Zenon, <2>1, <2>2
  <1>2. candidates' \subseteq candidates \cup Connectable
    BY DEF PreciousBlock, PruneBlockIndexCandidates
  <1>3. SetsOK' /\ QueuesOK'
    BY DEF PreciousBlock, SetsOK, QueuesOK
  <1>4. LocalsOK'
    <2>1. /\ rpcs < MaxRpcs /\ rpcs' = rpcs + 1 /\ wanted' = TRUE
          /\ UNCHANGED <<index, pc, connected, wasInChain, mostWork, startingTip, oldTip,
                         target, toMark>>
      BY Zenon DEF PreciousBlock, Rpc
    <2>2. rpcs' \in 0..MaxRpcs
      <3>1. MaxRpcs \in Nat /\ rpcs \in 0..MaxRpcs
        BY Zenon, TreeAssumption DEF LocalsOK
      <3> QED
        BY <2>1, <3>1
    <2> QED
      BY Zenon, <2>1, <2>2 DEF LocalsOK
  <1>5. KeysOK'
    <2>1. nLastPreciousChainwork' \in Nat
      BY Zenon, TreeAssumption DEF PreciousBlock, TreeInv, SetsOK
    <2> QED
      BY <1>1, <2>1 DEF PreciousBlock, KeysOK
  <1>6. TreeInv' /\ ValidInv' /\ PhaseInv'
    BY Zenon, <1>2 DEF PreciousBlock, TreeInv, ValidInv, PhaseInv, Failed, Connectable
  <1> QED
    BY <1>3, <1>4, <1>5, <1>6

\* reconsiderblock clears flags and adds candidates that are linked.
LEMMA ReconsiderStep ==
    ASSUME IInv, NEW b \in Blocks, ReconsiderBlock(b)
    PROVE  IInv'
  <1> USE DEF IInv, tree, keys, abc, inval
  <1>1. PICK cleared \in SUBSET Blocks :
          /\ failedValid' = failedValid \ cleared
          /\ failedChild' = failedChild \ cleared
          /\ failedBlocks' = failedBlocks \ cleared
    <2> DEFINE down == {d \in index : b \in Branch[d] /\ d \in Failed}
               all == down \cup (Branch[b] \cap Failed)
    <2>1. all \in SUBSET Blocks
      BY DEF SetsOK, Failed
    <2>2. /\ failedValid' = failedValid \ all
          /\ failedChild' = failedChild \ all
          /\ failedBlocks' = failedBlocks \ all
      BY Zenon DEF ReconsiderBlock
    <2> HIDE DEF all
    <2> QED
      BY <2>1, <2>2
  <1>2. candidates' \subseteq candidates \cup linked
    BY Zenon DEF ReconsiderBlock
  <1>3. (SetsOK /\ KeysOK /\ QueuesOK)'
    BY Zenon, <1>1 DEF ReconsiderBlock, SetsOK, KeysOK, QueuesOK
  <1>4. LocalsOK'
    <2>1. /\ rpcs < MaxRpcs /\ rpcs' = rpcs + 1 /\ wanted' = TRUE
          /\ UNCHANGED <<index, pc, connected, wasInChain, mostWork, startingTip, oldTip,
                         target, toMark>>
      BY Zenon DEF ReconsiderBlock, Rpc
    <2>2. rpcs' \in 0..MaxRpcs
      <3>1. MaxRpcs \in Nat /\ rpcs \in 0..MaxRpcs
        BY Zenon, TreeAssumption DEF LocalsOK
      <3> QED
        BY <2>1, <3>1
    <2> QED
      BY Zenon, <2>1, <2>2 DEF LocalsOK
  <1>5. TreeInv' /\ PhaseInv'
    BY Zenon, <1>2 DEF ReconsiderBlock, TreeInv, PhaseInv
  <1>6. ValidInv'
    BY Zenon, <1>1 DEF ReconsiderBlock, ValidInv, Failed
  <1> QED
    BY <1>3, <1>4, <1>5, <1>6

\* InvalidateBlock starts: it takes its first look at the chain.
LEMMA InvalidateStep ==
    ASSUME IInv, NEW b \in Blocks, InvalidateBlock(b)
    PROVE  IInv'
  <1> USE DEF IInv, tree, flags, keys, abc
  <1>1. byWork' \subseteq linked
    BY Zenon DEF InvalidateBlock, Connectable
  <1>2. (SetsOK /\ KeysOK /\ QueuesOK)'
    BY Zenon DEF InvalidateBlock, SetsOK, KeysOK, QueuesOK
  <1>3. LocalsOK'
    <2>1. wasInChain' \in BOOLEAN
      BY Zenon DEF InvalidateBlock
    <2> QED
      BY <2>1, TreeAssumption DEF InvalidateBlock, LocalsOK, Rpc, Statuses
  <1>4. TreeInv' /\ ValidInv' /\ PhaseInv'
    BY Zenon, <1>1 DEF InvalidateBlock, TreeInv, ValidInv, PhaseInv, Failed
  <1> QED
    BY Zenon, <1>2, <1>3, <1>4

\* InvalidateBlock disconnects one block and gives cs_main back.
LEMMA InvalidateTipStep ==
    ASSUME IInv, InvalidateTip
    PROVE  IInv'
  <1> USE DEF IInv, tree, keys, abc
  <1>1. tip \in Blocks /\ tip # Genesis
    BY Zenon, TreeAssumption DEF InvalidateTip, PhaseInv, TreeInv, SetsOK
  <1>2. /\ Branch[tip] = {tip} \cup Branch[Parent[tip]]
        /\ tip \notin Branch[Parent[tip]] /\ Parent[tip] \in Branch[tip]
    BY Zenon, <1>1, BranchFacts
  <1>3. PICK swap \in SUBSET failedValid :
          /\ failedValid' = (failedValid \cup {tip}) \ swap
          /\ failedChild' = failedChild \cup swap
    BY Zenon DEF InvalidateTip
  <1>4. /\ tip' = Parent[tip] /\ toMark' = tip /\ wasInChain' = TRUE
        /\ pc = "disconnect"
        /\ byWork' \subseteq byWork
        /\ candidates' \subseteq candidates \cup {Parent[tip]} \cup byWork
        /\ UNCHANGED <<failedBlocks, unlinked, queue, pc, wanted, abc, target, rpcs,
                       tree, keys>>
    BY Zenon DEF InvalidateTip
  <1>5. tip \in linked /\ tip \in index /\ Parent[tip] \in linked
    BY Zenon, <1>2 DEF TreeInv, SetsOK
  <1>6. (SetsOK /\ KeysOK /\ QueuesOK)'
    BY Zenon, <1>3, <1>4, <1>5 DEF SetsOK, KeysOK, QueuesOK
  <1>7. LocalsOK'
    <2>1. wasInChain' \in BOOLEAN
      BY <1>4, Zenon
    <2> QED
      BY <1>4, <1>5, <2>1 DEF LocalsOK, Statuses
  <1>8. TreeInv'
    BY Zenon, <1>4, <1>5 DEF TreeInv
  <1>9. ValidInv'
    <2>1. Failed' = Failed \cup {tip} \/ Failed' = Failed
      BY <1>3 DEF Failed
    <2>2. Failed \subseteq Failed'
      BY Zenon, <1>3 DEF Failed
    <2>3. mostWork = None /\ mostWork' = None
      BY Zenon, <1>4 DEF PhaseInv
    <2> QED
      BY <1>2, <1>4, <2>1, <2>2, <2>3 DEF ValidInv
  <1>10. PhaseInv'
    BY <1>4, <1>5 DEF PhaseInv
  <1> QED
    BY Zenon, <1>6, <1>7, <1>8, <1>9, <1>10

\* InvalidateBlock marks its block and brings back the candidates.
LEMMA InvalidateEndStep ==
    ASSUME IInv, InvalidateLoopEnds \/ InvalidateMark
    PROVE  IInv'
  <1> USE DEF IInv, tree, flags, keys, abc
  <1>1. CASE InvalidateLoopEnds
    <2>1. (SetsOK /\ KeysOK /\ QueuesOK /\ LocalsOK)'
      BY Zenon, <1>1 DEF InvalidateLoopEnds, SetsOK, KeysOK, QueuesOK, LocalsOK, Statuses, inval
    <2>2. TreeInv' /\ ValidInv' /\ PhaseInv'
      BY Zenon, <1>1 DEF InvalidateLoopEnds, TreeInv, ValidInv, PhaseInv, Failed, inval
    <2> QED
      BY Zenon, <2>1, <2>2
  <1>2. CASE InvalidateMark
    <2>1. /\ pc = "mark" /\ pc' = "idle" /\ target' = None /\ toMark' = None
          /\ byWork' = {} /\ mostWork = None /\ mostWork' = None
          /\ UNCHANGED <<tree, keys, unlinked, tip, queue, abc, rpcs>>
      BY Zenon, <1>2 DEF InvalidateMark, InvalidateReturns, PhaseInv
    <2>2. wanted' \in BOOLEAN /\ wasInChain' \in BOOLEAN
      BY <1>2, Zenon DEF InvalidateMark, InvalidateReturns
    <2>3. (KeysOK /\ QueuesOK /\ LocalsOK /\ PhaseInv)'
      BY Zenon, <2>1, <2>2 DEF KeysOK, QueuesOK, LocalsOK, PhaseInv, Statuses
    <2>4. CASE toMark \in Branch[tip]
      <3>1. UNCHANGED <<failedValid, failedChild, failedBlocks, candidates>>
        BY Zenon, <1>2, <2>4 DEF InvalidateMark
      <3> QED
        BY Zenon, <2>1, <2>3, <3>1 DEF SetsOK, TreeInv, ValidInv, Failed
    <2>5. CASE toMark \notin Branch[tip]
      <3>1. PICK fresh \in SUBSET {target} :
              /\ failedValid' = (failedValid \cup fresh) \ Descendants(toMark)
              /\ failedChild' = failedChild \cup Descendants(toMark)
              /\ failedBlocks' = failedBlocks \cup fresh
              /\ candidates' \subseteq candidates \cup Connectable
        BY Zenon, <1>2, <2>5 DEF InvalidateMark, SetBlockFailureFlags
      <3>2. Descendants(toMark) \subseteq index /\ target \in index
        BY Zenon, <2>1 DEF Descendants, PhaseInv
      <3>3. Branch[tip] \cap Descendants(toMark) = {} /\ target \notin Branch[tip]
        <4>1. tip \in Blocks
          BY Zenon DEF TreeInv, SetsOK
        <4> QED
          BY Zenon, <2>1, <2>5, <4>1, BranchFacts DEF Descendants, PhaseInv
      <3>4. SetsOK' /\ TreeInv'
        BY <2>1, <3>1, <3>2 DEF SetsOK, TreeInv, Connectable
      <3>5. ValidInv'
        BY <2>1, <3>1, <3>2, <3>3 DEF ValidInv, Failed
      <3> QED
        BY Zenon, <2>3, <3>4, <3>5
    <2> QED
      BY Zenon, <2>4, <2>5
  <1> QED
    BY <1>1, <1>2

-----------------------------------------------------------------------------
(* The results, whatever the operator does                                 *)

\* IInv is inductive: every section under cs_main keeps it, whichever call it
\* belongs to and whatever ran in the gap before.
THEOREM TreeInvariant == Spec => []IInv
  <1>1. IInv /\ [Next]_vars => IInv'
    <2> SUFFICES ASSUME IInv, [Next]_vars PROVE IInv'
      OBVIOUS
    <2>1. ASSUME NEW b \in Blocks,
                 \/ AcceptBlockHeader(b) \/ AcceptBadBlock(b) \/ AcceptBlock(b)
                 \/ PreciousBlock(b) \/ ReconsiderBlock(b) \/ InvalidateBlock(b)
          PROVE  IInv'
      BY <2>1, HeaderStep, BadBlockStep, BlockStep, PreciousStep, ReconsiderStep,
         InvalidateStep
    <2>2. CASE LinkBlock
      BY <2>2, LinkStep
    <2>3. CASE Activation
      BY <2>3, BeginStep, FindStep, NothingStep, DisconnectStep, ConnectStep,
         InvalidStep DEF Activation
    <2>4. CASE Invalidation
      BY Zenon, <2>4, InvalidateTipStep, InvalidateEndStep DEF Invalidation
    <2>5. CASE UNCHANGED vars
      <3> USE <2>5 DEF IInv, vars, tree, flags, keys, abc, inval
      <3>1. SetsOK' /\ KeysOK' /\ QueuesOK'
        BY Zenon DEF SetsOK, KeysOK, QueuesOK
      <3>2. LocalsOK' /\ PhaseInv'
        BY DEF LocalsOK, PhaseInv
      <3>3. TreeInv' /\ ValidInv'
        BY Zenon DEF TreeInv, ValidInv, Failed
      <3> QED
        BY Zenon, <3>1, <3>2, <3>3
    <2> QED
      BY <2>1, <2>2, <2>3, <2>4, <2>5 DEF Next
  <1> QED
    BY <1>1, Initially, PTL DEF Spec

\* Every variable keeps its type.
THEOREM TypeCorrect == Spec => []TypeOK
  <1>1. IInv => TypeOK
    BY Zenon DEF IInv, SetsOK, KeysOK, QueuesOK, LocalsOK, TreeInv, TypeOK
  <1> QED
    BY <1>1, TreeInvariant, PTL

\* The active chain never contains a block that is marked failed.
THEOREM ActiveChainStaysValid == Spec => []ActiveChainIsValid
  <1>1. IInv => ActiveChainIsValid
    BY DEF IInv, ValidInv, ActiveChainIsValid
  <1> QED
    BY <1>1, TreeInvariant, PTL

\* FindMostWorkChain walks over linked blocks, and ConnectTip always finds a
\* valid block with its data on top of the tip.
THEOREM PathStaysReady == Spec => []PathIsReady
  <1>1. IInv => PathIsReady
    <2> SUFFICES ASSUME IInv PROVE PathIsReady
      BY Zenon
    <2>1. \A c \in candidates : Branch[c] \subseteq linked
      BY Zenon DEF IInv, TreeInv
    <2>2. mostWork # None => Branch[mostWork] \subseteq data \ Failed
      BY Zenon DEF IInv, TreeInv, ValidInv, SetsOK
    <2>3. pc = "connect" => NextBlock \in data /\ Parent[NextBlock] = tip
      BY ConnectFacts DEF IInv, SetsOK
    <2> QED
      BY <2>1, <2>2, <2>3 DEF PathIsReady
  <1> QED
    BY <1>1, TreeInvariant, PTL

-----------------------------------------------------------------------------
(* The invariant of a careful operator, and the order of the candidates    *)

\* The links: a block whose data is there is linked, is about to be, waits for
\* its parent, or came while its parent was marked as refused.
WaitInv ==
    /\ Genesis \in linked /\ data \cap BadContext = {}
    /\ \A b \in data \ {Genesis} :
          \/ b \in linked
          \/ Parent[b] \in linked /\ \E i \in 1..Len(queue) : queue[i] = b
          \/ /\ Parent[b] \notin linked
             /\ \E i \in 1..Len(unlinked[Parent[b]]) : unlinked[Parent[b]][i] = b
          \/ Parent[b] \in (BadContext \cap Failed) \ linked

\* Nothing is linked twice, and nothing waits for a linked parent.
QueueInv ==
    /\ \A i \in 1..Len(queue) :
          /\ queue[i] \notin linked
          /\ \A j \in 1..Len(queue) : i # j => queue[i] # queue[j]
    /\ \A p \in Blocks :
          /\ unlinked[p] # <<>> => p \notin linked
          /\ \A i, j \in 1..Len(unlinked[p]) :
                i # j => unlinked[p][i] # unlinked[p][j]
    /\ pc \in Locked => queue = <<>>
    /\ queue # <<>> => wanted \/ (pc = "round" /\ mostWork = None)

\* Only linked blocks have positive numbers.
NumberInv ==
    /\ nBlockReverseSequenceId < 0
    /\ \A b \in Blocks \ linked : nSequenceId[b] <= 0

\* Blocks whose scripts were checked, the active chain among them, are on top
\* of such blocks.
ScriptsInv ==
    /\ Branch[tip] \subseteq scripts /\ scripts \cap BadScripts = {}
    /\ \A b \in scripts : Branch[b] \subseteq scripts

\* InvalidateBlock has still to mark x.
ToBeMarked(x) == Invalidating /\ wasInChain /\ toMark \in Branch[x]

\* The descendants of a are marked, or will be.
Flooded(a) == \A x \in Descendants(a) : x \in Failed \/ ToBeMarked(x)

\* The failure flags: a marked block is on top of one that failed itself and
\* passed its mark on, and only the active chain while it is being taken down
\* and blocks refused on arrival have unmarked children.
FlagInv ==
    /\ \A x \in Failed : \E a \in failedValid \cap Branch[x] : a = x \/ Flooded(a)
    /\ \A a \in failedValid \ BadContext : Flooded(a)
    /\ \A f \in failedBlocks : Descendants(f) \subseteq Failed
    /\ \A c \in index \ {Genesis} :
          Parent[c] \in Failed /\ c \notin Failed => Parent[c] \in linked \cup BadContext
    /\ Invalidating /\ wasInChain =>
          toMark \in failedValid \ {Genesis} /\ Parent[toMark] = tip

\* b is linked and nothing below it is invalid.
Usable(b) == b \in linked /\ Branch[b] \cap failedValid = {}

\* b is a block the candidates must have: not worse than the tip and, during a
\* round, than the tip the round began with.
Qualifies(b) ==
    /\ Usable(b) /\ ~Worse(b, tip, nSequenceId)
    /\ pc \in Locked => ~Worse(b, startingTip, nSequenceId)

\* setBlockIndexCandidates: nothing worse than the tip, everything that
\* qualifies, and the block ActivateBestChain is going to.
CandInv ==
    /\ \A c \in candidates : ~Worse(c, tip, nSequenceId)
    /\ ~Invalidating => \A b \in linked : Qualifies(b) => b \in candidates
    /\ Invalidating => tip \in candidates
    /\ mostWork # None => mostWork \in candidates

\* A round of ActivateBestChain: its first tip stays usable, what it is going
\* to is not worse, and it looks again only while the tip is worse.
RoundInv ==
    /\ pc \in Locked =>
          /\ startingTip # None /\ Usable(startingTip) /\ Branch[startingTip] \subseteq scripts
          /\ mostWork # None => ~Worse(mostWork, startingTip, nSequenceId)
    /\ pc = "find" /\ connected => Worse(tip, startingTip, nSequenceId)
    /\ pc = "find" /\ ~connected => tip = startingTip
    /\ pc = "round" /\ mostWork # None => tip \in Branch[mostWork] /\ tip # mostWork

\* Unless somebody waits for ActivateBestChain, what it is going to, or the
\* tip when it has returned, is the best there is.
BestInv ==
    /\ ~wanted /\ mostWork # None =>
          \A c \in linked : Usable(c) => ~Worse(mostWork, c, nSequenceId)
    /\ ~wanted /\ pc = "idle" =>
          \A c \in linked : Usable(c) => ~Worse(tip, c, nSequenceId)

-----------------------------------------------------------------------------
\* The order of the candidates is total.
LEMMA OrderFacts ==
    ASSUME NEW id \in [Blocks -> Int]
    PROVE  /\ \A a \in Blocks : ~Worse(a, a, id)
           /\ \A a, b \in Blocks : a # b => Worse(a, b, id) \/ Worse(b, a, id)
           /\ \A a, b, c \in Blocks :
                 ~Worse(a, b, id) /\ ~Worse(b, c, id) => ~Worse(a, c, id)
           /\ \A a, b, c \in Blocks :
                 Worse(a, b, id) /\ ~Worse(c, b, id) => ~Worse(c, a, id)
  <1>1. \A a \in Blocks : nChainWork[a] \in Nat /\ id[a] \in Int /\ a \in Nat
    BY TreeAssumption
  <1> QED
    BY <1>1 DEF Worse

\* Blocks of one branch are above each other.
LEMMA Comparable ==
    ASSUME NEW x \in Blocks, NEW a \in Branch[x], NEW c \in Branch[x]
    PROVE  a \in Branch[c] \/ c \in Branch[a]
  <1>1. a \in Blocks /\ c \in Blocks
    BY Zenon, BranchFacts
  <1>2. Height[a] \in Nat /\ Height[c] \in Nat
    BY <1>1, TreeAssumption
  <1>3. Height[a] <= Height[c] \/ Height[c] <= Height[a]
    BY <1>2
  <1> QED
    BY Zenon, <1>3, TreeAssumption

\* Only one of two blocks is above the other.
LEMMA NotBoth ==
    ASSUME NEW a \in Blocks, NEW b \in Blocks, a \in Branch[b], b \in Branch[a]
    PROVE  a = b
  <1>1. Height[a] \in Nat /\ Height[b] \in Nat
    BY TreeAssumption
  <1>2. Height[a] <= Height[b] /\ Height[b] <= Height[a] /\ (Height[a] = Height[b] => a = b)
    BY Zenon, TreeAssumption
  <1> QED
    BY <1>1, <1>2

\* A block and its parent.
LEMMA ParentFacts ==
    ASSUME NEW b \in Blocks
    PROVE  /\ Height[b] \in Nat /\ nChainWork[b] \in Nat /\ Parent[b] \in Blocks
           /\ b # Genesis => /\ nChainWork[Parent[b]] < nChainWork[b]
                             /\ Height[b] = Height[Parent[b]] + 1
  BY TreeAssumption

\* A block has more work than the blocks below it.
LEMMA MoreWork ==
    ASSUME NEW b \in Blocks, NEW a \in Branch[b], a # b
    PROVE  nChainWork[a] < nChainWork[b]
  <1> DEFINE X == {x \in Branch[b] : a \in Branch[x] /\ a # x /\ ~(nChainWork[a] < nChainWork[x])}
  <1> SUFFICES ASSUME ~(nChainWork[a] < nChainWork[b]) PROVE FALSE
    OBVIOUS
  <1>1. X \subseteq Branch[b] /\ X \subseteq Blocks /\ b \in X /\ a \in Blocks
    BY Zenon, BranchFacts
  <1>2. PICK x \in X : \A c \in X : x \in Branch[c]
    BY Zenon, <1>1, BranchAssumption
  <1>3. /\ x \in Branch[b] /\ a \in Branch[x] /\ a # x /\ ~(nChainWork[a] < nChainWork[x])
        /\ x \in Blocks
    BY Zenon, <1>1, <1>2
  <1>4. x # Genesis
    BY <1>3, TreeAssumption
  <1> DEFINE p == Parent[x]
  <1>5. a \in Branch[p] /\ p \in Blocks /\ p \in Branch[b] /\ x \notin Branch[p]
    BY Zenon, <1>3, <1>4, BranchFacts
  <1>6. /\ nChainWork[p] < nChainWork[x] /\ nChainWork[p] \in Nat
        /\ nChainWork[a] \in Nat /\ nChainWork[x] \in Nat
    BY Zenon, <1>1, <1>3, <1>4, <1>5, ParentFacts
  <1>7. p \notin X
    BY Zenon, <1>2, <1>5
  <1>8. a # p => nChainWork[a] < nChainWork[p]
    BY Zenon, <1>5, <1>7
  <1> QED
    BY <1>3, <1>6, <1>8

\* What is not worse than a block is not worse than the blocks below it.
LEMMA BelowIsWorse ==
    ASSUME NEW id \in [Blocks -> Int], NEW b \in Blocks, NEW a \in Branch[b]
    PROVE  /\ ~Worse(b, a, id)
           /\ a # b => Worse(a, b, id)
           /\ \A c \in Blocks : ~Worse(c, b, id) => ~Worse(c, a, id)
  <1>1. a \in Blocks
    BY Zenon, BranchFacts
  <1>2. a # b => Worse(a, b, id)
    BY MoreWork DEF Worse
  <1>3. ~Worse(b, b, id) /\ ~Worse(b, a, id)
    BY Zenon, <1>1, <1>2, OrderFacts
  <1> QED
    BY Zenon, <1>1, <1>2, <1>3, OrderFacts

-----------------------------------------------------------------------------
(* The links between blocks                                                *)

\* Steps that leave the links alone and add no flag but mark more blocks keep
\* WaitInv.
LEMMA WaitSame ==
    ASSUME WaitInv, UNCHANGED <<data, linked, queue, unlinked>>, Failed \subseteq Failed'
    PROVE  WaitInv'
  BY Zenon DEF WaitInv

\* A block is linked when its parent is: WaitInv through AcceptBlock.
LEMMA AcceptWaits ==
    ASSUME IInv, WaitInv, FlagInv, NEW b \in Blocks, AcceptBlock(b)
    PROVE  WaitInv'
  <1> DEFINE p == Parent[b]
             u == [unlinked EXCEPT ![p] = Append(unlinked[p], b)]
  <1>1. /\ b \notin BadContext /\ BlockIsTaken(b) /\ queue = <<>>
        /\ index' = index \cup {b} /\ data' = data \cup {b}
        /\ UNCHANGED <<linked, failedValid, failedChild>>
    BY Zenon DEF AcceptBlock, CsMainFree, flags
  <1>2. b # Genesis /\ b \notin data /\ p \in index
    <2>1. b # Genesis
      BY Zenon, <1>1 DEF BlockIsTaken, IInv, TreeInv
    <2> QED
      BY Zenon, <1>1, <2>1, TakenFacts
  <1>3. p \in Blocks /\ unlinked \in [Blocks -> Seq(Blocks)] /\ Failed' = Failed
    BY Zenon, <1>1, <1>2 DEF IInv, SetsOK, QueuesOK, Failed
  <1>4. Genesis \in linked' /\ data' \cap BadContext = {}
    BY <1>1 DEF WaitInv
  <1>5. CASE p \in linked
    <2>1. queue' = <<b>> /\ unlinked' = unlinked
      BY Zenon, <1>5 DEF AcceptBlock
    <2>2. \E i \in 1..Len(queue') : queue'[i] = b
      <3>1. 1 \in 1..Len(<<b>>) /\ <<b>>[1] = b
        OBVIOUS
      <3> QED
        BY Zenon, <2>1, <3>1
    <2>3. ASSUME NEW d \in data \ {Genesis}
          PROVE  \/ d \in linked
                 \/ /\ Parent[d] \notin linked
                    /\ \E i \in 1..Len(unlinked[Parent[d]]) : unlinked[Parent[d]][i] = d
                 \/ Parent[d] \in (BadContext \cap Failed) \ linked
      <3>1. ~\E i \in 1..Len(queue) : queue[i] = d
        BY <1>1
      <3> QED
        BY Zenon, <3>1 DEF WaitInv
    <2>4. \A d \in data' \ {Genesis} : d = b \/ d \in data \ {Genesis}
      BY Zenon, <1>1
    <2> QED
      BY Zenon, <1>1, <1>3, <1>4, <1>5, <2>1, <2>2, <2>3, <2>4 DEF WaitInv
  <1>6. CASE p \notin linked /\ p \in Failed
    <2>1. queue' = queue /\ unlinked' = unlinked
      BY Zenon, <1>6 DEF AcceptBlock
    <2>2. p \in BadContext
      <3>1. b \in index \ Failed
        BY Zenon, <1>1, <1>6 DEF BlockIsTaken, HeaderFits
      <3> QED
        BY Zenon, <1>2, <1>6, <3>1 DEF FlagInv
    <2>3. \A d \in data' \ {Genesis} : d = b \/ d \in data \ {Genesis}
      BY Zenon, <1>1
    <2> QED
      BY Zenon, <1>1, <1>3, <1>4, <1>6, <2>1, <2>2, <2>3 DEF WaitInv
  <1>7. CASE p \notin linked /\ p \notin Failed
    <2>1. queue' = queue /\ unlinked' = u
      BY Zenon, <1>7 DEF AcceptBlock
    <2>2. \E i \in 1..Len(u[p]) : u[p][i] = b
      <3>1. u[p] = Append(unlinked[p], b) /\ unlinked[p] \in Seq(Blocks)
        BY <1>3
      <3>2. /\ Len(unlinked[p]) + 1 \in 1..Len(Append(unlinked[p], b))
            /\ Append(unlinked[p], b)[Len(unlinked[p]) + 1] = b
        BY <3>1
      <3> QED
        BY Zenon, <3>1, <3>2
    <2>3. ASSUME NEW q \in Blocks, NEW i \in 1..Len(unlinked[q])
          PROVE  i \in 1..Len(u[q]) /\ u[q][i] = unlinked[q][i]
      <3>1. CASE q # p
        BY <1>3, <3>1
      <3>2. CASE q = p
        <4>1. u[q] = Append(unlinked[q], b) /\ unlinked[q] \in Seq(Blocks)
          BY <1>3, <3>2
        <4> QED
          BY <4>1
      <3> QED
        BY <3>1, <3>2
    <2> HIDE DEF u
    <2>4. \A d \in data' \ {Genesis} : d = b \/ (d \in data \ {Genesis} /\ Parent[d] \in Blocks)
      BY Zenon, <1>1, ParentFacts DEF IInv, SetsOK
    <2>5. ASSUME NEW d \in data \ {Genesis}
          PROVE  \/ d \in linked
                 \/ Parent[d] \in linked /\ \E i \in 1..Len(queue) : queue[i] = d
                 \/ /\ Parent[d] \notin linked
                    /\ \E i \in 1..Len(u[Parent[d]]) : u[Parent[d]][i] = d
                 \/ Parent[d] \in (BadContext \cap Failed) \ linked
      <3>1. CASE \E i \in 1..Len(unlinked[Parent[d]]) : unlinked[Parent[d]][i] = d
        <4>1. PICK i \in 1..Len(unlinked[Parent[d]]) : unlinked[Parent[d]][i] = d
          BY Zenon, <3>1
        <4>2. Parent[d] \in Blocks
          BY Zenon, ParentFacts DEF IInv, SetsOK
        <4>3. i \in 1..Len(u[Parent[d]]) /\ u[Parent[d]][i] = d
          BY Zenon, <2>3, <4>1, <4>2
        <4> QED
          BY Zenon, <4>3 DEF WaitInv
      <3>2. CASE ~\E i \in 1..Len(unlinked[Parent[d]]) : unlinked[Parent[d]][i] = d
        BY Zenon, <3>2 DEF WaitInv
      <3> QED
        BY Zenon, <3>1, <3>2
    <2> QED
      BY Zenon, <1>1, <1>3, <1>4, <1>7, <2>1, <2>2, <2>4, <2>5 DEF WaitInv
  <1> QED
    BY Zenon, <1>5, <1>6, <1>7

\* Linking a block brings its waiting children into the queue.
LEMMA LinkWaits ==
    ASSUME IInv, WaitInv, QueueInv, LinkBlock
    PROVE  WaitInv' /\ QueueInv'
  <1> DEFINE b == queue[1]
             q == Tail(queue) \o unlinked[b]
             u == [unlinked EXCEPT ![b] = <<>>]
  <1>1. /\ queue # <<>> /\ queue \in Seq(Blocks) /\ 1 \in 1..Len(queue)
        /\ Head(queue) = b /\ Len(queue) \in Nat
    BY DEF LinkBlock, IInv, QueuesOK
  <1>2. b \in data \ {Genesis} /\ Parent[b] \in linked /\ b \notin linked /\ b \in Blocks
    BY <1>1 DEF IInv, TreeInv, QueueInv
  <1>3. /\ linked' = linked \cup {b} /\ queue' = q /\ unlinked' = u
        /\ UNCHANGED <<data, failedValid, failedChild, pc, wanted, mostWork>>
    BY Zenon, <1>1 DEF LinkBlock, flags, abc
  <1>4. unlinked[b] \in Seq(Blocks) /\ Tail(queue) \in Seq(Blocks)
        /\ unlinked \in [Blocks -> Seq(Blocks)]
    BY <1>1, <1>2 DEF IInv, QueuesOK
  <1>5. ASSUME NEW i \in 1..Len(q)
        PROVE  \/ i + 1 \in 1..Len(queue) /\ q[i] = queue[i + 1] /\ i \in 1..Len(Tail(queue))
               \/ /\ i - Len(Tail(queue)) \in 1..Len(unlinked[b])
                  /\ q[i] = unlinked[b][i - Len(Tail(queue))]
    <2>1. CASE i <= Len(Tail(queue))
      BY <1>1, <1>4, <2>1
    <2>2. CASE ~(i <= Len(Tail(queue)))
      BY <1>1, <1>4, <2>2
    <2> QED
      BY Zenon, <2>1, <2>2
  <1>6. ASSUME NEW i \in 1..Len(queue), i # 1
        PROVE  i - 1 \in 1..Len(q) /\ q[i - 1] = queue[i]
    BY <1>1, <1>4, <1>6
  <1>7. ASSUME NEW i \in 1..Len(unlinked[b])
        PROVE  Len(Tail(queue)) + i \in 1..Len(q) /\ q[Len(Tail(queue)) + i] = unlinked[b][i]
    BY <1>1, <1>4
  <1>8. u[b] = <<>> /\ \A p \in Blocks \ {b} : u[p] = unlinked[p]
    BY <1>2, <1>4
  <1>9. Failed' = Failed
    BY Zenon, <1>3 DEF Failed
  <1>10. Len(Tail(queue)) \in Nat /\ Len(unlinked[b]) \in Nat /\ Len(Tail(queue)) = Len(queue) - 1
    BY <1>1, <1>4
  <1>11. \A i \in 1..Len(unlinked[b]) : /\ Parent[unlinked[b][i]] = b /\ unlinked[b][i] # b
                                        /\ unlinked[b][i] \in data \ {Genesis}
    <2>1. \A i \in 1..Len(unlinked[b]) : /\ Parent[unlinked[b][i]] = b
                                         /\ unlinked[b][i] \in data \ {Genesis}
      BY Zenon, <1>2 DEF IInv, TreeInv
    <2> QED
      BY Zenon, <1>2, <2>1
  <1> HIDE DEF b, q, u
  <1>12. WaitInv'
    <2>1. ASSUME NEW d \in data \ {Genesis}
          PROVE  \/ d \in linked'
                 \/ Parent[d] \in linked' /\ \E i \in 1..Len(q) : q[i] = d
                 \/ /\ Parent[d] \notin linked'
                    /\ \E i \in 1..Len(u[Parent[d]]) : u[Parent[d]][i] = d
                 \/ Parent[d] \in (BadContext \cap Failed) \ linked'
      <3>1. CASE d \in linked
        BY Zenon, <1>3, <3>1
      <3>2. CASE Parent[d] \in linked /\ \E i \in 1..Len(queue) : queue[i] = d
        <4>1. PICK i \in 1..Len(queue) : queue[i] = d
          BY Zenon, <3>2
        <4>2. CASE i = 1
          BY Zenon, <1>3, <4>1, <4>2 DEF b
        <4>3. CASE i # 1
          BY Zenon, <1>3, <1>6, <3>2, <4>1, <4>3
        <4> QED
          BY Zenon, <4>2, <4>3
      <3>3. CASE /\ Parent[d] \notin linked
                 /\ \E i \in 1..Len(unlinked[Parent[d]]) : unlinked[Parent[d]][i] = d
        <4>1. PICK i \in 1..Len(unlinked[Parent[d]]) : unlinked[Parent[d]][i] = d
          BY Zenon, <3>3
        <4>2. CASE Parent[d] = b
          BY Zenon, <1>3, <1>7, <4>1, <4>2
        <4>3. CASE Parent[d] # b
          <5>1. Parent[d] \in Blocks
            BY Zenon, ParentFacts DEF IInv, SetsOK
          <5> QED
            BY Zenon, <1>3, <1>8, <3>3, <4>1, <4>3, <5>1
        <4> QED
          BY Zenon, <4>2, <4>3
      <3>4. CASE Parent[d] \in (BadContext \cap Failed) \ linked
        BY <1>2, <1>3, <3>4 DEF WaitInv
      <3> QED
        BY Zenon, <3>1, <3>2, <3>3, <3>4 DEF WaitInv
    <2> QED
      BY Zenon, <1>3, <1>9, <2>1 DEF WaitInv
  <1>13. ASSUME NEW i \in 1..Len(q) PROVE q[i] \notin linked'
    <2>1. CASE i + 1 \in 1..Len(queue) /\ q[i] = queue[i + 1]
      <3>1. i + 1 # 1
        BY <1>13, <1>10, <1>4
      <3>2. queue[i + 1] # queue[1] /\ queue[i + 1] \notin linked
        BY Zenon, <1>1, <2>1, <3>1 DEF QueueInv
      <3> QED
        BY Zenon, <1>3, <2>1, <3>2 DEF b
    <2>2. CASE /\ i - Len(Tail(queue)) \in 1..Len(unlinked[b])
               /\ q[i] = unlinked[b][i - Len(Tail(queue))]
      <3>1. Parent[q[i]] = b /\ q[i] # b
        BY Zenon, <1>11, <2>2
      <3>2. q[i] \in data \ {Genesis}
        BY Zenon, <1>11, <2>2
      <3>3. q[i] \notin linked
        <4>1. Parent[q[i]] \in Branch[q[i]]
          BY Zenon, <3>2, BranchFacts DEF IInv, SetsOK
        <4> QED
          BY Zenon, <1>2, <3>1, <4>1 DEF IInv, TreeInv
      <3> QED
        BY Zenon, <1>3, <3>1, <3>3
    <2> QED
      BY Zenon, <1>5, <2>1, <2>2
  <1>14. ASSUME NEW i \in 1..Len(q), NEW j \in 1..Len(q), i # j PROVE q[i] # q[j]
    <2> DEFINE t == Len(Tail(queue))
               Old(k) == k + 1 \in 1..Len(queue) /\ q[k] = queue[k + 1]
               New(k) == k - t \in 1..Len(unlinked[b]) /\ q[k] = unlinked[b][k - t]
    <2>1. (Old(i) \/ New(i)) /\ (Old(j) \/ New(j))
      BY Zenon, <1>5
    <2>2. i \in Int /\ j \in Int /\ t \in Int
      BY <1>10
    <2>3. i + 1 # j + 1 /\ i - t # j - t
      BY <1>14, <2>2
    <2>4. CASE Old(i) /\ Old(j)
      BY Zenon, <2>3, <2>4 DEF QueueInv
    <2>5. CASE New(i) /\ New(j)
      BY Zenon, <1>2, <2>3, <2>5 DEF QueueInv
    <2>6. \A k \in 1..Len(q) : Old(k) => Parent[q[k]] \in linked
      BY Zenon DEF IInv, TreeInv
    <2>7. \A k \in 1..Len(q) : New(k) => Parent[q[k]] \notin linked
      BY Zenon, <1>2, <1>11
    <2> HIDE DEF Old, New
    <2> QED
      BY Zenon, <2>1, <2>4, <2>5, <2>6, <2>7
  <1>15. ASSUME NEW p \in Blocks
         PROVE  /\ u[p] # <<>> => p \notin linked'
                /\ \A i, j \in 1..Len(u[p]) : i # j => u[p][i] # u[p][j]
    <2>1. CASE p = b
      BY <1>8, <2>1
    <2>2. CASE p # b
      <3>1. u[p] = unlinked[p]
        BY Zenon, <1>8, <2>2
      <3>2. /\ unlinked[p] # <<>> => p \notin linked
            /\ \A i, j \in 1..Len(unlinked[p]) : i # j => unlinked[p][i] # unlinked[p][j]
        BY Zenon DEF QueueInv
      <3>3. p \notin linked => p \notin linked'
        BY Zenon, <1>3, <2>2
      <3> QED
        BY Zenon, <3>1, <3>2, <3>3
    <2> QED
      BY Zenon, <2>1, <2>2
  <1>16. QueueInv'
    <2>1. /\ pc \notin Locked
          /\ wanted \/ (pc = "round" /\ mostWork = None)
      BY Zenon, <1>1 DEF QueueInv
    <2> QED
      BY <1>3, <1>13, <1>14, <1>15, <2>1 DEF QueueInv
  <1> QED
    BY Zenon, <1>12, <1>16

\* The blocks whose flags ReconsiderBlock(b) clears.
Cleared(b) == {d \in index : b \in Branch[d] /\ d \in Failed} \cup (Branch[b] \cap Failed)

\* What reconsiderblock of a careful operator does to the flags.
LEMMA ReconsiderFacts ==
    ASSUME CarefulOperator, NEW b \in Blocks, ReconsiderBlock(b)
    PROVE  /\ failedValid' = failedValid \ Cleared(b)
           /\ failedChild' = failedChild \ Cleared(b)
           /\ failedBlocks' = failedBlocks \ Cleared(b)
           /\ Failed' = Failed \ Cleared(b)
           /\ CsMainFree /\ Parent[b] \notin Failed /\ ~Invalidating /\ wanted' = TRUE
           /\ \A d \in data \ {Genesis} : Parent[d] \notin Cleared(b) \cap BadContext
           /\ candidates' = candidates \cup
                {d \in index : /\ b \in Branch[d] /\ d \in Failed
                               /\ d \in linked /\ Worse(tip, d, nSequenceId)}
           /\ UNCHANGED <<index, data, linked, scripts, nSequenceId, nBlockReverseSequenceId,
                          unlinked, tip, queue, pc, abc, inval>>
  <1>1. /\ failedValid' = failedValid \ Cleared(b)
        /\ failedChild' = failedChild \ Cleared(b)
        /\ failedBlocks' = failedBlocks \ Cleared(b)
    BY Zenon DEF ReconsiderBlock, Cleared
  <1>2. Failed' = Failed \ Cleared(b)
    BY <1>1 DEF Failed
  <1>3. \A d \in data \ {Genesis} : Parent[d] \notin Cleared(b) \cap BadContext
    BY Zenon DEF ReconsiderBlock, Cleared
  <1>4. candidates' = candidates \cup
                {d \in index : /\ b \in Branch[d] /\ d \in Failed
                               /\ d \in linked /\ Worse(tip, d, nSequenceId)}
    BY DEF ReconsiderBlock
  <1>5. /\ CsMainFree /\ Parent[b] \notin Failed /\ ~Invalidating /\ wanted' = TRUE
        /\ UNCHANGED <<index, data, linked, scripts, nSequenceId, nBlockReverseSequenceId,
                          unlinked, tip, queue, pc, abc, inval>>
    BY Zenon DEF ReconsiderBlock, Invalidating, tree, keys
  <1> QED
    BY Zenon, <1>1, <1>2, <1>3, <1>4, <1>5

\* A step that starts with an empty queue and leaves the links alone keeps
\* QueueInv.
LEMMA QueueSame ==
    ASSUME QueueInv, queue = <<>>, UNCHANGED <<linked, queue, unlinked>>
    PROVE  QueueInv'
  <1>1. \A i \in 1..Len(queue') : FALSE
    OBVIOUS
  <1>2. queue' = <<>>
    BY Zenon
  <1> QED
    BY <1>1, <1>2 DEF QueueInv

\* WaitInv and QueueInv are kept by every step.
LEMMA LinksKept ==
    ASSUME CarefulOperator, IInv, WaitInv, QueueInv, FlagInv, [Next]_vars
    PROVE  WaitInv' /\ QueueInv'
  <1>1. ASSUME NEW b \in Blocks, AcceptBlockHeader(b) \/ AcceptBadBlock(b)
        PROVE  WaitInv' /\ QueueInv'
    <2>1. UNCHANGED <<data, linked, queue, unlinked>> /\ queue = <<>>
      BY Zenon, <1>1 DEF AcceptBlockHeader, AcceptBadBlock, CsMainFree
    <2>2. Failed \subseteq Failed'
      <3>1. failedValid \subseteq failedValid'
        BY Zenon, <1>1 DEF AcceptBlockHeader, AcceptBadBlock
      <3>2. failedChild \subseteq failedChild'
        BY Zenon, <1>1 DEF AcceptBlockHeader, AcceptBadBlock
      <3> QED
        BY Zenon, <3>1, <3>2 DEF Failed
    <2> QED
      BY Zenon, <2>1, <2>2, WaitSame, QueueSame
  <1>2. ASSUME NEW b \in Blocks, AcceptBlock(b)
        PROVE  WaitInv' /\ QueueInv'
    <2>1. WaitInv'
      BY Zenon, <1>2, AcceptWaits
    <2> DEFINE p == Parent[b]
               u == [unlinked EXCEPT ![p] = Append(unlinked[p], b)]
    <2>2. /\ queue = <<>> /\ pc \notin Locked /\ b \notin data /\ wanted' = TRUE
          /\ UNCHANGED <<linked, pc>>
      BY Zenon, <1>2 DEF AcceptBlock, CsMainFree, BlockIsTaken
    <2>3. b \notin linked
      BY Zenon, <2>2 DEF IInv, SetsOK
    <2>4. CASE queue' = <<b>> /\ unlinked' = unlinked
      <3>1. \A i \in 1..Len(<<b>>) : <<b>>[i] = b /\ \A j \in 1..Len(<<b>>) : i = j
        OBVIOUS
      <3>2. \A i \in 1..Len(queue') : /\ queue'[i] \notin linked'
                                      /\ \A j \in 1..Len(queue') : i # j => queue'[i] # queue'[j]
        BY Zenon, <2>2, <2>3, <2>4, <3>1
      <3> QED
        BY <2>1, <2>2, <2>4, <3>2 DEF QueueInv
    <2>5. CASE queue' = queue /\ unlinked' = unlinked
      BY Zenon, <2>1, <2>2, <2>5, QueueSame
    <2>6. CASE queue' = queue /\ unlinked' = u /\ p \notin linked
      <3>1. p \in Blocks /\ unlinked \in [Blocks -> Seq(Blocks)]
        BY Zenon, ParentFacts DEF IInv, QueuesOK
      <3>2. ASSUME NEW q \in Blocks
            PROVE  /\ u[q] # <<>> => q \notin linked
                   /\ \A i, j \in 1..Len(u[q]) : i # j => u[q][i] # u[q][j]
        <4>1. /\ unlinked[q] # <<>> => q \notin linked
              /\ \A i, j \in 1..Len(unlinked[q]) : i # j => unlinked[q][i] # unlinked[q][j]
          BY Zenon DEF QueueInv
        <4>2. CASE q # p
          <5>1. u[q] = unlinked[q]
            BY <3>1, <4>2
          <5> QED
            BY Zenon, <4>1, <5>1
        <4>3. CASE q = p
          <5>1. u[q] = Append(unlinked[q], b) /\ unlinked[q] \in Seq(Blocks)
            BY Zenon, <3>1, <4>3
          <5>2. \A i \in 1..Len(unlinked[q]) : unlinked[q][i] # b
            BY <2>2 DEF IInv, TreeInv
          <5>3. \A i, j \in 1..Len(u[q]) : i # j => u[q][i] # u[q][j]
            BY <4>1, <5>1, <5>2
          <5> QED
            BY Zenon, <2>6, <4>3, <5>3
        <4> QED
          BY Zenon, <4>2, <4>3
      <3> HIDE DEF u
      <3>3. \A i \in 1..Len(queue') : FALSE
        BY <2>2, <2>6
      <3>4. queue' = <<>>
        BY Zenon, <2>2, <2>6
      <3>5. \A q \in Blocks :
              /\ unlinked'[q] # <<>> => q \notin linked'
              /\ \A i, j \in 1..Len(unlinked'[q]) :
                    i # j => unlinked'[q][i] # unlinked'[q][j]
        BY Zenon, <2>2, <2>6, <3>2
      <3>6. pc' \notin Locked
        BY Zenon, <2>2
      <3>7. QueueInv'
        BY ONLY <3>3, <3>4, <3>5, <3>6, Zenon DEF QueueInv
      <3> QED
        BY Zenon, <2>1, <3>7
    <2> QED
      BY Zenon, <1>2, <2>4, <2>5, <2>6 DEF AcceptBlock
  <1>3. CASE LinkBlock
    BY Zenon, <1>3, LinkWaits
  <1>4. ASSUME NEW b \in Blocks, PreciousBlock(b) \/ InvalidateBlock(b)
        PROVE  WaitInv' /\ QueueInv'
    <2>1. UNCHANGED <<data, linked, queue, unlinked>> /\ queue = <<>>
          /\ UNCHANGED <<failedValid, failedChild>>
      BY Zenon, <1>4 DEF PreciousBlock, InvalidateBlock, CsMainFree, tree, flags
    <2>2. Failed \subseteq Failed'
      BY Zenon, <2>1 DEF Failed
    <2> QED
      BY Zenon, <2>1, <2>2, WaitSame, QueueSame
  <1>5. ASSUME NEW b \in Blocks, ReconsiderBlock(b)
        PROVE  WaitInv' /\ QueueInv'
    <2>1. /\ Failed' = Failed \ Cleared(b)
          /\ CsMainFree
          /\ \A d \in data \ {Genesis} : Parent[d] \notin Cleared(b) \cap BadContext
          /\ UNCHANGED <<data, linked, unlinked, queue>>
      BY Zenon, <1>5, ReconsiderFacts
    <2>2. WaitInv'
      BY Zenon, <2>1 DEF WaitInv
    <2> QED
      BY Zenon, <2>1, <2>2, QueueSame DEF CsMainFree
  <1>6. CASE ActivateBestChain
    <2>1. /\ UNCHANGED <<data, linked, queue, unlinked, failedValid, failedChild>>
          /\ pc' = "round" /\ mostWork' = None
      BY Zenon, <1>6 DEF ActivateBestChain, tree, flags
    <2>2. WaitInv'
      BY Zenon, <2>1, WaitSame DEF Failed
    <2>3. pc' \notin Locked
      BY <2>1 DEF Locked
    <2> QED
      BY <2>1, <2>2, <2>3 DEF QueueInv
  <1>7. CASE StartRound \/ FindMostWorkChain \/ NothingToDo \/ DisconnectToFork
             \/ ConnectTip \/ ConnectInvalid
    <2>1. UNCHANGED <<data, linked, queue, unlinked>>
      BY Zenon, <1>7 DEF StartRound, FindMostWorkChain, NothingToDo, DisconnectToFork,
           ConnectTip, ConnectInvalid, tree
    <2>2. queue = <<>>
      <3>1. StartRound \/ pc \in Locked
        BY <1>7 DEF FindMostWorkChain, NothingToDo, DisconnectToFork, ConnectTip,
             ConnectInvalid, Locked
      <3> QED
        BY Zenon, <3>1 DEF StartRound, CsMainFree, QueueInv
    <2>3. Failed \subseteq Failed'
      <3>1. CASE StartRound \/ NothingToDo \/ DisconnectToFork \/ ConnectTip
        BY Zenon, <3>1 DEF StartRound, NothingToDo, DisconnectToFork, ConnectTip, flags, Failed
      <3>2. CASE FindMostWorkChain
        BY Zenon, <3>2 DEF FindMostWorkChain, Failed
      <3>3. CASE ConnectInvalid
        BY <3>3 DEF ConnectInvalid, SetBlockFailureFlags, Failed
      <3> QED
        BY Zenon, <1>7, <3>1, <3>2, <3>3
    <2> QED
      BY Zenon, <2>1, <2>2, <2>3, WaitSame, QueueSame
  <1>8. CASE Invalidation
    <2>1. UNCHANGED <<data, linked, queue, unlinked>> /\ queue = <<>>
      BY Zenon, <1>8 DEF Invalidation, InvalidateTip, InvalidateLoopEnds, InvalidateMark,
           tree, CsMainFree
    <2>2. Failed \subseteq Failed'
      <3>1. CASE InvalidateTip
        BY Zenon, <3>1 DEF InvalidateTip, Failed
      <3>2. CASE InvalidateLoopEnds
        BY Zenon, <3>2 DEF InvalidateLoopEnds, flags, Failed
      <3>3. CASE InvalidateMark
        BY <3>3 DEF InvalidateMark, SetBlockFailureFlags, flags, Failed
      <3> QED
        BY Zenon, <1>8, <3>1, <3>2, <3>3 DEF Invalidation
    <2> QED
      BY Zenon, <2>1, <2>2, WaitSame, QueueSame
  <1>9. CASE UNCHANGED vars
    <2>1. UNCHANGED <<data, linked, queue, unlinked, failedValid, failedChild, pc, wanted,
                      mostWork>>
      BY Zenon, <1>9 DEF vars, tree, flags, abc
    <2>2. WaitInv'
      BY Zenon, <2>1, WaitSame DEF Failed
    <2> QED
      BY <2>1, <2>2 DEF QueueInv
  <1> QED
    BY Zenon, <1>1, <1>2, <1>3, <1>4, <1>5, <1>6, <1>7, <1>8, <1>9 DEF Next, Activation

-----------------------------------------------------------------------------
(* Numbers and checked scripts                                             *)

\* Only LinkBlock and PreciousBlock number blocks, and only LinkBlock links.
LEMMA NumbersSame ==
    ASSUME [Next]_vars, ~LinkBlock, \A b \in Blocks : ~PreciousBlock(b)
    PROVE  UNCHANGED <<linked, nSequenceId, nBlockReverseSequenceId>>
  BY Zenon DEF Next, Activation, Invalidation, vars, tree, keys,
     AcceptBlockHeader, AcceptBadBlock, AcceptBlock, ReconsiderBlock, InvalidateBlock,
     ActivateBestChain, StartRound, FindMostWorkChain, NothingToDo, DisconnectToFork,
     ConnectTip, ConnectInvalid, InvalidateTip, InvalidateLoopEnds, InvalidateMark

\* What PreciousBlock does to the numbers.
LEMMA PreciousFacts ==
    ASSUME IInv, NumberInv, NEW b \in Blocks, PreciousBlock(b)
    PROVE  \E n \in Int :
             /\ n < 0 /\ nSequenceId' = [nSequenceId EXCEPT ![b] = n]
             /\ nBlockReverseSequenceId' = n - 1
             /\ CarefulOperator /\ b = tip => n <= nSequenceId[tip]
             /\ candidates' = IF b \in Connectable
                              THEN {c \in candidates \cup {b} : ~Worse(c, tip, nSequenceId')}
                              ELSE candidates \ {b}
  <1> DEFINE n == IF nChainWork[tip] > nLastPreciousChainwork THEN -1
                  ELSE nBlockReverseSequenceId
             id == [nSequenceId EXCEPT ![b] = n]
  <1>1. n \in Int /\ n < 0
    BY DEF NumberInv, IInv, KeysOK
  <1>2. /\ nSequenceId' = id /\ nBlockReverseSequenceId' = n - 1
        /\ CarefulOperator /\ b = tip => n <= nSequenceId[tip]
        /\ candidates' = IF b \in Connectable
                         THEN PruneBlockIndexCandidates(candidates \cup {b}, tip, id)
                         ELSE candidates \ {b}
    BY Zenon DEF PreciousBlock
  <1> HIDE DEF n
  <1> QED
    BY <1>1, <1>2 DEF PruneBlockIndexCandidates

\* Only linked blocks are given positive numbers.
LEMMA NumbersKept ==
    ASSUME IInv, NumberInv, [Next]_vars
    PROVE  NumberInv'
  <1>1. CASE LinkBlock
    <2> DEFINE b == Head(queue)
    <2>1. /\ linked' = linked \cup {b}
          /\ nSequenceId' = [nSequenceId EXCEPT ![b] = nBlockSequenceId]
          /\ UNCHANGED nBlockReverseSequenceId
      BY Zenon, <1>1 DEF LinkBlock
    <2> HIDE DEF b
    <2> QED
      BY <2>1 DEF NumberInv, IInv, KeysOK
  <1>2. ASSUME NEW b \in Blocks, PreciousBlock(b) PROVE NumberInv'
    <2>1. PICK n \in Int : /\ n < 0 /\ nSequenceId' = [nSequenceId EXCEPT ![b] = n]
                           /\ nBlockReverseSequenceId' = n - 1
      BY Zenon, <1>2, PreciousFacts
    <2>2. linked' = linked
      BY Zenon, <1>2 DEF PreciousBlock, tree
    <2> QED
      BY <2>1, <2>2 DEF NumberInv, IInv, KeysOK
  <1>3. CASE ~LinkBlock /\ \A b \in Blocks : ~PreciousBlock(b)
    BY Zenon, <1>3, NumbersSame DEF NumberInv
  <1> QED
    BY Zenon, <1>1, <1>2, <1>3

\* The scripts of the active chain are checked, and of nothing else.
LEMMA ScriptsKept ==
    ASSUME IInv, ScriptsInv, [Next]_vars
    PROVE  ScriptsInv'
  <1>1. tip \in Blocks
    BY Zenon DEF IInv, TreeInv, SetsOK
  <1>2. CASE DisconnectToFork
    <2>1. tip' \in Branch[tip] /\ UNCHANGED scripts
      BY Zenon, <1>2 DEF DisconnectToFork, tree
    <2> QED
      BY Zenon, <1>1, <2>1, BranchFacts DEF ScriptsInv
  <1>3. CASE ConnectTip
    <2>1. /\ NextBlock \in Blocks /\ Parent[NextBlock] = tip
          /\ NextBlock \notin Branch[tip] /\ NextBlock \notin BadScripts
          /\ tip' = NextBlock /\ scripts' = scripts \cup {NextBlock}
      BY Zenon, <1>3, ConnectFacts DEF ConnectTip
    <2>2. NextBlock # Genesis
      BY Zenon, <1>3, NextBlockFacts, ConnectFacts DEF ConnectTip, IInv, PhaseInv
    <2> HIDE DEF NextBlock
    <2>3. Branch[NextBlock] = {NextBlock} \cup Branch[tip]
      BY Zenon, <2>1, <2>2, BranchFacts
    <2> QED
      BY <2>1, <2>3 DEF ScriptsInv
  <1>4. CASE InvalidateTip
    <2>1. tip # Genesis
      BY Zenon, <1>4, TreeAssumption DEF InvalidateTip, IInv, PhaseInv
    <2>2. tip' = Parent[tip] /\ UNCHANGED scripts /\ Branch[Parent[tip]] \subseteq Branch[tip]
      BY Zenon, <1>1, <1>4, <2>1, BranchFacts DEF InvalidateTip, tree
    <2> QED
      BY Zenon, <2>2 DEF ScriptsInv
  <1>5. CASE ~DisconnectToFork /\ ~ConnectTip /\ ~InvalidateTip
    <2>1. UNCHANGED <<tip, scripts>>
      BY Zenon, <1>5 DEF Next, Activation, Invalidation, vars, tree,
         AcceptBlockHeader, AcceptBadBlock, AcceptBlock, LinkBlock, PreciousBlock,
         ReconsiderBlock, InvalidateBlock, ActivateBestChain, StartRound, FindMostWorkChain,
         NothingToDo, ConnectInvalid, InvalidateLoopEnds, InvalidateMark
    <2> QED
      BY Zenon, <2>1 DEF ScriptsInv
  <1> QED
    BY Zenon, <1>2, <1>3, <1>4, <1>5

-----------------------------------------------------------------------------
(* The failure flags                                                       *)

\* InvalidateBlock is where it was.
Steady == /\ Invalidating /\ wasInChain => Invalidating' /\ wasInChain' /\ toMark' = toMark
          /\ Invalidating' /\ wasInChain' =>
                Invalidating /\ wasInChain /\ UNCHANGED <<toMark, tip>>

\* Then the blocks it has to mark are the same.
LEMMA SteadyMarks ==
    ASSUME Steady, NEW x, ToBeMarked(x)
    PROVE  ToBeMarked(x)'
  BY Zenon DEF Steady, ToBeMarked

\* Steps that leave the flags alone keep FlagInv.
LEMMA FlagSame ==
    ASSUME FlagInv, UNCHANGED <<index, failedValid, failedChild, failedBlocks>>,
           linked \subseteq linked', Steady
    PROVE  FlagInv'
  <1>1. Failed' = Failed /\ \A a : Descendants(a)' = Descendants(a)
    BY Zenon DEF Failed, Descendants
  <1>2. \A a : Flooded(a) => Flooded(a)'
    BY Zenon, <1>1, SteadyMarks DEF Flooded
  <1>3. \A x \in Failed' : \E a \in failedValid' \cap Branch[x] : a = x \/ Flooded(a)'
    BY Zenon, <1>1, <1>2 DEF FlagInv
  <1>4. \A a \in failedValid' \ BadContext : Flooded(a)'
    BY Zenon, <1>2 DEF FlagInv
  <1>5. \A f \in failedBlocks' : Descendants(f)' \subseteq Failed'
    BY Zenon, <1>1 DEF FlagInv
  <1>6. \A c \in index' \ {Genesis} :
          Parent[c] \in Failed' /\ c \notin Failed' => Parent[c] \in linked' \cup BadContext
    BY Zenon, <1>1 DEF FlagInv
  <1>7. Invalidating' /\ wasInChain' =>
          toMark' \in failedValid' \ {Genesis} /\ Parent[toMark'] = tip'
    BY Zenon DEF FlagInv, Steady
  <1> QED
    BY Zenon, <1>3, <1>4, <1>5, <1>6, <1>7 DEF FlagInv

\* A new header, or a block that is refused, keeps FlagInv: nothing comes on
\* top of a marked block.
LEMMA HeaderFlags ==
    ASSUME IInv, FlagInv, NEW b \in Blocks, b # Genesis,
           b \in index \ Failed \/ HeaderFits(b),
           index' = index \cup {b}, UNCHANGED <<failedChild, failedBlocks, linked>>,
           \/ failedValid' = failedValid
           \/ failedValid' = failedValid \cup {b} /\ b \in BadContext,
           UNCHANGED <<pc, wasInChain, toMark, tip>>
    PROVE  FlagInv'
  <1> DEFINE p == Parent[b]
  <1>1. Steady
    BY Zenon DEF Steady, Invalidating
  <1>2. /\ Failed \subseteq Failed' /\ failedValid \subseteq failedValid'
        /\ Failed' \subseteq Failed \cup {b} /\ (b \in Failed' => b \in Failed \/ b \in failedValid')
    BY Zenon DEF Failed
  <1>3. ASSUME NEW a \in Failed, NEW x \in Descendants(a)'
        PROVE  x \in Descendants(a) \/ (x = b /\ p \in Descendants(a) /\ p \notin Failed)
    <2>1. x \in index \cup {b} /\ x # a /\ a \in Branch[x]
      BY Zenon DEF Descendants
    <2>2. CASE x \in index
      BY Zenon, <2>1, <2>2 DEF Descendants
    <2>3. CASE x \notin index
      <3>1. x = b /\ p \in index \ Failed
        <4>1. x = b
          BY <2>1, <2>3
        <4>2. HeaderFits(b)
          BY <2>3, <4>1
        <4> QED
          BY ONLY <4>1, <4>2, Zenon DEF HeaderFits, p
      <3>2. a \in Branch[p]
        BY Zenon, <2>1, <3>1, BranchFacts
      <3> QED
        BY Zenon, <3>1, <3>2 DEF Descendants
    <2> QED
      BY Zenon, <2>2, <2>3
  <1>4. ASSUME NEW a \in Failed, Flooded(a) PROVE Flooded(a)'
    <2> SUFFICES ASSUME NEW x \in Descendants(a)' PROVE x \in Failed' \/ ToBeMarked(x)'
      BY Zenon DEF Flooded
    <2>1. CASE x \in Descendants(a)
      BY Zenon, <1>1, <1>2, <1>4, <2>1, SteadyMarks DEF Flooded
    <2>2. CASE x = b /\ p \in Descendants(a) /\ p \notin Failed
      <3>1. ToBeMarked(p)
        BY Zenon, <1>4, <2>2 DEF Flooded
      <3>2. Branch[p] \subseteq Branch[b]
        BY Zenon, BranchFacts
      <3>3. ToBeMarked(b)
        BY Zenon, <3>1, <3>2 DEF ToBeMarked
      <3> QED
        BY Zenon, <1>1, <2>2, <3>3, SteadyMarks
    <2> QED
      BY Zenon, <1>3, <2>1, <2>2
  <1>5. ASSUME NEW x \in Failed'
        PROVE  \E a \in failedValid' \cap Branch[x] : a = x \/ Flooded(a)'
    <2>1. CASE x \in Failed
      <3>1. PICK a \in failedValid \cap Branch[x] : a = x \/ Flooded(a)
        BY Zenon, <2>1 DEF FlagInv
      <3>2. a \in Failed
        BY Zenon, <3>1 DEF Failed
      <3> QED
        BY Zenon, <1>2, <1>4, <3>1, <3>2
    <2>2. CASE x \notin Failed
      BY Zenon, <1>2, <2>2, BranchFacts
    <2> QED
      BY Zenon, <2>1, <2>2
  <1>6. \A a \in failedValid' \ BadContext : Flooded(a)'
    BY Zenon, <1>4 DEF FlagInv, Failed
  <1>7. ASSUME NEW f \in failedBlocks' PROVE Descendants(f)' \subseteq Failed'
    <2>1. f \in Failed /\ Descendants(f) \subseteq Failed
      BY Zenon, <1>7 DEF FlagInv, IInv, ValidInv
    <2> QED
      BY Zenon, <1>2, <1>3, <2>1
  <1>8. ASSUME NEW c \in index' \ {Genesis}, Parent[c] \in Failed', c \notin Failed'
        PROVE  Parent[c] \in linked' \cup BadContext
    <2>1. CASE Parent[c] \notin Failed
      BY Zenon, <1>2, <1>8, <2>1 DEF Failed
    <2>2. CASE Parent[c] \in Failed
      <3>1. c \in index \/ c = b
        BY Zenon, <1>8
      <3>2. c \in index
        BY Zenon, <2>2, <3>1 DEF HeaderFits
      <3> QED
        BY Zenon, <1>2, <1>8, <2>2, <3>2 DEF FlagInv
    <2> QED
      BY Zenon, <2>1, <2>2
  <1>9. Invalidating' /\ wasInChain' =>
          toMark' \in failedValid' \ {Genesis} /\ Parent[toMark'] = tip'
    BY Zenon, <1>1, <1>2 DEF FlagInv, Steady
  <1> QED
    BY Zenon, <1>5, <1>6, <1>7, <1>8, <1>9 DEF FlagInv

\* SetBlockFailureFlags from a block that is failed, when nothing is left to be
\* marked but its descendants, keeps FlagInv.
LEMMA FloodFlags ==
    ASSUME IInv, FlagInv, NEW r \in index, NEW fresh \in SUBSET {r},
           r \in Failed \cup fresh,
           failedValid' = (failedValid \cup fresh) \ Descendants(r),
           failedChild' = failedChild \cup Descendants(r),
           failedBlocks' = failedBlocks \cup fresh, UNCHANGED <<index, linked>>,
           \A x : ToBeMarked(x) => r \in Branch[x], ~Invalidating'
    PROVE  FlagInv' /\ Failed' = Failed \cup fresh \cup Descendants(r)
           /\ \A x \in index : Branch[x] \cap failedValid # {} => Branch[x] \cap failedValid' # {}
  <1>1. r \in Blocks /\ index \subseteq Blocks /\ failedValid \subseteq Blocks
    BY Zenon DEF IInv, SetsOK
  <1>2. Failed' = Failed \cup fresh \cup Descendants(r)
    BY DEF Failed
  <1>3. \A a : Descendants(a)' = Descendants(a)
    BY Zenon DEF Descendants
  <1>4. r \in Failed' /\ r \notin Descendants(r) /\ Failed \subseteq Failed'
        /\ Descendants(r) \subseteq Failed'
    BY Zenon, <1>2 DEF Descendants
  <1>5. \A x \in index : r \in Branch[x] => x \in Failed'
    BY Zenon, <1>4 DEF Descendants
  <1>6. ASSUME NEW a, Flooded(a) PROVE Flooded(a)'
    <2> SUFFICES ASSUME NEW x \in Descendants(a) PROVE x \in Failed'
      BY Zenon, <1>3 DEF Flooded
    <2>1. x \in index
      BY Zenon DEF Descendants
    <2> QED
      BY Zenon, <1>4, <1>5, <1>6, <2>1 DEF Flooded
  <1>7. Flooded(r)'
    BY Zenon, <1>3, <1>4 DEF Flooded
  <1>8. PICK s \in failedValid' \cap Branch[r] : Flooded(s)'
    <2>1. CASE r \in failedValid \cup fresh
      <3>1. r \in failedValid' /\ r \in Branch[r]
        BY Zenon, <1>1, <1>4, <2>1, BranchFacts
      <3> QED
        BY Zenon, <1>7, <3>1
    <2>2. CASE r \notin failedValid \cup fresh
      <3>1. PICK a \in failedValid \cap Branch[r] : a = r \/ Flooded(a)
        BY Zenon, <2>2 DEF FlagInv
      <3>2. a # r /\ Flooded(a) /\ a \in Blocks
        BY Zenon, <1>1, <2>2, <3>1
      <3>3. a \notin Descendants(r)
        BY Zenon, <1>1, <3>1, <3>2, NotBoth DEF Descendants
      <3>4. a \in failedValid'
        BY Zenon, <3>1, <3>3
      <3> QED
        BY Zenon, <1>6, <3>1, <3>2, <3>4
    <2> QED
      BY Zenon, <2>1, <2>2
  <1>9. ASSUME NEW x \in index, r \notin Branch[x], NEW a \in failedValid \cap Branch[x]
        PROVE  a \in failedValid'
    <2>1. Branch[a] \subseteq Branch[x]
      BY Zenon, <1>1, BranchFacts
    <2> QED
      BY Zenon, <1>9, <2>1 DEF Descendants
  <1>10. ASSUME NEW x \in index, r \in Branch[x]
         PROVE  s \in failedValid' \cap Branch[x] /\ Flooded(s)'
    BY Zenon, <1>1, <1>8, <1>10, BranchFacts
  <1>11. ASSUME NEW x \in Failed'
         PROVE  \E a \in failedValid' \cap Branch[x] : a = x \/ Flooded(a)'
    <2>1. x \in index
      BY Zenon, <1>2 DEF IInv, SetsOK, Failed, Descendants
    <2>2. CASE r \in Branch[x]
      BY Zenon, <1>10, <2>1, <2>2
    <2>3. CASE r \notin Branch[x]
      <3>1. x \in Failed
        <4>1. x # r
          BY Zenon, <1>1, <2>3, BranchFacts
        <4> QED
          BY Zenon, <1>2, <2>3, <4>1 DEF Descendants
      <3>2. PICK a \in failedValid \cap Branch[x] : a = x \/ Flooded(a)
        BY Zenon, <3>1 DEF FlagInv
      <3> QED
        BY Zenon, <1>6, <1>9, <2>1, <2>3, <3>2
    <2> QED
      BY Zenon, <2>2, <2>3
  <1>12. \A a \in failedValid' \ BadContext : Flooded(a)'
    <2>1. \A a \in failedValid' : a \in failedValid \/ a = r
      BY Zenon
    <2> QED
      BY Zenon, <1>6, <1>7, <2>1 DEF FlagInv
  <1>13. \A f \in failedBlocks' : Descendants(f)' \subseteq Failed'
    <2>1. \A f \in failedBlocks' : f \in failedBlocks \/ f = r
      BY Zenon
    <2> QED
      BY Zenon, <1>3, <1>4, <2>1 DEF FlagInv
  <1>14. ASSUME NEW c \in index' \ {Genesis}, Parent[c] \in Failed', c \notin Failed'
         PROVE  Parent[c] \in linked' \cup BadContext
    <2>1. c \in index \ {Genesis} /\ r \notin Branch[c]
      BY Zenon, <1>5, <1>14
    <2>2. Branch[Parent[c]] \subseteq Branch[c] /\ Parent[c] \in Branch[Parent[c]]
      BY Zenon, <1>1, <2>1, BranchFacts
    <2>3. Parent[c] \in Failed
      BY Zenon, <1>2, <1>14, <2>1, <2>2 DEF Descendants
    <2> QED
      BY Zenon, <1>4, <1>14, <2>1, <2>3 DEF FlagInv
  <1>15. \A x \in index : Branch[x] \cap failedValid # {} => Branch[x] \cap failedValid' # {}
    <2> SUFFICES ASSUME NEW x \in index, NEW a \in Branch[x] \cap failedValid
                 PROVE  \E c : c \in Branch[x] \cap failedValid'
      BY Zenon
    <2>1. CASE r \in Branch[x]
      BY Zenon, <1>10, <2>1
    <2>2. CASE r \notin Branch[x]
      BY Zenon, <1>9, <2>2
    <2> QED
      BY Zenon, <2>1, <2>2
  <1> QED
    BY Zenon, <1>2, <1>11, <1>12, <1>13, <1>14, <1>15 DEF FlagInv

\* A turn of FindMostWorkChain finds the best candidate usable, or takes away
\* candidates on top of a failed block.
LEMMA FindFacts ==
    ASSUME IInv, FindMostWorkChain
    PROVE  \E best \in candidates :
             /\ \A d \in candidates : ~Worse(best, d, nSequenceId)
             /\ \/ /\ mostWork' = best /\ (Branch[best] \ Branch[tip]) \cap Failed = {}
                   /\ UNCHANGED <<candidates, failedChild>>
                \/ \E test \in Failed \cap linked, above \in SUBSET linked :
                      /\ \A x \in above : test \in Branch[x]
                      /\ candidates' = candidates \ (above \cup {test})
                      /\ failedChild' = failedChild \cup above
                      /\ UNCHANGED mostWork
  <1> DEFINE path(best) == Branch[best] \ Branch[tip]
             above(best, test) == {b \in path(best) : Height[b] > Height[test]}
  <1>1. PICK best \in Blocks :
          /\ IsBest(best)
          /\ \/ /\ path(best) \cap Failed = {}
                /\ mostWork' = best
                /\ UNCHANGED <<candidates, failedChild>>
             \/ \E test \in path(best) \cap Failed :
                   /\ candidates' = candidates \ (above(best, test) \cup {test})
                   /\ failedChild' = failedChild \cup above(best, test)
                   /\ UNCHANGED mostWork
    BY Zenon DEF FindMostWorkChain
  <1>2. /\ best \in candidates /\ \A d \in candidates : ~Worse(best, d, nSequenceId)
        /\ Branch[best] \subseteq linked
    BY Zenon, <1>1 DEF IsBest, IInv, TreeInv
  <1>3. ASSUME NEW test \in path(best) \cap Failed
        PROVE  /\ test \in Failed \cap linked /\ above(best, test) \in SUBSET linked
               /\ \A x \in above(best, test) : test \in Branch[x]
    <2>1. above(best, test) \subseteq linked /\ test \in Failed \cap linked
      BY Zenon, <1>2
    <2>2. ASSUME NEW x \in above(best, test) PROVE test \in Branch[x]
      <3>1. x \in Branch[best] /\ test \in Branch[best] /\ Height[x] > Height[test]
        BY Zenon
      <3>2. x \in Blocks /\ test \in Blocks
        BY Zenon, <3>1, BranchFacts
      <3>3. Height[test] <= Height[x]
        BY <3>1, <3>2, ParentFacts
      <3> QED
        BY Zenon, <3>1, <3>3, TreeAssumption
    <2> QED
      BY <2>1, <2>2
  <1> HIDE DEF above
  <1>4. CASE /\ path(best) \cap Failed = {}
             /\ mostWork' = best
             /\ UNCHANGED <<candidates, failedChild>>
    BY Zenon, <1>2, <1>4
  <1>5. ASSUME NEW test \in path(best) \cap Failed,
               /\ candidates' = candidates \ (above(best, test) \cup {test})
               /\ failedChild' = failedChild \cup above(best, test)
               /\ UNCHANGED mostWork
        PROVE  \E t \in Failed \cap linked, A \in SUBSET linked :
                      /\ \A x \in A : t \in Branch[x]
                      /\ candidates' = candidates \ (A \cup {t})
                      /\ failedChild' = failedChild \cup A
                      /\ UNCHANGED mostWork
    BY Zenon, <1>3, <1>5
  <1> HIDE DEF path
  <1> QED
    BY Zenon, <1>1, <1>2, <1>4, <1>5 DEF path

\* FindMostWorkChain marks linked blocks on top of a marked one.
LEMMA FindFlags ==
    ASSUME IInv, FlagInv, WaitInv, FindMostWorkChain
    PROVE  FlagInv'
  <1>1. /\ UNCHANGED <<index, linked, failedValid, failedBlocks, tip, pc, wasInChain, toMark>>
        /\ pc = "find"
    BY Zenon DEF FindMostWorkChain, tree, inval
  <1>2. Steady /\ ~Invalidating /\ ~Invalidating'
    <2>1. ~Invalidating
      BY <1>1 DEF Invalidating
    <2> QED
      BY Zenon, <1>1, <2>1 DEF Steady, Invalidating
  <1>3. CASE UNCHANGED failedChild
    <2>1. linked \subseteq linked'
      BY Zenon, <1>1
    <2> QED
      BY Zenon, <1>1, <1>2, <1>3, <2>1, FlagSame
  <1>4. ASSUME NEW test \in Failed \cap linked, NEW above \in SUBSET linked,
               \A x \in above : test \in Branch[x], failedChild' = failedChild \cup above
        PROVE  FlagInv'
    <2>1. Failed' = Failed \cup above
      BY Zenon, <1>1, <1>4 DEF Failed
    <2>2. \A a : Descendants(a)' = Descendants(a)
      BY Zenon, <1>1 DEF Descendants
    <2>3. \A a : Flooded(a) => Flooded(a)'
      BY Zenon, <1>2, <2>1, <2>2, SteadyMarks DEF Flooded
    <2>4. PICK s \in failedValid \cap Branch[test] : Flooded(s)
      <3>1. PICK a \in failedValid \cap Branch[test] : a = test \/ Flooded(a)
        BY Zenon DEF FlagInv
      <3>2. CASE a = test
        <4>1. test \notin BadContext
          BY Zenon DEF WaitInv, IInv, SetsOK
        <4> QED
          BY Zenon, <3>1, <3>2, <4>1 DEF FlagInv
      <3> QED
        BY Zenon, <3>1, <3>2
    <2>5. ASSUME NEW x \in above PROVE s \in failedValid \cap Branch[x]
      <3>1. x \in Blocks /\ test \in Branch[x]
        BY Zenon, <1>4 DEF IInv, SetsOK
      <3> QED
        BY Zenon, <2>4, <3>1, BranchFacts
    <2>6. \A x \in Failed' : \E a \in failedValid' \cap Branch[x] : a = x \/ Flooded(a)'
      BY Zenon, <1>1, <2>1, <2>3, <2>4, <2>5 DEF FlagInv
    <2>7. \A a \in failedValid' \ BadContext : Flooded(a)'
      BY Zenon, <1>1, <2>3 DEF FlagInv
    <2>8. \A f \in failedBlocks' : Descendants(f)' \subseteq Failed'
      BY Zenon, <1>1, <2>1, <2>2 DEF FlagInv
    <2>9. \A c \in index' \ {Genesis} :
            Parent[c] \in Failed' /\ c \notin Failed' => Parent[c] \in linked' \cup BadContext
      BY Zenon, <1>1, <2>1 DEF FlagInv
    <2> QED
      BY Zenon, <1>2, <2>6, <2>7, <2>8, <2>9 DEF FlagInv
  <1> QED
    BY Zenon, <1>3, <1>4, FindFacts

\* InvalidateTip marks the tip; what is above it is still to be marked.
LEMMA TipFlags ==
    ASSUME IInv, FlagInv, InvalidateTip
    PROVE  FlagInv'
  <1> DEFINE swap == IF tip = Parent[toMark] /\ toMark \in failedValid
                     THEN {toMark} ELSE {}
  <1>1. /\ pc = "disconnect" /\ target \in Branch[tip] /\ tip' = Parent[tip]
        /\ failedValid' = (failedValid \cup {tip}) \ swap
        /\ failedChild' = failedChild \cup swap
        /\ toMark' = tip /\ wasInChain' = TRUE
        /\ UNCHANGED <<index, linked, failedBlocks, pc>>
    BY Zenon DEF InvalidateTip, tree
  <1>2. Invalidating /\ Invalidating'
    BY <1>1 DEF Invalidating
  <1>3. tip \in Blocks /\ tip \in linked /\ tip \in index /\ tip # Genesis
    <2>1. target # Genesis
      BY Zenon, <1>2 DEF IInv, PhaseInv, Invalidating
    <2> QED
      BY Zenon, <1>1, <2>1, TreeAssumption DEF IInv, TreeInv, SetsOK
  <1>4. /\ toMark \in index \ {Genesis} /\ toMark \in Blocks
        /\ wasInChain => Parent[toMark] = tip
    <2>1. toMark \in index /\ target # Genesis /\ (~wasInChain => toMark = target)
      BY Zenon, <1>2 DEF IInv, PhaseInv, Invalidating
    <2> QED
      BY Zenon, <1>2, <2>1 DEF FlagInv, IInv, SetsOK
  <1>5. tip \notin swap /\ \A a \in swap : a = toMark /\ Parent[a] = tip /\ a \in failedValid
    <2>1. toMark \notin Branch[Parent[toMark]] /\ tip \in Branch[tip]
      BY Zenon, <1>3, <1>4, BranchFacts
    <2> QED
      BY Zenon, <2>1
  <1> HIDE DEF swap
  <1>6. Failed' = Failed \cup {tip}
    BY <1>1, <1>5 DEF Failed
  <1>7. tip \in failedValid' /\ tip \in Branch[tip]
    BY Zenon, <1>1, <1>3, <1>5, BranchFacts
  <1>8. \A a : Descendants(a)' = Descendants(a)
    BY Zenon, <1>1 DEF Descendants
  <1>9. \A x : ToBeMarked(x)' <=> tip \in Branch[x]
    BY Zenon, <1>1, <1>2 DEF ToBeMarked
  <1>10. ASSUME NEW x \in index, ToBeMarked(x) PROVE ToBeMarked(x)'
    <2>1. toMark \in Branch[x] /\ Parent[toMark] = tip /\ x \in Blocks
      BY Zenon, <1>4, <1>10 DEF ToBeMarked, IInv, SetsOK
    <2>2. tip \in Branch[toMark]
      BY Zenon, <1>4, <2>1, BranchFacts
    <2> QED
      BY Zenon, <1>9, <2>1, <2>2, BranchFacts
  <1>11. \A a : Flooded(a) => Flooded(a)'
    <2>1. \A a : \A x \in Descendants(a) : x \in index
      BY Zenon DEF Descendants
    <2> QED
      BY Zenon, <1>6, <1>8, <1>10, <2>1 DEF Flooded
  <1>12. PICK t : t = tip
    BY Zenon
  <1>13. Flooded(t)'
    <2> SUFFICES ASSUME NEW x \in Descendants(t)' PROVE ToBeMarked(x)'
      BY Zenon DEF Flooded
    <2>1. x \in Descendants(t)
      BY Zenon, <1>8
    <2> QED
      BY Zenon, <1>9, <1>12, <2>1 DEF Descendants
  <1>14. ASSUME NEW x \in Failed'
         PROVE  \E a \in failedValid' \cap Branch[x] : a = x \/ Flooded(a)'
    <2>1. CASE x = tip
      BY Zenon, <1>7, <2>1
    <2>2. CASE x # tip
      <3>1. x \in Failed /\ x \in Blocks
        BY Zenon, <1>6, <2>2 DEF IInv, SetsOK, Failed
      <3>2. PICK a \in failedValid \cap Branch[x] : a = x \/ Flooded(a)
        BY Zenon, <3>1 DEF FlagInv
      <3>3. CASE a \in swap
        <4>1. tip \in Branch[a] /\ Branch[a] \subseteq Branch[x]
          BY Zenon, <1>4, <1>5, <3>1, <3>2, <3>3, BranchFacts
        <4> QED
          BY Zenon, <1>7, <1>12, <1>13, <4>1
      <3>4. CASE a \notin swap
        BY Zenon, <1>1, <1>11, <3>2, <3>4
      <3> QED
        BY Zenon, <3>3, <3>4
    <2> QED
      BY Zenon, <2>1, <2>2
  <1>15. \A a \in failedValid' \ BadContext : Flooded(a)'
    BY Zenon, <1>1, <1>11, <1>12, <1>13 DEF FlagInv
  <1>16. \A f \in failedBlocks' : Descendants(f)' \subseteq Failed'
    BY Zenon, <1>1, <1>6, <1>8 DEF FlagInv
  <1>17. \A c \in index' \ {Genesis} :
           Parent[c] \in Failed' /\ c \notin Failed' => Parent[c] \in linked' \cup BadContext
    BY Zenon, <1>1, <1>3, <1>6 DEF FlagInv
  <1>18. toMark' \in failedValid' \ {Genesis} /\ Parent[toMark'] = tip'
    BY Zenon, <1>1, <1>3, <1>7
  <1> QED
    BY Zenon, <1>14, <1>15, <1>16, <1>17, <1>18 DEF FlagInv

\* reconsiderblock does not clear a block on top of one that stays marked.
LEMMA ClearedDown ==
    ASSUME IInv, NEW b \in Blocks, NEW a \in Failed, a \notin Cleared(b),
           NEW d \in Blocks, a \in Branch[d]
    PROVE  d \notin Cleared(b)
  <1> SUFFICES ASSUME d \in Cleared(b) PROVE FALSE
    OBVIOUS
  <1>1. a \in index /\ a \in Blocks
    BY Zenon DEF Failed, IInv, SetsOK
  <1>2. CASE d \in Branch[b]
    <2>1. a \in Branch[b]
      BY Zenon, <1>2, BranchFacts
    <2> QED
      BY Zenon, <2>1 DEF Cleared
  <1>3. CASE b \in Branch[d]
    <2>1. a \in Branch[b] \/ b \in Branch[a]
      BY Zenon, <1>3, Comparable
    <2> QED
      BY Zenon, <1>1, <2>1 DEF Cleared
  <1> QED
    BY Zenon, <1>2, <1>3 DEF Cleared

\* reconsiderblock keeps FlagInv when it names the lowest marked block.
LEMMA ReconsiderFlags ==
    ASSUME CarefulOperator, IInv, FlagInv, NEW b \in Blocks, ReconsiderBlock(b)
    PROVE  FlagInv'
  <1>1. /\ failedValid' = failedValid \ Cleared(b)
        /\ failedBlocks' = failedBlocks \ Cleared(b)
        /\ Failed' = Failed \ Cleared(b)
        /\ Parent[b] \notin Failed /\ ~Invalidating
        /\ UNCHANGED <<index, linked, pc, inval>>
    BY Zenon, ReconsiderFacts
  <1>2. ~Invalidating' /\ \A x : ~ToBeMarked(x) /\ \A a : Descendants(a)' = Descendants(a)
    BY Zenon, <1>1 DEF Invalidating, ToBeMarked, Descendants
  <1>3. ASSUME NEW a \in Failed, a \notin Cleared(b), Descendants(a) \subseteq Failed
        PROVE  Descendants(a)' \subseteq Failed'
    <2>1. ASSUME NEW d \in Descendants(a) PROVE d \notin Cleared(b)
      <3>1. d \in Blocks /\ a \in Branch[d]
        BY Zenon DEF Descendants, IInv, SetsOK
      <3> QED
        BY Zenon, <1>3, <3>1, ClearedDown
    <2> QED
      BY Zenon, <1>1, <1>2, <1>3, <2>1
  <1>4. ASSUME NEW a PROVE Flooded(a) <=> Descendants(a) \subseteq Failed
    BY Zenon, <1>2 DEF Flooded
  <1>5. ASSUME NEW a \in Failed, a \notin Cleared(b), Flooded(a) PROVE Flooded(a)'
    BY Zenon, <1>3, <1>4, <1>5 DEF Flooded
  <1>6. failedValid \subseteq Failed /\ failedBlocks \subseteq Failed
    BY Zenon DEF Failed, IInv, ValidInv
  <1>7. ASSUME NEW x \in Failed'
        PROVE  \E a \in failedValid' \cap Branch[x] : a = x \/ Flooded(a)'
    <2>1. x \in Failed /\ x \notin Cleared(b) /\ x \in index /\ x \in Blocks
      BY Zenon, <1>1 DEF IInv, SetsOK, Failed
    <2>2. PICK a \in failedValid \cap Branch[x] : a = x \/ Flooded(a)
      BY Zenon, <2>1 DEF FlagInv
    <2>3. a \notin Cleared(b)
      <3> SUFFICES ASSUME a \in Cleared(b) PROVE FALSE
        OBVIOUS
      <3>1. Flooded(a) /\ a \in Failed /\ a \in Blocks
        BY Zenon, <1>6, <2>1, <2>2 DEF IInv, SetsOK
      <3>2. CASE b \in Branch[a]
        <4>1. b \in Branch[x]
          BY Zenon, <2>1, <2>2, <3>2, BranchFacts
        <4> QED
          BY Zenon, <2>1, <4>1 DEF Cleared
      <3>3. CASE a \in Branch[b] /\ a # b
        <4>1. b # Genesis
          BY <3>3, TreeAssumption
        <4>2. a \in Branch[Parent[b]] /\ Parent[b] \in Blocks /\ Parent[b] \in Branch[b]
          BY Zenon, <3>3, <4>1, BranchFacts
        <4>3. Parent[b] \in index
          BY Zenon, <4>2 DEF ReconsiderBlock, IInv, TreeInv
        <4>4. Parent[b] \in Descendants(a) \/ Parent[b] = a
          BY Zenon, <4>2, <4>3 DEF Descendants
        <4> QED
          BY Zenon, <1>1, <1>4, <3>1, <4>4
      <3>4. a = b => b \in Branch[a]
        BY Zenon, BranchFacts
      <3> QED
        BY Zenon, <3>2, <3>3, <3>4 DEF Cleared
    <2> QED
      BY Zenon, <1>1, <1>5, <1>6, <2>2, <2>3
  <1>8. \A a \in failedValid' \ BadContext : Flooded(a)'
    BY Zenon, <1>1, <1>5, <1>6 DEF FlagInv
  <1>9. \A f \in failedBlocks' : Descendants(f)' \subseteq Failed'
    BY Zenon, <1>1, <1>3, <1>6 DEF FlagInv
  <1>10. ASSUME NEW c \in index' \ {Genesis}, Parent[c] \in Failed', c \notin Failed'
         PROVE  Parent[c] \in linked' \cup BadContext
    <2>1. c \in index /\ c \in Blocks /\ Parent[c] \in Branch[c] /\ Parent[c] \in Failed
          /\ Parent[c] \notin Cleared(b)
      BY Zenon, <1>1, <1>10, BranchFacts DEF IInv, SetsOK
    <2>2. c \notin Cleared(b)
      BY Zenon, <2>1, ClearedDown
    <2> QED
      BY Zenon, <1>1, <1>10, <2>1, <2>2 DEF FlagInv
  <1> QED
    BY Zenon, <1>2, <1>7, <1>8, <1>9, <1>10 DEF FlagInv

\* The last section of InvalidateBlock.
LEMMA MarkFacts ==
    ASSUME IInv, FlagInv, InvalidateMark
    PROVE  /\ pc = "mark" /\ pc' = "idle" /\ wanted' = TRUE /\ queue = <<>>
           /\ UNCHANGED <<tree, keys, unlinked, tip, queue, abc, rpcs>>
           /\ \E r \in index : \E fresh \in SUBSET {r} :
                /\ r = toMark /\ r \in Failed \cup fresh /\ r \notin Branch[tip]
                /\ failedValid' = (failedValid \cup fresh) \ Descendants(r)
                /\ failedChild' = failedChild \cup Descendants(r)
                /\ failedBlocks' = failedBlocks \cup fresh
                /\ candidates' = (candidates \ fresh) \cup
                     {b \in Connectable \ fresh : ~Worse(b, tip, nSequenceId)}
  <1>1. /\ pc = "mark" /\ pc' = "idle" /\ wanted' = TRUE /\ queue = <<>>
        /\ UNCHANGED <<tree, keys, unlinked, tip, queue, abc, rpcs>>
    BY Zenon DEF InvalidateMark, InvalidateReturns, CsMainFree
  <1>2. Invalidating
    BY <1>1 DEF Invalidating
  <1>3. /\ toMark \in index /\ target \in index \ {Genesis} /\ target \notin Branch[tip]
        /\ ~wasInChain => toMark = target
    BY Zenon, <1>1, <1>2 DEF IInv, PhaseInv, Invalidating
  <1> DEFINE fresh == IF wasInChain \/ target \in Failed THEN {} ELSE {target}
  <1>4. fresh \in SUBSET {toMark} /\ toMark \in Failed \cup fresh /\ toMark \notin Branch[tip]
    <2>1. CASE wasInChain
      <3>1. toMark \in failedValid \ {Genesis} /\ Parent[toMark] = tip
        BY Zenon, <1>2, <2>1 DEF FlagInv
      <3>2. toMark \in Blocks
        BY Zenon, <1>3 DEF IInv, SetsOK
      <3>3. toMark \notin Branch[tip]
        BY Zenon, <3>1, <3>2, BranchFacts
      <3> QED
        BY Zenon, <2>1, <3>1, <3>3 DEF Failed
    <2>2. CASE ~wasInChain
      BY Zenon, <1>3, <2>2
    <2> QED
      BY Zenon, <2>1, <2>2
  <1>5. /\ failedValid' = (failedValid \cup fresh) \ Descendants(toMark)
        /\ failedChild' = failedChild \cup Descendants(toMark)
        /\ failedBlocks' = failedBlocks \cup fresh
        /\ candidates' = (candidates \ fresh) \cup
             {b \in Connectable \ fresh : ~Worse(b, tip, nSequenceId)}
    BY Zenon, <1>4 DEF InvalidateMark, SetBlockFailureFlags
  <1> HIDE DEF fresh
  <1> QED
    BY Zenon, <1>1, <1>3, <1>4, <1>5

\* ConnectTip fails on an invalid block.
LEMMA RefuseFacts ==
    ASSUME IInv, ConnectInvalid
    PROVE  \E r \in linked :
             /\ r = NextBlock /\ r \in BadScripts /\ Parent[r] = tip
             /\ r \notin Branch[tip] /\ r \notin Failed
             /\ failedValid' = (failedValid \cup {r}) \ Descendants(r)
             /\ failedChild' = failedChild \cup Descendants(r)
             /\ failedBlocks' = failedBlocks \cup {r}
             /\ candidates' = candidates \ {r}
  <1>1. PICK r : r = NextBlock
    BY Zenon
  <1>2. /\ r \in linked /\ r \in BadScripts /\ Parent[r] = tip
        /\ r \notin Branch[tip] /\ r \notin Failed
    BY Zenon, <1>1, ConnectFacts DEF ConnectInvalid
  <1>3. /\ failedValid' = (failedValid \cup {r}) \ Descendants(r)
        /\ failedChild' = failedChild \cup Descendants(r)
        /\ failedBlocks' = failedBlocks \cup {r}
        /\ candidates' = candidates \ {r}
    BY Zenon, <1>1 DEF ConnectInvalid, SetBlockFailureFlags
  <1> QED
    BY Zenon, <1>1, <1>2, <1>3

\* A block on top of a marked one is refused before it is looked at.
LEMMA NothingBelow ==
    ASSUME IInv, FlagInv, NEW b \in Blocks, HeaderFits(b)
    PROVE  FailedBelow(Parent[b]) = {}
  <1> SUFFICES ASSUME NEW f \in FailedBelow(Parent[b]) PROVE FALSE
    OBVIOUS
  <1>1. f \in failedBlocks /\ f \in Branch[Parent[b]]
    BY Zenon DEF FailedBelow
  <1>2. f \in Failed /\ Descendants(f) \subseteq Failed
    BY Zenon, <1>1 DEF FlagInv, IInv, ValidInv
  <1>3. Parent[b] \in Descendants(f) \/ Parent[b] = f
    BY Zenon, <1>1 DEF HeaderFits, Descendants
  <1> QED
    BY Zenon, <1>2, <1>3 DEF HeaderFits

\* FlagInv is kept by every step.
LEMMA FlagsKept ==
    ASSUME CarefulOperator, IInv, WaitInv, FlagInv, [Next]_vars
    PROVE  FlagInv'
  <1>1. ASSUME NEW b \in Blocks, AcceptBlockHeader(b)
        PROVE  FlagInv'
    <2>1. /\ HeaderFits(b) /\ b # Genesis /\ FailedBelow(Parent[b]) = {}
      BY Zenon, <1>1, NothingBelow DEF AcceptBlockHeader, HeaderFits
    <2>2. /\ index' = index \cup {b}
          /\ UNCHANGED <<failedChild, failedBlocks, failedValid, linked, pc, wasInChain,
                         toMark, tip>>
      BY Zenon, <1>1, <2>1 DEF AcceptBlockHeader, inval
    <2> QED
      BY Zenon, <2>1, <2>2, HeaderFlags
  <1>2. ASSUME NEW b \in Blocks, AcceptBadBlock(b)
        PROVE  FlagInv'
    <2>1. b # Genesis
      BY Zenon, <1>2, TreeAssumption DEF AcceptBadBlock
    <2>2. /\ index' = index \cup {b} /\ b \in BadContext
          /\ b \in index \ Failed \/ HeaderFits(b)
          /\ failedValid' = failedValid \cup {b}
          /\ UNCHANGED <<failedChild, failedBlocks, linked, pc, wasInChain, toMark, tip>>
      BY Zenon, <1>2 DEF AcceptBadBlock, BlockIsTaken, inval
    <2> QED
      BY Zenon, <2>1, <2>2, HeaderFlags
  <1>3. ASSUME NEW b \in Blocks, AcceptBlock(b)
        PROVE  FlagInv'
    <2>1. b # Genesis
      BY Zenon, <1>3 DEF AcceptBlock, BlockIsTaken, IInv, TreeInv
    <2>2. /\ index' = index \cup {b}
          /\ b \in index \ Failed \/ HeaderFits(b)
          /\ UNCHANGED <<failedValid, failedChild, failedBlocks, linked, pc, wasInChain,
                         toMark, tip>>
      BY Zenon, <1>3 DEF AcceptBlock, BlockIsTaken, flags, inval
    <2> QED
      BY Zenon, <2>1, <2>2, HeaderFlags
  <1>4. ASSUME UNCHANGED <<index, failedValid, failedChild, failedBlocks>>,
               linked \subseteq linked', UNCHANGED <<pc, wasInChain, toMark, tip>>
        PROVE  FlagInv'
    <2>1. Steady
      BY Zenon, <1>4 DEF Steady, Invalidating
    <2> QED
      BY Zenon, <1>4, <2>1, FlagSame
  <1>5. CASE LinkBlock \/ (\E b \in Blocks : PreciousBlock(b)) \/ UNCHANGED vars
    <2>1. /\ UNCHANGED <<index, failedValid, failedChild, failedBlocks>>
          /\ linked \subseteq linked' /\ UNCHANGED <<pc, wasInChain, toMark, tip>>
      BY Zenon, <1>5 DEF LinkBlock, PreciousBlock, vars, tree, flags, inval
    <2> QED
      BY Zenon, <1>4, <2>1
  <1>6. ASSUME NEW b \in Blocks, ReconsiderBlock(b)
        PROVE  FlagInv'
    BY Zenon, <1>6, ReconsiderFlags
  <1>7. ASSUME UNCHANGED <<index, failedValid, failedChild, failedBlocks, linked>>,
               ~Invalidating, ~Invalidating' \/ ~wasInChain'
        PROVE  FlagInv'
    <2>1. Steady /\ linked \subseteq linked'
      BY Zenon, <1>7 DEF Steady
    <2> QED
      BY Zenon, <1>7, <2>1, FlagSame
  <1>8. ASSUME NEW b \in Blocks, InvalidateBlock(b)
        PROVE  FlagInv'
    <2>1. /\ UNCHANGED <<index, failedValid, failedChild, failedBlocks, linked>>
          /\ pc = "idle" /\ ~wasInChain'
      BY Zenon, <1>8 DEF InvalidateBlock, tree, flags
    <2>2. ~Invalidating
      BY <2>1 DEF Invalidating
    <2> QED
      BY Zenon, <1>7, <2>1, <2>2
  <1>9. CASE ActivateBestChain \/ StartRound \/ NothingToDo \/ DisconnectToFork \/ ConnectTip
    <2>1. UNCHANGED <<index, failedValid, failedChild, failedBlocks, linked>>
      BY Zenon, <1>9 DEF ActivateBestChain, StartRound, NothingToDo, DisconnectToFork,
           ConnectTip, tree, flags
    <2>2. ~Invalidating
      BY <1>9 DEF ActivateBestChain, StartRound, NothingToDo, DisconnectToFork,
           ConnectTip, Invalidating
    <2>3. ~Invalidating'
      <3>1. CASE ActivateBestChain \/ StartRound
        BY <3>1 DEF ActivateBestChain, StartRound, Invalidating
      <3>2. CASE NothingToDo \/ DisconnectToFork \/ ConnectTip
        <4>1. pc' \in {"idle", "round", "find", "connect"}
          <5>1. ASSUME NEW mw, StepDone(mw) \/ \E d : EndRound(mw, d)
                PROVE  pc' \in {"idle", "round", "find"}
            BY Zenon, <5>1, EndFacts
          <5> QED
            BY <3>2, <5>1 DEF NothingToDo, DisconnectToFork, ConnectTip
        <4> QED
          BY <4>1 DEF Invalidating
      <3> QED
        BY Zenon, <1>9, <3>1, <3>2
    <2> QED
      BY Zenon, <1>7, <2>1, <2>2, <2>3
  <1>10. CASE FindMostWorkChain
    BY Zenon, <1>10, FindFlags
  <1>11. CASE ConnectInvalid
    <2>1. PICK r \in linked :
             /\ failedValid' = (failedValid \cup {r}) \ Descendants(r)
             /\ failedChild' = failedChild \cup Descendants(r)
             /\ failedBlocks' = failedBlocks \cup {r}
      BY Zenon, <1>11, RefuseFacts
    <2>2. pc = "connect" /\ pc' \in {"idle", "round", "find"} /\ UNCHANGED <<index, linked>>
      BY Zenon, <1>11, EndFacts DEF ConnectInvalid, tree
    <2>3. ~Invalidating /\ ~Invalidating'
      BY <2>2 DEF Invalidating
    <2>4. r \in index /\ {r} \in SUBSET {r} /\ r \in Failed \cup {r}
      BY Zenon DEF IInv, SetsOK
    <2>5. \A x : ToBeMarked(x) => r \in Branch[x]
      BY Zenon, <2>3 DEF ToBeMarked
    <2> QED
      BY Zenon, <2>1, <2>2, <2>3, <2>4, <2>5, FloodFlags
  <1>12. CASE InvalidateTip
    BY Zenon, <1>12, TipFlags
  <1>13. CASE InvalidateLoopEnds
    <2>1. /\ UNCHANGED <<index, failedValid, failedChild, failedBlocks, linked, tip,
                         wasInChain, toMark>>
          /\ pc = "disconnect" /\ pc' = "mark"
      BY Zenon, <1>13 DEF InvalidateLoopEnds, tree, flags, inval
    <2>2. Invalidating /\ Invalidating'
      BY <2>1 DEF Invalidating
    <2>3. Steady /\ linked \subseteq linked'
      BY Zenon, <2>1, <2>2 DEF Steady
    <2> QED
      BY Zenon, <2>1, <2>3, FlagSame
  <1>14. CASE InvalidateMark
    <2>1. PICK r \in index : \E fresh \in SUBSET {r} :
                /\ r = toMark /\ r \in Failed \cup fresh
                /\ failedValid' = (failedValid \cup fresh) \ Descendants(r)
                /\ failedChild' = failedChild \cup Descendants(r)
                /\ failedBlocks' = failedBlocks \cup fresh
      BY Zenon, <1>14, MarkFacts
    <2>2. PICK fresh \in SUBSET {r} :
                /\ r = toMark /\ r \in Failed \cup fresh
                /\ failedValid' = (failedValid \cup fresh) \ Descendants(r)
                /\ failedChild' = failedChild \cup Descendants(r)
                /\ failedBlocks' = failedBlocks \cup fresh
      BY Zenon, <2>1
    <2>3. pc' = "idle" /\ UNCHANGED <<index, linked>>
      BY Zenon, <1>14, MarkFacts DEF tree
    <2>4. ~Invalidating'
      BY <2>3 DEF Invalidating
    <2>5. \A x : ToBeMarked(x) => r \in Branch[x]
      BY Zenon, <2>2 DEF ToBeMarked
    <2> QED
      BY Zenon, <2>2, <2>3, <2>4, <2>5, FloodFlags
  <1> QED
    BY Zenon, <1>1, <1>2, <1>3, <1>5, <1>6, <1>8, <1>9, <1>10, <1>11, <1>12, <1>13, <1>14
       DEF Next, Activation, Invalidation

-----------------------------------------------------------------------------
(* The candidates and the round                                            *)

\* The types the order of the candidates needs.
LEMMA KindFacts ==
    ASSUME IInv
    PROVE  /\ linked \subseteq index /\ linked \subseteq Blocks /\ tip \in linked
           /\ candidates \subseteq linked /\ nSequenceId \in [Blocks -> Int]
           /\ None \notin Blocks /\ (mostWork # None => mostWork \in linked)
  <1>1. None \notin Blocks
    BY TreeAssumption
  <1> QED
    BY Zenon, <1>1 DEF IInv, SetsOK, TreeInv, KeysOK, ValidInv

\* Usable blocks are not marked, and a linked block that is not marked is
\* usable unless InvalidateBlock has still to mark it.
LEMMA UsableFacts ==
    ASSUME IInv, WaitInv, FlagInv
    PROVE  /\ \A x : Usable(x) => x \notin Failed
           /\ ~Invalidating => \A x \in linked \ Failed : Usable(x)
           /\ Usable(tip) /\ (mostWork # None => Usable(mostWork))
  <1>1. \A x : Usable(x) => x \notin Failed
    BY Zenon DEF Usable, FlagInv
  <1>2. ASSUME ~Invalidating, NEW x \in linked \ Failed PROVE Usable(x)
    <2> SUFFICES ASSUME NEW a \in Branch[x] \cap failedValid PROVE FALSE
      BY Zenon DEF Usable
    <2>1. a \in linked /\ x \in index
      BY Zenon, KindFacts DEF IInv, TreeInv
    <2>2. a \notin BadContext
      BY Zenon, <2>1 DEF WaitInv, IInv, SetsOK
    <2>3. Flooded(a) /\ a # x
      BY Zenon, <2>2 DEF FlagInv, Failed
    <2>4. x \in Descendants(a)
      BY Zenon, <2>1, <2>3 DEF Descendants
    <2> QED
      BY Zenon, <1>2, <2>3, <2>4 DEF Flooded, ToBeMarked
  <1>3. Usable(tip) /\ (mostWork # None => Usable(mostWork))
    BY Zenon DEF IInv, ValidInv, TreeInv, Usable, Failed
  <1> QED
    BY Zenon, <1>1, <1>2, <1>3

\* While FindMostWorkChain looks, the tip the round began with is a candidate.
LEMMA StartFacts ==
    ASSUME IInv, CandInv, RoundInv, pc \in Locked
    PROVE  /\ startingTip \in linked /\ Usable(startingTip)
           /\ pc = "find" => /\ startingTip \in candidates
                             /\ ~Worse(startingTip, tip, nSequenceId)
  <1>1. startingTip \in linked /\ Usable(startingTip)
    BY Zenon DEF RoundInv, Usable
  <1>2. ASSUME pc = "find"
        PROVE  startingTip \in candidates /\ ~Worse(startingTip, tip, nSequenceId)
    <2>1. startingTip \in Blocks /\ tip \in Blocks /\ nSequenceId \in [Blocks -> Int]
      BY Zenon, <1>1, KindFacts
    <2>2. ~Worse(startingTip, startingTip, nSequenceId)
      BY Zenon, <2>1, OrderFacts
    <2>3. Worse(tip, startingTip, nSequenceId) \/ tip = startingTip
      BY Zenon, <1>2 DEF RoundInv
    <2>4. ~Worse(startingTip, tip, nSequenceId)
      BY Zenon, <2>1, <2>2, <2>3, OrderFacts
    <2>5. ~Invalidating
      BY <1>2 DEF Invalidating
    <2> QED
      BY Zenon, <1>1, <2>2, <2>4, <2>5 DEF CandInv, Qualifies
  <1> QED
    BY Zenon, <1>1, <1>2

\* Steps that change neither the candidates nor what is usable.
LEMMA SelectionSame ==
    ASSUME CandInv, RoundInv, BestInv,
           UNCHANGED <<linked, nSequenceId, candidates, tip, pc, abc>>,
           scripts \subseteq scripts', wanted' = wanted \/ wanted' = TRUE,
           \A x \in linked : Usable(x)' <=> Usable(x)
    PROVE  CandInv' /\ RoundInv' /\ BestInv'
  <1>1. UNCHANGED <<mostWork, startingTip, oldTip, connected>>
    BY Zenon DEF abc
  <1>2. \A x \in linked : Qualifies(x)' => Qualifies(x)
    BY Zenon, <1>1 DEF Qualifies
  <1>3. (Invalidating' <=> Invalidating)
    BY Zenon DEF Invalidating
  <1>4. CandInv'
    BY Zenon, <1>1, <1>2, <1>3 DEF CandInv
  <1>5. PICK s : s = startingTip
    BY Zenon
  <1>6. pc \in Locked => Usable(s)'
    BY Zenon, <1>5 DEF RoundInv, Usable
  <1>7. RoundInv'
    BY Zenon, <1>1, <1>5, <1>6 DEF RoundInv, Usable
  <1>8. BestInv'
    BY Zenon, <1>1 DEF BestInv
  <1> QED
    BY Zenon, <1>4, <1>7, <1>8

\* Headers and blocks that arrive.
LEMMA ArrivalSelection ==
    ASSUME IInv, WaitInv, CandInv, RoundInv, BestInv, NEW b \in Blocks,
           AcceptBlockHeader(b) \/ AcceptBadBlock(b) \/ AcceptBlock(b)
    PROVE  CandInv' /\ RoundInv' /\ BestInv'
  <1>1. /\ UNCHANGED <<linked, nSequenceId, candidates, tip, pc, abc, scripts>>
        /\ wanted' = wanted \/ wanted' = TRUE
        /\ failedValid' = failedValid \/ (failedValid' = failedValid \cup {b} /\ b \in BadContext)
    BY Zenon DEF AcceptBlockHeader, AcceptBadBlock, AcceptBlock, keys, flags
  <1>2. \A x \in linked : Usable(x)' <=> Usable(x)
    <2>1. \A x \in linked : \A a \in Branch[x] : a \notin BadContext
      BY Zenon DEF IInv, TreeInv, SetsOK, WaitInv
    <2> QED
      BY <1>1, <2>1 DEF Usable
  <1>3. scripts \subseteq scripts'
    BY Zenon, <1>1
  <1> QED
    BY Zenon, <1>1, <1>2, <1>3, SelectionSame

\* ReceivedBlockTransactions links a block.
LEMMA LinkSelection ==
    ASSUME IInv, QueueInv, CandInv, RoundInv, BestInv, LinkBlock
    PROVE  CandInv' /\ RoundInv' /\ BestInv'
  <1>1. PICK b : b = Head(queue)
    BY Zenon
  <1>2. /\ b \in Blocks /\ b \notin linked /\ queue # <<>>
        /\ nBlockSequenceId \in Int
    <2>1. queue # <<>> /\ queue \in Seq(Blocks)
      BY Zenon DEF LinkBlock, IInv, QueuesOK
    <2>2. b = queue[1] /\ 1 \in 1..Len(queue) /\ b \in Blocks
      BY <1>1, <2>1
    <2>3. nBlockSequenceId \in Int
      BY DEF IInv, KeysOK
    <2> QED
      BY Zenon, <2>1, <2>2, <2>3 DEF QueueInv
  <1>3. /\ linked' = linked \cup {b}
        /\ nSequenceId' = [nSequenceId EXCEPT ![b] = nBlockSequenceId]
        /\ candidates' = IF Worse(b, tip, nSequenceId') THEN candidates
                         ELSE candidates \cup {b}
        /\ UNCHANGED <<failedValid, scripts, tip, pc, wanted, mostWork, startingTip, oldTip,
                       connected>>
    BY Zenon, <1>1 DEF LinkBlock, flags, abc
  <1>4. /\ pc \notin Locked /\ (wanted \/ (pc = "round" /\ mostWork = None))
    BY Zenon, <1>2 DEF QueueInv
  <1>5. \A x \in linked : Worse(x, tip, nSequenceId') <=> Worse(x, tip, nSequenceId)
    <2>1. \A x \in linked : nSequenceId'[x] = nSequenceId[x]
      BY <1>2, <1>3, KindFacts
    <2> QED
      BY Zenon, <2>1, KindFacts DEF Worse
  <1>6. Invalidating' <=> Invalidating
    BY Zenon, <1>3 DEF Invalidating
  <1>7. \A x \in linked : Qualifies(x)' => Qualifies(x)
    BY Zenon, <1>3, <1>4, <1>5 DEF Qualifies, Usable
  <1>8. CandInv'
    <2>1. \A c \in candidates' : ~Worse(c, tip', nSequenceId')
      BY Zenon, <1>3, <1>5, KindFacts DEF CandInv
    <2>2. ~Invalidating' => \A x \in linked' : Qualifies(x)' => x \in candidates'
      BY Zenon, <1>3, <1>6, <1>7 DEF CandInv, Qualifies
    <2> QED
      BY Zenon, <1>3, <1>6, <2>1, <2>2 DEF CandInv
  <1>9. RoundInv'
    <2>1. pc' \notin {"find", "connect"}
      BY Zenon, <1>3, <1>4 DEF Locked
    <2>2. pc' # "find"
      BY <2>1
    <2> QED
      BY Zenon, <1>3, <2>1, <2>2 DEF RoundInv, Locked
  <1>10. BestInv'
    <2>1. ~wanted' => mostWork' = None /\ pc' # "idle"
      BY <1>3, <1>4
    <2> QED
      BY Zenon, <2>1 DEF BestInv
  <1> QED
    BY Zenon, <1>8, <1>9, <1>10

\* ActivateBestChain takes the mutex, and begins a round.
LEMMA BeginSelection ==
    ASSUME IInv, WaitInv, ScriptsInv, FlagInv, CandInv, RoundInv, BestInv,
           ActivateBestChain \/ StartRound
    PROVE  CandInv' /\ RoundInv' /\ BestInv'
  <1>1. /\ UNCHANGED <<linked, failedValid, scripts, nSequenceId, candidates, tip>>
        /\ ~Invalidating /\ ~Invalidating' /\ pc \notin Locked
    <2>1. UNCHANGED <<linked, failedValid, scripts, nSequenceId, candidates, tip>>
      BY Zenon DEF ActivateBestChain, StartRound, tree, flags, keys
    <2>2. pc \in {"idle", "round"} /\ pc' \in {"round", "find"}
      BY Zenon DEF ActivateBestChain, StartRound
    <2> QED
      BY <2>1, <2>2 DEF Invalidating, Locked
  <1>2. \A x : Usable(x)' <=> Usable(x)
    BY Zenon, <1>1 DEF Usable
  <1>3. \A x : Qualifies(x)' => Qualifies(x)
    BY Zenon, <1>1, <1>2 DEF Qualifies
  <1>4. CASE ActivateBestChain
    <2>1. pc' = "round" /\ mostWork' = None
      BY Zenon, <1>4 DEF ActivateBestChain
    <2>2. pc' \notin Locked /\ pc' # "find" /\ pc' # "idle"
      BY <2>1 DEF Locked
    <2> QED
      BY Zenon, <1>1, <1>3, <2>1, <2>2 DEF CandInv, RoundInv, BestInv
  <1>5. CASE StartRound
    <2>1. /\ pc' = "find" /\ startingTip' = tip /\ ~connected'
          /\ UNCHANGED <<mostWork, wanted>>
      BY Zenon, <1>5 DEF StartRound
    <2>2. pc' # "round" /\ pc' # "idle"
      BY <2>1
    <2>3. CandInv'
      BY Zenon, <1>1, <1>3, <2>1 DEF CandInv
    <2>4. PICK t : t = tip
      BY Zenon
    <2>5. t # None /\ Usable(t)' /\ Branch[t] \subseteq scripts'
      BY Zenon, <1>1, <1>2, <2>4, UsableFacts, KindFacts DEF ScriptsInv
    <2>6. mostWork # None => ~Worse(mostWork, tip, nSequenceId)
      BY Zenon DEF CandInv
    <2>7. RoundInv'
      BY Zenon, <1>1, <2>1, <2>2, <2>4, <2>5, <2>6 DEF RoundInv, Usable
    <2>8. BestInv'
      BY Zenon, <1>1, <1>2, <2>1, <2>2 DEF BestInv
    <2> QED
      BY Zenon, <2>3, <2>7, <2>8
  <1> QED
    BY Zenon, <1>4, <1>5

\* FindMostWorkChain chooses the best usable block, and drops no usable one.
LEMMA FindSelection ==
    ASSUME IInv, WaitInv, FlagInv, CandInv, RoundInv, BestInv, FindMostWorkChain
    PROVE  CandInv' /\ RoundInv' /\ BestInv'
  <1>1. /\ UNCHANGED <<linked, failedValid, scripts, nSequenceId, tip, pc, wanted,
                       startingTip, oldTip, connected>>
        /\ pc = "find" /\ mostWork = None
    BY Zenon DEF FindMostWorkChain, tree, keys
  <1>2. pc \in Locked /\ ~Invalidating /\ ~Invalidating' /\ pc # "idle" /\ pc # "round"
    <2>1. pc' = "find"
      BY Zenon, <1>1
    <2> QED
      BY <1>1, <2>1 DEF Locked, Invalidating
  <1>3. \A x : Usable(x)' <=> Usable(x)
    BY Zenon, <1>1 DEF Usable
  <1>4. \A x : Qualifies(x)' => Qualifies(x)
    BY Zenon, <1>1, <1>3 DEF Qualifies
  <1>5. /\ startingTip \in linked /\ startingTip \in candidates /\ startingTip # None
        /\ Usable(startingTip) /\ Branch[startingTip] \subseteq scripts
    BY Zenon, <1>1, <1>2, StartFacts DEF RoundInv
  <1>6. PICK s : s = startingTip
    BY Zenon
  <1>7. ASSUME NEW best \in candidates, \A d \in candidates : ~Worse(best, d, nSequenceId),
               mostWork' = best, UNCHANGED candidates
        PROVE  CandInv' /\ RoundInv' /\ BestInv'
    <2>1. CandInv'
      BY Zenon, <1>1, <1>2, <1>4, <1>7 DEF CandInv
    <2>2. ~Worse(best, startingTip, nSequenceId) /\ ~Worse(best, tip, nSequenceId)
      BY Zenon, <1>5, <1>7 DEF CandInv
    <2>3. RoundInv'
      BY Zenon, <1>1, <1>2, <1>3, <1>5, <1>6, <1>7, <2>2 DEF RoundInv, Usable
    <2>4. ASSUME NEW c \in linked, Usable(c) PROVE ~Worse(best, c, nSequenceId)
      <3>1. /\ c \in Blocks /\ best \in Blocks /\ tip \in Blocks /\ startingTip \in Blocks
            /\ nSequenceId \in [Blocks -> Int]
        BY Zenon, <1>5, KindFacts
      <3>2. CASE Qualifies(c)
        BY Zenon, <1>2, <1>7, <3>2 DEF CandInv
      <3>3. CASE ~Qualifies(c)
        <4>1. Worse(c, tip, nSequenceId) \/ Worse(c, startingTip, nSequenceId)
          BY Zenon, <2>4, <3>3 DEF Qualifies
        <4> QED
          BY Zenon, <2>2, <3>1, <4>1, OrderFacts
      <3> QED
        BY Zenon, <3>2, <3>3
    <2>5. BestInv'
      BY Zenon, <1>1, <1>2, <1>3, <1>7, <2>4 DEF BestInv
    <2> QED
      BY Zenon, <2>1, <2>3, <2>5
  <1>8. ASSUME NEW test \in Failed \cap linked, NEW above \in SUBSET linked,
               \A x \in above : test \in Branch[x],
               candidates' = candidates \ (above \cup {test}), UNCHANGED mostWork
        PROVE  CandInv' /\ RoundInv' /\ BestInv'
    <2>1. ASSUME NEW x \in above \cup {test} PROVE ~Usable(x)
      <3>1. x \in Blocks /\ test \in Branch[x]
        <4>1. x \in Blocks /\ test \in Blocks
          BY Zenon, KindFacts
        <4>2. test \in Branch[test]
          BY Zenon, <4>1, BranchFacts
        <4> QED
          BY Zenon, <1>8, <4>1, <4>2
      <3>2. PICK a \in failedValid : a \in Branch[test]
        BY Zenon DEF FlagInv
      <3> QED
        BY Zenon, <3>1, <3>2, BranchFacts DEF Usable
    <2>2. CandInv'
      BY Zenon, <1>1, <1>2, <1>4, <1>8, <2>1 DEF CandInv, Qualifies
    <2>3. RoundInv'
      BY Zenon, <1>1, <1>2, <1>3, <1>5, <1>6, <1>8 DEF RoundInv, Usable
    <2>4. BestInv'
      BY Zenon, <1>1, <1>2, <1>8 DEF BestInv
    <2> QED
      BY Zenon, <2>2, <2>3, <2>4
  <1> QED
    BY Zenon, <1>7, <1>8, FindFacts

\* The tip is already the best block.
LEMMA NothingSelection ==
    ASSUME IInv, CandInv, RoundInv, BestInv, NothingToDo
    PROVE  /\ CandInv' /\ RoundInv' /\ BestInv'
           /\ pc' = "idle" /\ tip' = startingTip /\ startingTip \in Blocks
  <1>1. /\ UNCHANGED <<linked, failedValid, scripts, nSequenceId, candidates, tip, wanted>>
        /\ pc = "find"
    BY Zenon DEF NothingToDo, tree, flags, keys
  <1>2. pc \in Locked /\ ~Invalidating
    BY <1>1 DEF Locked, Invalidating
  <1>3. startingTip \in candidates /\ startingTip \in Blocks
    BY Zenon, <1>1, <1>2, StartFacts, KindFacts
  <1>4. mostWork = tip /\ mostWork # None
    BY Zenon, <1>3, KindFacts DEF NothingToDo
  <1>5. ~connected /\ tip = startingTip
    BY Zenon, <1>1, <1>2, <1>4 DEF RoundInv
  <1>6. pc' = "idle" /\ mostWork' = None
    BY Zenon, <1>5 DEF NothingToDo, EndRound
  <1>7. pc' \notin Locked /\ ~Invalidating' /\ pc' # "find" /\ pc' # "round"
    BY <1>6 DEF Locked, Invalidating
  <1>8. \A x : Usable(x)' <=> Usable(x)
    BY Zenon, <1>1 DEF Usable
  <1>9. \A x : Qualifies(x)' => Qualifies(x)
    BY Zenon, <1>1, <1>5, <1>8 DEF Qualifies
  <1>10. CandInv'
    BY Zenon, <1>1, <1>2, <1>6, <1>7, <1>9 DEF CandInv
  <1>11. RoundInv' /\ BestInv'
    BY Zenon, <1>1, <1>4, <1>6, <1>7, <1>8 DEF RoundInv, BestInv
  <1> QED
    BY Zenon, <1>1, <1>3, <1>5, <1>6, <1>10, <1>11

\* ActivateBestChainStep goes down to the fork, always below its target.
LEMMA DisconnectSelection ==
    ASSUME IInv, CandInv, RoundInv, BestInv, DisconnectToFork
    PROVE  CandInv' /\ RoundInv' /\ BestInv' /\ pc' = "connect"
  <1>1. /\ UNCHANGED <<linked, failedValid, scripts, nSequenceId, candidates, wanted>>
        /\ pc = "find" /\ mostWork # None /\ mostWork # tip /\ tip' \in Branch[tip]
    BY Zenon DEF DisconnectToFork, tree, flags, keys
  <1>2. pc \in Locked /\ ~Invalidating
    BY <1>1 DEF Locked, Invalidating
  <1>3. /\ startingTip \in linked /\ Usable(startingTip) /\ startingTip # None
        /\ Branch[startingTip] \subseteq scripts
        /\ ~Worse(startingTip, tip, nSequenceId)
        /\ ~Worse(mostWork, startingTip, nSequenceId)
    BY Zenon, <1>1, <1>2, StartFacts DEF RoundInv
  <1>4. /\ tip \in Blocks /\ linked \subseteq Blocks /\ candidates \subseteq Blocks
        /\ startingTip \in Blocks /\ nSequenceId \in [Blocks -> Int]
    BY Zenon, <1>3, KindFacts
  <1>5. tip' # mostWork
    <2>1. ~Worse(mostWork, tip, nSequenceId)
      BY Zenon, <1>1 DEF CandInv
    <2>2. PICK f : f = tip'
      BY Zenon
    <2>3. f \in Branch[tip] /\ mostWork # tip
      BY Zenon, <1>1, <2>2
    <2>4. f # tip => Worse(f, tip, nSequenceId)
      BY Zenon, <1>4, <2>3, BelowIsWorse
    <2> QED
      BY Zenon, <2>1, <2>2, <2>3, <2>4
  <1>6. pc' = "connect" /\ UNCHANGED <<mostWork, startingTip, connected>>
    BY Zenon, <1>5 DEF DisconnectToFork
  <1>7. pc' \in Locked /\ ~Invalidating' /\ pc' # "find" /\ pc' # "round" /\ pc' # "idle"
    BY <1>6 DEF Locked, Invalidating
  <1>8. \A x : Usable(x)' <=> Usable(x)
    BY Zenon, <1>1 DEF Usable
  <1>9. \A c \in candidates : ~Worse(c, tip', nSequenceId)
    BY Zenon, <1>1, <1>4, BelowIsWorse DEF CandInv
  <1>10. \A x \in linked : Qualifies(x)' => Qualifies(x)
    BY Zenon, <1>1, <1>3, <1>4, <1>6, <1>7, <1>8, OrderFacts DEF Qualifies
  <1>11. CandInv'
    BY Zenon, <1>1, <1>2, <1>6, <1>7, <1>9, <1>10 DEF CandInv
  <1>12. PICK s : s = startingTip
    BY Zenon
  <1>13. RoundInv'
    BY Zenon, <1>1, <1>3, <1>6, <1>7, <1>8, <1>12 DEF RoundInv, Usable
  <1>14. BestInv'
    BY Zenon, <1>1, <1>6, <1>7, <1>8 DEF BestInv
  <1> QED
    BY Zenon, <1>6, <1>11, <1>13, <1>14

\* How a step of ActivateBestChain ends: the loop goes on with a worse tip, or
\* the round is over.
LEMMA StepFacts ==
    ASSUME NEW mw, StepDone(mw)
    PROVE  \/ /\ Worse(tip', startingTip, nSequenceId)
              /\ pc' = "find" /\ mostWork' = mw /\ connected' /\ UNCHANGED startingTip
           \/ /\ ~Worse(tip', startingTip, nSequenceId) /\ tip' # mw
              /\ pc' = "round" /\ mostWork' = mw
           \/ /\ ~Worse(tip', startingTip, nSequenceId) /\ tip' = mw
              /\ pc' = "idle" /\ mostWork' = None
  <1>1. CASE Worse(tip', startingTip, nSequenceId)
    BY Zenon, <1>1 DEF StepDone
  <1>2. CASE ~Worse(tip', startingTip, nSequenceId)
    <2>1. EndRound(mw, TRUE)
      BY Zenon, <1>2 DEF StepDone
    <2> QED
      BY Zenon, <1>2, <2>1 DEF EndRound
  <1> QED
    BY Zenon, <1>1, <1>2

\* ConnectTip moves the tip up and prunes the candidates.
LEMMA ConnectSelection ==
    ASSUME IInv, CandInv, RoundInv, BestInv, ConnectTip
    PROVE  /\ CandInv' /\ RoundInv' /\ BestInv'
           /\ pc' \in Locked \/ ~Worse(tip', startingTip, nSequenceId)
  <1>1. /\ UNCHANGED <<linked, failedValid, nSequenceId, wanted>>
        /\ pc = "connect" /\ scripts \subseteq scripts' /\ tip' = NextBlock
        /\ candidates' = PruneBlockIndexCandidates(candidates, NextBlock, nSequenceId)
        /\ StepDone(mostWork) \/ UNCHANGED <<pc, abc>>
    BY Zenon DEF ConnectTip, flags, keys
  <1>2. PICK n : n = NextBlock
    BY Zenon
  <1>3. candidates' = {c \in candidates : ~Worse(c, n, nSequenceId)} /\ tip' = n
    BY Zenon, <1>1, <1>2 DEF PruneBlockIndexCandidates
  <1>4. /\ n \in Branch[mostWork] /\ n \in Blocks /\ tip \in Branch[n]
        /\ mostWork \in Blocks /\ mostWork # None
    <2>1. /\ n \in Branch[mostWork] /\ n \in Blocks /\ Parent[n] = tip
          /\ mostWork \in Blocks /\ n \notin Branch[tip]
      BY Zenon, <1>1, <1>2, ConnectFacts
    <2>2. n # Genesis
      BY Zenon, <1>1, <1>2, <2>1, NextBlockFacts DEF IInv, PhaseInv
    <2> QED
      BY Zenon, <2>1, <2>2, BranchFacts, KindFacts
  <1>5. pc \in Locked /\ ~Invalidating
    BY <1>1 DEF Locked, Invalidating
  <1>6. /\ startingTip \in linked /\ Usable(startingTip) /\ startingTip # None
        /\ Branch[startingTip] \subseteq scripts
        /\ ~Worse(mostWork, startingTip, nSequenceId)
    BY Zenon, <1>4, <1>5, StartFacts DEF RoundInv
  <1>7. /\ linked \subseteq Blocks /\ candidates \subseteq linked
        /\ startingTip \in Blocks /\ nSequenceId \in [Blocks -> Int]
    BY Zenon, <1>6, KindFacts
  <1>8. mostWork \in candidates'
    <2>1. ~Worse(mostWork, n, nSequenceId)
      BY Zenon, <1>4, <1>7, BelowIsWorse
    <2> QED
      BY Zenon, <1>3, <1>4, <2>1 DEF CandInv
  <1>9. \A x : Usable(x)' <=> Usable(x)
    BY Zenon, <1>1 DEF Usable
  <1>10. ASSUME NEW x \in linked, Usable(x), ~Worse(x, n, nSequenceId),
                ~Worse(x, startingTip, nSequenceId)
         PROVE  x \in candidates'
    <2>1. ~Worse(x, tip, nSequenceId)
      BY Zenon, <1>4, <1>7, <1>10, BelowIsWorse
    <2>2. Qualifies(x)
      BY Zenon, <1>10, <2>1 DEF Qualifies
    <2> QED
      BY Zenon, <1>3, <1>5, <1>10, <2>2 DEF CandInv
  <1>11. PICK s : s = startingTip
    BY Zenon
  <1>12. CASE pc' \in Locked
    <2>1. /\ UNCHANGED <<startingTip, mostWork>> /\ pc' \in Locked
          /\ pc' = "find" => connected' /\ Worse(n, startingTip, nSequenceId)
      <3>1. CASE UNCHANGED <<pc, abc>>
        BY <1>1, <1>12, <3>1 DEF abc
      <3>2. CASE StepDone(mostWork)
        BY <1>3, <1>12, <3>2, StepFacts DEF Locked
      <3> QED
        BY Zenon, <1>1, <3>1, <3>2
    <2>2. ~Invalidating' /\ pc' # "round" /\ pc' # "idle"
      BY <1>12 DEF Locked, Invalidating
    <2>3. \A x \in linked : Qualifies(x)' => x \in candidates'
      BY Zenon, <1>1, <1>3, <1>9, <1>10, <2>1 DEF Qualifies
    <2>4. CandInv'
      BY Zenon, <1>1, <1>3, <1>8, <2>1, <2>2, <2>3 DEF CandInv
    <2>5. RoundInv'
      BY Zenon, <1>1, <1>3, <1>6, <1>9, <1>11, <2>1, <2>2 DEF RoundInv, Usable
    <2>6. BestInv'
      BY Zenon, <1>1, <1>9, <2>1, <2>2 DEF BestInv
    <2> QED
      BY Zenon, <1>12, <2>4, <2>5, <2>6
  <1>13. CASE pc' \notin Locked
    <2>1. StepDone(mostWork)
      BY Zenon, <1>1, <1>5, <1>13
    <2>2. /\ ~Worse(n, startingTip, nSequenceId)
          /\ \/ n # mostWork /\ pc' = "round" /\ mostWork' = mostWork
             \/ n = mostWork /\ pc' = "idle" /\ mostWork' = None
      BY <1>3, <1>13, <2>1, StepFacts DEF Locked
    <2>3. ~Invalidating' /\ pc' # "find"
      BY <2>2 DEF Invalidating
    <2>4. \A x \in linked : Qualifies(x)' => x \in candidates'
      <3>1. \A x \in linked : ~Worse(x, n, nSequenceId) => ~Worse(x, startingTip, nSequenceId)
        BY Zenon, <1>4, <1>7, <2>2, OrderFacts
      <3> QED
        BY Zenon, <1>1, <1>3, <1>9, <1>10, <3>1 DEF Qualifies
    <2>5. CandInv'
      BY Zenon, <1>1, <1>3, <1>8, <2>2, <2>3, <2>4 DEF CandInv
    <2>6. RoundInv'
      <3>1. pc' = "round" /\ mostWork' # None => n # mostWork /\ mostWork' = mostWork
        BY <2>2
      <3> QED
        BY Zenon, <1>3, <1>4, <1>13, <2>3, <3>1 DEF RoundInv
    <2>7. BestInv'
      <3>1. mostWork' # None => mostWork' = mostWork
        BY Zenon, <2>2
      <3>2. pc' = "idle" => n = mostWork
        BY <2>2
      <3> QED
        BY Zenon, <1>1, <1>3, <1>4, <1>9, <3>1, <3>2 DEF BestInv
    <2> QED
      BY Zenon, <1>3, <2>2, <2>5, <2>6, <2>7
  <1> QED
    BY Zenon, <1>12, <1>13

\* ConnectTip refuses a block: what was on the way to it is given up.
LEMMA RefuseSelection ==
    ASSUME IInv, ScriptsInv, FlagInv, CandInv, RoundInv, BestInv, ConnectInvalid
    PROVE  /\ CandInv' /\ RoundInv' /\ BestInv'
           /\ pc' \in Locked \/ ~Worse(tip', startingTip, nSequenceId)
  <1>1. /\ UNCHANGED <<index, linked, scripts, nSequenceId, tip, wanted>>
        /\ pc = "connect" /\ StepDone(None)
    BY Zenon DEF ConnectInvalid, tree, keys
  <1>2. pc \in Locked /\ ~Invalidating
    BY <1>1 DEF Locked, Invalidating
  <1>3. PICK r \in linked :
             /\ r \in BadScripts
             /\ failedValid' = (failedValid \cup {r}) \ Descendants(r)
             /\ failedChild' = failedChild \cup Descendants(r)
             /\ failedBlocks' = failedBlocks \cup {r}
             /\ candidates' = candidates \ {r}
    BY Zenon, RefuseFacts
  <1>4. tip \in Blocks /\ tip # None
    BY Zenon, KindFacts
  <1>5. /\ mostWork' = None /\ tip' = tip
        /\ \/ /\ Worse(tip, startingTip, nSequenceId)
              /\ pc' = "find" /\ connected' /\ UNCHANGED startingTip
           \/ ~Worse(tip, startingTip, nSequenceId) /\ pc' = "round"
    BY <1>1, <1>4, StepFacts
  <1>6. ~Invalidating' /\ pc' # "idle"
    BY <1>5 DEF Invalidating
  <1>7. /\ startingTip \in linked /\ Usable(startingTip) /\ startingTip # None
        /\ Branch[startingTip] \subseteq scripts
    BY Zenon, <1>2, StartFacts DEF RoundInv
  <1>8. \A x \in linked : Usable(x)' => Usable(x) /\ x # r
    <2>1. \A x \in index : Branch[x] \cap failedValid # {} => Branch[x] \cap failedValid' # {}
      <3>1. r \in index /\ {r} \in SUBSET {r} /\ r \in Failed \cup {r}
        BY Zenon, KindFacts
      <3>2. \A x : ToBeMarked(x) => r \in Branch[x]
        BY Zenon, <1>2 DEF ToBeMarked
      <3> QED
        BY Zenon, <1>1, <1>3, <1>6, <3>1, <3>2, FloodFlags
    <2>2. r \in failedValid' /\ r \in Branch[r]
      BY Zenon, <1>3, KindFacts, BranchFacts DEF Descendants
    <2> QED
      BY Zenon, <1>1, <2>1, <2>2, KindFacts DEF Usable
  <1>9. PICK s : s = startingTip
    BY Zenon
  <1>10. Usable(s)'
    <2>1. r \notin Branch[s]
      BY Zenon, <1>3, <1>7, <1>9 DEF ScriptsInv
    <2> QED
      BY Zenon, <1>1, <1>3, <1>7, <1>9, <2>1 DEF Usable
  <1>11. \A x \in linked : Qualifies(x)' => Qualifies(x)
    <2>1. CASE pc' = "find"
      <3>1. pc' \in Locked /\ UNCHANGED startingTip
        BY <1>5, <2>1 DEF Locked
      <3> QED
        BY Zenon, <1>1, <1>8, <3>1 DEF Qualifies
    <2>2. CASE ~Worse(tip, startingTip, nSequenceId)
      <3>1. \A x \in linked : ~Worse(x, tip, nSequenceId) => ~Worse(x, startingTip, nSequenceId)
        BY Zenon, <1>7, <2>2, KindFacts, OrderFacts
      <3> QED
        BY Zenon, <1>1, <1>8, <3>1 DEF Qualifies
    <2> QED
      BY Zenon, <1>5, <2>1, <2>2
  <1>12. CandInv'
    BY Zenon, <1>1, <1>2, <1>3, <1>5, <1>6, <1>8, <1>11 DEF CandInv, Qualifies
  <1>13. RoundInv'
    <2>1. pc' \in Locked => pc' = "find"
      BY <1>5 DEF Locked
    <2>2. pc' = "find" => /\ Worse(tip, startingTip, nSequenceId) /\ connected'
                          /\ UNCHANGED startingTip
      BY <1>5
    <2> QED
      BY Zenon, <1>1, <1>5, <1>7, <1>9, <1>10, <2>1, <2>2 DEF RoundInv, Usable
  <1>14. BestInv'
    BY Zenon, <1>5, <1>6 DEF BestInv
  <1>15. pc' \in Locked \/ ~Worse(tip', startingTip, nSequenceId)
    BY <1>5 DEF Locked
  <1> QED
    BY Zenon, <1>12, <1>13, <1>14, <1>15

\* The calls of the operator leave a round alone.
LEMMA OutsideRound ==
    ASSUME RoundInv, pc' \notin Locked, UNCHANGED <<pc, tip, mostWork>>
    PROVE  RoundInv'
  <1>1. pc' # "find"
    BY DEF Locked
  <1> QED
    BY Zenon, <1>1 DEF RoundInv

\* A smaller number makes a block no worse.
LEMMA SmallerNumber ==
    ASSUME NEW id \in [Blocks -> Int], NEW n \in Int, NEW b \in Blocks, NEW x \in Blocks,
           x # b
    PROVE  LET new == [id EXCEPT ![b] = n]
           IN  /\ \A y \in Blocks : y # b => (Worse(x, y, new) <=> Worse(x, y, id))
               /\ n <= id[b] /\ ~Worse(x, b, new) => ~Worse(x, b, id)
  <1> DEFINE new == [id EXCEPT ![b] = n]
  <1>1. new[b] = n /\ \A y \in Blocks : y # b => new[y] = id[y]
    BY Zenon
  <1>2. id[x] \in Int /\ id[b] \in Int /\ x \in Nat /\ b \in Nat
    BY TreeAssumption
  <1>3. nChainWork[x] \in Nat /\ nChainWork[b] \in Nat
    BY Zenon, ParentFacts
  <1> HIDE DEF new
  <1>4. \A y \in Blocks : y # b => (Worse(x, y, new) <=> Worse(x, y, id))
    BY Zenon, <1>1 DEF Worse
  <1>5. n <= id[b] /\ ~Worse(x, b, new) => ~Worse(x, b, id)
    BY <1>1, <1>2, <1>3 DEF Worse
  <1> QED
    BY Zenon, <1>4, <1>5 DEF new

\* preciousblock renumbers one block and looks at it again.
LEMMA PreciousSelection ==
    ASSUME CarefulOperator, IInv, WaitInv, NumberInv, FlagInv, CandInv, RoundInv,
           NEW b \in Blocks, PreciousBlock(b)
    PROVE  CandInv' /\ RoundInv' /\ BestInv'
  <1>1. /\ UNCHANGED <<linked, failedValid, tip, pc, mostWork>>
        /\ wanted' = TRUE /\ pc \notin Locked
    BY Zenon DEF PreciousBlock, CsMainFree, tree, flags, abc
  <1>2. PICK n \in Int :
          /\ nSequenceId' = [nSequenceId EXCEPT ![b] = n]
          /\ b = tip => n <= nSequenceId[tip]
          /\ candidates' = IF b \in Connectable
                           THEN {c \in candidates \cup {b} : ~Worse(c, tip, nSequenceId')}
                           ELSE candidates \ {b}
    BY Zenon, PreciousFacts
  <1>3. /\ linked \subseteq Blocks /\ tip \in Blocks /\ candidates \subseteq linked
        /\ nSequenceId \in [Blocks -> Int] /\ nSequenceId' \in [Blocks -> Int]
        /\ linked \subseteq index
    <2>1. nSequenceId' \in [Blocks -> Int]
      BY <1>2, KindFacts
    <2> QED
      BY Zenon, <2>1, KindFacts
  <1>4. tip \in Connectable /\ (mostWork # None => mostWork \in Connectable)
    BY Zenon, KindFacts, UsableFacts DEF Connectable
  <1>5. ASSUME NEW x \in linked, x # b, ~Worse(x, tip, nSequenceId')
        PROVE  ~Worse(x, tip, nSequenceId)
    BY Zenon, <1>2, <1>3, <1>5, SmallerNumber
  <1>6. \A c \in candidates' : ~Worse(c, tip', nSequenceId')
    <2>1. CASE b \in Connectable
      BY Zenon, <1>1, <1>2, <2>1
    <2>2. CASE b \notin Connectable
      <3>1. b # tip /\ candidates' = candidates \ {b}
        BY Zenon, <1>2, <1>4, <2>2
      <3> QED
        BY Zenon, <1>1, <1>2, <1>3, <3>1, SmallerNumber DEF CandInv
    <2> QED
      BY Zenon, <2>1, <2>2
  <1>7. ASSUME ~Invalidating', NEW x \in linked', Qualifies(x)' PROVE x \in candidates'
    <2>1. x \in linked /\ Usable(x) /\ ~Worse(x, tip, nSequenceId') /\ ~Invalidating
      BY Zenon, <1>1, <1>7 DEF Qualifies, Usable, Invalidating
    <2>2. x \in Connectable
      BY Zenon, <1>3, <2>1, UsableFacts DEF Connectable
    <2>3. CASE x = b
      BY Zenon, <1>2, <2>1, <2>2, <2>3
    <2>4. CASE x # b
      <3>1. Qualifies(x)
        BY Zenon, <1>1, <1>5, <2>1, <2>4 DEF Qualifies
      <3>2. x \in candidates
        BY Zenon, <2>1, <3>1 DEF CandInv
      <3> QED
        BY Zenon, <1>2, <2>1, <2>4, <3>2
    <2> QED
      BY Zenon, <2>3, <2>4
  <1>8. ASSUME NEW x \in candidates, x \in Connectable, ~Worse(x, tip, nSequenceId')
        PROVE  x \in candidates'
    BY Zenon, <1>2, <1>8
  <1>9. Invalidating' => tip' \in candidates'
    <2>1. ~Worse(tip, tip, nSequenceId')
      BY Zenon, <1>3, OrderFacts
    <2> QED
      BY Zenon, <1>1, <1>4, <1>8, <2>1 DEF CandInv, Invalidating
  <1>10. mostWork' # None => mostWork' \in candidates'
    <2> SUFFICES ASSUME mostWork # None PROVE mostWork \in candidates'
      BY Zenon, <1>1
    <2>1. pc = "round"
      BY <1>1 DEF IInv, LocalsOK, PhaseInv, Statuses, Locked
    <2>2. tip \in Branch[mostWork] /\ mostWork \in Blocks
      BY Zenon, <2>1, KindFacts DEF RoundInv
    <2>3. ~Worse(mostWork, tip, nSequenceId')
      BY Zenon, <1>3, <2>2, BelowIsWorse
    <2> QED
      BY Zenon, <1>4, <1>8, <2>3 DEF CandInv
  <1>11. CandInv'
    BY Zenon, <1>6, <1>7, <1>9, <1>10 DEF CandInv
  <1>12. RoundInv' /\ BestInv'
    BY Zenon, <1>1, OutsideRound DEF BestInv
  <1> QED
    BY Zenon, <1>11, <1>12

\* reconsiderblock makes candidates of all the blocks it makes usable.
LEMMA ReconsiderSelection ==
    ASSUME CarefulOperator, IInv, WaitInv, FlagInv, CandInv, RoundInv,
           NEW b \in Blocks, ReconsiderBlock(b)
    PROVE  CandInv' /\ RoundInv' /\ BestInv'
  <1>1. /\ UNCHANGED <<linked, nSequenceId, tip, pc, mostWork>>
        /\ wanted' = TRUE /\ pc \notin Locked /\ ~Invalidating /\ Parent[b] \notin Failed
        /\ failedValid' = failedValid \ Cleared(b)
        /\ candidates' = candidates \cup
             {d \in index : /\ b \in Branch[d] /\ d \in Failed
                            /\ d \in linked /\ Worse(tip, d, nSequenceId)}
    BY Zenon, ReconsiderFacts DEF CsMainFree, abc
  <1>2. ~Invalidating' /\ b \in index
    BY Zenon, <1>1 DEF Invalidating, ReconsiderBlock
  <1>3. /\ linked \subseteq Blocks /\ linked \subseteq index /\ tip \in Blocks
        /\ nSequenceId \in [Blocks -> Int]
    BY Zenon, KindFacts
  <1>4. \A c \in candidates' : ~Worse(c, tip, nSequenceId)
    <2>1. \A d \in linked : Worse(tip, d, nSequenceId) => ~Worse(d, tip, nSequenceId)
      BY Zenon, <1>3, OrderFacts
    <2> QED
      BY Zenon, <1>1, <2>1 DEF CandInv
  <1>5. ASSUME NEW x \in linked, Usable(x)', ~Worse(x, tip, nSequenceId)
        PROVE  x \in candidates'
    <2>1. CASE Usable(x)
      <3>1. Qualifies(x)
        BY Zenon, <1>1, <1>5, <2>1 DEF Qualifies
      <3> QED
        BY Zenon, <1>1, <3>1 DEF CandInv
    <2>2. CASE ~Usable(x)
      <3>1. PICK a \in failedValid \cap Branch[x] : a \in Cleared(b)
        BY Zenon, <1>1, <1>5, <2>2 DEF Usable
      <3>2. a \in linked /\ a \in Blocks /\ x \in Blocks /\ x \in index /\ a \in Failed
        BY Zenon, <1>3, <3>1 DEF IInv, TreeInv, Failed
      <3>3. a \notin BadContext
        BY Zenon, <3>2 DEF WaitInv, IInv, SetsOK
      <3>4. \A y \in index : a \in Branch[y] => y \in Failed
        <4>1. Flooded(a)
          BY Zenon, <3>1, <3>3 DEF FlagInv
        <4> QED
          BY Zenon, <1>1, <3>2, <4>1 DEF Flooded, ToBeMarked, Descendants
      <3>5. x \in Failed /\ x # tip
        <4>1. tip \notin Failed
          BY Zenon, UsableFacts
        <4> QED
          BY Zenon, <3>1, <3>2, <3>4, <4>1
      <3>6. b \in Branch[x]
        <4>1. CASE b \in Branch[a]
          BY Zenon, <3>1, <3>2, <4>1, BranchFacts
        <4>2. CASE a \in Branch[b] /\ a # b
          <5>1. b # Genesis
            BY <4>2, TreeAssumption
          <5>2. a \in Branch[Parent[b]] /\ Parent[b] \in Branch[b]
            BY Zenon, <4>2, <5>1, BranchFacts
          <5>3. Parent[b] \in index
            BY Zenon, <1>2, <5>2 DEF IInv, TreeInv
          <5> QED
            BY Zenon, <1>1, <3>4, <5>2, <5>3
        <4>3. b \in Branch[b]
          BY Zenon, BranchFacts
        <4> QED
          BY Zenon, <3>1, <4>1, <4>2, <4>3 DEF Cleared
      <3>7. Worse(tip, x, nSequenceId)
        BY Zenon, <1>3, <1>5, <3>5, OrderFacts
      <3> QED
        BY Zenon, <1>1, <3>2, <3>5, <3>6, <3>7
    <2> QED
      BY Zenon, <2>1, <2>2
  <1>6. CandInv'
    BY Zenon, <1>1, <1>2, <1>4, <1>5 DEF CandInv, Qualifies
  <1>7. RoundInv' /\ BestInv'
    BY Zenon, <1>1, OutsideRound DEF BestInv
  <1> QED
    BY Zenon, <1>6, <1>7

\* InvalidateBlock keeps the tip a candidate on its way down, and looks at all
\* the blocks again in the end.
LEMMA InvalidateSelection ==
    ASSUME IInv, WaitInv, FlagInv, CandInv,
           (\E b \in Blocks : InvalidateBlock(b)) \/ Invalidation
    PROVE  CandInv' /\ RoundInv' /\ BestInv'
  <1>1. mostWork = None /\ mostWork' = None /\ pc \notin Locked /\ UNCHANGED nSequenceId
    <2>1. pc \in {"idle", "disconnect", "mark"} /\ UNCHANGED <<nSequenceId, mostWork>>
      BY Zenon DEF InvalidateBlock, Invalidation, InvalidateTip, InvalidateLoopEnds,
         InvalidateMark, keys, abc
    <2>2. mostWork = None
      BY Zenon, <2>1 DEF IInv, PhaseInv
    <2> QED
      BY <2>1, <2>2 DEF Locked
  <1>2. /\ linked \subseteq Blocks /\ candidates \subseteq linked /\ tip \in linked
        /\ nSequenceId \in [Blocks -> Int]
    BY Zenon, KindFacts
  <1>3. ASSUME NEW b \in Blocks, InvalidateBlock(b)
        PROVE  CandInv' /\ pc' = "disconnect"
    <2>1. pc = "idle" /\ pc' = "disconnect" /\ UNCHANGED <<tip, candidates>>
      BY Zenon, <1>3 DEF InvalidateBlock
    <2>2. ~Invalidating /\ Invalidating'
      BY <2>1 DEF Invalidating
    <2>3. Qualifies(tip)
      BY Zenon, <1>1, <1>2, UsableFacts, OrderFacts DEF Qualifies
    <2> QED
      BY Zenon, <1>1, <1>2, <2>1, <2>2, <2>3 DEF CandInv
  <1>4. ASSUME InvalidateTip PROVE CandInv'
    <2>1. /\ pc = "disconnect" /\ pc' = "disconnect" /\ tip' = Parent[tip]
          /\ target \in Branch[tip] /\ Parent[tip] \in candidates'
          /\ \A c \in candidates' :
               c \in candidates \/ c = Parent[tip] \/ ~Worse(c, Parent[tip], nSequenceId)
      BY Zenon, <1>4 DEF InvalidateTip
    <2>2. Invalidating /\ Invalidating'
      BY <2>1 DEF Invalidating
    <2>3. tip \in Blocks /\ tip # Genesis
      <3>1. target # Genesis
        BY Zenon, <2>1 DEF IInv, PhaseInv
      <3> QED
        BY Zenon, <1>2, <2>1, <3>1, TreeAssumption
    <2>4. Parent[tip] \in Branch[tip] /\ Parent[tip] \in Blocks
      BY Zenon, <2>3, BranchFacts
    <2>5. \A c \in candidates' : ~Worse(c, Parent[tip], nSequenceId)
      BY Zenon, <1>2, <2>1, <2>3, <2>4, BelowIsWorse, OrderFacts DEF CandInv
    <2>6. CandInv'
      BY Zenon, <1>1, <2>1, <2>2, <2>5 DEF CandInv
    <2> QED
      BY Zenon, <2>1, <2>6
  <1>5. ASSUME InvalidateLoopEnds PROVE CandInv'
    <2>1. pc = "disconnect" /\ pc' = "mark" /\ UNCHANGED <<tip, candidates>>
      BY Zenon, <1>5 DEF InvalidateLoopEnds
    <2>2. Invalidating /\ Invalidating'
      BY <2>1 DEF Invalidating
    <2> QED
      BY Zenon, <1>1, <2>1, <2>2 DEF CandInv
  <1>6. ASSUME InvalidateMark PROVE CandInv'
    <2>1. pc' = "idle" /\ wanted' = TRUE /\ UNCHANGED <<index, linked, tip>>
      BY Zenon, <1>6, MarkFacts DEF tree
    <2>2. ~Invalidating'
      BY <2>1 DEF Invalidating
    <2>3. PICK r \in index : \E fresh \in SUBSET {r} :
            /\ r = toMark /\ r \in Failed \cup fresh
            /\ failedValid' = (failedValid \cup fresh) \ Descendants(r)
            /\ failedChild' = failedChild \cup Descendants(r)
            /\ failedBlocks' = failedBlocks \cup fresh
            /\ candidates' = (candidates \ fresh) \cup
                 {b \in Connectable \ fresh : ~Worse(b, tip, nSequenceId)}
      BY Zenon, <1>6, MarkFacts
    <2>4. PICK fresh \in SUBSET {r} :
            /\ r = toMark /\ r \in Failed \cup fresh
            /\ failedValid' = (failedValid \cup fresh) \ Descendants(r)
            /\ failedChild' = failedChild \cup Descendants(r)
            /\ failedBlocks' = failedBlocks \cup fresh
            /\ candidates' = (candidates \ fresh) \cup
                 {b \in Connectable \ fresh : ~Worse(b, tip, nSequenceId)}
      BY Zenon, <2>3
    <2>5. FlagInv' /\ Failed' = Failed \cup fresh \cup Descendants(r)
      <3>1. \A x : ToBeMarked(x) => r \in Branch[x]
        BY Zenon, <2>4 DEF ToBeMarked
      <3> QED
        BY Zenon, <2>1, <2>2, <2>4, <3>1, FloodFlags
    <2>6. ASSUME NEW x \in linked', Qualifies(x)' PROVE x \in candidates'
      <3>1. Usable(x)' /\ ~Worse(x, tip, nSequenceId)
        BY Zenon, <1>1, <2>1, <2>6 DEF Qualifies
      <3>2. x \notin Failed'
        BY Zenon, <2>5, <3>1 DEF FlagInv, Usable
      <3>3. x \in Connectable \ fresh
        BY Zenon, <2>1, <2>5, <3>2, KindFacts DEF Connectable
      <3> QED
        BY Zenon, <2>4, <3>1, <3>3
    <2>7. \A c \in candidates' : ~Worse(c, tip', nSequenceId')
      BY Zenon, <1>1, <2>1, <2>4 DEF CandInv
    <2>8. CandInv'
      BY Zenon, <1>1, <2>2, <2>6, <2>7 DEF CandInv
    <2> QED
      BY Zenon, <2>1, <2>8
  <1>7. CandInv' /\ (pc' = "disconnect" \/ pc' = "mark" \/ (pc' = "idle" /\ wanted' = TRUE))
    <2>1. InvalidateLoopEnds => pc' = "mark"
      BY Zenon DEF InvalidateLoopEnds
    <2>2. InvalidateMark => pc' = "idle" /\ wanted' = TRUE
      BY Zenon, MarkFacts
    <2> QED
      BY Zenon, <1>3, <1>4, <1>5, <1>6, <2>1, <2>2 DEF Invalidation, InvalidateTip
  <1>8. /\ pc' \notin Locked /\ pc' # "find" /\ pc' # "round"
        /\ pc' = "idle" => wanted' = TRUE
    BY <1>7 DEF Locked
  <1> QED
    BY Zenon, <1>1, <1>7, <1>8 DEF RoundInv, BestInv

\* CandInv, RoundInv and BestInv are kept by every step.
LEMMA SelectionKept ==
    ASSUME CarefulOperator, IInv, WaitInv, QueueInv, NumberInv, ScriptsInv, FlagInv,
           CandInv, RoundInv, BestInv, [Next]_vars
    PROVE  CandInv' /\ RoundInv' /\ BestInv'
  <1>1. ASSUME NEW b \in Blocks,
               \/ AcceptBlockHeader(b) \/ AcceptBadBlock(b) \/ AcceptBlock(b)
               \/ PreciousBlock(b) \/ ReconsiderBlock(b) \/ InvalidateBlock(b)
        PROVE  CandInv' /\ RoundInv' /\ BestInv'
    BY Zenon, <1>1, ArrivalSelection, PreciousSelection, ReconsiderSelection,
       InvalidateSelection
  <1>2. CASE LinkBlock
    BY Zenon, <1>2, LinkSelection
  <1>3. CASE Activation
    BY Zenon, <1>3, BeginSelection, FindSelection, NothingSelection, DisconnectSelection,
       ConnectSelection, RefuseSelection DEF Activation
  <1>4. CASE Invalidation
    BY Zenon, <1>4, InvalidateSelection
  <1>5. CASE UNCHANGED vars
    <2>1. UNCHANGED <<linked, nSequenceId, candidates, tip, pc, abc, scripts, failedValid,
                      wanted>>
      BY Zenon, <1>5 DEF vars, tree, flags, keys
    <2>2. scripts \subseteq scripts' /\ \A x \in linked : Usable(x)' <=> Usable(x)
      BY Zenon, <2>1 DEF Usable
    <2> QED
      BY Zenon, <2>1, <2>2, SelectionSame
  <1> QED
    BY Zenon, <1>1, <1>2, <1>3, <1>4, <1>5 DEF Next

-----------------------------------------------------------------------------
(* The results for a careful operator                                      *)

\* What holds besides IInv when the operator is careful.
SInv == /\ WaitInv /\ QueueInv /\ NumberInv /\ ScriptsInv /\ FlagInv
        /\ CandInv /\ RoundInv /\ BestInv

\* SInv holds at the start.
LEMMA SelectionInitially == Init => SInv
  <1> SUFFICES ASSUME Init PROVE SInv
    OBVIOUS
  <1>1. /\ Genesis \in Blocks /\ Branch[Genesis] = {Genesis}
        /\ Genesis \notin BadContext /\ Genesis \notin BadScripts
    BY TreeAssumption
  <1>2. /\ index = {Genesis} /\ data = {Genesis} /\ linked = {Genesis} /\ scripts = {Genesis}
        /\ Failed = {} /\ failedValid = {} /\ failedBlocks = {} /\ candidates = {Genesis}
        /\ tip = Genesis /\ queue = <<>> /\ wasInChain = FALSE /\ mostWork = None
        /\ unlinked = [p \in Blocks |-> <<>>] /\ pc = "idle"
        /\ nSequenceId = [b \in Blocks |-> IF b = Genesis THEN 1 ELSE 0]
        /\ nBlockReverseSequenceId = -1
    BY DEF Init, Failed
  <1>3. pc \notin Locked /\ ~Invalidating /\ pc # "find" /\ pc # "round"
    BY <1>2 DEF Locked, Invalidating
  <1>4. \A p \in Blocks : unlinked[p] = <<>>
    BY Zenon, <1>2
  <1>5. WaitInv /\ QueueInv /\ NumberInv
    <2>1. WaitInv
      BY Zenon, <1>1, <1>2 DEF WaitInv
    <2>2. QueueInv
      BY <1>2, <1>3, <1>4 DEF QueueInv
    <2>3. NumberInv
      BY <1>2 DEF NumberInv
    <2> QED
      BY Zenon, <2>1, <2>2, <2>3
  <1>6. ScriptsInv /\ FlagInv
    BY Zenon, <1>1, <1>2, <1>3 DEF ScriptsInv, FlagInv, Flooded, Descendants
  <1>7. ~Worse(Genesis, Genesis, nSequenceId)
    <2>1. nSequenceId \in [Blocks -> Int]
      BY <1>2
    <2> QED
      BY Zenon, <1>1, <2>1, OrderFacts
  <1>8. CandInv /\ RoundInv /\ BestInv
    BY Zenon, <1>2, <1>3, <1>7 DEF CandInv, RoundInv, BestInv
  <1> QED
    BY Zenon, <1>5, <1>6, <1>8 DEF SInv

\* IInv and SInv together are inductive when the operator is careful.
THEOREM SelectionInvariant == CarefulOperator => (Spec => [](IInv /\ SInv))
  <1> SUFFICES ASSUME CarefulOperator PROVE Spec => [](IInv /\ SInv)
    OBVIOUS
  <1>1. IInv /\ SInv /\ [Next]_vars => SInv'
    <2> SUFFICES ASSUME IInv, SInv, [Next]_vars PROVE SInv'
      OBVIOUS
    <2>1. /\ WaitInv /\ QueueInv /\ NumberInv /\ ScriptsInv /\ FlagInv
          /\ CandInv /\ RoundInv /\ BestInv
      BY Zenon DEF SInv
    <2>2. WaitInv' /\ QueueInv'
      BY Zenon, <2>1, LinksKept
    <2>3. NumberInv' /\ ScriptsInv' /\ FlagInv'
      BY Zenon, <2>1, NumbersKept, ScriptsKept, FlagsKept
    <2>4. CandInv' /\ RoundInv' /\ BestInv'
      BY Zenon, <2>1, SelectionKept
    <2> QED
      BY Zenon, <2>2, <2>3, <2>4 DEF SInv
  <1> QED
    BY <1>1, SelectionInitially, TreeInvariant, PTL DEF Spec

\* While cs_main is free, a block whose branch has all its data is linked.
LEMMA CompleteIsLinked ==
    ASSUME IInv, WaitInv, queue = <<>>, NEW b \in index
    PROVE  b \in linked <=> ~Missing(b)
  <1>1. b \in Blocks /\ b \in Branch[b] /\ Branch[b] \subseteq Blocks
    BY Zenon, BranchFacts DEF IInv, SetsOK
  <1>2. b \in linked => ~Missing(b)
    BY Zenon DEF Missing, IInv, TreeInv, SetsOK
  <1>3. ASSUME ~Missing(b), b \notin linked PROVE FALSE
    <2> DEFINE X == Branch[b] \ linked
    <2>1. X \in SUBSET Branch[b] /\ X # {}
      BY Zenon, <1>1, <1>3
    <2>2. PICK x \in X : \A c \in X : x \in Branch[c]
      BY Zenon, <1>1, <2>1, BranchAssumption
    <2>3. x \in Branch[b] /\ x \notin linked
      BY Zenon, <2>2
    <2>4. x \in data \ {Genesis} /\ x \in Blocks
      BY Zenon, <1>1, <1>3, <2>3 DEF Missing, WaitInv
    <2>5. Parent[x] \in Branch[b] /\ x \notin Branch[Parent[x]]
      BY Zenon, <1>1, <2>3, <2>4, BranchFacts
    <2>6. Parent[x] \in linked
      BY Zenon, <2>2, <2>5
    <2>7. \E i \in 1..Len(queue) : queue[i] = x
      BY Zenon, <2>3, <2>4, <2>6 DEF WaitInv
    <2> QED
      BY <2>7
  <1> QED
    BY Zenon, <1>2, <1>3

\* CheckBlockIndex's assertions hold whenever cs_main is free, and
\* PruneBlockIndexCandidates never empties the set.
THEOREM CheckBlockIndexHolds == CarefulOperator => (Spec => []CheckBlockIndex)
  <1>1. IInv /\ SInv => CheckBlockIndex
    <2> SUFFICES ASSUME IInv, SInv PROVE CheckBlockIndex
      OBVIOUS
    <2>1. /\ WaitInv /\ QueueInv /\ NumberInv /\ ScriptsInv /\ FlagInv
          /\ CandInv /\ RoundInv
      BY Zenon DEF SInv
    <2>2. candidates # {}
      <3>1. CASE Invalidating
        BY Zenon, <2>1, <3>1 DEF CandInv
      <3>2. CASE pc = "find"
        <4>1. pc \in Locked
          BY <3>2 DEF Locked
        <4> QED
          BY Zenon, <2>1, <3>2, <4>1, StartFacts
      <3>3. CASE pc = "connect"
        BY Zenon, <2>1, <3>3 DEF CandInv, IInv, PhaseInv
      <3>4. CASE ~Invalidating /\ pc \notin Locked
        <4>1. Qualifies(tip) /\ tip \in linked
          BY Zenon, <2>1, <3>4, KindFacts, UsableFacts, OrderFacts DEF Qualifies
        <4> QED
          BY Zenon, <2>1, <3>4, <4>1 DEF CandInv
      <3> QED
        BY <3>1, <3>2, <3>3, <3>4 DEF Locked
    <2>3. ASSUME CsMainFree, NEW b \in index
          PROVE  /\ b \in linked <=> ~Missing(b)
                 /\ b \notin linked => nSequenceId[b] <= 0
                 /\ b \in scripts => Branch[b] \subseteq scripts
                 /\ b \in Failed => Invalid(b)
                 /\ b \in candidates => ~Worse(b, tip, nSequenceId) /\ ~Missing(b)
                 /\ ~Worse(b, tip, nSequenceId) /\ ~Missing(b) /\ ~Invalid(b)
                    => b \in candidates \/ Invalidating
                 /\ b \in data /\ Missing(b) /\ ~Invalid(b) => b \in Unlinked
                 /\ b \in Unlinked => b \in data /\ Missing(b)
      <3>1. queue = <<>> /\ pc \notin Locked /\ b \in Blocks
        BY Zenon, <2>3 DEF CsMainFree, IInv, SetsOK
      <3>2. b \in linked <=> ~Missing(b)
        BY Zenon, <2>1, <3>1, CompleteIsLinked
      <3>3. b \notin linked => nSequenceId[b] <= 0
        BY <2>1, <3>1 DEF NumberInv
      <3>4. (b \in scripts => Branch[b] \subseteq scripts) /\ (b \in Failed => Invalid(b))
        BY Zenon, <2>1 DEF ScriptsInv, FlagInv, Invalid
      <3>5. b \in candidates => ~Worse(b, tip, nSequenceId) /\ ~Missing(b)
        BY Zenon, <2>1, <3>2, KindFacts DEF CandInv
      <3>6. ~Worse(b, tip, nSequenceId) /\ ~Missing(b) /\ ~Invalid(b)
            => b \in candidates \/ Invalidating
        BY Zenon, <2>1, <3>1, <3>2 DEF CandInv, Qualifies, Usable, Invalid
      <3>7. ASSUME b \in data, Missing(b), ~Invalid(b) PROVE b \in Unlinked
        <4>1. b \notin linked /\ b # Genesis
          BY Zenon, <2>1, <3>2, <3>7 DEF WaitInv
        <4>2. Parent[b] \in Blocks /\ Branch[Parent[b]] \subseteq Branch[b]
          BY Zenon, <3>1, <4>1, BranchFacts
        <4>3. Parent[b] \notin Failed
          BY Zenon, <2>1, <3>7, <4>2 DEF FlagInv, Invalid
        <4>4. ~ \E i \in 1..Len(queue) : queue[i] = b
          BY <3>1
        <4>5. PICK i \in 1..Len(unlinked[Parent[b]]) : unlinked[Parent[b]][i] = b
          BY Zenon, <2>1, <3>7, <4>1, <4>3, <4>4 DEF WaitInv
        <4>6. i \in DOMAIN unlinked[Parent[b]]
          <5>1. unlinked[Parent[b]] \in Seq(Blocks)
            BY Zenon, <4>2 DEF IInv, QueuesOK
          <5> QED
            BY <4>5, <5>1
        <4>7. b \in Elems(unlinked[Parent[b]])
          BY Zenon, <4>5, <4>6 DEF Elems
        <4> QED
          BY Zenon, <4>2, <4>7 DEF Unlinked
      <3>8. ASSUME b \in Unlinked PROVE b \in data /\ Missing(b)
        <4>1. PICK p \in Blocks : b \in Elems(unlinked[p])
          BY Zenon, <3>8 DEF Unlinked
        <4>2. PICK i \in DOMAIN unlinked[p] : unlinked[p][i] = b
          BY Zenon, <4>1 DEF Elems
        <4>3. i \in 1..Len(unlinked[p]) /\ unlinked[p] # <<>>
          <5>1. unlinked[p] \in Seq(Blocks)
            BY Zenon DEF IInv, QueuesOK
          <5> QED
            BY <4>2, <5>1
        <4>4. b \in data \ {Genesis} /\ Parent[b] = p
          BY Zenon, <4>2, <4>3 DEF IInv, TreeInv
        <4>5. p \notin linked
          BY Zenon, <2>1, <4>3 DEF QueueInv
        <4>6. p \in Branch[b]
          BY Zenon, <3>1, <4>4, BranchFacts
        <4>7. b \notin linked
          BY Zenon, <4>5, <4>6 DEF IInv, TreeInv
        <4> QED
          BY Zenon, <3>2, <4>4, <4>7
      <3> QED
        BY Zenon, <3>2, <3>3, <3>4, <3>5, <3>6, <3>7, <3>8
    <2> QED
      BY Zenon, <2>2, <2>3 DEF CheckBlockIndex
  <1> QED
    BY <1>1, SelectionInvariant, PTL

\* When nobody holds or waits for m_chainstate_mutex the tip is the best of
\* the blocks that could be connected.
THEOREM TipStaysBest == CarefulOperator => (Spec => []TipIsBest)
  <1>1. IInv /\ SInv => TipIsBest
    BY Zenon DEF SInv, BestInv, TipIsBest, Usable, Failed
  <1> QED
    BY <1>1, SelectionInvariant, PTL

\* A round of ActivateBestChain never ends with a tip worse than its first.
THEOREM RoundsNeverLose == CarefulOperator => (Spec => RoundNeverLoses)
  <1>1. IInv /\ SInv /\ [Next]_vars =>
          [(pc \in Locked /\ pc' \notin Locked) => ~Worse(tip', startingTip, nSequenceId)]_vars
    <2> SUFFICES ASSUME IInv, SInv, Next, pc \in Locked, pc' \notin Locked
                 PROVE  ~Worse(tip', startingTip, nSequenceId)
      BY Zenon
    <2>1. QueueInv /\ ScriptsInv /\ FlagInv /\ CandInv /\ RoundInv /\ BestInv
      BY Zenon DEF SInv
    <2>2. queue = <<>> /\ pc # "idle" /\ pc # "round" /\ pc # "disconnect" /\ pc # "mark"
      BY <2>1 DEF QueueInv, Locked
    <2>3. NothingToDo \/ DisconnectToFork \/ ConnectTip \/ ConnectInvalid
      BY Zenon, <2>2 DEF Next, Activation, Invalidation, CsMainFree, AcceptBlockHeader,
         AcceptBadBlock, AcceptBlock, PreciousBlock, ReconsiderBlock, InvalidateBlock, LinkBlock,
         ActivateBestChain, StartRound, FindMostWorkChain, InvalidateTip, InvalidateLoopEnds,
         InvalidateMark
    <2>4. CASE NothingToDo
      <3>1. tip' = startingTip /\ startingTip \in Blocks
        BY Zenon, <2>1, <2>4, NothingSelection
      <3> QED
        BY Zenon, <3>1, KindFacts, OrderFacts
    <2>5. CASE DisconnectToFork
      <3>1. pc' = "connect"
        BY Zenon, <2>1, <2>5, DisconnectSelection
      <3> QED
        BY <3>1 DEF Locked
    <2>6. CASE ConnectTip \/ ConnectInvalid
      BY Zenon, <2>1, <2>6, ConnectSelection, RefuseSelection
    <2> QED
      BY Zenon, <2>3, <2>4, <2>5, <2>6
  <1> QED
    BY <1>1, SelectionInvariant, PTL DEF Spec, RoundNeverLoses
=============================================================================
