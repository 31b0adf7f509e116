-------------------------- MODULE MCChainSelection --------------------------
(***************************************************************************)
(* A small block tree for ChainSelection.  Chain 0-1-2-3-6 and chain       *)
(* 0-4-5: 1 and 4 tie, 5 has as much work as 3.  3 fails                   *)
(* ContextualCheckBlock, below a block (6) that may arrive first, and 5    *)
(* fails in ConnectBlock, above a block (4) that connects, so that a       *)
(* reorganisation can fail half way.                                       *)
(***************************************************************************)
EXTENDS ChainSelection, TLC

MCParent == 0 :> 0 @@ 1 :> 0 @@ 2 :> 1 @@ 3 :> 2 @@ 4 :> 0 @@ 5 :> 4
            @@ 6 :> 3
MCWork == 0 :> 1 @@ 1 :> 2 @@ 2 :> 3 @@ 3 :> 4 @@ 4 :> 2 @@ 5 :> 4
          @@ 6 :> 5
MCHeight[b \in Blocks] == IF b = Genesis THEN 0 ELSE MCHeight[Parent[b]] + 1
MCBranch[b \in Blocks] ==
    IF b = Genesis THEN {b} ELSE {b} \cup MCBranch[Parent[b]]
=============================================================================
