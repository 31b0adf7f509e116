------------------------- MODULE MCChainstateFlush -------------------------
(***************************************************************************)
(* Branches f-a1-a2 and f-b1.  Transactions t2 (o2 -> o3) and t3, which    *)
(* spends o3 in the block that creates it (o3 -> o4), are confirmed in     *)
(* both, at different heights; t1 spends o1 for an output that is not      *)
(* spendable.  Block bad spends o1 again and is refused by ConnectBlock.   *)
(***************************************************************************)
EXTENDS ChainstateFlush

CONSTANTS g, f, a1, a2, b1, bad, o1, o2, o3, o4

MCBlocks == {g, f, a1, a2, b1, bad}
MCParent == [b \in MCBlocks |-> CASE b = g -> Null
                                  [] b = f -> g
                                  [] b \in {a1, b1} -> f
                                  [] b \in {a2, bad} -> a1]
MCHeight == [b \in MCBlocks |-> CASE b = g -> 0 [] b = f -> 1
                                  [] b \in {a1, b1} -> 2 [] b \in {a2, bad} -> 3]
MCAncestors == [b \in MCBlocks \cup {Null} |-> CASE b = Null -> {}
                                                 [] b = g -> {g}
                                                 [] b = f -> {g, f}
                                                 [] b \in {a1, b1} -> {g, f, b}
                                                 [] b \in {a2, bad} -> {g, f, a1, b}]
Coinbase(S) == [ins |-> {}, outs |-> S]
t1 == [ins |-> {o1}, outs |-> {}]
t2 == [ins |-> {o2}, outs |-> {o3}]
t3 == [ins |-> {o3}, outs |-> {o4}]
MCTxs == [b \in MCBlocks |-> CASE b = g -> <<Coinbase({})>>
                               [] b = f -> <<Coinbase({o1, o2})>>
                               [] b = a1 -> <<t1>>
                               [] b \in {a2, b1} -> <<t2, t3>>
                               [] b = bad -> <<[ins |-> {o1}, outs |-> {o4}]>>]
=============================================================================
