--------------------------- MODULE MCTxOrphanage ---------------------------
EXTENDS TxOrphanage, TLC

CONSTANTS p1, p2, o1, o2, o3

\* Transaction 2 spends two outputs of one parent, which 1 conflicts with; 3 is
\* too heavy to be kept.
MCInputs == <<{o1}, {o1, o2}, {o3}>>
MCWeight == <<1, 2, 3>>
Symmetry == Permutations(Peer)
=============================================================================
