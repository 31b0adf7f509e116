---------------------------- MODULE MCTxRequest -----------------------------
EXTENDS TxRequest

CONSTANTS p1, p2, p3, t1, t2

ThreePeers == {p1, p2, p3}

\* Different peers win the tie-break for different transactions.
MCSalt == [t \in TxHash |-> [p \in Peer |->
             IF t = t1 THEN (CASE p = p1 -> 3 [] p = p2 -> 1 [] OTHER -> 2)
                       ELSE (CASE p = p1 -> 1 [] p = p2 -> 2 [] OTHER -> 3)]]
\* One of the peers is preferred.
MCPreference == [p \in Peer |-> {p = p3}]

\* Only p1 announces t2: three candidates for one hash, two hashes of one peer.
FewAnnouncements == \A t \in TxHash, p \in Peer : t = t1 \/ p = p1 \/ ~Tracked(index[t][p])
=============================================================================
