----------------------------- MODULE CoinsView -----------------------------
(***************************************************************************)
(* What the stack of coin views promises its callers: every level is a     *)
(* complete, private UTXO set with its own best block.  Opening a view     *)
(* copies the level below, flushing it replaces the level below, dropping  *)
(* it has no effect, and only the topmost level is read and written.       *)
(*                                                                         *)
(* Levels: db (CCoinsViewDB), tip (Chainstate::CoinsTip) and, while one is *)
(* open, view (the scratch CCoinsViewCache of ConnectTip/DisconnectTip).   *)
(***************************************************************************)
CONSTANTS Outpoints, Coins, Hashes, NoCoin, NullHash

VARIABLES
    live,       \* is a scratch view open on the tip?
    db, tip, view,              \* UTXO set of each level
    dbHash, tipHash, viewHash,  \* best block of each level
    ret         \* what the last reading call returned

vars == <<live, db, tip, view, dbHash, tipHash, viewHash, ret>>

Utxo == [Outpoints -> Coins \cup {NoCoin}]
NoView == <<>>

Top == IF live THEN view ELSE tip
TopHash == IF live THEN viewHash ELSE tipHash

Init == /\ live = FALSE
        /\ db = [o \in Outpoints |-> NoCoin]
        /\ tip = [o \in Outpoints |-> NoCoin]
        /\ view = NoView
        /\ dbHash = NullHash
        /\ tipHash = NullHash
        /\ viewHash = NullHash
        /\ ret = NoCoin

\* The topmost level becomes u, the others keep their contents.
SetTop(u) == IF live THEN view' = u /\ tip' = tip ELSE tip' = u /\ view' = view

Read(o) == /\ ret' = Top[o]
           /\ UNCHANGED <<live, db, tip, view, dbHash, tipHash, viewHash>>

ReadHash == /\ ret' = TopHash
            /\ UNCHANGED <<live, db, tip, view, dbHash, tipHash, viewHash>>

Add(o, c) == /\ SetTop([Top EXCEPT ![o] = c])
             /\ UNCHANGED <<live, db, dbHash, tipHash, viewHash, ret>>

Spend(o) == /\ ret' = Top[o]
            /\ SetTop([Top EXCEPT ![o] = NoCoin])
            /\ UNCHANGED <<live, db, dbHash, tipHash, viewHash>>

SetHash(h) ==
    /\ IF live THEN viewHash' = h /\ tipHash' = tipHash
               ELSE tipHash' = h /\ viewHash' = viewHash
    /\ UNCHANGED <<live, db, tip, view, dbHash, ret>>

OpenView == /\ ~live
            /\ live' = TRUE
            /\ view' = tip
            /\ viewHash' = tipHash
            /\ UNCHANGED <<db, tip, dbHash, tipHash, ret>>

CloseView == /\ live
             /\ live' = FALSE
             /\ view' = NoView
             /\ viewHash' = NullHash
             /\ UNCHANGED <<db, tip, dbHash, tipHash, ret>>

CommitView == /\ live
              /\ live' = FALSE
              /\ tip' = view
              /\ tipHash' = viewHash
              /\ view' = NoView
              /\ viewHash' = NullHash
              /\ UNCHANGED <<db, dbHash, ret>>

CommitTip == /\ ~live
             /\ tipHash # NullHash
             /\ db' = tip
             /\ dbHash' = tipHash
             /\ UNCHANGED <<live, tip, view, tipHash, viewHash, ret>>

Next == \/ \E o \in Outpoints : Read(o) \/ Spend(o)
        \/ \E o \in Outpoints, c \in Coins : Add(o, c)
        \/ \E h \in Hashes : SetHash(h)
        \/ ReadHash \/ OpenView \/ CloseView \/ CommitView \/ CommitTip

Spec == Init /\ [][Next]_vars
=============================================================================
