---------------------------- MODULE TxOrphanage -----------------------------
(***************************************************************************)
(* TxOrphanage (src/txorphanage.cpp): transactions whose inputs are not    *)
(* known yet, with the peers that announced them.  Beside the map of       *)
(* orphans the code keeps a vector for random eviction, an index by the    *)
(* outpoints spent, per-peer and total counters, and per-peer work sets of *)
(* orphans to try again.  The calls that loop over orphans take one step   *)
(* per orphan here, in any order; the others are one step.                 *)
(***************************************************************************)
EXTENDS Integers, Sequences, FiniteSets, FiniteSetsExt

CONSTANTS
  Peer,          \* NodeIds; a NodeId is not used again after a disconnect
  Wtxid,         \* transactions, by wtxid; numbers, as std::set orders them
  Outpoint,
  Inputs,        \* the outpoints each transaction spends
  Weight,        \* GetTransactionWeight of each transaction
  MaxWeight,     \* MAX_STANDARD_TX_WEIGHT
  Created,       \* sets of outpoints: the outputs of possible parents
  Spent,         \* sets of outpoints: the inputs of possible blocks
  MaxOrphans,    \* -maxorphantx
  ExpireTime,    \* ORPHAN_TX_EXPIRE_TIME
  ExpireInterval,\* ORPHAN_TX_EXPIRE_INTERVAL
  MaxTime        \* bound: the last reading of the clock

CONSTANTS NoPeer, NoTx

ASSUME WtxidAssumption == Wtxid \subseteq Nat /\ IsFiniteSet(Wtxid)

ASSUME PeerAssumption == IsFiniteSet(Peer) /\ NoPeer \notin Peer

ASSUME TxAssumption ==
  /\ Inputs \in [Wtxid -> SUBSET Outpoint]
  /\ Weight \in [Wtxid -> Nat]
  /\ MaxWeight \in Nat
  /\ Created \subseteq SUBSET Outpoint
  /\ Spent \subseteq SUBSET Outpoint

ASSUME LimitAssumption ==
  /\ MaxOrphans \in Nat
  /\ ExpireTime \in Nat
  /\ ExpireInterval \in 0..ExpireTime
  /\ MaxTime \in Nat

VARIABLES
  orphans,     \* the keys of m_orphans; the next three are its values
  announcers,  \* {} for a transaction that is no orphan
  expire,      \* nTimeExpire
  pos,         \* list_pos, counted from 1; 0 for no orphan
  list,        \* m_orphan_list
  byPrev,      \* m_outpoint_to_orphan_it; {} for no entry
  totalUsage,  \* m_total_orphan_usage
  totalAnn,    \* m_total_announcements
  infos,       \* the keys of m_peer_orphanage_info; the next two its values
  usage,       \* m_total_usage
  work,        \* m_work_set
  nextSweep,   \* m_next_sweep
  now,         \* the clock
  pc,          \* the loop we are in: "idle" between calls
  caller,      \* the peer argument of EraseForPeer
  todo,        \* the orphans the loop has still to visit
  minExp,      \* nMinExpTime of LimitOrphans
  gone,        \* history: peers that disconnected
  ret          \* what GetTxToReconsider returned last

entryVars == <<orphans, announcers, expire, pos, list, byPrev, totalUsage, totalAnn>>
infoVars == <<infos, usage, work>>
loopVars == <<pc, caller, todo, minExp>>
vars == <<entryVars, infoVars, loopVars, nextSweep, now, gone, ret>>

Init ==
  /\ orphans = {}
  /\ announcers = [t \in Wtxid |-> {}]
  /\ expire = [t \in Wtxid |-> 0]
  /\ pos = [t \in Wtxid |-> 0]
  /\ list = <<>>
  /\ byPrev = [o \in Outpoint |-> {}]
  /\ totalUsage = 0 /\ totalAnn = 0
  /\ infos = {} /\ usage = [p \in Peer |-> 0] /\ work = [p \in Peer |-> {}]
  /\ nextSweep = 0 /\ now = 0
  /\ pc = "idle" /\ caller = NoPeer /\ todo = {} /\ minExp = 0
  /\ gone = {} /\ ret = NoTx
-----------------------------------------------------------------------------
(* Adding                                                                  *)

\* Mutant: a second announcement is not charged to the announcing peer.
AnnouncerFree(t, p) ==
  /\ announcers' = [announcers EXCEPT ![t] = @ \cup {p}]
  /\ totalAnn' = totalAnn + 1
  /\ infos' = infos \cup {p}
  /\ UNCHANGED <<orphans, expire, pos, list, byPrev, totalUsage, usage, work>>

\* AddAnnouncer on an orphan that peer p did not announce yet.
Announcer(t, p) ==
  /\ announcers' = [announcers EXCEPT ![t] = @ \cup {p}]
  /\ totalAnn' = totalAnn + 1
  /\ infos' = infos \cup {p}
  /\ usage' = [usage EXCEPT ![p] = @ + Weight[t]]
  /\ UNCHANGED <<orphans, expire, pos, list, byPrev, totalUsage, work>>

AddAnnouncer(t, p) ==
  /\ pc = "idle" /\ p \notin gone
  /\ \/ t \in orphans /\ p \notin announcers[t] /\ Announcer(t, p)
     \/ (t \notin orphans \/ p \in announcers[t]) /\ UNCHANGED <<entryVars, infoVars>>
  /\ UNCHANGED <<loopVars, nextSweep, now, gone, ret>>

NewOrphan(t, p) ==
  /\ orphans' = orphans \cup {t}
  /\ announcers' = [announcers EXCEPT ![t] = {p}]
  /\ expire' = [expire EXCEPT ![t] = now + ExpireTime]
  /\ pos' = [pos EXCEPT ![t] = Len(list) + 1]
  /\ list' = Append(list, t)
  /\ byPrev' = [o \in Outpoint |-> IF o \in Inputs[t] THEN byPrev[o] \cup {t} ELSE byPrev[o]]
  /\ totalUsage' = totalUsage + Weight[t]
  /\ totalAnn' = totalAnn + 1
  /\ infos' = infos \cup {p}
  /\ usage' = [usage EXCEPT ![p] = @ + Weight[t]]
  /\ UNCHANGED work

AddTx(t, p) ==
  /\ pc = "idle" /\ p \notin gone
  /\ \/ t \in orphans /\ p \notin announcers[t] /\ Announcer(t, p)
     \/ t \in orphans /\ p \in announcers[t] /\ UNCHANGED <<entryVars, infoVars>>
     \/ t \notin orphans /\ Weight[t] > MaxWeight /\ UNCHANGED <<entryVars, infoVars>>
     \/ t \notin orphans /\ Weight[t] <= MaxWeight /\ NewOrphan(t, p)
  /\ UNCHANGED <<loopVars, nextSweep, now, gone, ret>>
-----------------------------------------------------------------------------
(* Erasing                                                                 *)

Last == list[Len(list)]

\* Mutant: the entry moved into the hole keeps its old list_pos.
VacatedStale(t) ==
  /\ list' = SubSeq([list EXCEPT ![pos[t]] = Last], 1, Len(list) - 1)
  /\ pos' = [pos EXCEPT ![t] = 0]

\* The last entry of the vector moves to the place of t.
Vacated(t) ==
  /\ list' = SubSeq([list EXCEPT ![pos[t]] = Last], 1, Len(list) - 1)
  /\ pos' = [u \in Wtxid |-> IF u = t THEN 0 ELSE IF u = Last THEN pos[t] ELSE pos[u]]

\* EraseTx on an orphan whose announcers are now "peers", when "count"
\* announcements are given up with it.
Erased(t, peers, count) ==
  /\ orphans' = orphans \ {t}
  /\ announcers' = [announcers EXCEPT ![t] = {}]
  /\ expire' = [expire EXCEPT ![t] = 0]
  /\ Vacated(t)
  /\ byPrev' = [o \in Outpoint |-> IF o \in Inputs[t] THEN byPrev[o] \ {t} ELSE byPrev[o]]
  /\ totalUsage' = totalUsage - Weight[t]
  /\ totalAnn' = totalAnn - count
  /\ usage' = [p \in Peer |-> IF p \in peers \cap infos THEN usage[p] - Weight[t] ELSE usage[p]]
  /\ UNCHANGED <<infos, work>>

ErasedFully(t) == Erased(t, announcers[t], Cardinality(announcers[t]))

EraseTx(t) ==
  /\ pc = "idle"
  /\ \/ t \in orphans /\ ErasedFully(t)
     \/ t \notin orphans /\ UNCHANGED <<entryVars, infoVars>>
  /\ UNCHANGED <<loopVars, nextSweep, now, gone, ret>>

\* Mutant: the peer's entry, with its work set, is left behind.
EraseForPeerKeepsInfo(p) ==
  /\ pc = "idle" /\ p \notin gone
  /\ gone' = gone \cup {p}
  /\ pc' = "peer" /\ caller' = p /\ todo' = orphans
  /\ UNCHANGED <<entryVars, infoVars, minExp, nextSweep, now, ret>>

EraseForPeer(p) ==
  /\ pc = "idle" /\ p \notin gone
  /\ infos' = infos \ {p}
  /\ usage' = [usage EXCEPT ![p] = 0]
  /\ work' = [work EXCEPT ![p] = {}]
  /\ gone' = gone \cup {p}
  /\ pc' = "peer" /\ caller' = p /\ todo' = orphans
  /\ UNCHANGED <<entryVars, minExp, nextSweep, now, ret>>

\* The peer no longer announces t, which somebody else does.
Unannounce(t) ==
  /\ announcers' = [announcers EXCEPT ![t] = @ \ {caller}]
  /\ totalAnn' = totalAnn - 1
  /\ UNCHANGED <<orphans, expire, pos, list, byPrev, totalUsage, infoVars>>

EraseOneForPeer(t) ==
  /\ pc = "peer" /\ t \in todo
  /\ \/ caller \notin announcers[t] /\ UNCHANGED <<entryVars, infoVars>>
     \/ announcers[t] = {caller} /\ Erased(t, {}, 1)
     \/ caller \in announcers[t] /\ announcers[t] # {caller} /\ Unannounce(t)
  /\ todo' = todo \ {t}
  /\ UNCHANGED <<pc, caller, minExp, nextSweep, now, gone, ret>>

EraseForBlock(spends) ==
  /\ pc = "idle"
  /\ pc' = "block" /\ todo' = UNION {byPrev[o] : o \in spends}
  /\ UNCHANGED <<entryVars, infoVars, caller, minExp, nextSweep, now, gone, ret>>

EraseOneForBlock(t) ==
  /\ pc = "block" /\ t \in todo
  /\ ErasedFully(t)
  /\ todo' = todo \ {t}
  /\ UNCHANGED <<pc, caller, minExp, nextSweep, now, gone, ret>>

EndErase ==
  /\ pc \in {"peer", "block"} /\ todo = {}
  /\ pc' = "idle" /\ caller' = NoPeer
  /\ UNCHANGED <<entryVars, infoVars, todo, minExp, nextSweep, now, gone, ret>>
-----------------------------------------------------------------------------
(* Limiting                                                                *)

LimitOrphans ==
  /\ pc = "idle"
  /\ \/ /\ nextSweep <= now
        /\ pc' = "sweep" /\ todo' = orphans
        /\ minExp' = now + ExpireTime - ExpireInterval
     \/ nextSweep > now /\ pc' = "evict" /\ UNCHANGED <<todo, minExp>>
  /\ UNCHANGED <<entryVars, infoVars, caller, nextSweep, now, gone, ret>>

\* Mutant: the expiries of the orphans that stay are not looked at.
SweepOneForgets(t) ==
  /\ pc = "sweep" /\ t \in todo
  /\ \/ expire[t] <= now /\ ErasedFully(t)
     \/ expire[t] > now /\ UNCHANGED <<entryVars, infoVars>>
  /\ todo' = todo \ {t}
  /\ UNCHANGED <<pc, caller, minExp, nextSweep, now, gone, ret>>

SweepOne(t) ==
  /\ pc = "sweep" /\ t \in todo
  /\ \/ expire[t] <= now /\ ErasedFully(t) /\ UNCHANGED minExp
     \/ /\ expire[t] > now
        /\ minExp' = IF expire[t] < minExp THEN expire[t] ELSE minExp
        /\ UNCHANGED <<entryVars, infoVars>>
  /\ todo' = todo \ {t}
  /\ UNCHANGED <<pc, caller, nextSweep, now, gone, ret>>

EndSweep ==
  /\ pc = "sweep" /\ todo = {}
  /\ nextSweep' = minExp + ExpireInterval
  /\ pc' = "evict" /\ minExp' = 0
  /\ UNCHANGED <<entryVars, infoVars, caller, todo, now, gone, ret>>

EvictOne(i) ==
  /\ pc = "evict" /\ Cardinality(orphans) > MaxOrphans /\ i \in DOMAIN list
  /\ ErasedFully(list[i])
  /\ UNCHANGED <<loopVars, nextSweep, now, gone, ret>>

EndEvict ==
  /\ pc = "evict" /\ Cardinality(orphans) <= MaxOrphans
  /\ pc' = "idle"
  /\ UNCHANGED <<entryVars, infoVars, caller, todo, minExp, nextSweep, now, gone, ret>>
-----------------------------------------------------------------------------
(* Work sets                                                               *)

\* The orphans found through an output of the accepted transaction; one that
\* spends two outputs is found twice.
Found(outs) == {x \in outs \X orphans : x[2] \in byPrev[x[1]]}

\* Each is queued with an announcer picked at random.
AddChildrenToWorkSet(outs) ==
  /\ pc = "idle"
  /\ \E pick \in [Found(outs) -> Peer] :
       /\ \A x \in Found(outs) : pick[x] \in announcers[x[2]]
       /\ work' = [p \in Peer |-> work[p] \cup {x[2] : x \in {y \in Found(outs) : pick[y] = p}}]
       /\ infos' = infos \cup {pick[x] : x \in Found(outs)}
  /\ UNCHANGED <<entryVars, usage, loopVars, nextSweep, now, gone, ret>>

\* Mutant: the whole work set is dropped with the first orphan found.
GetTxToReconsiderAll(p) ==
  /\ pc = "idle" /\ p \notin gone
  /\ \/ /\ work[p] \cap orphans = {}
        /\ work' = [work EXCEPT ![p] = {}] /\ ret' = NoTx
     \/ \E t \in work[p] \cap orphans :
          /\ \A u \in work[p] \cap orphans : t <= u
          /\ work' = [work EXCEPT ![p] = {}] /\ ret' = t
  /\ UNCHANGED <<entryVars, infos, usage, loopVars, nextSweep, now, gone>>

\* The work set is consumed from its smallest wtxid up to the first that is
\* still an orphan.
GetTxToReconsider(p) ==
  /\ pc = "idle" /\ p \notin gone
  /\ \/ /\ work[p] \cap orphans = {}
        /\ work' = [work EXCEPT ![p] = {}] /\ ret' = NoTx
     \/ \E t \in work[p] \cap orphans :
          /\ \A u \in work[p] \cap orphans : t <= u
          /\ work' = [work EXCEPT ![p] = {u \in @ : u > t}] /\ ret' = t
  /\ UNCHANGED <<entryVars, infos, usage, loopVars, nextSweep, now, gone>>

\* Time passes between calls.
Tick ==
  /\ pc = "idle" /\ now < MaxTime
  /\ now' = now + 1
  /\ UNCHANGED <<entryVars, infoVars, loopVars, nextSweep, gone, ret>>

Next ==
  \/ \E t \in Wtxid, p \in Peer : AddTx(t, p) \/ AddAnnouncer(t, p)
  \/ \E t \in Wtxid : EraseTx(t)
  \/ \E p \in Peer : EraseForPeer(p)
  \/ \E t \in Wtxid : EraseOneForPeer(t) \/ EraseOneForBlock(t)
  \/ \E spends \in Spent : EraseForBlock(spends)
  \/ EndErase
  \/ LimitOrphans
  \/ \E t \in Wtxid : SweepOne(t)
  \/ EndSweep
  \/ \E i \in 1..Cardinality(Wtxid) : EvictOne(i)
  \/ EndEvict
  \/ \E outs \in Created : AddChildrenToWorkSet(outs)
  \/ \E p \in Peer : GetTxToReconsider(p)
  \/ Tick

Spec == Init /\ [][Next]_vars
-----------------------------------------------------------------------------
(* Properties                                                              *)

\* The variables hold values of their types; only orphans have announcers, an
\* expiry and a place in the list.
TypeOK ==
  /\ orphans \subseteq Wtxid
  /\ announcers \in [Wtxid -> SUBSET Peer]
  /\ expire \in [Wtxid -> Nat]
  /\ pos \in [Wtxid -> Nat]
  /\ list \in Seq(Wtxid)
  /\ byPrev \in [Outpoint -> SUBSET Wtxid]
  /\ totalUsage \in Int /\ totalAnn \in Int
  /\ infos \subseteq Peer /\ usage \in [Peer -> Int] /\ work \in [Peer -> SUBSET Wtxid]
  /\ nextSweep \in Int /\ now \in Nat /\ minExp \in Int
  /\ pc \in {"idle", "peer", "block", "sweep", "evict"}
  /\ caller \in Peer \cup {NoPeer} /\ (pc = "peer" => caller \in Peer)
  /\ todo \subseteq Wtxid
  /\ gone \subseteq Peer
  /\ \A t \in Wtxid : t \notin orphans => announcers[t] = {}

SumOver(f, S) == MapThenSumSet(LAMBDA t : f[t], S)
WeightOf(S) == SumOver(Weight, S)
Announcements == [t \in Wtxid |-> Cardinality(announcers[t])]
AnnouncedBy(p) == {t \in orphans : p \in announcers[t]}

\* SanityCheck: every orphan has an announcer, and the cached totals are those
\* of the map, for the pool and for each peer.
SanityCheck ==
  pc = "idle" =>
    /\ \A t \in orphans : announcers[t] # {}
    /\ totalAnn = SumOver(Announcements, orphans)
    /\ totalUsage = WeightOf(orphans)
    /\ \A p \in Peer :
         /\ usage[p] = WeightOf(AnnouncedBy(p))
         /\ usage[p] # 0 => p \in infos

\* The assertion of EraseTx: list_pos leads to the orphan's own place in
\* m_orphan_list, which holds every orphan once, inside every loop.
ListIsExact ==
  /\ Len(list) = Cardinality(orphans)
  /\ \A t \in orphans : pos[t] \in DOMAIN list /\ list[pos[t]] = t

\* The index by outpoint finds exactly the orphans that spend it: a block or an
\* accepted parent misses none, and no iterator dangles.
IndexIsExact == \A o \in Outpoint : byPrev[o] = {t \in orphans : o \in Inputs[t]}

\* Between calls nothing is left of a peer that disconnected: "if this peer
\* wasn't still connected, we would have removed the orphan tx already".
NothingOfGonePeers ==
  pc = "idle" =>
    \A p \in gone : /\ p \notin infos /\ usage[p] = 0 /\ work[p] = {}
                    /\ \A t \in Wtxid : p \notin announcers[t]

\* When LimitOrphans returns, the pool is within its limit and nothing in it is
\* past its expiry by the sweep interval or more, although a call sweeps only
\* when the time it computed at the last sweep has come.
LimitHolds ==
  [][EndEvict =>
       /\ Cardinality(orphans) <= MaxOrphans
       /\ \A t \in orphans : expire[t] + ExpireInterval > now]_vars

\* An orphan that was queued and is still in the pool leaves the queue only by
\* being handed out, or with the peer it was assigned to.
WorkIsKept ==
  [][\A p \in Peer, t \in Wtxid :
       t \in work[p] \ work'[p] /\ t \in orphans' => ret' = t \/ p \in gone']_vars
=============================================================================
