----------------------------- MODULE TxRequest ------------------------------
(***************************************************************************)
(* TxRequestTracker::Impl (src/txrequest.cpp).  The announcements live in  *)
(* one multi-index container; the code never searches a transaction's      *)
(* announcements for the best one but relies on which announcement is next *)
(* to which in the ByTxHash order, and keeps per-peer counters beside the  *)
(* index.  GetRequestable and DisconnectedPeer are loops: each iteration   *)
(* is a step here.                                                         *)
(***************************************************************************)
EXTENDS Integers, FiniteSets

CONSTANTS Peer, TxHash, Time, Preference, Salt, MaxSequence

CONSTANT MaxSalt  \* the largest salted hash: 2^63 - 1 in the code

CONSTANT NoPeer   \* no call is in progress

\* The tie-breaking hash of PriorityComputer has no collisions among the peers
\* of one transaction.
ASSUME SaltAssumption ==
  /\ MaxSalt \in Nat
  /\ Salt \in [TxHash -> [Peer -> 0..MaxSalt]]
  /\ \A t \in TxHash : \A p, q \in Peer : Salt[t][p] = Salt[t][q] => p = q

ASSUME TimeAssumption == Time \subseteq Nat

ASSUME PreferenceAssumption == Preference \in [Peer -> SUBSET BOOLEAN]

ASSUME TxHashAssumption == IsFiniteSet(TxHash)

ASSUME MaxSequenceAssumption == MaxSequence \in Nat

VARIABLES
  index,     \* m_index: the announcement of each transaction by each peer
  peerinfo,  \* m_peerinfo; an entry of zeros stands for no entry
  sequence,  \* m_current_sequence
  pc,        \* where in a looping call we are: "idle" between calls
  caller,    \* the peer argument of that call
  now,       \* its now argument
  dropped,   \* its local vector expired
  visible,   \* history: the index as the last finished call left it
  ret,       \* what the last call returned
  expired    \* and what it wrote to *expired

vars == <<index, peerinfo, sequence, pc, caller, now, dropped, visible, ret, expired>>

\* What the caller is promised tells the three kinds of candidates not apart.
AbsAnn(a) ==
  IF a.state \in {"CANDIDATE_DELAYED", "CANDIDATE_READY", "CANDIDATE_BEST"}
  THEN [a EXCEPT !.state = "CANDIDATE"] ELSE a

AbsRow(row) == [p \in Peer |-> AbsAnn(row[p])]

Abstract == INSTANCE TxRequestTracker WITH
  anns <- [t \in TxHash |-> AbsRow(visible[t])],
  seq <- sequence
-----------------------------------------------------------------------------
(* Announcements and the orders of the index                               *)

Absent == [state |-> "NOTHING", time |-> 0, preferred |-> FALSE, sequence |-> 0]

Tracked(a) == a.state # "NOTHING"

IsSelected(a) == a.state \in {"CANDIDATE_BEST", "REQUESTED"}

IsWaiting(a) == a.state \in {"REQUESTED", "CANDIDATE_DELAYED"}

IsSelectable(a) == a.state \in {"CANDIDATE_READY", "CANDIDATE_BEST"}

\* PriorityComputer: the salted hash, below a bit that is the preferred flag.
Priority(t, p, preferred) == Salt[t][p] + (IF preferred THEN MaxSalt + 1 ELSE 0)

Better(t, p, a, q, b) == Priority(t, p, a.preferred) > Priority(t, q, b.preferred)

\* The order of the State enumerators.
Rank(a) ==
  IF a.state = "CANDIDATE_DELAYED" THEN 0
  ELSE IF a.state = "CANDIDATE_READY" THEN 1
  ELSE IF a.state = "CANDIDATE_BEST" THEN 2
  ELSE IF a.state = "REQUESTED" THEN 3
  ELSE 4

\* The announcement of t by p comes before the one by q in ByTxHash.
Before(t, row, p, q) ==
  \/ Rank(row[p]) < Rank(row[q])
  \/ /\ row[p].state = "CANDIDATE_READY" /\ row[q].state = "CANDIDATE_READY"
     /\ Better(t, q, row[q], p, row[p])

\* std::next and std::prev in ByTxHash, within one txhash: no element at the end
\* of the txhash's range, several where equal keys leave the place open.
NextOf(t, row, p) ==
  {q \in Peer : /\ Tracked(row[q]) /\ Before(t, row, p, q)
                /\ \A r \in Peer : Tracked(row[r]) /\ Before(t, row, p, r)
                                     => ~Before(t, row, r, q)}

PrevOf(t, row, p) ==
  {q \in Peer : /\ Tracked(row[q]) /\ Before(t, row, q, p)
                /\ \A r \in Peer : Tracked(row[r]) /\ Before(t, row, r, p)
                                     => ~Before(t, row, q, r)}
-----------------------------------------------------------------------------
(* The helpers that change the announcements of one transaction            *)

PromoteCandidateReady(t, row, p) ==
  LET ready == [row EXCEPT ![p].state = "CANDIDATE_READY"]
      next == NextOf(t, ready, p)
  IN  IF \A q \in next : ready[q].state = "COMPLETED"
      THEN [ready EXCEPT ![p].state = "CANDIDATE_BEST"]
      ELSE IF \A q \in next : /\ ready[q].state = "CANDIDATE_BEST"
                              /\ Better(t, p, ready[p], q, ready[q])
      THEN [q \in Peer |->
              IF q = p THEN [ready[q] EXCEPT !.state = "CANDIDATE_BEST"]
              ELSE IF q \in next THEN [ready[q] EXCEPT !.state = "CANDIDATE_READY"]
              ELSE ready[q]]
      ELSE ready

\* Mutant: the next best candidate is not marked.
ChangeOnly(t, row, p, new_state) == [row EXCEPT ![p].state = new_state]

ChangeAndReselect(t, row, p, new_state) ==
  [q \in Peer |->
     IF q = p THEN [row[q] EXCEPT !.state = new_state]
     ELSE IF /\ IsSelected(row[p])
             /\ q \in PrevOf(t, row, p) /\ row[q].state = "CANDIDATE_READY"
     THEN [row[q] EXCEPT !.state = "CANDIDATE_BEST"]
     ELSE row[q]]

\* Mutant: only the predecessor is looked at.
IsFirst(t, row, p) == \A q \in Peer \ {p} : Tracked(row[q]) => Before(t, row, p, q)

\* An announcement with an equal key is on one side or the other: both sides
\* make the answer FALSE.
IsOnlyNonCompleted(t, row, p) ==
  /\ \A q \in Peer \ {p} : Tracked(row[q]) => Before(t, row, p, q)
  /\ \A q \in NextOf(t, row, p) : row[q].state = "COMPLETED"

MakeCompleted(t, row, p) ==
  IF row[p].state = "COMPLETED" THEN row
  ELSE IF IsOnlyNonCompleted(t, row, p) THEN [q \in Peer |-> Absent]
  ELSE ChangeAndReselect(t, row, p, "COMPLETED")

NoInfo == [total |-> 0, completed |-> 0, requested |-> 0]

One(b) == IF b THEN 1 ELSE 0

\* Mutant: erasing an announcement leaves the peer's m_requested.
AccountedKeepsRequested(info, a, b) ==
  LET erased == Tracked(a) /\ ~Tracked(b)
  IN  IF erased /\ info.total = 1 THEN NoInfo
      ELSE [total |-> info.total - One(erased),
            completed |-> info.completed - One(a.state = "COMPLETED") + One(b.state = "COMPLETED"),
            requested |-> info.requested - One(~erased /\ a.state = "REQUESTED")
                                         + One(b.state = "REQUESTED")]

\* Erase and Modify, the wrappers through which every change of an announcement
\* from a to b passes, keep the peer's counters up to date.
Accounted(info, a, b) ==
  LET erased == Tracked(a) /\ ~Tracked(b)
  IN  IF erased /\ info.total = 1 THEN NoInfo
      ELSE [total |-> info.total - One(erased),
            completed |-> info.completed - One(a.state = "COMPLETED") + One(b.state = "COMPLETED"),
            requested |-> info.requested - One(a.state = "REQUESTED") + One(b.state = "REQUESTED")]

\* The announcements of t become row.
Update(t, row) ==
  /\ index' = [index EXCEPT ![t] = row]
  /\ peerinfo' = [q \in Peer |-> Accounted(peerinfo[q], index[t][q], row[q])]
-----------------------------------------------------------------------------
NoCall == pc = "idle" /\ caller = NoPeer /\ now = 0 /\ dropped = {}

Init ==
  /\ index = [t \in TxHash |-> [p \in Peer |-> Absent]]
  /\ peerinfo = [p \in Peer |-> NoInfo]
  /\ sequence = 0
  /\ NoCall
  /\ visible = index
  /\ ret = <<>>
  /\ expired = {}

\* A call without a loop: it runs between two calls and returns nothing.
Call == pc = "idle" /\ UNCHANGED <<pc, caller, now, dropped>>

NoResult == visible' = index' /\ ret' = <<>> /\ expired' = {}

ReceivedInv(p, t, preferred, reqtime) ==
  /\ Call
  /\ IF Tracked(index[t][p])
     THEN UNCHANGED <<index, peerinfo, sequence>>
     ELSE /\ sequence < MaxSequence
          /\ index' = [index EXCEPT ![t][p] =
               [state |-> "CANDIDATE_DELAYED", time |-> reqtime,
                preferred |-> preferred, sequence |-> sequence]]
          /\ peerinfo' = [peerinfo EXCEPT ![p].total = @ + 1]
          /\ sequence' = sequence + 1
  /\ NoResult

ForgetTxHash(t) ==
  /\ Call
  /\ Update(t, [q \in Peer |-> Absent])
  /\ NoResult
  /\ UNCHANGED sequence

\* it_old: the first announcement of the txhash that is CANDIDATE_BEST or later.
FirstSelected(row) ==
  {q \in Peer : IsSelected(row[q]) /\ \A r \in Peer : IsSelected(row[r]) => Rank(row[q]) <= Rank(row[r])}

\* Mutant: the displaced request becomes a candidate again.
DisplacedReady(row, p) ==
  [q \in Peer |-> IF q \in FirstSelected(row)
                  THEN [row[q] EXCEPT !.state = "CANDIDATE_READY"] ELSE row[q]]

Displaced(row, p) ==
  IF row[p].state = "CANDIDATE_BEST" THEN row
  ELSE [q \in Peer |->
          IF q \notin FirstSelected(row) THEN row[q]
          ELSE IF row[q].state = "CANDIDATE_BEST"
          THEN [row[q] EXCEPT !.state = "CANDIDATE_READY"]
          ELSE [row[q] EXCEPT !.state = "COMPLETED"]]

\* The announcement by p becomes REQUESTED until expiry.
Requested(row, p, expiry) ==
  [Displaced(row, p) EXCEPT ![p].state = "REQUESTED", ![p].time = expiry]

RequestedTx(p, t, expiry) ==
  /\ Call
  /\ IF index[t][p].state \in {"CANDIDATE_BEST", "CANDIDATE_DELAYED", "CANDIDATE_READY"}
     THEN Update(t, Requested(index[t], p, expiry))
     ELSE UNCHANGED <<index, peerinfo>>
  /\ NoResult
  /\ UNCHANGED sequence

ReceivedResponse(p, t) ==
  /\ Call
  /\ IF Tracked(index[t][p])
     THEN Update(t, MakeCompleted(t, index[t], p))
     ELSE UNCHANGED <<index, peerinfo>>
  /\ NoResult
  /\ UNCHANGED sequence

Start(loop, p, time) ==
  /\ pc = "idle"
  /\ pc' = loop
  /\ caller' = p
  /\ now' = time
  /\ UNCHANGED <<index, peerinfo, sequence, dropped, visible, ret, expired>>

Finish == pc' = "idle" /\ caller' = NoPeer /\ now' = 0 /\ dropped' = {} /\ visible' = index

\* DisconnectedPeer visits the peer's announcements in ByPeer order: the
\* CANDIDATE_BEST ones come last.
DisconnectedPeer(p) == Start("disconnect", p, 0)

Erased(t, row, p) == [MakeCompleted(t, row, p) EXCEPT ![p] = Absent]

EraseOne(t) ==
  /\ pc = "disconnect"
  /\ Tracked(index[t][caller])
  /\ index[t][caller].state = "CANDIDATE_BEST" =>
       \A u \in TxHash : Tracked(index[u][caller]) => index[u][caller].state = "CANDIDATE_BEST"
  /\ Update(t, Erased(t, index[t], caller))
  /\ UNCHANGED <<sequence, pc, caller, now, dropped, visible, ret, expired>>

Disconnected ==
  /\ pc = "disconnect"
  /\ \A t \in TxHash : ~Tracked(index[t][caller])
  /\ ret' = <<>> /\ expired' = {}
  /\ Finish
  /\ UNCHANGED <<index, peerinfo, sequence>>

\* GetRequestable: SetTimePoint's two loops, then the selection.
GetRequestable(p, time) == Start("forward", p, time)

\* The front of ByTime: of the announcements that wait for a time, the earliest.
Earliest(t, p) ==
  /\ IsWaiting(index[t][p])
  /\ \A u \in TxHash, q \in Peer : IsWaiting(index[u][q]) => index[t][p].time <= index[u][q].time

\* The back of ByTime: of the selectable ones, the latest.
Latest(t, p) ==
  /\ IsSelectable(index[t][p])
  /\ \A u \in TxHash, q \in Peer : IsSelectable(index[u][q]) => index[u][q].time <= index[t][p].time

Promote(t, p) ==
  /\ pc = "forward"
  /\ Earliest(t, p) /\ index[t][p].time <= now
  /\ index[t][p].state = "CANDIDATE_DELAYED"
  /\ Update(t, PromoteCandidateReady(t, index[t], p))
  /\ UNCHANGED <<sequence, pc, caller, now, dropped, visible, ret, expired>>

Expire(t, p) ==
  /\ pc = "forward"
  /\ Earliest(t, p) /\ index[t][p].time <= now
  /\ index[t][p].state = "REQUESTED"
  /\ Update(t, MakeCompleted(t, index[t], p))
  /\ dropped' = dropped \cup {<<p, t>>}
  /\ UNCHANGED <<sequence, pc, caller, now, visible, ret, expired>>

Forwarded ==
  /\ pc = "forward"
  /\ \A t \in TxHash, p \in Peer : IsWaiting(index[t][p]) => index[t][p].time > now
  /\ pc' = "backward"
  /\ UNCHANGED <<index, peerinfo, sequence, caller, now, dropped, visible, ret, expired>>

Demote(t, p) ==
  /\ pc = "backward"
  /\ Latest(t, p) /\ index[t][p].time > now
  /\ Update(t, ChangeAndReselect(t, index[t], p, "CANDIDATE_DELAYED"))
  /\ UNCHANGED <<sequence, pc, caller, now, dropped, visible, ret, expired>>

\* Mutant: without the second loop of SetTimePoint.
NotBackwarded ==
  /\ pc = "backward"
  /\ pc' = "select"
  /\ UNCHANGED <<index, peerinfo, sequence, caller, now, dropped, visible, ret, expired>>

Backwarded ==
  /\ pc = "backward"
  /\ \A t \in TxHash, p \in Peer : IsSelectable(index[t][p]) => index[t][p].time <= now
  /\ pc' = "select"
  /\ UNCHANGED <<index, peerinfo, sequence, caller, now, dropped, visible, ret, expired>>

\* std::sort by m_sequence.
InSequence(S, seqOf) ==
  CHOOSE s \in [1..Cardinality(S) -> S] :
    \A i, j \in 1..Cardinality(S) : i < j => seqOf[s[i]] < seqOf[s[j]]

\* Mutant: GetRequestable returns every ready candidate of the peer.
SelectReady ==
  /\ pc = "select"
  /\ ret' = InSequence({t \in TxHash : IsSelectable(index[t][caller])},
                       [t \in TxHash |-> index[t][caller].sequence])
  /\ expired' = dropped
  /\ Finish
  /\ UNCHANGED <<index, peerinfo, sequence>>

Select ==
  /\ pc = "select"
  /\ ret' = InSequence({t \in TxHash : index[t][caller].state = "CANDIDATE_BEST"},
                       [t \in TxHash |-> index[t][caller].sequence])
  /\ expired' = dropped
  /\ Finish
  /\ UNCHANGED <<index, peerinfo, sequence>>

Next ==
  \/ \E p \in Peer, t \in TxHash, reqtime \in Time : \E preferred \in Preference[p] :
       ReceivedInv(p, t, preferred, reqtime)
  \/ \E t \in TxHash : ForgetTxHash(t)
  \/ \E p \in Peer, t \in TxHash, expiry \in Time : RequestedTx(p, t, expiry)
  \/ \E p \in Peer, t \in TxHash : ReceivedResponse(p, t)
  \/ \E p \in Peer : DisconnectedPeer(p)
  \/ \E t \in TxHash : EraseOne(t)
  \/ Disconnected
  \/ \E p \in Peer, time \in Time : GetRequestable(p, time)
  \/ \E t \in TxHash, p \in Peer : Promote(t, p) \/ Expire(t, p) \/ Demote(t, p)
  \/ Forwarded
  \/ Backwarded
  \/ Select

Spec == Init /\ [][Next]_vars
-----------------------------------------------------------------------------
(* Properties                                                              *)

Announcement ==
  [state : {"NOTHING", "CANDIDATE_DELAYED", "CANDIDATE_READY", "CANDIDATE_BEST",
            "REQUESTED", "COMPLETED"},
   time : Nat, preferred : BOOLEAN, sequence : Nat]

\* The variables hold values of their types, and a call in progress has a peer.
TypeOK ==
  /\ index \in [TxHash -> [Peer -> Announcement]]
  /\ peerinfo \in [Peer -> [total : Int, completed : Int, requested : Int]]
  /\ sequence \in Nat
  /\ pc \in {"idle", "disconnect", "forward", "backward", "select"}
  /\ caller \in Peer \cup {NoPeer} /\ (pc # "idle" => caller \in Peer)
  /\ now \in Nat
  /\ dropped \subseteq Peer \X TxHash
  /\ visible \in [TxHash -> [Peer -> Announcement]]

\* One transaction's announcements are in order: somebody can still be asked or
\* is being asked; at most one announcement is selected; exactly one is when a
\* candidate is ready; and a CANDIDATE_BEST beats every CANDIDATE_READY.  These
\* are the assertions of Impl::SanityCheck, which neighbour lookups must keep.
RowSanity(t, row) ==
  /\ \A p \in Peer : Tracked(row[p]) =>
       \E q \in Peer : Tracked(row[q]) /\ row[q].state # "COMPLETED"
  /\ \A p, q \in Peer : IsSelected(row[p]) /\ IsSelected(row[q]) => p = q
  /\ \A p \in Peer : row[p].state = "CANDIDATE_READY" => \E q \in Peer : IsSelected(row[q])
  /\ \A p, q \in Peer :
       row[p].state = "CANDIDATE_BEST" /\ row[q].state = "CANDIDATE_READY"
         => Better(t, p, row[p], q, row[q])

\* Impl::SanityCheck holds after every iteration of every loop, not only between
\* calls.
SanityCheck == \A t \in TxHash : RowSanity(t, index[t])

\* RecomputePeerInfo: the counters that decide whether a peer is overloaded are
\* those of the index, whatever was erased, completed or requested.
PeerInfoIsExact ==
  \A p \in Peer :
    peerinfo[p] =
      [total     |-> Cardinality({t \in TxHash : Tracked(index[t][p])}),
       completed |-> Cardinality({t \in TxHash : index[t][p].state = "COMPLETED"}),
       requested |-> Cardinality({t \in TxHash : index[t][p].state = "REQUESTED"})]

\* PostGetRequestableSanityCheck: when GetRequestable reads the index, what waits
\* waits for the future and what is selectable has its reqtime behind it, even
\* when the clock went backwards since the last call.
PostGetRequestableSanityCheck ==
  pc = "select" =>
    \A t \in TxHash, p \in Peer :
      /\ IsWaiting(index[t][p]) => index[t][p].time > now
      /\ IsSelectable(index[t][p]) => index[t][p].time <= now

\* A peer is asked for a transaction at most once per announcement: once asked,
\* or once its answer came, it is never a candidate again until it is forgotten.
NeverAskedTwice ==
  [][\A t \in TxHash, p \in Peer :
       /\ index[t][p].state = "REQUESTED" =>
            index'[t][p].state \in {"REQUESTED", "COMPLETED", "NOTHING"}
       /\ index[t][p].state = "COMPLETED" =>
            index'[t][p].state \in {"COMPLETED", "NOTHING"}]_vars

\* Each call has exactly the effect and the result that the rules of the header
\* give the same call; the loops of DisconnectedPeer and GetRequestable count as
\* one step, taken when they return.
CallsAgree ==
  [][/\ \A p \in Peer, t \in TxHash, reqtime \in Time : \A preferred \in Preference[p] :
          ReceivedInv(p, t, preferred, reqtime) => Abstract!ReceivedInv(p, t, preferred, reqtime)
     /\ \A t \in TxHash : ForgetTxHash(t) => Abstract!ForgetTxHash(t)
     /\ \A p \in Peer, t \in TxHash, expiry \in Time :
          RequestedTx(p, t, expiry) => Abstract!RequestedTx(p, t, expiry)
     /\ \A p \in Peer, t \in TxHash : ReceivedResponse(p, t) => Abstract!ReceivedResponse(p, t)
     /\ Disconnected => Abstract!DisconnectedPeer(caller)
     /\ Select => Abstract!GetRequestable(caller, now)]_vars

\* The index implements the tracker of the header: what the caller can see
\* changes only by the calls of the tracker, never inside a loop.
ImplementsTracker == Abstract!Spec
=============================================================================
