-------------------------- MODULE TxRequestTracker --------------------------
(***************************************************************************)
(* What TxRequestTracker promises its caller (src/txrequest.h): which      *)
(* peer announced which transaction, and whom to ask for it now.  An       *)
(* announcement is a CANDIDATE, REQUESTED or COMPLETED; every call is one  *)
(* atomic step, and GetRequestable is defined by the rules of the header,  *)
(* with no index to keep in order.  TxRequest implements this.             *)
(***************************************************************************)
EXTENDS Integers, FiniteSets

CONSTANTS
  Peer,         \* NodeIds
  TxHash,       \* txids and wtxids
  Time,         \* reqtimes, expiries and readings of the clock
  Preference,   \* bound: values of the preferred flag per peer
  Salt,         \* the salted hash of (txhash, peer) that breaks ties
  MaxSequence   \* bound: announcements ever accepted

VARIABLES
  anns,     \* the announcement of each transaction by each peer
  seq,      \* how many were accepted so far
  ret,      \* what the last call returned: the transactions to request
  expired   \* and the requests it found timed out

vars == <<anns, seq, ret, expired>>

Absent == [state |-> "NOTHING", time |-> 0, preferred |-> FALSE, sequence |-> 0]

Tracked(a) == a.state # "NOTHING"

\* The order of PriorityComputer: preferred peers first, then the salted hash.
Better(t, p, a, q, b) ==
  \/ a.preferred /\ ~b.preferred
  \/ a.preferred = b.preferred /\ Salt[t][p] > Salt[t][q]

\* The transactions of S in the order in which they were announced.
InAnnouncementOrder(S, seqOf) ==
  CHOOSE s \in [1..Cardinality(S) -> S] :
    \A i, j \in 1..Cardinality(S) : i < j => seqOf[s[i]] < seqOf[s[j]]

\* "If only COMPLETED announcements for a given txhash remain, all of them are
\* deleted."
Kept(row) ==
  IF \E p \in Peer : row[p].state \in {"CANDIDATE", "REQUESTED"}
  THEN row
  ELSE [p \in Peer |-> Absent]

Init ==
  /\ anns = [t \in TxHash |-> [p \in Peer |-> Absent]]
  /\ seq = 0
  /\ ret = <<>>
  /\ expired = {}

NoResult == ret' = <<>> /\ expired' = {}

ReceivedInv(p, t, preferred, reqtime) ==
  /\ NoResult
  /\ \/ Tracked(anns[t][p]) /\ UNCHANGED <<anns, seq>>
     \/ /\ ~Tracked(anns[t][p])
        /\ seq < MaxSequence
        /\ anns' = [anns EXCEPT ![t][p] =
             [state |-> "CANDIDATE", time |-> reqtime,
              preferred |-> preferred, sequence |-> seq]]
        /\ seq' = seq + 1

DisconnectedPeer(p) ==
  /\ anns' = [t \in TxHash |-> Kept([anns[t] EXCEPT ![p] = Absent])]
  /\ NoResult
  /\ UNCHANGED seq

ForgetTxHash(t) ==
  /\ anns' = [anns EXCEPT ![t] = [p \in Peer |-> Absent]]
  /\ NoResult
  /\ UNCHANGED seq

\* The announcement becomes REQUESTED; an unexpected earlier request of the same
\* transaction is given up.
Requested(row, p, expiry) ==
  [q \in Peer |->
     IF q = p THEN [row[q] EXCEPT !.state = "REQUESTED", !.time = expiry]
     ELSE IF row[q].state = "REQUESTED" THEN [row[q] EXCEPT !.state = "COMPLETED"]
     ELSE row[q]]

RequestedTx(p, t, expiry) ==
  /\ anns' = IF anns[t][p].state = "CANDIDATE"
             THEN [anns EXCEPT ![t] = Requested(anns[t], p, expiry)]
             ELSE anns
  /\ NoResult
  /\ UNCHANGED seq

ReceivedResponse(p, t) ==
  /\ anns' = IF Tracked(anns[t][p])
             THEN [anns EXCEPT ![t] = Kept([@ EXCEPT ![p].state = "COMPLETED"])]
             ELSE anns
  /\ NoResult
  /\ UNCHANGED seq

TimedOut(a, now) == a.state = "REQUESTED" /\ a.time <= now

\* The announcements of one transaction once requests past their expiry failed.
Expire(row, now) ==
  IF \E p \in Peer : TimedOut(row[p], now)
  THEN Kept([p \in Peer |-> IF TimedOut(row[p], now)
                            THEN [row[p] EXCEPT !.state = "COMPLETED"] ELSE row[p]])
  ELSE row

\* A candidate whose reqtime has passed.
Viable(a, now) == a.state = "CANDIDATE" /\ a.time <= now

\* Peer p is the one to ask for t now: nobody is being asked, and p is the best
\* of the viable candidates.
IsRequestable(t, row, p, now) ==
  /\ Viable(row[p], now)
  /\ \A q \in Peer : row[q].state # "REQUESTED"
  /\ \A q \in Peer \ {p} : Viable(row[q], now) => Better(t, p, row[p], q, row[q])

GetRequestable(p, now) ==
  LET after == [t \in TxHash |-> Expire(anns[t], now)] IN
  /\ anns' = after
  /\ ret' = InAnnouncementOrder({t \in TxHash : IsRequestable(t, after[t], p, now)},
                                [t \in TxHash |-> after[t][p].sequence])
  /\ expired' = {x \in Peer \X TxHash : TimedOut(anns[x[2]][x[1]], now)}
  /\ UNCHANGED seq

Next ==
  \/ \E p \in Peer, t \in TxHash, reqtime \in Time : \E preferred \in Preference[p] :
       ReceivedInv(p, t, preferred, reqtime)
  \/ \E p \in Peer : DisconnectedPeer(p)
  \/ \E t \in TxHash : ForgetTxHash(t)
  \/ \E p \in Peer, t \in TxHash, expiry \in Time : RequestedTx(p, t, expiry)
  \/ \E p \in Peer, t \in TxHash : ReceivedResponse(p, t)
  \/ \E p \in Peer, now \in Time : GetRequestable(p, now)

Spec == Init /\ [][Next]_vars
=============================================================================
