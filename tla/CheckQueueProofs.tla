-------------------------- MODULE CheckQueueProofs --------------------------
(***************************************************************************)
(* Proofs about the check queue for any number of workers, masters,        *)
(* sessions and checks and for every batch size: nTodo counts the checks   *)
(* that were not executed, the thread counts are right, a session starts   *)
(* clean, and Complete returns the verdict of its own session.             *)
(***************************************************************************)
EXTENDS CheckQueue, FiniteSetTheorems, TLAPS

-----------------------------------------------------------------------------
(* The inductive invariant.                                                *)

Sleeping == {t \in Threads : pc[t] \in {"wait", "woken"}}
InLoop == {t \in Threads : pc[t] \in {"wait", "woken", "work", "finish"}}

\* The checks that are not in the batch of t.
Rest(t) == Elems(queue) \cup UNION {Elems(vChecks[u]) : u \in Threads \ {t}}

Distinct(s) == \A i, j \in DOMAIN s : s[i] = s[j] => i = j

Places == {"idle", "own", "notify_one", "notify_all", "start", "wait", "woken",
           "work", "finish", "returned", "done"}

\* The lock of the control and the destructor.
ControlOK ==
    /\ control \in Masters \cup {NoThread}
    /\ dtor \in {"alive", "notify", "join", "gone"}
    /\ m_request_stop \in BOOLEAN /\ (m_request_stop <=> dtor # "alive")
    /\ m_request_stop => control = NoThread
    /\ pc \in [Threads -> Places]
    /\ \A w \in Workers : pc[w] \in {"start", "wait", "woken", "work", "finish", "done"}
    /\ \A m \in Masters : pc[m] # "done" /\ (pc[m] # "idle" <=> control = m)
    /\ session \in Nat /\ added \in Nat /\ failing \in BOOLEAN

\* The counts of threads; a thread that stops does not leave nTotal.
CountsOK ==
    /\ nIdle = Cardinality(Sleeping)
    /\ nTotal \in Nat
    /\ ~m_request_stop => nTotal = Cardinality(InLoop)

\* A check is in one place, and a thread has a batch just while it works.
BatchesOK ==
    /\ queue \in Seq(Check)
    /\ vChecks \in [Threads -> Seq(Check)]
    /\ Distinct(queue)
    /\ \A t \in Threads : /\ Distinct(vChecks[t])
                          /\ Elems(vChecks[t]) \cap Rest(t) = {}
                          /\ vChecks[t] # <<>> <=> pc[t] \in {"work", "finish"}
    /\ \A c \in Pending : c.id <= added /\ c.session = session

\* No master is between the start of a session and the return of Complete.
Quiet == \A m \in Masters : pc[m] \in {"idle", "returned"}

\* nTodo counts them.
TodoOK ==
    /\ IsFiniteSet(Pending)
    /\ nTodo = Cardinality(Pending)
    /\ Quiet => nTodo = 0

\* A failure is reported, or still in a check that is to be executed or
\* reported; a thread that skips its batch does so because one was reported.
ResultOK ==
    /\ m_result \in {NoResult, session}
    /\ m_result = session => failing
    /\ Quiet => m_result = NoResult
    /\ do_work \in [Threads -> BOOLEAN]
    /\ local_result \in [Threads -> Nat \cup {NoResult}]
    /\ \A c \in Pending : c.fails => failing
    /\ \A t \in Threads : pc[t] \in {"work", "finish"} /\ ~do_work[t] => m_result = session
    /\ \A t \in Threads : pc[t] = "finish" /\ do_work[t] =>
          local_result[t] = IF \E c \in Elems(vChecks[t]) : c.fails THEN session ELSE NoResult
    /\ failing /\ m_result = NoResult =>
          Quiet \/ \E c \in Pending : c.fails

ReturnedOK ==
    /\ returned \in [session : Nat, expected : Nat \cup {NoResult}, result : Nat \cup {NoResult}]
    /\ returned.result = returned.expected

IInv == ControlOK /\ CountsOK /\ BatchesOK /\ TodoOK /\ ResultOK /\ ReturnedOK

-----------------------------------------------------------------------------
(* Sequences and sets.                                                     *)

\* A sequence cut in two: its elements are those of the parts.
LEMMA Cut ==
    ASSUME NEW S, NEW s \in Seq(S), NEW n \in 0 .. Len(s), Distinct(s)
    PROVE  LET a == SubSeq(s, 1, n)
               b == SubSeq(s, n + 1, Len(s))
           IN  /\ a \in Seq(S) /\ b \in Seq(S)
               /\ Len(a) = n /\ Len(b) = Len(s) - n
               /\ Elems(a) \cup Elems(b) = Elems(s)
               /\ Elems(a) \cap Elems(b) = {}
               /\ Distinct(a) /\ Distinct(b)
  <1> DEFINE a == SubSeq(s, 1, n)
             b == SubSeq(s, n + 1, Len(s))
  <1>1. /\ a \in Seq(S) /\ Len(a) = n /\ DOMAIN a = 1 .. n
        /\ \A i \in 1 .. n : a[i] = s[i]
    OBVIOUS
  <1>2. /\ b \in Seq(S) /\ Len(b) = Len(s) - n /\ DOMAIN b = 1 .. Len(s) - n
        /\ \A i \in 1 .. Len(s) - n : b[i] = s[n + i]
    OBVIOUS
  <1> HIDE DEF a, b
  <1>3. /\ DOMAIN s = 1 .. Len(s) /\ Len(s) \in Nat /\ n \in Nat /\ n <= Len(s)
        /\ \A i, j \in 1 .. Len(s) : s[i] = s[j] => i = j
    BY DEF Distinct
  <1>4. Elems(a) \cup Elems(b) = Elems(s)
    <2>1. ASSUME NEW i \in 1 .. Len(s) PROVE s[i] \in Elems(a) \cup Elems(b)
      <3>1. CASE i <= n
        BY <1>1, <3>1 DEF Elems
      <3>2. CASE i > n
        <4>1. i - n \in 1 .. Len(s) - n /\ n + (i - n) = i
          BY <3>2
        <4> QED BY Zenon, <4>1, <1>2 DEF Elems
      <3> QED BY <3>1, <3>2
    <2>2. \A i \in 1 .. n : a[i] = s[i] /\ i \in 1 .. Len(s)
      BY <1>1, <1>3
    <2>3. \A i \in 1 .. Len(s) - n : b[i] = s[n + i] /\ n + i \in 1 .. Len(s)
      BY <1>2, <1>3
    <2>4. Elems(s) \subseteq Elems(a) \cup Elems(b)
      BY <2>1, <1>3 DEF Elems
    <2>5. Elems(a) \subseteq Elems(s)
      BY <2>2, <1>1, <1>3 DEF Elems
    <2>6. Elems(b) \subseteq Elems(s)
      <3>1. ASSUME NEW i \in 1 .. Len(s) - n PROVE b[i] \in Elems(s)
        <4>1. b[i] = s[n + i] /\ n + i \in DOMAIN s
          BY <2>3, <1>3
        <4> QED BY <4>1 DEF Elems
      <3> QED BY <3>1, <1>2 DEF Elems
    <2> QED BY <2>4, <2>5, <2>6
  <1>5. Elems(a) \cap Elems(b) = {}
    <2>1. ASSUME NEW i \in 1 .. n, NEW j \in 1 .. Len(s) - n PROVE a[i] # b[j]
      <3>1. i \in 1 .. Len(s) /\ n + j \in 1 .. Len(s) /\ i # n + j
        BY <1>3
      <3> QED BY <3>1, <1>1, <1>2, <1>3
    <2> QED BY <2>1, <1>1, <1>2 DEF Elems
  <1>6. Distinct(a)
    <2>1. \A i \in 1 .. n : i \in 1 .. Len(s)
      BY <1>3
    <2> QED BY <2>1, <1>1, <1>3 DEF Distinct
  <1>7. Distinct(b)
    <2>1. SUFFICES ASSUME NEW i \in 1 .. Len(s) - n, NEW j \in 1 .. Len(s) - n, b[i] = b[j]
                   PROVE  i = j
      BY <1>2 DEF Distinct
    <2>2. n + i \in 1 .. Len(s) /\ n + j \in 1 .. Len(s)
      BY <1>3
    <2>3. n + i = n + j
      BY <2>1, <2>2, <1>2, <1>3
    <2> QED BY <2>3, <1>3
  <1> QED BY <1>1, <1>2, <1>4, <1>5, <1>6, <1>7 DEF a, b

\* As many elements as positions.
LEMMA DistinctCard ==
    ASSUME NEW S, NEW s \in Seq(S), Distinct(s)
    PROVE  IsFiniteSet(Elems(s)) /\ Cardinality(Elems(s)) = Len(s)
  <1>1. s \in Bijection(1 .. Len(s), Elems(s))
    BY DEF Bijection, Injection, IsInjective, Surjection, Elems, Distinct
  <1>2. IsFiniteSet(1 .. Len(s)) /\ Cardinality(1 .. Len(s)) = Len(s)
    <2>1. PICK n \in Nat : n = Len(s)
      OBVIOUS
    <2>2. n \in Int /\ 1 \in Int /\ (IF 1 > n THEN 0 ELSE n - 1 + 1) = n
      BY ONLY n \in Nat
    <2>3. IsFiniteSet(1 .. n) /\ Cardinality(1 .. n) = n
      BY Zenon, <2>2, FS_Interval
    <2> QED BY Zenon, <2>1, <2>3
  <1>3. ExistsBijection(1 .. Len(s), Elems(s))
    BY Zenon, <1>1 DEF ExistsBijection
  <1>4. IsFiniteSet(Elems(s)) /\ Cardinality(Elems(s)) = Cardinality(1 .. Len(s))
    BY Zenon, <1>2, <1>3, FS_Bijection
  <1> QED BY ONLY <1>2, <1>4

\* All the threads together, and any part of them, are finitely many.
LEMMA ThreadsFinite == IsFiniteSet(Threads) /\ IsFiniteSet(Sleeping) /\ IsFiniteSet(InLoop)
  <1>1. IsFiniteSet(Threads)
    BY Zenon, ThreadsAssumption, FS_Union DEF Threads
  <1> QED BY <1>1, FS_Subset DEF Sleeping, InLoop

\* The batch is not empty and not longer than the queue.
LEMMA BatchLenFits ==
    ASSUME NEW total \in Nat, NEW idle \in Nat, queue \in Seq(Check), queue # <<>>
    PROVE  BatchLen(total, idle) \in 1 .. Len(queue)
  <1> DEFINE n == Len(queue)
             k == total + idle + 1
  <1>1. n \in Nat \ {0} /\ k \in Nat \ {0}
    OBVIOUS
  <1> HIDE DEF n, k
  <1>2. n \div k \in Int /\ n \div k <= n
    BY <1>1
  <1> QED BY <1>1, <1>2, BatchAssumption DEF BatchLen, Greatest, Least, n, k

\* Pending is a thread's batch and the rest.
LEMMA PendingSplit ==
    ASSUME NEW t \in Threads
    PROVE  Pending = Rest(t) \cup Elems(vChecks[t])
  BY DEF Pending, Rest

-----------------------------------------------------------------------------
(* The common part of the critical section of Loop.                        *)

\* What holds where the first iteration, the return from cond.wait and the
\* clean-up meet, at the head of the inner loop.
Called(t, pcs, result, todo, total, idle) ==
    /\ pc[t] \in {"start", "woken", "finish"} /\ pcs \in [Threads -> Places]
    /\ \A u \in Threads : pcs[u] = pc[u] \/ (pc[u] = "wait" /\ pcs[u] = "woken")
    /\ todo = Cardinality(Rest(t))
    /\ result \in {NoResult, session}
    /\ result = session => failing
    /\ m_result = session => result = session
    /\ Quiet => result = NoResult
    /\ failing /\ result = NoResult => Quiet \/ \E c \in Rest(t) : c.fails
    /\ idle = Cardinality(Sleeping \ {t})
    /\ total \in Nat
    /\ ~m_request_stop => total = Cardinality(InLoop \cup {t})

GoesOn(t, pcs, result, todo, total, idle) ==
    /\ Called(t, pcs, result, todo, total, idle)
    /\ Decide(t, pcs, result, todo, total, idle)
    /\ nTodo' = todo
    /\ local_result' \in {local_result, [local_result EXCEPT ![t] = NoResult]}
    /\ UNCHANGED loopFrame

\* Where the threads are afterwards.
LEMMA DecidePlaces ==
    ASSUME IInv, NEW t \in Threads, NEW pcs, NEW result, NEW todo, NEW total, NEW idle,
           GoesOn(t, pcs, result, todo, total, idle)
    PROVE  /\ pc' \in [Threads -> Places]
           /\ \A u \in Threads \ {t} : pc'[u] = pc[u] \/ (pc[u] = "wait" /\ pc'[u] = "woken")
           /\ \/ pc'[t] = "returned" /\ t \in Masters /\ Leave(t, pcs, result, todo, total, idle)
              \/ pc'[t] = "wait" /\ Wait(t, pcs, result, todo, total, idle)
              \/ pc'[t] = "done" /\ t \in Workers /\ Stop(t, pcs, result, total, idle)
              \/ pc'[t] = "work" /\ Take(t, pcs, result, total, idle)
  <1>1. pcs \in [Threads -> Places]
    BY DEF GoesOn, Called
  <1>2. m_request_stop => t \in Workers
    BY ThreadsAssumption DEF IInv, ControlOK, GoesOn, Called, Threads
  <1>3. CASE Leave(t, pcs, result, todo, total, idle)
    BY <1>1, <1>3 DEF GoesOn, Called, Leave, Places
  <1>4. CASE Wait(t, pcs, result, todo, total, idle)
    BY <1>1, <1>4 DEF GoesOn, Called, Wait, Places
  <1>5. CASE Stop(t, pcs, result, total, idle)
    BY Zenon, <1>1, <1>2, <1>5 DEF GoesOn, Called, Stop, Places
  <1>6. CASE Take(t, pcs, result, total, idle)
    BY Zenon, <1>1, <1>6 DEF GoesOn, Called, Take, Places
  <1> QED BY <1>3, <1>4, <1>5, <1>6 DEF GoesOn, Decide

\* The lock and the destructor are not touched.
LEMMA DecideControl ==
    ASSUME IInv, NEW t \in Threads, NEW pcs, NEW result, NEW todo, NEW total, NEW idle,
           GoesOn(t, pcs, result, todo, total, idle)
    PROVE  ControlOK'
  <1>1. UNCHANGED <<control, dtor, m_request_stop, session, added, failing>>
    BY DEF GoesOn, loopFrame
  <1>2. pc[t] \in {"start", "woken", "finish"}
    BY DEF GoesOn, Called
  <1>3. \A w \in Workers : pc'[w] \in {"start", "wait", "woken", "work", "finish", "done"}
    BY Zenon, DecidePlaces, ThreadsAssumption DEF IInv, ControlOK, Threads
  <1>4. \A m \in Masters : pc'[m] # "done" /\ (pc'[m] # "idle" <=> control = m)
    BY <1>2, DecidePlaces, ThreadsAssumption DEF IInv, ControlOK, Threads
  <1> QED BY <1>1, <1>3, <1>4, DecidePlaces DEF IInv, ControlOK

\* The thread counts.
LEMMA DecideCounts ==
    ASSUME IInv, NEW t \in Threads, NEW pcs, NEW result, NEW todo, NEW total, NEW idle,
           GoesOn(t, pcs, result, todo, total, idle)
    PROVE  CountsOK'
  <1>1. /\ Sleeping' \ {t} = Sleeping \ {t}
        /\ InLoop' \ {t} = InLoop \ {t}
    BY DecidePlaces DEF IInv, ControlOK, Sleeping, InLoop
  <1>2. /\ idle = Cardinality(Sleeping \ {t}) /\ total \in Nat
        /\ ~m_request_stop => total = Cardinality(InLoop \cup {t})
        /\ m_request_stop' = m_request_stop
    BY DEF GoesOn, Called, loopFrame
  <1>3. /\ IsFiniteSet(Sleeping \ {t}) /\ IsFiniteSet(InLoop \cup {t})
        /\ Cardinality(Sleeping \ {t}) \in Nat
    BY Zenon, ThreadsFinite, FS_RemoveElement, FS_AddElement, FS_CardinalityType
  <1>4. CASE pc'[t] = "returned" /\ Leave(t, pcs, result, todo, total, idle)
    <2>1. Sleeping' = Sleeping \ {t} /\ InLoop' = (InLoop \cup {t}) \ {t}
      BY <1>1, <1>4 DEF Sleeping, InLoop
    <2>2. Cardinality(InLoop') = total - 1
      BY Zenon, <2>1, <1>2, <1>3, <1>4, FS_RemoveElement DEF Leave
    <2>3. IsFiniteSet(InLoop')
      BY Zenon, <2>1, <1>3, FS_RemoveElement
    <2>4. total - 1 \in Nat
      BY <2>2, <2>3, FS_CardinalityType
    <2> QED BY <2>1, <2>2, <2>4, <1>2, <1>4 DEF CountsOK, Leave
  <1>5. CASE pc'[t] = "wait" /\ Wait(t, pcs, result, todo, total, idle)
    <2>1. Sleeping' = (Sleeping \ {t}) \cup {t} /\ InLoop' = InLoop \cup {t}
      BY <1>1, <1>5 DEF Sleeping, InLoop
    <2>2. Cardinality(Sleeping') = idle + 1
      BY Zenon, <2>1, <1>2, <1>3, FS_AddElement
    <2> QED BY <2>1, <2>2, <1>2, <1>5 DEF CountsOK, Wait
  <1>6. CASE pc'[t] = "done" /\ Stop(t, pcs, result, total, idle)
    <2>1. Sleeping' = Sleeping \ {t}
      BY <1>1, <1>6 DEF Sleeping
    <2> QED BY <2>1, <1>2, <1>6 DEF CountsOK, Stop
  <1>7. CASE pc'[t] = "work" /\ Take(t, pcs, result, total, idle)
    <2>1. Sleeping' = Sleeping \ {t} /\ InLoop' = InLoop \cup {t}
      BY Zenon, <1>1, <1>7 DEF Sleeping, InLoop
    <2> QED BY <2>1, <1>2, <1>7 DEF CountsOK, Take
  <1> QED BY Zenon, <1>4, <1>5, <1>6, <1>7, DecidePlaces

\* Every check stays in one place.
LEMMA DecideBatches ==
    ASSUME IInv, NEW t \in Threads, NEW pcs, NEW result, NEW todo, NEW total, NEW idle,
           GoesOn(t, pcs, result, todo, total, idle)
    PROVE  BatchesOK' /\ Pending' = Rest(t)
  <1>1. /\ queue \in Seq(Check) /\ vChecks \in [Threads -> Seq(Check)] /\ Distinct(queue)
        /\ \A u \in Threads : /\ Distinct(vChecks[u])
                              /\ Elems(vChecks[u]) \cap Rest(u) = {}
                              /\ vChecks[u] # <<>> <=> pc[u] \in {"work", "finish"}
        /\ \A c \in Pending : c.id <= added /\ c.session = session
    BY DEF IInv, BatchesOK
  <1>2. UNCHANGED <<added, session>>
    BY DEF GoesOn, loopFrame
  <1>3. \A u \in Threads \ {t} : pc'[u] \in {"work", "finish"} <=> pc[u] \in {"work", "finish"}
    BY DecidePlaces
  <1>4. Rest(t) \subseteq Pending
    BY Zenon, PendingSplit
  <1>5. SUFFICES ASSUME NEW q \in Seq(Check), NEW v \in Seq(Check),
                        queue' = q, vChecks' = [vChecks EXCEPT ![t] = v],
                        Elems(q) \cup Elems(v) = Elems(queue), Elems(q) \cap Elems(v) = {},
                        Distinct(q), Distinct(v),
                        v # <<>> <=> pc'[t] \in {"work", "finish"}
                 PROVE  BatchesOK' /\ Pending' = Rest(t)
    <2>1. /\ <<>> \in Seq(Check) /\ Elems(<<>>) = {} /\ Distinct(<<>>)
      BY DEF Elems, Distinct
    <2>2. CASE pc'[t] = "returned" /\ Leave(t, pcs, result, todo, total, idle)
      BY Zenon, <2>1, <2>2, <1>1, <1>5 DEF Leave
    <2>3. CASE pc'[t] = "wait" /\ Wait(t, pcs, result, todo, total, idle)
      BY Zenon, <2>1, <2>3, <1>1, <1>5 DEF Wait
    <2>4. CASE pc'[t] = "done" /\ Stop(t, pcs, result, total, idle)
      BY Zenon, <2>1, <2>4, <1>1, <1>5 DEF Stop
    <2>5. CASE pc'[t] = "work" /\ Take(t, pcs, result, total, idle)
      <3>1. total \in Nat /\ idle \in Nat
        BY Zenon, ThreadsFinite, FS_RemoveElement, FS_CardinalityType DEF GoesOn, Called
      <3>2. PICK n : n = Len(queue) - BatchLen(total, idle)
        OBVIOUS
      <3>3. n \in 0 .. Len(queue) /\ n < Len(queue) /\ Len(queue) \in Nat
        <4>1. BatchLen(total, idle) \in 1 .. Len(queue)
          BY Zenon, <3>1, <2>5, <1>1, BatchLenFits DEF Take
        <4>2. Len(queue) \in Nat
          BY <1>1
        <4> QED BY <4>1, <4>2, <3>2
      <3>4. /\ vChecks' = [vChecks EXCEPT ![t] = SubSeq(queue, n + 1, Len(queue))]
            /\ queue' = SubSeq(queue, 1, n)
        BY Zenon, <3>2, <2>5 DEF Take
      <3>5. PICK a, b : a = SubSeq(queue, 1, n) /\ b = SubSeq(queue, n + 1, Len(queue))
        BY Zenon
      <3>6. /\ a \in Seq(Check) /\ b \in Seq(Check) /\ Len(b) = Len(queue) - n
            /\ Elems(a) \cup Elems(b) = Elems(queue) /\ Elems(a) \cap Elems(b) = {}
            /\ Distinct(a) /\ Distinct(b)
        BY <3>3, <3>5, <1>1, Cut
      <3>7. b # <<>>
        BY <3>3, <3>6
      <3> QED BY Zenon, <3>4, <3>5, <3>6, <3>7, <2>5, <1>5
    <2> QED BY Zenon, <2>2, <2>3, <2>4, <2>5, DecidePlaces
  <1>6. /\ vChecks' \in [Threads -> Seq(Check)]
        /\ vChecks'[t] = v /\ \A u \in Threads \ {t} : vChecks'[u] = vChecks[u]
    BY <1>1, <1>5
  <1>7. Pending' = Rest(t)
    BY <1>5, <1>6 DEF Pending, Rest
  <1>8. ASSUME NEW u \in Threads
        PROVE  Elems(vChecks'[u]) \cap Rest(u)' = {}
    <2>1. Rest(u)' = Elems(q) \cup UNION {Elems(vChecks'[w]) : w \in Threads \ {u}}
      BY <1>5 DEF Rest
    <2>2. CASE u = t
      <3>1. ASSUME NEW w \in Threads \ {t} PROVE Elems(vChecks[w]) \cap Elems(queue) = {}
        BY <1>1 DEF Rest
      <3> QED BY <2>1, <2>2, <3>1, <1>5, <1>6
    <2>3. CASE u # t
      <3>1. Elems(vChecks[u]) \cap Elems(queue) = {}
        BY <1>1 DEF Rest
      <3>2. \A w \in Threads \ {u} : Elems(vChecks[u]) \cap Elems(vChecks[w]) = {}
        BY <1>1 DEF Rest
      <3> QED BY <2>1, <2>3, <3>1, <3>2, <1>5, <1>6
    <2> QED BY <2>2, <2>3
  <1>9. ASSUME NEW u \in Threads
        PROVE  /\ Distinct(vChecks'[u])
               /\ vChecks'[u] # <<>> <=> pc'[u] \in {"work", "finish"}
    BY Zenon, <1>1, <1>3, <1>5, <1>6
  <1>10. \A c \in Pending' : c.id <= added' /\ c.session = session'
    BY Zenon, <1>1, <1>2, <1>4, <1>7
  <1>11. Distinct(queue)' /\ queue' \in Seq(Check)
    BY Zenon, <1>5 DEF Distinct
  <1>12. \A u \in Threads : Distinct(vChecks[u])'
    BY <1>9 DEF Distinct
  <1>13. \A u \in Threads : (Elems(vChecks[u]) \cap Rest(u) = {})'
    BY Zenon, <1>8 DEF Elems
  <1> QED BY Zenon, <1>6, <1>7, <1>9, <1>10, <1>11, <1>12, <1>13 DEF BatchesOK

\* No master is left in a session only if this one leaves.
LEMMA DecideQuiet ==
    ASSUME IInv, NEW t \in Threads, NEW pcs, NEW result, NEW todo, NEW total, NEW idle,
           GoesOn(t, pcs, result, todo, total, idle)
    PROVE  /\ Quiet => Quiet'
           /\ Quiet' => Quiet \/ Leave(t, pcs, result, todo, total, idle)
  <1>1. pc[t] \in {"start", "woken", "finish"}
    BY DEF GoesOn, Called
  <1> QED BY <1>1, DecidePlaces DEF Quiet, Threads

\* nTodo, which the caller has brought up to date.
LEMMA DecideTodo ==
    ASSUME IInv, NEW t \in Threads, NEW pcs, NEW result, NEW todo, NEW total, NEW idle,
           GoesOn(t, pcs, result, todo, total, idle)
    PROVE  TodoOK'
  <1>1. Rest(t) \subseteq Pending /\ IsFiniteSet(Pending) /\ nTodo = Cardinality(Pending)
    BY PendingSplit DEF IInv, TodoOK
  <1>2. IsFiniteSet(Rest(t))
    BY <1>1, FS_Subset
  <1>3. nTodo' = Cardinality(Rest(t)) /\ nTodo' = todo
    BY DEF GoesOn, Called
  <1>4. Quiet => Rest(t) = {}
    BY <1>1, FS_EmptySet DEF IInv, TodoOK
  <1>5. Quiet' => nTodo' = 0
    BY Zenon, <1>3, <1>4, DecideQuiet, FS_EmptySet DEF Leave
  <1> QED BY Zenon, <1>2, <1>3, <1>5, DecideBatches DEF TodoOK

\* The master leaves when nothing is left to do in any thread.
LEMMA LeaveEmpty ==
    ASSUME IInv, NEW t \in Threads, NEW pcs, NEW result, NEW todo, NEW total, NEW idle,
           GoesOn(t, pcs, result, todo, total, idle),
           Leave(t, pcs, result, todo, total, idle)
    PROVE  /\ Rest(t) = {} /\ control = t
           /\ \A u \in Threads \ {t} : pc[u] \notin {"work", "finish"}
           /\ \A m \in Masters \ {t} : pc[m] = "idle"
           /\ result = IF failing THEN session ELSE NoResult
  <1>1. Rest(t) \subseteq Pending /\ IsFiniteSet(Pending)
    BY PendingSplit DEF IInv, TodoOK
  <1>2. Rest(t) = {}
    BY Zenon, <1>1, FS_Subset, FS_EmptySet DEF GoesOn, Called, Leave
  <1>3. t \in Masters /\ control = t
    BY DEF IInv, ControlOK, GoesOn, Called, Leave
  <1>4. ASSUME NEW u \in Threads \ {t}, pc[u] \in {"work", "finish"} PROVE FALSE
    <2>1. vChecks[u] \in Seq(Check) /\ vChecks[u] # <<>>
      BY <1>4 DEF IInv, BatchesOK
    <2>2. vChecks[u][1] \in Elems(vChecks[u])
      BY <2>1 DEF Elems
    <2> QED BY <2>2, <1>2 DEF Rest
  <1>5. \A m \in Masters \ {t} : pc[m] = "idle"
    BY <1>3 DEF IInv, ControlOK
  <1>6. result = IF failing THEN session ELSE NoResult
    BY <1>2, <1>3, BatchAssumption DEF GoesOn, Called, IInv, ControlOK, Quiet
  <1> QED BY <1>2, <1>3, <1>4, <1>5, <1>6

\* No failure is lost and none invented.
LEMMA DecideResult ==
    ASSUME IInv, NEW t \in Threads, NEW pcs, NEW result, NEW todo, NEW total, NEW idle,
           GoesOn(t, pcs, result, todo, total, idle)
    PROVE  ResultOK'
  <1>1. /\ UNCHANGED <<control, session, failing>>
        /\ Pending' = Rest(t) /\ Rest(t) \subseteq Pending
    BY Zenon, DecideBatches, PendingSplit DEF GoesOn, loopFrame
  <1>2. /\ local_result' \in [Threads -> Nat \cup {NoResult}]
        /\ \A u \in Threads \ {t} : local_result'[u] = local_result[u]
    BY Zenon DEF GoesOn, IInv, ResultOK
  <1>3. \A c \in Pending' : c.fails => failing'
    BY <1>1 DEF IInv, ResultOK
  <1>4. \A u \in Threads \ {t} : pc'[u] \in {"work", "finish"} => pc'[u] = pc[u]
    BY DecidePlaces
  <1>5. pc'[t] # "finish"
    BY DecidePlaces
  <1>6. /\ result \in {NoResult, session} /\ (result = session => failing)
        /\ m_result = session => result = session
        /\ Quiet => result = NoResult
    BY Zenon DEF GoesOn, Called
  <1>7. \A u \in Threads \ {t} : vChecks'[u] = vChecks[u]
    BY Zenon DEF GoesOn, Decide, Leave, Wait, Stop, Take, IInv, BatchesOK
  <1>8. \A u \in Threads \ {t} : do_work'[u] = do_work[u]
    BY Zenon DEF GoesOn, Decide, Leave, Wait, Stop, Take, IInv, ResultOK
  <1>9. do_work' \in [Threads -> BOOLEAN]
    BY Zenon DEF GoesOn, Decide, Leave, Wait, Stop, Take, IInv, ResultOK
  <1>10. ASSUME NEW u \in Threads, pc'[u] = "finish", do_work'[u]
         PROVE  local_result'[u] = IF \E c \in Elems(vChecks'[u]) : c.fails THEN session' ELSE NoResult
    <2>1. u # t /\ pc[u] = "finish" /\ do_work[u]
      BY Zenon, <1>4, <1>5, <1>8, <1>10
    <2>2. local_result[u] = IF \E c \in Elems(vChecks[u]) : c.fails THEN session ELSE NoResult
      BY Zenon, <2>1 DEF IInv, ResultOK
    <2>3. local_result'[u] = local_result[u] /\ vChecks'[u] = vChecks[u] /\ session' = session
      BY Zenon, <1>1, <1>2, <1>7, <2>1
    <2> QED BY Zenon, <2>2, <2>3
  <1>11. CASE Leave(t, pcs, result, todo, total, idle)
    <2>1. m_result' = NoResult /\ pc'[t] = "returned" /\ control = t
      <3>1. pcs \in [Threads -> Places]
        BY Zenon DEF GoesOn, Called
      <3>2. m_result' = NoResult /\ pc' = [pcs EXCEPT ![t] = "returned"]
        BY Zenon, <1>11 DEF Leave
      <3> QED BY Zenon, <1>11, <3>1, <3>2, LeaveEmpty
    <2>2. \A u \in Threads : pc'[u] \notin {"work", "finish"}
      BY <2>1, <1>4, <1>11, LeaveEmpty
    <2>3. Quiet'
      BY Zenon, <2>1, <1>11, LeaveEmpty, DecidePlaces DEF Threads, Quiet
    <2>4. NoResult # session'
      BY Zenon, <1>1, BatchAssumption DEF IInv, ControlOK
    <2> QED BY <2>1, <2>2, <2>3, <2>4, <1>2, <1>3, <1>9 DEF ResultOK
  <1>12. CASE ~Leave(t, pcs, result, todo, total, idle)
    <2>1. m_result' = result
      BY <1>12 DEF GoesOn, Decide, Wait, Stop, Take
    <2>2. ASSUME NEW u \in Threads, pc'[u] \in {"work", "finish"}, ~do_work'[u]
          PROVE  m_result' = session'
      <3>1. CASE u = t
        <4>1. Take(t, pcs, result, total, idle)
          BY <2>2, <3>1, <1>12, DecidePlaces
        <4>2. do_work'[t] = (result = NoResult)
          BY <4>1 DEF Take, IInv, ResultOK
        <4> QED BY Zenon, <2>1, <2>2, <3>1, <4>2, <1>1, <1>6
      <3>2. CASE u # t
        BY Zenon, <2>1, <2>2, <3>2, <1>1, <1>4, <1>6, <1>8 DEF IInv, ResultOK
      <3> QED BY Zenon, <3>1, <3>2
    <2>3. failing' /\ m_result' = NoResult => Quiet' \/ \E c \in Pending' : c.fails
      <3>1. failing /\ result = NoResult => Quiet \/ \E c \in Rest(t) : c.fails
        BY DEF GoesOn, Called
      <3> QED BY Zenon, <2>1, <3>1, <1>1, DecideQuiet
    <2>5. Quiet' => m_result' = NoResult
      BY Zenon, <2>1, <1>6, <1>12, DecideQuiet
    <2>4. m_result' \in {NoResult, session'} /\ (m_result' = session' => failing')
      BY <2>1, <1>1, <1>6
    <2> QED BY Zenon, <2>2, <2>3, <2>4, <2>5, <1>2, <1>3, <1>9, <1>10 DEF ResultOK, Elems
  <1> QED BY Zenon, <1>11, <1>12

\* What Complete returns.
LEMMA DecideReturned ==
    ASSUME IInv, NEW t \in Threads, NEW pcs, NEW result, NEW todo, NEW total, NEW idle,
           GoesOn(t, pcs, result, todo, total, idle)
    PROVE  ReturnedOK'
  <1>1. CASE Leave(t, pcs, result, todo, total, idle)
    <2>1. returned' = [session |-> session, result |-> result,
                       expected |-> IF failing THEN session ELSE NoResult]
      BY <1>1 DEF Leave
    <2>2. result = IF failing THEN session ELSE NoResult
      BY <1>1, LeaveEmpty
    <2> QED BY Zenon, <2>1, <2>2 DEF ReturnedOK, IInv, ControlOK
  <1>2. CASE ~Leave(t, pcs, result, todo, total, idle)
    <2>1. returned' = returned
      BY Zenon, <1>2 DEF GoesOn, Decide, Wait, Stop, Take
    <2> QED BY Zenon, <2>1 DEF ReturnedOK, IInv
  <1> QED BY Zenon, <1>1, <1>2

\* The whole invariant.
LEMMA DecideStep ==
    ASSUME IInv, NEW t \in Threads, NEW pcs, NEW result, NEW todo, NEW total, NEW idle,
           GoesOn(t, pcs, result, todo, total, idle)
    PROVE  IInv'
  BY Zenon, DecideControl, DecideCounts, DecideBatches, DecideTodo, DecideResult, DecideReturned DEF IInv

-----------------------------------------------------------------------------
(* The ways into the common part.                                          *)

\* A thread without a batch sees all the pending checks.
LEMMA NoBatch ==
    ASSUME IInv, NEW t \in Threads, pc[t] \notin {"work", "finish"}
    PROVE  Rest(t) = Pending
  <1>1. vChecks[t] = <<>>
    BY DEF IInv, BatchesOK
  <1>2. Elems(vChecks[t]) = {}
    BY <1>1 DEF Elems
  <1> QED BY <1>2, PendingSplit

\* The first iteration.
LEMMA EnterStep ==
    ASSUME IInv, NEW t \in Threads, Enter(t)
    PROVE  IInv'
  <1>1. PICK total : total = nTotal + 1
    OBVIOUS
  <1>2. pc[t] = "start" /\ Rest(t) = Pending
    BY NoBatch DEF Enter
  <1>3. Sleeping \ {t} = Sleeping /\ t \notin InLoop
    BY <1>2 DEF Sleeping, InLoop
  <1>4. total \in Nat /\ (~m_request_stop => total = Cardinality(InLoop \cup {t}))
    <2>1. Cardinality(InLoop \cup {t}) = Cardinality(InLoop) + 1
      BY Zenon, <1>3, ThreadsFinite, FS_AddElement
    <2> QED BY <2>1, <1>1 DEF IInv, CountsOK
  <1>5. Called(t, pc, m_result, nTodo, total, nIdle)
    BY Zenon, <1>2, <1>3, <1>4, BatchAssumption
       DEF Called, IInv, ControlOK, CountsOK, TodoOK, ResultOK
  <1>6. GoesOn(t, pc, m_result, nTodo, total, nIdle)
    BY <1>1, <1>5 DEF GoesOn, Enter
  <1>7. PICK p, r, d, i : p = pc /\ r = m_result /\ d = nTodo /\ i = nIdle
    OBVIOUS
  <1>8. GoesOn(t, p, r, d, total, i)
    BY <1>6, <1>7
  <1> QED BY <1>8, DecideStep

\* The return from cond.wait.
LEMMA ResumeStep ==
    ASSUME IInv, NEW t \in Threads, Resume(t)
    PROVE  IInv'
  <1>1. PICK idle : idle = nIdle - 1
    OBVIOUS
  <1>2. pc[t] = "woken" /\ Rest(t) = Pending
    BY NoBatch DEF Resume
  <1>3. InLoop \cup {t} = InLoop /\ t \in Sleeping
    BY <1>2 DEF Sleeping, InLoop
  <1>4. idle = Cardinality(Sleeping \ {t})
    BY Zenon, <1>1, <1>3, ThreadsFinite, FS_RemoveElement DEF IInv, CountsOK
  <1>5. Called(t, pc, m_result, nTodo, nTotal, idle)
    BY Zenon, <1>2, <1>3, <1>4, BatchAssumption
       DEF Called, IInv, ControlOK, CountsOK, TodoOK, ResultOK
  <1>6. GoesOn(t, pc, m_result, nTodo, nTotal, idle)
    BY <1>1, <1>5 DEF GoesOn, Resume
  <1>7. PICK p, r, d, k : p = pc /\ r = m_result /\ d = nTodo /\ k = nTotal
    OBVIOUS
  <1>8. GoesOn(t, p, r, d, k, idle)
    BY <1>6, <1>7
  <1> QED BY <1>8, DecideStep

\* The clean-up after a batch: its failure, if it has one, is reported unless
\* another one was.
LEMMA CleanUpStep ==
    ASSUME IInv, NEW t \in Threads, CleanUp(t)
    PROVE  IInv'
  <1>1. PICK result, todo :
             /\ result = IF local_result[t] # NoResult /\ m_result = NoResult
                         THEN local_result[t] ELSE m_result
             /\ todo = nTodo - Len(vChecks[t])
    BY Zenon
  <1>2. /\ pc[t] = "finish" /\ nTodo' = todo /\ UNCHANGED loopFrame
        /\ local_result' \in {local_result, [local_result EXCEPT ![t] = NoResult]}
    BY Zenon, <1>1 DEF CleanUp
  <1>3. PICK pcs \in (IF todo = 0 /\ t \notin Masters THEN NotifyOne(Masters) ELSE {pc}) :
             Decide(t, pcs, result, todo, nTotal, nIdle)
    BY Zenon, <1>1 DEF CleanUp
  <1>4. /\ pcs \in [Threads -> Places]
        /\ \A u \in Threads : pcs[u] = pc[u] \/ (pc[u] = "wait" /\ pcs[u] = "woken")
    <2>1. pc \in [Threads -> Places]
      BY DEF IInv, ControlOK
    <2>2. CASE pcs = pc
      BY Zenon, <2>1, <2>2
    <2>3. CASE pcs # pc
      <3>1. PICK u \in Masters : pc[u] = "wait" /\ pcs = [pc EXCEPT ![u] = "woken"]
        BY <1>3, <2>3 DEF NotifyOne, Waiting
      <3> QED BY Zenon, <2>1, <3>1 DEF Places
    <2> QED BY Zenon, <2>2, <2>3
  <1>5. todo = Cardinality(Rest(t))
    <2>1. /\ vChecks[t] \in Seq(Check) /\ Distinct(vChecks[t])
          /\ Elems(vChecks[t]) \cap Rest(t) = {}
      BY DEF IInv, BatchesOK
    <2>2. IsFiniteSet(Elems(vChecks[t])) /\ Cardinality(Elems(vChecks[t])) = Len(vChecks[t])
      BY <2>1, DistinctCard
    <2>3. Pending = Rest(t) \cup Elems(vChecks[t]) /\ IsFiniteSet(Pending)
      BY PendingSplit DEF IInv, TodoOK
    <2>4. IsFiniteSet(Rest(t))
      BY <2>3, FS_Subset
    <2>5. Rest(t) \cap Elems(vChecks[t]) = {}
      BY Zenon, <2>1
    <2>6. Cardinality(Pending) = Cardinality(Rest(t)) + Len(vChecks[t]) - 0
      <3>1. /\ Cardinality(Rest(t) \cup Elems(vChecks[t])) =
                 Cardinality(Rest(t)) + Cardinality(Elems(vChecks[t]))
                   - Cardinality(Rest(t) \cap Elems(vChecks[t]))
        BY <2>2, <2>4, FS_Union
      <3> QED BY Zenon, <3>1, <2>2, <2>3, <2>5, FS_EmptySet
    <2>7. Cardinality(Rest(t)) \in Nat /\ Len(vChecks[t]) \in Nat
      BY <2>1, <2>4, FS_CardinalityType
    <2> QED BY <2>6, <2>7, <1>1 DEF IInv, TodoOK
  <1>6. /\ session \in Nat /\ NoResult # session
        /\ m_result \in {NoResult, session} /\ (m_result = session => failing)
        /\ ~do_work[t] => m_result = session
        /\ do_work[t] =>
             local_result[t] = IF \E c \in Elems(vChecks[t]) : c.fails THEN session ELSE NoResult
        /\ \A c \in Elems(vChecks[t]) : c.fails => failing
    BY <1>2, PendingSplit, BatchAssumption DEF IInv, ControlOK, ResultOK
  <1>7. /\ result \in {NoResult, session} /\ (result = session => failing)
        /\ m_result = session => result = session
    BY <1>1, <1>6
  <1>8. Quiet => result = NoResult
    <2>1. SUFFICES ASSUME Quiet PROVE FALSE
      OBVIOUS
    <2>2. Pending = {}
      BY Zenon, <2>1, FS_EmptySet DEF IInv, TodoOK
    <2>3. vChecks[t] \in Seq(Check) /\ vChecks[t] # <<>>
      BY Zenon, <1>2 DEF IInv, BatchesOK
    <2>4. vChecks[t][1] \in Elems(vChecks[t])
      BY <2>3 DEF Elems
    <2> QED BY Zenon, <2>2, <2>4, PendingSplit
  <1>9. failing /\ result = NoResult => Quiet \/ \E c \in Rest(t) : c.fails
    <2>1. SUFFICES ASSUME failing, result = NoResult, ~Quiet PROVE \E c \in Rest(t) : c.fails
      BY Zenon
    <2>2. m_result = NoResult /\ do_work[t]
      BY Zenon, <2>1, <1>1, <1>6
    <2>3. ~\E c \in Elems(vChecks[t]) : c.fails
      BY Zenon, <2>1, <2>2, <1>1, <1>6
    <2>4. \E c \in Pending : c.fails
      BY Zenon, <2>1, <2>2 DEF IInv, ResultOK
    <2> QED BY Zenon, <2>3, <2>4, PendingSplit
  <1>10. /\ Sleeping \ {t} = Sleeping /\ InLoop \cup {t} = InLoop
    BY Zenon, <1>2 DEF Sleeping, InLoop
  <1>11. Called(t, pcs, result, todo, nTotal, nIdle)
    BY <1>2, <1>4, <1>5, <1>7, <1>8, <1>9, <1>10 DEF Called, IInv, CountsOK
  <1>12. GoesOn(t, pcs, result, todo, nTotal, nIdle)
    BY <1>2, <1>3, <1>11 DEF GoesOn
  <1>13. PICK k, i : k = nTotal /\ i = nIdle
    OBVIOUS
  <1>14. GoesOn(t, pcs, result, todo, k, i)
    BY Zenon, <1>12, <1>13
  <1> QED BY <1>14, DecideStep

-----------------------------------------------------------------------------
(* The other steps.                                                        *)

\* A step that leaves the queue and the batches alone leaves every check where
\* it was,
LEMMA SameChecks ==
    ASSUME UNCHANGED <<queue, vChecks>>
    PROVE  Pending' = Pending /\ \A t \in Threads : Rest(t)' = Rest(t)
  BY DEF Pending, Rest, Elems

\* and keeps BatchesOK if no thread enters or leaves its batch,
LEMMA SameBatches ==
    ASSUME BatchesOK, UNCHANGED <<queue, vChecks>>,
           \A c \in Pending : c.id <= added' /\ c.session = session',
           \A t \in Threads : pc'[t] \in {"work", "finish"} <=> pc[t] \in {"work", "finish"}
    PROVE  BatchesOK'
  <1>1. Pending' = Pending /\ \A t \in Threads : Rest(t)' = Rest(t)
    BY SameChecks
  <1>2. /\ queue' \in Seq(Check) /\ vChecks' \in [Threads -> Seq(Check)] /\ Distinct(queue)'
        /\ \A c \in Pending' : c.id <= added' /\ c.session = session'
    BY <1>1 DEF BatchesOK, Distinct
  <1>3. ASSUME NEW t \in Threads
        PROVE  /\ Distinct(vChecks[t])' /\ (Elems(vChecks[t]) \cap Rest(t))' = {}
               /\ vChecks'[t] # <<>> <=> pc'[t] \in {"work", "finish"}
    BY <1>1 DEF BatchesOK, Distinct, Elems
  <1> QED BY <1>2, <1>3 DEF BatchesOK

\* and the verdict of the last Complete stays if no Complete returns.
LEMMA SameReturned ==
    ASSUME ReturnedOK, returned' = returned
    PROVE  ReturnedOK'
  BY DEF ReturnedOK

\* A step that moves threads between places that mean the same.
LEMMA PlaceStep ==
    ASSUME IInv, ControlOK',
           UNCHANGED <<queue, nIdle, nTotal, m_result, nTodo, vChecks, do_work, session, added,
                       failing, returned>>,
           m_request_stop => m_request_stop',
           local_result' \in [Threads -> Nat \cup {NoResult}],
           \A t \in Threads : pc[t] = "finish" => local_result'[t] = local_result[t],
           \A t \in Threads :
               \/ pc'[t] = pc[t]
               \/ pc[t] \in {"wait", "woken"} /\ pc'[t] \in {"wait", "woken"}
               \/ /\ pc[t] \in {"own", "notify_one", "notify_all", "start"}
                  /\ pc'[t] \in {"own", "notify_one", "notify_all", "start"}
               \/ pc[t] \in {"idle", "returned"} /\ pc'[t] \in {"idle", "returned"}
    PROVE  IInv'
  <1>1. Sleeping' = Sleeping /\ InLoop' = InLoop
    BY Zenon DEF Sleeping, InLoop
  <1>2. CountsOK'
    BY Zenon, <1>1 DEF IInv, CountsOK, ControlOK
  <1>3. Pending' = Pending /\ \A t \in Threads : Rest(t)' = Rest(t)
    BY Zenon, SameChecks
  <1>4. \A t \in Threads : pc'[t] \in {"work", "finish"} <=> pc[t] \in {"work", "finish"}
    BY Zenon
  <1>5. BatchesOK'
    BY Zenon, <1>4, SameBatches DEF IInv, BatchesOK
  <1>6. Quiet' <=> Quiet
    BY Zenon DEF Quiet, Threads
  <1>7. TodoOK'
    BY Zenon, <1>3, <1>6 DEF IInv, TodoOK
  <1>8. ResultOK'
    BY <1>3, <1>4, <1>6 DEF IInv, ResultOK, Elems
  <1>9. ReturnedOK'
    BY Zenon, SameReturned DEF IInv
  <1> QED BY Zenon, <1>2, <1>5, <1>7, <1>8, <1>9 DEF IInv

\* Wakeups and notifications, the join, and the ends of a session.
LEMMA MoveStep ==
    ASSUME IInv,
           \/ \E t \in Threads : SpuriousWakeup(t)
           \/ \E m \in Masters : ControlStep(m)
           \/ RequestStop \/ NotifyStop \/ Join
    PROVE  IInv'
  <1> USE DEF shared, local, ghost
  <1>1. /\ ControlOK /\ local_result \in [Threads -> Nat \cup {NoResult}]
    BY Zenon DEF IInv, ResultOK
  <1>2. CASE \E t \in Threads : SpuriousWakeup(t)
    <2>1. PICK t \in Threads : SpuriousWakeup(t)
      BY Zenon, <1>2
    <2>2. ControlOK'
      BY Zenon, <2>1, <1>1, ThreadsAssumption DEF SpuriousWakeup, ControlOK, Places, Threads
    <2> QED BY <2>1, <2>2, <1>1, PlaceStep DEF SpuriousWakeup, ControlOK
  <1>3. CASE \E m \in Masters : NotifyWorkers(m)
    <2>1. PICK m \in Masters : NotifyWorkers(m)
      BY Zenon, <1>3
    <2>2. /\ pc' \in [Threads -> Places] /\ m \in Threads /\ m \notin Workers
          /\ pc[m] \in {"notify_one", "notify_all"} /\ pc'[m] = "own"
          /\ \A t \in Threads \ {m} :
               pc'[t] = pc[t] \/ (t \in Workers /\ pc[t] = "wait" /\ pc'[t] = "woken")
      <3>1. m \in Threads /\ m \notin Workers /\ pc \in [Threads -> Places]
        BY Zenon, <1>1, ThreadsAssumption DEF Threads, ControlOK
      <3>2. CASE pc[m] = "notify_all"
        BY Zenon, <2>1, <3>1, <3>2 DEF NotifyWorkers, NotifyAll, Waiting, Places
      <3>3. CASE pc[m] = "notify_one"
        <4>1. PICK pcs \in NotifyOne(Workers) : pc' = [pcs EXCEPT ![m] = "own"]
          BY <2>1, <3>3 DEF NotifyWorkers
        <4>2. CASE pcs = pc
          BY <4>1, <4>2, <3>1, <3>3 DEF Places
        <4>3. CASE pcs # pc
          <5>1. PICK u \in Workers : pc[u] = "wait" /\ pcs = [pc EXCEPT ![u] = "woken"]
            BY Zenon, <4>1, <4>3 DEF NotifyOne, Waiting
          <5> QED BY Zenon, <4>1, <5>1, <3>1, <3>3 DEF Places
        <4> QED BY <4>2, <4>3
      <3> QED BY Zenon, <2>1, <3>2, <3>3 DEF NotifyWorkers
    <2>3. ControlOK'
      BY Zenon, <2>1, <2>2, <1>1, ThreadsAssumption DEF NotifyWorkers, ControlOK, Threads
    <2>4. UNCHANGED <<shared, control, dtor, local, ghost>>
      BY Zenon, <2>1 DEF NotifyWorkers
    <2> QED BY Zenon, <2>2, <2>3, <2>4, <1>1, PlaceStep
  <1>4. CASE \E m \in Masters : Complete(m)
    <2>1. PICK m \in Masters : Complete(m)
      BY <1>4
    <2>2. m \in Threads /\ m \notin Workers
      BY Zenon, ThreadsAssumption DEF Threads
    <2>3. ControlOK'
      BY Zenon, <2>1, <2>2, <1>1 DEF Complete, ControlOK, Places, Threads
    <2>4. /\ local_result' \in [Threads -> Nat \cup {NoResult}]
          /\ \A t \in Threads : pc[t] = "finish" => local_result'[t] = local_result[t]
      BY Zenon, <2>1, <2>2, <1>1 DEF Complete
    <2> QED BY Zenon, <2>1, <2>2, <2>3, <2>4, <1>1, PlaceStep DEF Complete, ControlOK
  <1>5. CASE \E m \in Masters : End(m)
    <2>1. PICK m \in Masters : End(m)
      BY <1>5
    <2>2. m \in Threads /\ m \notin Workers
      BY Zenon, ThreadsAssumption DEF Threads
    <2>3. ControlOK'
      BY Zenon, <2>1, <2>2, <1>1, ThreadsAssumption DEF End, ControlOK, Places, Threads
    <2> QED BY Zenon, <2>1, <2>2, <2>3, <1>1, PlaceStep DEF End, ControlOK
  <1>6. CASE RequestStop
    <2>1. ControlOK'
      BY Zenon, <1>1, <1>6 DEF RequestStop, ControlOK
    <2> QED BY Zenon, <2>1, <1>1, <1>6, PlaceStep DEF RequestStop
  <1>7. CASE NotifyStop
    <2>1. /\ pc' \in [Threads -> Places]
          /\ \A t \in Threads : pc'[t] = pc[t] \/ (t \in Workers /\ pc[t] = "wait" /\ pc'[t] = "woken")
      BY Zenon, <1>1, <1>7 DEF NotifyStop, NotifyAll, Waiting, ControlOK, Places
    <2>2. UNCHANGED <<shared, control, local, ghost>> /\ dtor' = "join" /\ dtor = "notify"
      BY Zenon, <1>7 DEF NotifyStop
    <2>3. ControlOK'
      BY Zenon, <2>1, <2>2, <1>1, ThreadsAssumption DEF ControlOK, Threads
    <2> QED BY Zenon, <2>1, <2>2, <2>3, <1>1, PlaceStep
  <1>8. CASE Join
    <2>1. ControlOK'
      BY <1>1, <1>8 DEF Join, ControlOK
    <2> QED BY Zenon, <2>1, <1>1, <1>8, PlaceStep DEF Join
  <1> QED BY Zenon, <1>2, <1>3, <1>4, <1>5, <1>6, <1>7, <1>8 DEF ControlStep

\* A thread executes its batch.
LEMMA WorkStep ==
    ASSUME IInv, NEW t \in Threads, Work(t)
    PROVE  IInv'
  <1>1. /\ pc[t] = "work" /\ pc' = [pc EXCEPT ![t] = "finish"]
        /\ UNCHANGED <<queue, nIdle, nTotal, m_result, nTodo, m_request_stop, control, dtor,
                       vChecks, do_work, session, added, failing, returned>>
    BY Zenon DEF Work, shared, ghost
  <1>2. /\ pc \in [Threads -> Places] /\ pc' \in [Threads -> Places] /\ pc'[t] = "finish"
        /\ \A u \in Threads \ {t} : pc'[u] = pc[u]
    BY Zenon, <1>1 DEF IInv, ControlOK, Places
  <1>3. ControlOK'
    BY Zenon, <1>1, <1>2 DEF IInv, ControlOK, Threads
  <1>4. Sleeping' = Sleeping /\ InLoop' = InLoop
    BY Zenon, <1>1, <1>2 DEF Sleeping, InLoop
  <1>5. CountsOK'
    BY Zenon, <1>1, <1>4 DEF IInv, CountsOK
  <1>6. Pending' = Pending /\ \A u \in Threads : Rest(u)' = Rest(u)
    BY Zenon, <1>1, SameChecks
  <1>7. BatchesOK'
    BY Zenon, <1>1, <1>2, SameBatches DEF IInv, BatchesOK
  <1>8. Quiet' <=> Quiet
    BY Zenon, <1>1, <1>2 DEF Quiet, Threads
  <1>9. TodoOK'
    BY Zenon, <1>1, <1>6, <1>8 DEF IInv, TodoOK
  <1>10. /\ \A i \in Failed(t) : /\ vChecks[t][i] \in Elems(vChecks[t])
                                 /\ vChecks[t][i].fails /\ vChecks[t][i].session = session
         /\ Failed(t) = {} => ~\E c \in Elems(vChecks[t]) : c.fails
    BY Zenon, PendingSplit DEF Failed, Elems, IInv, BatchesOK
  <1>11. /\ local_result' \in [Threads -> Nat \cup {NoResult}]
         /\ \A u \in Threads \ {t} : local_result'[u] = local_result[u]
         /\ do_work[t] => local_result'[t] =
               IF \E c \in Elems(vChecks[t]) : c.fails THEN session ELSE NoResult
    BY <1>10 DEF Work, IInv, ControlOK, ResultOK
  <1>12. ResultOK'
    <2>1. ASSUME NEW u \in Threads, pc'[u] = "finish", do_work'[u]
          PROVE  local_result'[u] = IF \E c \in Elems(vChecks'[u]) : c.fails THEN session' ELSE NoResult
      <3>1. CASE u = t
        BY Zenon, <1>1, <1>11, <2>1, <3>1
      <3>2. CASE u # t
        <4>1. pc[u] = "finish" /\ do_work[u] /\ local_result'[u] = local_result[u]
          BY Zenon, <1>1, <1>2, <1>11, <2>1, <3>2
        <4>2. local_result[u] = IF \E c \in Elems(vChecks[u]) : c.fails THEN session ELSE NoResult
          BY Zenon, <4>1 DEF IInv, ResultOK
        <4> QED BY Zenon, <1>1, <4>1, <4>2
      <3> QED BY Zenon, <3>1, <3>2
    <2>2. \A u \in Threads : pc'[u] \in {"work", "finish"} /\ ~do_work'[u] => m_result' = session'
      BY Zenon, <1>1, <1>2 DEF IInv, ResultOK
    <2> QED BY Zenon, <1>1, <1>6, <1>8, <1>11, <2>1, <2>2 DEF IInv, ResultOK
  <1>13. ReturnedOK'
    BY Zenon, <1>1, SameReturned DEF IInv
  <1> QED BY Zenon, <1>3, <1>5, <1>7, <1>9, <1>12, <1>13 DEF IInv

\* While nobody is in a session, nothing is pending and nobody has a batch.
LEMMA QuietIsClean ==
    ASSUME IInv, Quiet
    PROVE  /\ Pending = {} /\ queue = <<>> /\ m_result = NoResult /\ nTodo = 0
           /\ \A t \in Threads : pc[t] \notin {"work", "finish"}
  <1>1. Pending = {} /\ m_result = NoResult /\ nTodo = 0
    BY FS_EmptySet DEF IInv, TodoOK, ResultOK
  <1>2. queue = <<>>
    <2>1. SUFFICES ASSUME queue # <<>> PROVE FALSE
      OBVIOUS
    <2>2. queue[1] \in Elems(queue)
      BY <2>1 DEF IInv, BatchesOK, Elems
    <2> QED BY <2>2, <1>1 DEF Pending
  <1>3. ASSUME NEW t \in Threads, pc[t] \in {"work", "finish"} PROVE FALSE
    <2>1. vChecks[t] \in Seq(Check) /\ vChecks[t] # <<>>
      BY <1>3 DEF IInv, BatchesOK
    <2>2. vChecks[t][1] \in Elems(vChecks[t])
      BY <2>1 DEF Elems
    <2> QED BY Zenon, <2>2, <1>1, PendingSplit
  <1> QED BY Zenon, <1>1, <1>2, <1>3

\* A session begins.
LEMMA BeginStep ==
    ASSUME IInv, NEW m \in Masters, Begin(m)
    PROVE  IInv'
  <1>1. /\ pc[m] = "idle" /\ control = NoThread /\ dtor = "alive" /\ control' = m
        /\ session' = session + 1 /\ failing' = FALSE /\ pc' = [pc EXCEPT ![m] = "own"]
        /\ UNCHANGED <<queue, nIdle, nTotal, m_result, nTodo, m_request_stop, dtor,
                       vChecks, do_work, local_result, added, returned>>
    BY Zenon DEF Begin, shared, local
  <1>2. /\ m \in Threads /\ m \notin Workers
        /\ pc \in [Threads -> Places] /\ pc' \in [Threads -> Places] /\ pc'[m] = "own"
        /\ \A u \in Threads \ {m} : pc'[u] = pc[u]
    BY Zenon, <1>1, ThreadsAssumption DEF IInv, ControlOK, Places, Threads
  <1>3. Quiet
    BY Zenon, <1>1, ThreadsAssumption DEF IInv, ControlOK, Quiet, Threads
  <1>4. ControlOK'
    <2>1. ControlOK
      BY DEF IInv
    <2>2. \A w \in Workers : pc'[w] = pc[w]
      BY Zenon, <1>2 DEF Threads
    <2>3. \A u \in Masters : pc'[u] # "done" /\ (pc'[u] # "idle" <=> control' = u)
      BY Zenon, <2>1, <1>1, <1>2, ThreadsAssumption DEF ControlOK, Threads
    <2>4. session' \in Nat /\ control' \in Masters \cup {NoThread}
      BY <2>1, <1>1 DEF ControlOK
    <2>6. failing' \in BOOLEAN
      BY <1>1, Zenon
    <2>5. ~m_request_stop
      BY Zenon, <2>1, <1>1 DEF ControlOK
    <2> QED BY Zenon, <2>1, <2>2, <2>3, <2>4, <2>5, <2>6, <1>1, <1>2 DEF ControlOK
  <1>5. Sleeping' = Sleeping /\ InLoop' = InLoop
    BY Zenon, <1>1, <1>2 DEF Sleeping, InLoop
  <1>6. CountsOK'
    BY Zenon, <1>1, <1>5 DEF IInv, CountsOK
  <1>7. Pending' = Pending /\ \A u \in Threads : Rest(u)' = Rest(u)
    BY Zenon, <1>1, SameChecks
  <1>8. BatchesOK'
    <2>1. \A u \in Threads : pc'[u] \notin {"work", "finish"} /\ pc[u] \notin {"work", "finish"}
      BY Zenon, <1>2, <1>3, QuietIsClean
    <2> QED BY Zenon, <1>1, <1>3, <2>1, QuietIsClean, SameBatches DEF IInv
  <1>9. ~Quiet'
    BY Zenon, <1>2 DEF Quiet
  <1>10. TodoOK'
    BY Zenon, <1>1, <1>7, <1>9 DEF IInv, TodoOK
  <1>11. NoResult # session'
    BY <1>1, BatchAssumption DEF IInv, ControlOK
  <1>12. \A u \in Threads : pc'[u] \notin {"work", "finish"}
    BY Zenon, <1>2, <1>3, QuietIsClean
  <1>13. do_work' \in [Threads -> BOOLEAN] /\ local_result' \in [Threads -> Nat \cup {NoResult}]
    BY Zenon, <1>1 DEF IInv, ResultOK
  <1>14. Pending' = {} /\ m_result' = NoResult
    BY Zenon, <1>1, <1>3, <1>7, QuietIsClean
  <1>15. ResultOK'
    BY Zenon, <1>1, <1>9, <1>11, <1>12, <1>13, <1>14 DEF ResultOK
  <1>16. ReturnedOK'
    BY Zenon, <1>1 DEF IInv, ReturnedOK
  <1> QED BY Zenon, <1>4, <1>6, <1>8, <1>10, <1>15, <1>16 DEF IInv

\* The master adds a batch of new checks.
LEMMA AddStep ==
    ASSUME IInv, NEW m \in Masters, NEW b \in Batches, Add(m, b)
    PROVE  IInv'
  <1>1. PICK new : new = [i \in 1 .. Len(b) |-> [id |-> added + i, session |-> session, fails |-> b[i]]]
    BY Zenon
  <1>2. /\ b \in Seq(BOOLEAN) /\ b # <<>> /\ Len(b) \in Nat /\ DOMAIN b = 1 .. Len(b)
    BY BatchAssumption
  <1>3. /\ pc[m] = "own" /\ queue' = queue \o new /\ nTodo' = nTodo + Len(b)
        /\ added' = added + Len(b)
        /\ failing' = (failing \/ \E i \in 1 .. Len(b) : b[i])
        /\ UNCHANGED <<nIdle, nTotal, m_result, m_request_stop, control, dtor,
                       vChecks, do_work, local_result, session, returned>>
    BY <1>1 DEF Add, local
  <1>4. /\ m \in Threads /\ m \notin Workers
        /\ pc \in [Threads -> Places] /\ pc' \in [Threads -> Places]
        /\ pc'[m] \in {"notify_one", "notify_all"}
        /\ \A u \in Threads \ {m} : pc'[u] = pc[u]
    BY Zenon, ThreadsAssumption DEF Add, IInv, ControlOK, Places, Threads
  <1>5. /\ session \in Nat /\ added \in Nat /\ failing \in BOOLEAN
        /\ queue \in Seq(Check) /\ Distinct(queue)
        /\ \A c \in Pending : c.id <= added /\ c.session = session
    BY Zenon DEF IInv, ControlOK, BatchesOK
  <1>6. /\ new \in Seq(Check) /\ Len(new) = Len(b)
        /\ DOMAIN new = 1 .. Len(b)
    BY <1>1, <1>2, <1>5 DEF Check
  <1>20. ASSUME NEW i \in 1 .. Len(b)
         PROVE  new[i].id = added + i /\ new[i].session = session /\ new[i].fails = b[i]
    <2>1. new[i] = [id |-> added + i, session |-> session, fails |-> b[i]]
      BY Zenon, <1>1
    <2>2. new[i].id = added + i
      BY <2>1
    <2>3. new[i].session = session
      BY <2>1
    <2>4. new[i].fails = b[i]
      BY <2>1
    <2> QED BY Zenon, <2>2, <2>3, <2>4
  <1>7. Distinct(new)
    <2>1. SUFFICES ASSUME NEW i \in 1 .. Len(b), NEW j \in 1 .. Len(b), new[i] = new[j] PROVE i = j
      BY Zenon, <1>6 DEF Distinct
    <2>2. added + i = added + j
      BY Zenon, <2>1, <1>20
    <2> QED BY <2>2, <1>2, <1>5
  <1>8. \A c \in Elems(new) : /\ c.id > added /\ c.id <= added' /\ c.session = session
                              /\ c.fails => failing'
    <2>1. ASSUME NEW i \in 1 .. Len(b)
          PROVE  /\ new[i].id > added /\ new[i].id <= added' /\ new[i].session = session
                 /\ new[i].fails => failing'
      <3>1. new[i].id > added /\ new[i].id <= added' /\ new[i].session = session
        BY <1>2, <1>3, <1>5, <1>20
      <3>2. new[i].fails => failing'
        BY <1>3, <1>20, Zenon
      <3> QED BY Zenon, <3>1, <3>2
    <2> QED BY Zenon, <2>1, <1>6 DEF Elems
  <1>9. Elems(new) \cap Pending = {}
    <2>1. SUFFICES ASSUME NEW c \in Elems(new) \cap Pending PROVE FALSE
      BY Zenon
    <2>2. c \in Check
      BY <1>6 DEF Elems
    <2> QED BY <2>2, <1>5, <1>8 DEF Check
  <1>10. /\ queue \o new \in Seq(Check)
         /\ Elems(queue \o new) = Elems(queue) \cup Elems(new)
         /\ Distinct(queue \o new)
    <2>1. /\ queue \o new \in Seq(Check) /\ Len(queue \o new) = Len(queue) + Len(new)
          /\ Len(queue) \in Nat /\ Len(new) \in Nat
          /\ DOMAIN (queue \o new) = 1 .. Len(queue) + Len(new)
          /\ DOMAIN queue = 1 .. Len(queue) /\ DOMAIN new = 1 .. Len(new)
          /\ \A i \in 1 .. Len(queue) + Len(new) :
                (queue \o new)[i] = IF i <= Len(queue) THEN queue[i] ELSE new[i - Len(queue)]
      BY <1>5, <1>6
    <2> DEFINE k == Len(queue)
               l == Len(new)
               s == queue \o new
    <2>2. \A i \in 1 .. k : s[i] = queue[i] /\ i \in 1 .. k + l
      BY <2>1
    <2>3. \A i \in 1 .. l : s[k + i] = new[i] /\ k + i \in 1 .. k + l
      BY <2>1
    <2>4. \A i \in 1 .. k + l : i \in 1 .. k \/ (i - k \in 1 .. l /\ i = k + (i - k))
      BY <2>1
    <2> HIDE DEF s
    <2>5. Elems(s) \subseteq Elems(queue) \cup Elems(new)
      <3>1. ASSUME NEW i \in 1 .. k + l PROVE s[i] \in Elems(queue) \cup Elems(new)
        <4>1. CASE i \in 1 .. k
          BY Zenon, <4>1, <2>1, <2>2 DEF Elems
        <4>2. CASE i - k \in 1 .. l /\ i = k + (i - k)
          <5>1. s[i] = new[i - k]
            BY Zenon, <4>2, <2>3
          <5> QED BY Zenon, <5>1, <4>2, <2>1 DEF Elems
        <4> QED BY Zenon, <4>1, <4>2, <2>4
      <3> QED BY Zenon, <3>1, <2>1 DEF Elems, s
    <2>6. Elems(queue) \subseteq Elems(s)
      BY Zenon, <2>1, <2>2 DEF Elems, s
    <2>7. Elems(new) \subseteq Elems(s)
      <3>1. ASSUME NEW i \in 1 .. l PROVE new[i] \in Elems(s)
        <4>1. s[k + i] = new[i] /\ k + i \in DOMAIN s
          BY Zenon, <2>1, <2>3 DEF s
        <4> QED BY Zenon, <4>1 DEF Elems
      <3> QED BY Zenon, <3>1, <2>1 DEF Elems
    <2>8. Distinct(s)
      <3>1. SUFFICES ASSUME NEW i \in 1 .. k + l, NEW j \in 1 .. k + l, s[i] = s[j] PROVE i = j
        BY Zenon, <2>1 DEF Distinct, s
      <3>2. CASE i \in 1 .. k /\ j \in 1 .. k
        BY <3>1, <3>2, <2>1, <2>2, <1>5 DEF Distinct
      <3>3. CASE i \in 1 .. k /\ j - k \in 1 .. l /\ j = k + (j - k)
        <4>1. s[i] \in Elems(queue)
          BY Zenon, <3>3, <2>1, <2>2 DEF Elems
        <4>2. s[j] \in Elems(new)
          <5>1. s[j] = new[j - k]
            BY <3>3, <2>3
          <5> QED BY Zenon, <5>1, <3>3, <2>1 DEF Elems
        <4> QED BY <4>1, <4>2, <3>1, <1>9 DEF Pending
      <3>4. CASE j \in 1 .. k /\ i - k \in 1 .. l /\ i = k + (i - k)
        <4>1. s[j] \in Elems(queue)
          BY Zenon, <3>4, <2>1, <2>2 DEF Elems
        <4>2. s[i] \in Elems(new)
          <5>1. s[i] = new[i - k]
            BY <3>4, <2>3
          <5> QED BY Zenon, <5>1, <3>4, <2>1 DEF Elems
        <4> QED BY Zenon, <4>1, <4>2, <3>1, <1>9 DEF Pending
      <3>5. CASE /\ i - k \in 1 .. l /\ i = k + (i - k)
                 /\ j - k \in 1 .. l /\ j = k + (j - k)
        <4>1. new[i - k] = new[j - k]
          BY Zenon, <3>1, <3>5, <2>3
        <4>2. i - k = j - k
          BY Zenon, <4>1, <3>5, <2>1, <1>7 DEF Distinct
        <4> QED BY <4>2, <3>5
      <3> QED BY Zenon, <3>2, <3>3, <3>4, <3>5, <2>4
    <2> QED BY Zenon, <2>1, <2>5, <2>6, <2>7, <2>8 DEF s
  <1>11. /\ Pending' = Pending \cup Elems(new)
         /\ \A u \in Threads : Rest(u)' = Rest(u) \cup Elems(new)
    <2>1. Elems(queue') = Elems(queue) \cup Elems(new) /\ vChecks' = vChecks
      BY Zenon, <1>3, <1>10
    <2> QED BY <2>1 DEF Pending, Rest
  <1>12. ControlOK'
    <2>1. ControlOK
      BY Zenon DEF IInv
    <2>2. \A w \in Workers : pc'[w] = pc[w]
      BY Zenon, <1>4 DEF Threads
    <2>3. \A u \in Masters : pc'[u] # "done" /\ (pc'[u] # "idle" <=> control' = u)
      BY Zenon, <2>1, <1>3, <1>4, ThreadsAssumption DEF ControlOK, Threads
    <2>4. added' \in Nat
      BY <1>2, <1>3, <1>5
    <2>5. failing' \in BOOLEAN
      BY <1>3, Zenon
    <2> QED BY <2>1, <2>2, <2>3, <2>4, <2>5, <1>3, <1>4 DEF ControlOK
  <1>13. CountsOK'
    <2>1. Sleeping' = Sleeping /\ InLoop' = InLoop
      BY Zenon, <1>3, <1>4 DEF Sleeping, InLoop
    <2> QED BY Zenon, <2>1, <1>3 DEF IInv, CountsOK
  <1>14. BatchesOK'
    <2>1. ASSUME NEW u \in Threads
          PROVE  /\ Distinct(vChecks[u])'
                 /\ (Elems(vChecks[u]) \cap Rest(u) = {})'
                 /\ (vChecks[u] # <<>> <=> pc[u] \in {"work", "finish"})'
      <3>1. /\ Distinct(vChecks[u]) /\ Elems(vChecks[u]) \cap Rest(u) = {}
            /\ vChecks[u] # <<>> <=> pc[u] \in {"work", "finish"}
        BY DEF IInv, BatchesOK
      <3>2. Elems(vChecks[u]) \cap Elems(new) = {}
        BY Zenon, <1>9, PendingSplit
      <3>3. pc'[u] \in {"work", "finish"} <=> pc[u] \in {"work", "finish"}
        BY Zenon, <1>3, <1>4
      <3>4. vChecks' = vChecks
        BY Zenon, <1>3
      <3> QED BY <3>1, <3>2, <3>3, <3>4, <1>11 DEF Distinct, Elems
    <2>2. \A c \in Pending' : c.id <= added' /\ c.session = session'
      <3>1. \A c \in Pending : c.id <= added'
        <4>1. SUFFICES ASSUME NEW c \in Pending PROVE c.id <= added'
          BY Zenon
        <4>2. c \in Check
          BY DEF IInv, BatchesOK, Pending, Elems
        <4> QED BY <4>2, <1>2, <1>3, <1>5 DEF Check
      <3> QED BY Zenon, <3>1, <1>3, <1>5, <1>8, <1>11
    <2>3. queue' \in Seq(Check) /\ Distinct(queue)' /\ vChecks' \in [Threads -> Seq(Check)]
      BY Zenon, <1>3, <1>10 DEF Distinct, IInv, BatchesOK
    <2> QED BY Zenon, <2>1, <2>2, <2>3 DEF BatchesOK
  <1>15. ~Quiet /\ ~Quiet'
    BY Zenon, <1>3, <1>4 DEF Quiet
  <1>16. TodoOK'
    <2>1. IsFiniteSet(Elems(new)) /\ Cardinality(Elems(new)) = Len(b)
      BY Zenon, <1>6, <1>7, DistinctCard
    <2>2. IsFiniteSet(Pending) /\ nTodo = Cardinality(Pending) /\ Cardinality(Pending) \in Nat
      BY FS_CardinalityType DEF IInv, TodoOK
    <2>3. Pending \cap Elems(new) = {}
      BY Zenon, <1>9
    <2>4. /\ IsFiniteSet(Pending \cup Elems(new))
          /\ Cardinality(Pending \cup Elems(new)) =
                Cardinality(Pending) + Cardinality(Elems(new)) - Cardinality(Pending \cap Elems(new))
      BY Zenon, <2>1, <2>2, FS_Union
    <2>5. Cardinality(Pending \cup Elems(new)) = nTodo + Len(b)
      <3>1. Cardinality(Pending \cap Elems(new)) = 0
        BY Zenon, <2>3, FS_EmptySet
      <3> QED BY <3>1, <2>1, <2>2, <2>4, <1>2
    <2> QED BY Zenon, <2>4, <2>5, <1>3, <1>11, <1>15 DEF TodoOK
  <1>18. ResultOK'
    <2>1. failing => failing'
      BY <1>3, Zenon
    <2>2. /\ m_result' \in {NoResult, session'} /\ (m_result' = session' => failing')
          /\ do_work' \in [Threads -> BOOLEAN]
          /\ local_result' \in [Threads -> Nat \cup {NoResult}]
      BY Zenon, <2>1, <1>3 DEF IInv, ResultOK
    <2>3. \A c \in Pending' : c.fails => failing'
      BY Zenon, <2>1, <1>8, <1>11 DEF IInv, ResultOK
    <2>4. \A u \in Threads : pc'[u] \in {"work", "finish"} => pc'[u] = pc[u]
      BY Zenon, <1>4
    <2>5. \A u \in Threads : pc'[u] \in {"work", "finish"} /\ ~do_work'[u] => m_result' = session'
      BY Zenon, <2>4, <1>3 DEF IInv, ResultOK
    <2>6. \A u \in Threads : pc'[u] = "finish" /\ do_work'[u] =>
             local_result'[u] = IF \E c \in Elems(vChecks'[u]) : c.fails THEN session' ELSE NoResult
      BY <2>4, <1>3 DEF IInv, ResultOK
    <2>7. failing' /\ m_result' = NoResult => \E c \in Pending' : c.fails
      <3>1. CASE failing
        BY Zenon, <3>1, <1>3, <1>11, <1>15 DEF IInv, ResultOK
      <3>2. CASE \E i \in 1 .. Len(b) : b[i]
        <4>1. PICK i \in 1 .. Len(b) : b[i]
          BY Zenon, <3>2
        <4>2. new[i].fails /\ new[i] \in Elems(new)
          BY Zenon, <4>1, <1>6, <1>20 DEF Elems
        <4> QED BY Zenon, <4>2, <1>11
      <3> QED BY <3>1, <3>2, <1>3, Zenon
    <2> QED BY Zenon, <2>2, <2>3, <2>5, <2>6, <2>7, <1>15 DEF ResultOK, Elems
  <1>19. ReturnedOK'
    BY <1>3 DEF IInv, ReturnedOK
  <1> QED BY Zenon, <1>12, <1>13, <1>14, <1>16, <1>18, <1>19 DEF IInv

-----------------------------------------------------------------------------
(* Theorems.                                                               *)

\* The queue starts empty, with every worker about to enter Loop.
LEMMA Initially == Init => IInv
  <1> SUFFICES ASSUME Init PROVE IInv
    BY Zenon
  <1>1. ControlOK
    BY Zenon, ThreadsAssumption DEF Init, ControlOK, Places, Threads
  <1>2. Sleeping = {} /\ InLoop = {} /\ Cardinality({}) = 0
    BY FS_EmptySet DEF Init, Sleeping, InLoop
  <1>3. CountsOK
    BY <1>2 DEF Init, CountsOK
  <1>4. Elems(<<>>) = {} /\ Distinct(<<>>) /\ <<>> \in Seq(Check)
    BY DEF Elems, Distinct
  <1>5. Pending = {}
    BY <1>4 DEF Init, Pending
  <1>6. BatchesOK
    BY Zenon, <1>4, <1>5, ThreadsAssumption DEF Init, BatchesOK
  <1>7. TodoOK
    BY Zenon, <1>5, FS_EmptySet DEF Init, TodoOK
  <1>8. ResultOK
    BY <1>5, BatchAssumption DEF Init, ResultOK
  <1>9. ReturnedOK
    BY DEF Init, ReturnedOK
  <1> QED BY Zenon, <1>1, <1>3, <1>6, <1>7, <1>8, <1>9 DEF IInv

\* IInv is inductive: every critical section and every notification keeps it,
\* in any order of the threads.
THEOREM QueueInvariant == Spec => []IInv
  <1>1. IInv /\ [Next]_vars => IInv'
    <2> SUFFICES ASSUME IInv, [Next]_vars PROVE IInv'
      OBVIOUS
    <2>1. CASE \E t \in Threads : LoopStep(t)
      BY Zenon, <2>1, EnterStep, ResumeStep, WorkStep, CleanUpStep DEF LoopStep
    <2>2. CASE \E m \in Masters : Begin(m)
      BY Zenon, <2>2, BeginStep
    <2>3. CASE \E m \in Masters, b \in Batches : Add(m, b)
      BY <2>3, AddStep
    <2>4. CASE \/ \E t \in Threads : SpuriousWakeup(t)
               \/ \E m \in Masters : ControlStep(m)
               \/ RequestStop \/ NotifyStop \/ Join
      BY Zenon, <2>4, MoveStep
    <2>5. CASE UNCHANGED vars
      <3>1. ControlOK'
        BY Zenon, <2>5 DEF vars, shared, local, ghost, IInv, ControlOK
      <3>2. UNCHANGED <<queue, nIdle, nTotal, m_result, nTodo, m_request_stop, pc, vChecks, do_work,
                        local_result, session, added, failing, returned>>
        BY Zenon, <2>5 DEF vars, shared, local, ghost
      <3>3. local_result' \in [Threads -> Nat \cup {NoResult}]
        BY <3>2 DEF IInv, ResultOK
      <3> QED BY Zenon, <3>1, <3>2, <3>3, PlaceStep
    <2> QED BY Zenon, <2>1, <2>2, <2>3, <2>4, <2>5 DEF Next, Gone
  <1> QED BY Initially, <1>1, PTL DEF Spec

\* Every variable keeps its type.
THEOREM TypeCorrect == Spec => []TypeOK
  <1>1. IInv => TypeOK
    <2> SUFFICES ASSUME IInv PROVE TypeOK
      OBVIOUS
    <2>1. nTodo \in Nat /\ nIdle \in Nat
      BY ThreadsFinite, FS_CardinalityType DEF IInv, TodoOK, CountsOK
    <2> QED BY <2>1 DEF IInv, TypeOK, ControlOK, CountsOK, BatchesOK, ResultOK, ReturnedOK, Places
  <1> QED BY QueueInvariant, <1>1, PTL

\* nTodo is the number of checks queued or in some thread's batch.
THEOREM TodoCountsPending == Spec => []TodoIsPending
  <1>1. IInv => TodoIsPending
    BY DEF IInv, TodoOK, TodoIsPending
  <1> QED BY QueueInvariant, <1>1, PTL

\* nTotal and nIdle are the threads in Loop and those that wait.
THEOREM CountsStayExact == Spec => []CountsAreThreads
  <1>1. IInv => CountsAreThreads
    BY DEF IInv, CountsOK, CountsAreThreads, Sleeping, InLoop
  <1> QED BY QueueInvariant, <1>1, PTL

\* Complete returns an error of its own session exactly if one of its checks
\* fails, for every number of threads and every interleaving.
THEOREM CompleteStaysExact == Spec => []CompleteIsExact
  <1>1. IInv => CompleteIsExact
    BY DEF IInv, ReturnedOK, CompleteIsExact
  <1> QED BY QueueInvariant, <1>1, PTL

\* Whenever the control mutex is free, the queue is empty, nothing is counted
\* as pending and no result is kept: no session sees the one before.
THEOREM SessionsAreSeparate == Spec => []SessionStartsClean
  <1>1. IInv => SessionStartsClean
    <2> SUFFICES ASSUME IInv, control = NoThread PROVE queue = <<>> /\ nTodo = 0 /\ m_result = NoResult
      BY Zenon DEF SessionStartsClean
    <2>1. Quiet
      BY ThreadsAssumption DEF IInv, ControlOK, Quiet, Threads
    <2> QED BY <2>1, QuietIsClean
  <1> QED BY QueueInvariant, <1>1, PTL

=============================================================================
