----------------------------- MODULE CheckQueue -----------------------------
(***************************************************************************)
(* The parallel script checker: CCheckQueue, a pool of worker threads that *)
(* a master (a thread holding a CCheckQueueControl) fills with checks and  *)
(* then joins until all of them are done.                                  *)
(*                                                                         *)
(* Each region under m_mutex is one action.  The notifications Add and the *)
(* destructor send after the unlock are actions of their own, and a wait   *)
(* may end without a notification.                                         *)
(*                                                                         *)
(* A check carries the session (lifetime of one CCheckQueueControl) it was *)
(* added in; the error of a failing check is that session.                 *)
(***************************************************************************)
EXTENDS Integers, Sequences, FiniteSets

CONSTANTS Workers, Masters,
          nBatchSize,
          Batches,      \* what Add may be given: sequences of BOOLEAN, TRUE for a failing check
          NoThread, NoResult,
          MaxSessions, MaxChecks   \* bounds

ASSUME ThreadsAssumption == /\ IsFiniteSet(Workers) /\ IsFiniteSet(Masters)
                            /\ Workers \cap Masters = {}
                            /\ NoThread \notin Workers \cup Masters
ASSUME BatchAssumption == /\ nBatchSize \in Nat \ {0}
                          /\ Batches \subseteq Seq(BOOLEAN) \ {<<>>}
                          /\ NoResult \notin Nat
                          /\ MaxSessions \in Nat /\ MaxChecks \in Nat

Threads == Workers \cup Masters

VARIABLES
    queue, nIdle, nTotal, m_result, nTodo, m_request_stop,
    control,       \* holder of m_control_mutex
    dtor,          \* ~CCheckQueue: "alive", "notify", "join", "gone"
    pc,            \* where each thread is
    vChecks,       \* a thread's batch, until its clean-up; nNow is its length
    do_work, local_result,
    session, added, \* sessions begun, checks added in all of them
    failing,       \* a failing check was added in this session
    returned       \* what the last Complete returned, and should have

shared == <<queue, nIdle, nTotal, m_result, nTodo, m_request_stop>>
local == <<vChecks, do_work, local_result>>
ghost == <<session, added, failing, returned>>
vars == <<shared, control, dtor, pc, local, ghost>>

Check == [id : Nat, session : Nat, fails : BOOLEAN]

\* Thread positions after notify_one and notify_all on the condition
\* variable the threads S wait on.
Waiting(S) == {t \in S : pc[t] = "wait"}
NotifyOne(S) == IF Waiting(S) = {} THEN {pc}
                ELSE {[pc EXCEPT ![t] = "woken"] : t \in Waiting(S)}
NotifyAll(S) == [t \in Threads |-> IF t \in Waiting(S) THEN "woken" ELSE pc[t]]

Init == /\ queue = <<>> /\ nIdle = 0 /\ nTotal = 0 /\ nTodo = 0
        /\ m_result = NoResult /\ m_request_stop = FALSE
        /\ control = NoThread /\ dtor = "alive"
        /\ pc = [t \in Threads |-> IF t \in Workers THEN "start" ELSE "idle"]
        /\ vChecks = [t \in Threads |-> <<>>]
        /\ do_work = [t \in Threads |-> FALSE]
        /\ local_result = [t \in Threads |-> NoResult]
        /\ session = 0 /\ added = 0 /\ failing = FALSE
        /\ returned = [session |-> 0, expected |-> NoResult, result |-> NoResult]

-----------------------------------------------------------------------------
(* Loop.                                                                   *)

Least(a, b) == IF a <= b THEN a ELSE b
Greatest(a, b) == IF a >= b THEN a ELSE b

BatchLen(total, idle) == Greatest(1, Least(nBatchSize, Len(queue) \div (total + idle + 1)))

\* The inner loop and what follows it, to the end of the critical section:
\* the master is done, ...
Leave(t, pcs, result, todo, total, idle) ==
    /\ queue = <<>> /\ ~m_request_stop
    /\ t \in Masters /\ todo = 0
    /\ nTotal' = total - 1
    /\ m_result' = NoResult
    /\ returned' = [session |-> session, result |-> result,
                    expected |-> IF failing THEN session ELSE NoResult]
    /\ pc' = [pcs EXCEPT ![t] = "returned"]
    /\ nIdle' = idle
    /\ vChecks' = [vChecks EXCEPT ![t] = <<>>]
    /\ UNCHANGED <<queue, do_work>>

\* ... cond.wait, ...
Wait(t, pcs, result, todo, total, idle) ==
    /\ queue = <<>> /\ ~m_request_stop
    /\ ~(t \in Masters /\ todo = 0)
    /\ nIdle' = idle + 1
    /\ pc' = [pcs EXCEPT ![t] = "wait"]
    /\ m_result' = result /\ nTotal' = total
    /\ vChecks' = [vChecks EXCEPT ![t] = <<>>]
    /\ UNCHANGED <<queue, do_work, returned>>

\* ... the destructor asks the thread to stop, ...
Stop(t, pcs, result, total, idle) ==
    /\ m_request_stop
    /\ pc' = [pcs EXCEPT ![t] = "done"]
    /\ m_result' = result /\ nTotal' = total /\ nIdle' = idle
    /\ vChecks' = [vChecks EXCEPT ![t] = <<>>]
    /\ UNCHANGED <<queue, do_work, returned>>

\* ... or it takes the end of the queue.
Take(t, pcs, result, total, idle) ==
    /\ queue # <<>> /\ ~m_request_stop
    /\ LET rest == Len(queue) - BatchLen(total, idle)
       IN  /\ vChecks' = [vChecks EXCEPT ![t] = SubSeq(queue, rest + 1, Len(queue))]
           /\ queue' = SubSeq(queue, 1, rest)
    /\ do_work' = [do_work EXCEPT ![t] = (result = NoResult)]
    /\ pc' = [pcs EXCEPT ![t] = "work"]
    /\ m_result' = result /\ nTotal' = total /\ nIdle' = idle
    /\ UNCHANGED returned

Decide(t, pcs, result, todo, total, idle) ==
    \/ Leave(t, pcs, result, todo, total, idle)
    \/ Wait(t, pcs, result, todo, total, idle)
    \/ Stop(t, pcs, result, total, idle)
    \/ Take(t, pcs, result, total, idle)

loopFrame == <<m_request_stop, control, dtor, session, added, failing>>

\* First iteration.
Enter(t) ==
    /\ pc[t] = "start"
    /\ Decide(t, pc, m_result, nTodo, nTotal + 1, nIdle)
    /\ UNCHANGED <<nTodo, local_result, loopFrame>>

\* Mutant: nIdle is not decremented after the wait.
ResumeStaysIdle(t) ==
    /\ pc[t] = "woken"
    /\ Decide(t, pc, m_result, nTodo, nTotal, nIdle)
    /\ UNCHANGED <<nTodo, local_result, loopFrame>>

\* Back from cond.wait with the mutex.
Resume(t) ==
    /\ pc[t] = "woken"
    /\ Decide(t, pc, m_result, nTodo, nTotal, nIdle - 1)
    /\ UNCHANGED <<nTodo, local_result, loopFrame>>

\* The failing checks of a thread's batch, by position.
Failed(t) == {i \in DOMAIN vChecks[t] : vChecks[t][i].fails}

\* Mutant: a batch without failures leaves the previous result in place.
WorkKeepsResult(t) ==
    /\ pc[t] = "work"
    /\ \/ (~do_work[t] \/ Failed(t) = {}) /\ UNCHANGED local_result
       \/ do_work[t] /\ \E i \in Failed(t) :
            local_result' = [local_result EXCEPT ![t] = vChecks[t][i].session]
    /\ pc' = [pc EXCEPT ![t] = "finish"]
    /\ UNCHANGED <<shared, control, dtor, vChecks, do_work, ghost>>

\* Execute the batch, up to the first failing check; no lock is held.
Work(t) ==
    /\ pc[t] = "work"
    /\ \/ ~do_work[t] /\ UNCHANGED local_result
       \/ /\ do_work[t] /\ Failed(t) = {}
          /\ local_result' = [local_result EXCEPT ![t] = NoResult]
       \/ do_work[t] /\ \E i \in Failed(t) :
            /\ \A j \in Failed(t) : i <= j
            /\ local_result' = [local_result EXCEPT ![t] = vChecks[t][i].session]
    /\ pc' = [pc EXCEPT ![t] = "finish"]
    /\ UNCHANGED <<shared, control, dtor, vChecks, do_work, ghost>>

\* Mutant: the master is not notified.
CleanUpSilent(t) ==
    /\ pc[t] = "finish"
    /\ LET report == local_result[t] # NoResult /\ m_result = NoResult
           todo   == nTodo - Len(vChecks[t])
       IN  /\ local_result' = IF report THEN [local_result EXCEPT ![t] = NoResult] ELSE local_result
           /\ nTodo' = todo
           /\ Decide(t, pc, IF report THEN local_result[t] ELSE m_result, todo, nTotal, nIdle)
    /\ UNCHANGED loopFrame

\* Clean up the previous iteration and go on in the same critical section.
CleanUp(t) ==
    /\ pc[t] = "finish"
    /\ LET report == local_result[t] # NoResult /\ m_result = NoResult
           todo   == nTodo - Len(vChecks[t])
       IN  /\ local_result' = IF report THEN [local_result EXCEPT ![t] = NoResult] ELSE local_result
           /\ nTodo' = todo
           /\ \E pcs \in (IF todo = 0 /\ t \notin Masters THEN NotifyOne(Masters) ELSE {pc}) :
                 Decide(t, pcs, IF report THEN local_result[t] ELSE m_result, todo, nTotal, nIdle)
    /\ UNCHANGED loopFrame

SpuriousWakeup(t) ==
    /\ pc[t] = "wait"
    /\ pc' = [pc EXCEPT ![t] = "woken"]
    /\ UNCHANGED <<shared, control, dtor, local, ghost>>

-----------------------------------------------------------------------------
(* CCheckQueueControl.                                                     *)

Begin(m) ==
    /\ pc[m] = "idle" /\ control = NoThread /\ dtor = "alive"
    /\ session < MaxSessions
    /\ control' = m
    /\ session' = session + 1
    /\ failing' = FALSE
    /\ pc' = [pc EXCEPT ![m] = "own"]
    /\ UNCHANGED <<shared, dtor, local, added, returned>>

\* Mutant: one check is counted, whatever the size of the batch.
AddCountsOne(m, b) ==
    /\ pc[m] = "own"
    /\ added + Len(b) <= MaxChecks
    /\ queue' = queue \o [i \in 1 .. Len(b) |-> [id |-> added + i, session |-> session, fails |-> b[i]]]
    /\ nTodo' = nTodo + 1
    /\ pc' = [pc EXCEPT ![m] = IF Len(b) = 1 THEN "notify_one" ELSE "notify_all"]
    /\ added' = added + Len(b)
    /\ failing' = (failing \/ \E i \in 1 .. Len(b) : b[i])
    /\ UNCHANGED <<nIdle, nTotal, m_result, m_request_stop, control, dtor, local, session, returned>>

Add(m, b) ==
    /\ pc[m] = "own"
    /\ added + Len(b) <= MaxChecks
    /\ queue' = queue \o [i \in 1 .. Len(b) |-> [id |-> added + i, session |-> session, fails |-> b[i]]]
    /\ nTodo' = nTodo + Len(b)
    /\ pc' = [pc EXCEPT ![m] = IF Len(b) = 1 THEN "notify_one" ELSE "notify_all"]
    /\ added' = added + Len(b)
    /\ failing' = (failing \/ \E i \in 1 .. Len(b) : b[i])
    /\ UNCHANGED <<nIdle, nTotal, m_result, m_request_stop, control, dtor, local, session, returned>>

\* The notification Add sends after it released the mutex.
NotifyWorkers(m) ==
    /\ \/ pc[m] = "notify_one" /\ \E pcs \in NotifyOne(Workers) : pc' = [pcs EXCEPT ![m] = "own"]
       \/ pc[m] = "notify_all" /\ pc' = [NotifyAll(Workers) EXCEPT ![m] = "own"]
    /\ UNCHANGED <<shared, control, dtor, local, ghost>>

\* Called by the owner, or by ~CCheckQueueControl if the owner did not.
Complete(m) ==
    /\ pc[m] = "own"
    /\ pc' = [pc EXCEPT ![m] = "start"]
    /\ local_result' = [local_result EXCEPT ![m] = NoResult]
    /\ UNCHANGED <<shared, control, dtor, vChecks, do_work, ghost>>

End(m) ==
    /\ pc[m] = "returned"
    /\ pc' = [pc EXCEPT ![m] = "idle"]
    /\ control' = NoThread
    /\ UNCHANGED <<shared, dtor, local, ghost>>

-----------------------------------------------------------------------------
(* ~CCheckQueue.  Its owner destroys it when no thread uses it any more.   *)

RequestStop ==
    /\ dtor = "alive" /\ control = NoThread
    /\ m_request_stop' = TRUE
    /\ dtor' = "notify"
    /\ UNCHANGED <<queue, nIdle, nTotal, m_result, nTodo, control, pc, local, ghost>>

\* Mutant: the destructor wakes one worker only.
NotifyStopOne ==
    /\ dtor = "notify"
    /\ pc' \in NotifyOne(Workers)
    /\ dtor' = "join"
    /\ UNCHANGED <<shared, control, local, ghost>>

NotifyStop ==
    /\ dtor = "notify"
    /\ pc' = NotifyAll(Workers)
    /\ dtor' = "join"
    /\ UNCHANGED <<shared, control, local, ghost>>

Join ==
    /\ dtor = "join"
    /\ \A w \in Workers : pc[w] = "done"
    /\ dtor' = "gone"
    /\ UNCHANGED <<shared, control, pc, local, ghost>>

Gone == dtor = "gone" /\ UNCHANGED vars

-----------------------------------------------------------------------------
LoopStep(t) == Enter(t) \/ Resume(t) \/ Work(t) \/ CleanUp(t)
ControlStep(m) == NotifyWorkers(m) \/ Complete(m) \/ End(m)

Next == \/ \E t \in Threads : LoopStep(t) \/ SpuriousWakeup(t)
        \/ \E m \in Masters : Begin(m) \/ ControlStep(m)
        \/ \E m \in Masters, b \in Batches : Add(m, b)
        \/ RequestStop \/ NotifyStop \/ Join \/ Gone

\* Every thread that is not blocked is scheduled and gets the mutex it asks
\* for; a wait ends only when it is notified.
Fairness == /\ \A t \in Threads : WF_vars(LoopStep(t))
            /\ \A m \in Masters : WF_vars(ControlStep(m))
            /\ WF_vars(NotifyStop) /\ WF_vars(Join)

Spec == Init /\ [][Next]_vars /\ Fairness

-----------------------------------------------------------------------------
(* Properties.                                                             *)

\* Type invariant.
TypeOK ==
    /\ queue \in Seq(Check) /\ nTodo \in Nat
    /\ nIdle \in Nat /\ nTotal \in Nat
    /\ m_result \in Nat \cup {NoResult} /\ m_request_stop \in BOOLEAN
    /\ control \in Masters \cup {NoThread}
    /\ dtor \in {"alive", "notify", "join", "gone"}
    /\ pc \in [Threads -> {"idle", "own", "notify_one", "notify_all", "start", "wait", "woken",
                           "work", "finish", "returned", "done"}]
    /\ vChecks \in [Threads -> Seq(Check)] /\ do_work \in [Threads -> BOOLEAN]
    /\ local_result \in [Threads -> Nat \cup {NoResult}]
    /\ session \in Nat /\ added \in Nat /\ failing \in BOOLEAN
    /\ returned \in [session : Nat, expected : Nat \cup {NoResult}, result : Nat \cup {NoResult}]

\* Complete returns the error of a check of its own session if one of them
\* fails, and none otherwise: no failure is lost between the threads, and an
\* error a worker still holds from an earlier session is never reported.
CompleteIsExact == returned.result = returned.expected

Elems(s) == {s[i] : i \in DOMAIN s}
Pending == Elems(queue) \cup UNION {Elems(vChecks[t]) : t \in Threads}

\* nTodo is the number of checks that are queued or in some thread's batch,
\* so that zero means that every check was executed.
TodoIsPending == nTodo = Cardinality(Pending)

\* The counts the batch size is computed from are the threads in Loop and
\* those of them that wait.
CountsAreThreads ==
    ~m_request_stop =>
        /\ nIdle = Cardinality({t \in Threads : pc[t] \in {"wait", "woken"}})
        /\ nTotal = Cardinality({t \in Threads : pc[t] \in {"wait", "woken", "work", "finish"}})

\* A session begins with nothing left over from the one before.
SessionStartsClean ==
    control = NoThread => queue = <<>> /\ nTodo = 0 /\ m_result = NoResult

\* Complete returns.
CompleteReturns == \A m \in Masters : pc[m] = "start" ~> pc[m] = "returned"

\* The destructor joins every worker.
DestructorReturns == m_request_stop ~> dtor = "gone"
=============================================================================
