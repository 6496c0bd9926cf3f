--------------------------- MODULE ClassicRunTime ---------------------------
(***************************************************************************)
(* The classic runtime of OFluxRunTime.cpp: worker threads sharing one     *)
(* event queue under _manager_lock, the two condition variables            *)
(* _waiting_to_run and _waiting_in_pool, detached execution with the lock  *)
(* released, wake_another_thread creating or signalling threads, and       *)
(* submitEvents from node code.                                            *)
(*                                                                         *)
(* Events are abstracted to their kind: "det" for a node that may run      *)
(* detached, "norm" otherwise.  The flow is abstracted to "each finished   *)
(* event leaves one successor" (a source re-emitting itself).  The headers *)
(* of RunTimeThread, ConditionVariable and UnlockRunTime are not in the    *)
(* repository; a condition variable is modelled with pthread semantics     *)
(* (wait releases the lock, a signal wakes one waiter or is lost, a woken  *)
(* waiter re-acquires the lock) and UnlockRunTime as its AutoUnLock member *)
(* (unlock on entry, lock on exit).                                        *)
(***************************************************************************)
EXTENDS Integers, FiniteSets, Sequences, Functions

CONSTANTS
    Threads,            \* thread ids the runtime can create, Main included
    Main,               \* the thread that calls RunTime::start
    MaxThreadPool,      \* _rtc.max_thread_pool_size (0 = no limit)
    MaxDetached,        \* _rtc.max_detached_threads (0 = no limit)
    MaxQueue,           \* bound: events in the queue
    MaxSubmits,         \* bound: submitEvents calls in a behaviour
    InitialEvents,      \* kinds pushed by push_initials_and_sources
    NewThreadBootstrap, \* _bootstrap of a thread made by wake_another_thread
    ContextSwitch,      \* _condition_context_switch
    NONE

Kinds == {"det", "norm"}

VARIABLES
    lock,        \* holder of _manager_lock, or NONE
    pc,          \* pc[t]: where thread t is
    ret,         \* ret[t]: where a woken waiter resumes once it holds the lock
    cur,         \* cur[t]: the event t's ev holds, or NONE
    snap,        \* snap[t]: counts read by an unlocked wake_another_thread
    poolW,       \* threads waiting on _waiting_in_pool
    wtrW,        \* threads waiting on _waiting_to_run
    threadCount, \* RunTime::_thread_count
    threadList,  \* RunTime::_thread_list
    detachedCount, \* RunTime::_detached_count
    queue,       \* queue[e]: events e in RunTime::_queue
    submits,     \* submitEvents calls so far
    on,          \* on[t]: the condition variable t is inside wait() of
    running      \* RunTime::_running, read by threads as _system_running

vars == <<lock, pc, ret, cur, snap, poolW, wtrW, threadCount, threadList,
          detachedCount, queue, submits, on, running>>

Pcs == {"unborn", "start", "loop", "loop2", "pop", "exec", "det_exec",
        "after_det", "reacq", "sub_lock", "sub_wake",
        "sub_wake2", "yield_chk", "exit", "shutdown", "done"}

QueueLen == SumFunction(queue)

\* _queue.pop(evb) succeeds with an event of kind k.
PoppableAny(k) == TRUE
Poppable(k) == queue[k] > 0
Push(q, k) == [q EXCEPT ![k] = @ + 1]
Pop(q, k) == [q EXCEPT ![k] = @ - 1]

-----------------------------------------------------------------------------
(* Condition variables (spec-modelled): wait releases the lock; signal     *)
(* moves one waiter, if any, to re-acquire the lock.                       *)

\* ConditionVariable::count(): threads inside wait() of cv, the signalled
\* ones that have not yet re-acquired the lock included.
Count(cv) == Cardinality({t \in Threads : on[t] = cv})

\* ConditionVariable::signal(): one thread still blocked in wait() is
\* woken (it then re-acquires the lock); with none blocked it is lost.
SignalOne(W, W2) ==
    IF W = {} THEN W2 = W ELSE \E w \in W : W2 = W \ {w}

-----------------------------------------------------------------------------
(* RunTime helpers.                                                        *)

\* RunTime::canThreadMore / canDetachMore on a given count.
CanThreadMore(n) == MaxThreadPool = 0 \/ n < MaxThreadPool
CanDetachMoreInclusive(n) == MaxDetached = 0 \/ n <= MaxDetached
CanDetachMore(n) == MaxDetached = 0 \/ n < MaxDetached

Unborn == {t \in Threads : pc[t] = "unborn"}

\* Ids a new RunTimeThread may take: never created, or exited.
Creatable == {t \in Threads \ {Main} : pc[t] \in {"unborn", "done"}}

\* RunTime::wake_another_thread, deciding on pool count pool0 and thread
\* count n0 (read under the lock, or earlier when the caller does not hold
\* it), with p the pc function and n, l the thread count and list being
\* built: while running, create a thread when nobody is in the pool and
\* the pool may grow, else signal _waiting_to_run if it has waiters, else
\* _waiting_in_pool if it has waiters, else signal _waiting_to_run to
\* nobody.  The lock is left to the caller.
WakeAnotherIgnoringRunning(pool0, n0, p, n, l) ==
    IF pool0 = 0 /\ CanThreadMore(n0)
    THEN \E nt \in Creatable :
            /\ threadCount' = n + 1
            /\ threadList' = l \cup {nt}
            /\ pc' = [p EXCEPT ![nt] = "start"]
            /\ UNCHANGED <<poolW, wtrW>>
    ELSE /\ pc' = p
         /\ threadCount' = n /\ threadList' = l
         /\ IF Count("wtr") > 0 \/ Count("pool") = 0
            THEN SignalOne(wtrW, wtrW') /\ UNCHANGED poolW
            ELSE SignalOne(poolW, poolW') /\ UNCHANGED wtrW
WakeAnother(pool0, n0, p, n, l) ==
    IF running /\ pool0 = 0 /\ CanThreadMore(n0)
    THEN \E nt \in Creatable :
            /\ threadCount' = n + 1
            /\ threadList' = l \cup {nt}
            /\ pc' = [p EXCEPT ![nt] = "start"]
            /\ UNCHANGED <<poolW, wtrW>>
    ELSE /\ pc' = p
         /\ threadCount' = n /\ threadList' = l
         /\ IF Count("wtr") > 0 \/ Count("pool") = 0
            THEN SignalOne(wtrW, wtrW') /\ UNCHANGED poolW
            ELSE SignalOne(poolW, poolW') /\ UNCHANGED wtrW

-----------------------------------------------------------------------------
(* Threads.                                                                *)

Init ==
    /\ lock = NONE
    /\ pc = [t \in Threads |-> IF t = Main THEN "start" ELSE "unborn"]
    /\ ret = [t \in Threads |-> "loop"]
    /\ cur = [t \in Threads |-> NONE]
    /\ snap = [t \in Threads |-> [pool |-> 0, n |-> 0]]
    /\ poolW = {}
    /\ wtrW = {}
    /\ threadCount = 1
    /\ threadList = {Main}
    /\ detachedCount = 0
    /\ queue = [k \in Kinds |-> Cardinality({i \in DOMAIN InitialEvents :
                                               InitialEvents[i] = k})]
    /\ submits = 0
    /\ on = [t \in Threads |-> "none"]
    /\ running = TRUE

\* t, holding the lock, waits on cv (wait_in_pool / wait_to_run) and
\* resumes at r.
Wait(t, cv, r) ==
    /\ lock' = NONE
    /\ on' = [on EXCEPT ![t] = cv]
    /\ ret' = [ret EXCEPT ![t] = r]

\* RunTimeThread::start: the AutoLock, then wait_in_pool unless bootstrap.
Start(t) ==
    /\ pc[t] = "start"
    /\ lock = NONE
    /\ IF t = Main \/ NewThreadBootstrap
       THEN lock' = t /\ pc' = [pc EXCEPT ![t] = "loop"]
            /\ UNCHANGED <<poolW, on, ret>>
       ELSE Wait(t, "pool", "loop") /\ poolW' = poolW \cup {t}
            /\ pc' = [pc EXCEPT ![t] = "reacq"]
    /\ UNCHANGED <<cur, snap, wtrW, threadCount, threadList, detachedCount,
                   queue, submits>>

\* A woken waiter returns from wait() holding the lock again.
Reacquire(t) ==
    /\ pc[t] = "reacq"
    /\ t \notin poolW \cup wtrW
    /\ lock = NONE
    /\ lock' = t
    /\ pc' = [pc EXCEPT ![t] = ret[t]]
    /\ on' = [on EXCEPT ![t] = "none"]
    /\ UNCHANGED <<ret, cur, snap, poolW, wtrW, threadCount, threadList,
                   detachedCount, queue, submits>>

\* Top of the loop: the while condition _system_running, then, with
\* _condition_context_switch and threads waiting to run, the AutoUnLock
\* scope releases and re-takes the lock.
LoopTop(t) ==
    /\ pc[t] = "loop"
    /\ lock = t
    /\ \/ /\ ~running
          /\ pc' = [pc EXCEPT ![t] = "exit"]
          /\ UNCHANGED <<lock, ret>>
       \/ /\ running
          /\ IF ContextSwitch /\ Count("wtr") > 0
             THEN lock' = NONE /\ pc' = [pc EXCEPT ![t] = "reacq"]
                  /\ ret' = [ret EXCEPT ![t] = "loop2"]
             ELSE pc' = [pc EXCEPT ![t] = "loop2"] /\ UNCHANGED <<lock, ret>>
    /\ UNCHANGED <<cur, snap, poolW, wtrW, threadCount, threadList,
                   detachedCount, queue, submits, on>>

YieldNoSignal(t) ==
    /\ pc[t] = "loop2"
    /\ lock = t
    /\ IF Count("wtr") > 0
       THEN /\ Wait(t, "pool", "yield_chk") /\ poolW' = poolW \cup {t}
            /\ pc' = [pc EXCEPT ![t] = "reacq"] /\ UNCHANGED wtrW
            /\ cur' = [cur EXCEPT ![t] = NONE]
       ELSE /\ pc' = [pc EXCEPT ![t] = "pop"]
            /\ UNCHANGED <<lock, ret, wtrW, poolW, on, cur>>
    /\ UNCHANGED <<snap, threadCount, threadList, detachedCount, queue,
                   submits>>

\* Mutant: the loop yields only to a second thread waiting to run.
YieldSecondWaiter(t) ==
    /\ pc[t] = "loop2"
    /\ lock = t
    /\ IF Count("wtr") > 1
       THEN /\ SignalOne(wtrW, wtrW')
            /\ Wait(t, "pool", "yield_chk") /\ poolW' = poolW \cup {t}
            /\ pc' = [pc EXCEPT ![t] = "reacq"]
            /\ cur' = [cur EXCEPT ![t] = NONE]
       ELSE /\ pc' = [pc EXCEPT ![t] = "pop"]
            /\ UNCHANGED <<lock, ret, wtrW, poolW, on, cur>>
    /\ UNCHANGED <<snap, threadCount, threadList, detachedCount, queue,
                   submits>>

\* A thread waiting to run takes precedence: signal it, drop the last
\* event (ev.reset()) and go to the pool; once woken, check
\* _system_running before popping.
Yield(t) ==
    /\ pc[t] = "loop2"
    /\ lock = t
    /\ IF Count("wtr") > 0
       THEN /\ SignalOne(wtrW, wtrW')
            /\ Wait(t, "pool", "yield_chk") /\ poolW' = poolW \cup {t}
            /\ pc' = [pc EXCEPT ![t] = "reacq"]
            /\ cur' = [cur EXCEPT ![t] = NONE]
       ELSE /\ pc' = [pc EXCEPT ![t] = "pop"]
            /\ UNCHANGED <<lock, ret, wtrW, poolW, on, cur>>
    /\ UNCHANGED <<snap, threadCount, threadList, detachedCount, queue,
                   submits>>

\* Back from wait_in_pool in the loop: break out when the runtime stopped.
YieldCheck(t) ==
    /\ pc[t] = "yield_chk"
    /\ lock = t
    /\ pc' = [pc EXCEPT ![t] = IF running THEN "pop" ELSE "exit"]
    /\ UNCHANGED <<lock, ret, cur, snap, poolW, wtrW, threadCount, threadList,
                   detachedCount, queue, submits, on>>

\* _queue.pop and RunTimeThread::handle up to execution.  A detached node
\* within the detached budget runs execute_detached: _detached_count is
\* incremented, wake_another_thread is called under the lock and
\* UnlockRunTime releases it.  ev keeps the event until the next pop or
\* reset.  An empty queue (the "strange case") signals _waiting_to_run,
\* drops ev and waits in the pool.
PopHandle(t) ==
    /\ pc[t] = "pop"
    /\ lock = t
    /\ IF QueueLen > 0
       THEN \E k \in Kinds :
            /\ Poppable(k)
            /\ queue' = Pop(queue, k)
            /\ cur' = [cur EXCEPT ![t] = k]
            /\ IF k = "det" /\ CanDetachMore(detachedCount)
               THEN /\ detachedCount' = detachedCount + 1
                    /\ WakeAnother(Count("pool"), threadCount,
                                   [pc EXCEPT ![t] = "det_exec"],
                                   threadCount, threadList)
                    /\ lock' = NONE
               ELSE /\ pc' = [pc EXCEPT ![t] = "exec"]
                    /\ UNCHANGED <<lock, detachedCount, poolW, wtrW,
                                   threadCount, threadList>>
            /\ UNCHANGED <<ret, on>>
       ELSE /\ SignalOne(wtrW, wtrW')
            /\ Wait(t, "pool", "loop") /\ poolW' = poolW \cup {t}
            /\ pc' = [pc EXCEPT ![t] = "reacq"]
            /\ cur' = [cur EXCEPT ![t] = NONE]
            /\ UNCHANGED <<queue, detachedCount, threadCount, threadList>>
    /\ UNCHANGED <<snap, submits>>

\* Node code calls RunTime::submitEvents while holding the lock: push, then
\* wake_another_thread under the lock.
SubmitLocked(t) ==
    /\ pc[t] = "exec"
    /\ lock = t
    /\ submits < MaxSubmits
    /\ \E k \in Kinds :
          queue' = Push(queue, k)
    /\ submits' = submits + 1
    /\ WakeAnother(Count("pool"), threadCount, pc, threadCount, threadList)
    /\ UNCHANGED <<lock, ret, cur, snap, detachedCount, on>>

\* Node code of a detached thread calls RunTime::submitEvents: it takes
\* the lock only around push_list.
SubmitDetached(t) ==
    /\ pc[t] = "det_exec"
    /\ lock = NONE
    /\ submits < MaxSubmits
    /\ \E k \in Kinds :
          queue' = Push(queue, k)
    /\ submits' = submits + 1
    /\ pc' = [pc EXCEPT ![t] = "sub_wake"]
    /\ UNCHANGED <<lock, ret, cur, snap, poolW, wtrW, threadCount,
                   threadList, detachedCount, on>>

\* ... then calls wake_another_thread without the lock: it reads
\* _waiting_in_pool.count() and _thread_count ...
SubmitWakeRead(t) ==
    /\ pc[t] = "sub_wake"
    /\ snap' = [snap EXCEPT ![t] = [pool |-> Count("pool"), n |-> threadCount]]
    /\ pc' = [pc EXCEPT ![t] = "sub_wake2"]
    /\ UNCHANGED <<lock, ret, cur, poolW, wtrW, threadCount, threadList,
                   detachedCount, queue, submits, on>>

\* ... and acts on what it read while other threads run.
SubmitWakeAct(t) ==
    /\ pc[t] = "sub_wake2"
    /\ WakeAnother(snap[t].pool, snap[t].n, [pc EXCEPT ![t] = "det_exec"],
                   threadCount, threadList)
    /\ UNCHANGED <<lock, ret, cur, snap, detachedCount, queue, submits, on>>

\* ev->execute() of a detached node returns; UnlockRunTime re-takes the
\* lock, Increment gives back the detached slot, and handle calls
\* wait_to_run.
DetachedReturn(t) ==
    /\ pc[t] = "det_exec"
    /\ lock = NONE
    /\ detachedCount' = detachedCount - 1
    /\ Wait(t, "wtr", "after_det") /\ wtrW' = wtrW \cup {t}
    /\ pc' = [pc EXCEPT ![t] = "reacq"]
    /\ UNCHANGED <<cur, snap, poolW, threadCount, threadList, queue, submits>>

\* Successor processing and enqueue_list after execution (non-detached,
\* under the lock throughout, or detached after wait_to_run returned):
\* one successor event, of either kind, while the queue is below MaxQueue.
Finish(t) ==
    /\ pc[t] \in {"exec", "after_det"}
    /\ lock = t
    /\ \E k \in Kinds :
          queue' = IF QueueLen < MaxQueue THEN Push(queue, k) ELSE queue
    /\ pc' = [pc EXCEPT ![t] = "loop"]
    /\ UNCHANGED <<lock, ret, cur, snap, poolW, wtrW, threadCount,
                   threadList, detachedCount, submits, on>>

\* RunTime::remove: t leaves _thread_list, and _thread_count drops only
\* when the list had it.
RemoveThread(t) ==
    [n |-> IF t \in threadList THEN threadCount - 1 ELSE threadCount,
     l |-> threadList \ {t}]

\* After the loop: RunTime::remove takes the thread off _thread_list and
\* decrements _thread_count; while threads remain, wake_another_thread
\* passes the shutdown on.  The AutoLock then releases the lock.  Main
\* goes on to RunTime::start's shutdown phase.
Exit(t) ==
    /\ pc[t] = "exit"
    /\ lock = t
    /\ LET n == RemoveThread(t).n
           l == RemoveThread(t).l
           p == [pc EXCEPT ![t] = IF t = Main THEN "shutdown" ELSE "done"]
       IN IF n > 0
          THEN WakeAnother(Count("pool"), n, p, n, l)
          ELSE pc' = p /\ threadCount' = n /\ threadList' = l
                       /\ UNCHANGED <<poolW, wtrW>>
    /\ lock' = NONE
    /\ cur' = [cur EXCEPT ![t] = NONE]
    /\ UNCHANGED <<ret, snap, detachedCount, queue, submits, on>>

\* RunTime::start's shutdown loop ends once _thread_count is 0 (each turn
\* only sends SIGINTs under the lock), and start returns.
Shutdown ==
    /\ pc[Main] = "shutdown"
    /\ threadCount = 0
    /\ pc' = [pc EXCEPT ![Main] = "done"]
    /\ UNCHANGED <<lock, ret, cur, snap, poolW, wtrW, threadCount, threadList,
                   detachedCount, queue, submits, on, running>>

\* RunTime::soft_kill (spec-modelled, spec 4.2 and 4.9): clears running
\* and wakes every waiting thread.
SoftKill ==
    /\ running
    /\ running' = FALSE
    /\ poolW' = {} /\ wtrW' = {}
    /\ UNCHANGED <<lock, pc, ret, cur, snap, threadCount, threadList,
                   detachedCount, queue, submits, on>>

\* RunTime::start has returned.
Stopped ==
    /\ pc[Main] = "done"
    /\ UNCHANGED vars

\* The steps of thread t.
Step(t) ==
    \/ Start(t) \/ Reacquire(t) \/ LoopTop(t) \/ Yield(t) \/ YieldCheck(t)
    \/ PopHandle(t) \/ SubmitLocked(t) \/ SubmitDetached(t)
    \/ SubmitWakeRead(t) \/ SubmitWakeAct(t) \/ DetachedReturn(t)
    \/ Finish(t) \/ Exit(t)

Next ==
    \/ \E t \in Threads : Step(t) /\ UNCHANGED running
    \/ Shutdown \/ SoftKill \/ Stopped

Spec == Init /\ [][Next]_vars

\* The OS schedules every runnable thread, and a thread blocked on
\* _manager_lock gets it when it is released again and again (strong
\* fairness on the steps that take the lock).  Node code returns.  Node
\* code need not call submitEvents, and nobody need call soft_kill.
Fairness ==
    /\ \A t \in Threads :
          /\ SF_vars(Start(t) /\ UNCHANGED running)
          /\ SF_vars(Reacquire(t) /\ UNCHANGED running)
          /\ SF_vars(DetachedReturn(t) /\ UNCHANGED running)
          /\ WF_vars((LoopTop(t) \/ Yield(t) \/ YieldCheck(t) \/ PopHandle(t)
                      \/ SubmitWakeRead(t) \/ SubmitWakeAct(t) \/ Finish(t)
                      \/ Exit(t)) /\ UNCHANGED running)
    /\ WF_vars(Shutdown)

FairSpec == Spec /\ Fairness
-----------------------------------------------------------------------------
(* Properties.                                                             *)

TypeOK ==
    /\ lock \in Threads \cup {NONE}
    /\ pc \in [Threads -> Pcs]
    /\ poolW \subseteq Threads /\ wtrW \subseteq Threads
    /\ threadCount \in Nat /\ detachedCount \in Nat
    /\ threadList \subseteq Threads
    /\ queue \in [Kinds -> Nat]
    /\ on \in [Threads -> {"none", "pool", "wtr"}]

\* Threads running node code detached (execute_detached up to the relock).
Detached == {t \in Threads : pc[t] \in {"det_exec", "sub_wake", "sub_wake2"}}

\* _detached_count, incremented and decremented by Increment around
\* execute_detached, counts exactly the threads running detached, and
\* handle's canDetachMore check keeps it within max_detached_threads.
DetachedAccounted ==
    /\ detachedCount = Cardinality(Detached)
    /\ MaxDetached = 0 \/ detachedCount <= MaxDetached

\* wake_another_thread checks canThreadMore before creating a thread, so
\* _thread_count never exceeds max_thread_pool_size.
ThreadsWithinPool ==
    MaxThreadPool = 0 \/ threadCount <= MaxThreadPool

\* Every thread on _thread_list is blocked in a condition variable wait,
\* none of them signalled: only a running thread ever signals.
AllBlocked ==
    /\ threadList /= {}
    /\ \A t \in threadList : t \in poolW \cup wtrW

\* While the runtime runs it never reaches a state where every thread is
\* blocked while a thread waits to run (holding an event whose successors
\* are pending) or the queue holds events: wait_in_pool / wait_to_run in
\* RunTimeThread::start and handle always leave someone to signal them.
NoStall ==
    running /\ AllBlocked => (wtrW = {} /\ QueueLen = 0)

\* No thread of _thread_list can run: each is blocked in a condition
\* variable wait, unsignalled (true when the list is empty).
Quiet == \A t \in threadList : t \in poolW \cup wtrW

\* Once soft_kill has cleared _running, the runtime comes to rest: every
\* thread leaves its loop at the while test or after wait_in_pool, or
\* blocks, and wake_another_thread creates no new thread once the runtime
\* stopped, so exiting threads are not replaced for ever.
ShutdownQuiesces ==
    ~running ~> Quiet

\* While the runtime runs, a thread that returned from a detached node and
\* called wait_to_run is eventually signalled and goes on with its handle
\* (or soft_kill comes first): wake_another_thread and the loop's yield
\* signal _waiting_to_run ahead of _waiting_in_pool.
WaitToRunReturns ==
    \A t \in Threads :
        t \in wtrW /\ running ~> pc[t] = "after_det" \/ ~running

\* Once soft_kill has cleared _running, RunTime::start returns: every
\* thread is removed and _thread_count reaches 0.  A thread that ran a
\* detached node when soft_kill came waits in wait_to_run with nobody left
\* to signal it (MCClassicRunTime_Shutdown.cfg).
ShutdownCompletes ==
    ~running ~> pc[Main] = "done"

=============================================================================
