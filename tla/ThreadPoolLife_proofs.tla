----------------------- MODULE ThreadPoolLife_proofs -----------------------
(* The life of ThreadPool's threads and of the context they share, for any *)
(* number of workers, clients, listening sockets and queue slots, when the *)
(* threads' own allocations succeed.                                       *)
EXTENDS ThreadPool_proofs

Starting == {"start_master", "start_workers", "inc_load", "inc_store"}
Stopping == {"shutdown", "join", "join_wait", "on_cond", "destroy", "finish",
             "done"}
Dead     == {"off", "failed", "done"}

\* The workers that were created and have not left worker_thread.
Live == {w \in Workers : worker[w] \notin Dead}

\* The worker that mg_start has created and not counted yet.
Uncounted == IF app \in {"inc_load", "inc_store"} THEN 1 ELSE 0

\* Nothing stops before mg_stop is called; num_threads counts the live workers
\* once mg_start has caught up; the mutex belongs to the thread inside its
\* critical section; and the master destroys the context after the last worker.
Life ==
  /\ app \in Starting \cup {"run"} => stop_flag = 0
  /\ stop_flag = 0 =>
       /\ master \notin Stopping
       /\ \A w \in Workers : worker[w] \notin {"exit", "exit_store", "done"}
  /\ app = "inc_store" => inc = num_threads
  /\ app \in {"inc_load", "inc_store"} => Live # {}
  /\ master \in {"produce_wait", "join_wait"} => mutex = "master"
  /\ \A w \in Workers :
       /\ worker[w] \in {"consume_wait", "exit_store"} => mutex = w
       /\ worker[w] = "exit_store" => dec = num_threads
  /\ master \in {"destroy", "finish", "done"} => Live = {}
  /\ ctx # "live" => master \in {"finish", "done"}
  /\ ctx = "freed" => master = "done"
  /\ stop_flag = 2 => master = "done"

Counted == num_threads = Cardinality(Live) - Uncounted

LEMMA LiveFinite == IsFiniteSet(Live) /\ Cardinality(Live) \in Nat
  BY PoolAssumption, FS_Subset, FS_CardinalityType, Zenon DEF Live

\* Steps that neither start nor end a worker keep the set of live workers.
LEMMA LiveKept ==
  ASSUME \A w \in Workers : worker'[w] \in Dead <=> worker[w] \in Dead
  PROVE  Live' = Live
  BY Zenon DEF Live

\* The inductive step.  Without a failing calloc a worker leaves its loop, and
\* the master its own, only after stop_flag was set.
LEMMA LifeStep ==
  ASSUME "calloc" \notin Faults, TypeOK, Life, Counted, [Next]_vars
  PROVE  Life' /\ Counted'
<1>1. CASE StartMaster
  <2>1. Live' = Live
    BY <1>1 DEF StartMaster, Live
  <2>2. Life'
    BY <1>1, <2>1, PoolAssumption
    DEF StartMaster, Life, Starting, Stopping, TypeOK
  <2> QED
    BY <1>1, <2>1, <2>2 DEF StartMaster, Counted, Uncounted
<1>2. ASSUME NEW w \in Workers, StartWorker(w) PROVE Life' /\ Counted'
  <2>1. CASE worker' = [worker EXCEPT ![w] = "begin"] /\ app' = "inc_load"
    <3>1. Live' = Live \cup {w} /\ w \notin Live
      <4>1. worker'[w] = "begin" /\ worker[w] = "off"
        BY <1>2, <2>1 DEF StartWorker, TypeOK
      <4>2. \A v \in Workers \ {w} : worker'[v] = worker[v]
        BY <2>1 DEF TypeOK
      <4> QED
        BY <4>1, <4>2 DEF Live, Dead
    <3>2. Cardinality(Live') = Cardinality(Live) + 1
      BY <3>1, LiveFinite, FS_AddElement
    <3>3. Counted'
      BY <1>2, <2>1, <3>2, LiveFinite DEF StartWorker, Counted, Uncounted
    <3>4. stop_flag = 0 /\ UNCHANGED <<stop_flag, master, mutex, ctx>>
      BY <1>2 DEF StartWorker, Life, Starting
    <3>5. \A v \in Workers :
            worker'[v] \notin {"exit", "exit_store", "done"} /\
            (worker'[v] = "consume_wait" => mutex = v)
      BY <1>2, <2>1, <3>4 DEF StartWorker, Life, TypeOK
    <3> QED
      BY <2>1, <3>1, <3>3, <3>4, <3>5 DEF Life, Starting, Stopping
  <2>2. CASE worker' = [worker EXCEPT ![w] = "failed"] /\ app' = app
    <3>1. Live' = Live
      <4>1. worker[w] = "off"
        BY <1>2 DEF StartWorker
      <4> QED
        BY <2>2, <4>1, LiveKept DEF TypeOK, Dead
    <3>2. Life'
      BY <1>2, <2>2, <3>1 DEF StartWorker, Life, Starting, Stopping, TypeOK
    <3> QED
      BY <1>2, <2>2, <3>1, <3>2 DEF StartWorker, Counted, Uncounted
  <2> QED
    BY <1>2, <2>1, <2>2 DEF StartWorker
<1>3. CASE IncLoad
  <2>1. Live' = Live
    BY <1>3 DEF IncLoad, Live
  <2>2. Life'
    BY <1>3, <2>1, PoolAssumption
    DEF IncLoad, Life, Starting, Stopping, TypeOK
  <2> QED
    BY <1>3, <2>1, <2>2 DEF IncLoad, Counted, Uncounted
<1>4. CASE IncStore
  <2>1. Live' = Live
    BY <1>4 DEF IncStore, Live
  <2>2. Life'
    BY <1>4, <2>1, PoolAssumption
    DEF IncStore, Life, Starting, Stopping, TypeOK
  <2> QED
    BY <1>4, <2>1, <2>2, LiveFinite DEF IncStore, Counted, Uncounted, Life
<1>5. CASE StartReturn
  <2>1. Live' = Live
    BY <1>5 DEF StartReturn, Live
  <2>2. Life'
    BY <1>5, <2>1, PoolAssumption
    DEF StartReturn, Life, Starting, Stopping, TypeOK
  <2> QED
    BY <1>5, <2>1, <2>2 DEF StartReturn, Counted, Uncounted
<1>6. CASE StopReturn
  <2>1. Live' = Live
    BY <1>6 DEF StopReturn, Live
  <2>2. Life'
    BY <1>6, <2>1, PoolAssumption
    DEF StopReturn, Life, Starting, Stopping, TypeOK
  <2> QED
    BY <1>6, <2>1, <2>2 DEF StopReturn, Counted, Uncounted
<1>7. CASE StopRequest
  <2>1. Live' = Live
    BY <1>7 DEF StopRequest, Live
  <2>2. Life'
    BY <1>7, <2>1, PoolAssumption
    DEF StopRequest, Life, Starting, Stopping, TypeOK
  <2> QED
    BY <1>7, <2>1, <2>2 DEF StopRequest, Counted, Uncounted
<1>8. CASE AcceptFail
  <2>1. Live' = Live
    BY <1>8 DEF AcceptFail, NextListener, Live
  <2>2. Life'
    BY <1>8, <2>1, PoolAssumption
    DEF AcceptFail, NextListener, Life, Starting, Stopping, TypeOK
  <2> QED
    BY <1>8, <2>1, <2>2 DEF AcceptFail, NextListener, Counted, Uncounted
<1>9. CASE SpuriousWakeup
  <2>1. Live' = Live
    <3>1. \A v \in Workers : worker'[v] \in Dead <=> worker[v] \in Dead
      BY <1>9 DEF SpuriousWakeup, TypeOK, Dead
    <3> QED
      BY <3>1, LiveKept
  <2>2. Life'
    BY <1>9, <2>1, PoolAssumption
    DEF SpuriousWakeup, Life, Starting, Stopping, TypeOK
  <2> QED
    BY <1>9, <2>1, <2>2 DEF SpuriousWakeup, Counted, Uncounted
<1>10. CASE MasterBegin
  <2>1. Live' = Live
    BY <1>10 DEF MasterBegin, Live
  <2>2. Life'
    BY <1>10, <2>1, PoolAssumption
    DEF MasterBegin, Life, Starting, Stopping, TypeOK
  <2> QED
    BY <1>10, <2>1, <2>2 DEF MasterBegin, Counted, Uncounted
<1>11. CASE Poll
  <2>1. Live' = Live
    BY <1>11 DEF Poll, Live
  <2>2. Life'
    BY <1>11, <2>1, PoolAssumption
    DEF Poll, Life, Starting, Stopping, TypeOK
  <2> QED
    BY <1>11, <2>1, <2>2 DEF Poll, Counted, Uncounted
<1>12. CASE ScanSkip
  <2>1. Live' = Live
    BY <1>12 DEF ScanSkip, NextListener, Live
  <2>2. Life'
    BY <1>12, <2>1, PoolAssumption
    DEF ScanSkip, NextListener, Life, Starting, Stopping, TypeOK
  <2> QED
    BY <1>12, <2>1, <2>2 DEF ScanSkip, NextListener, Counted, Uncounted
<1>13. CASE AcceptDenied
  <2>1. Live' = Live
    BY <1>13 DEF AcceptDenied, NextListener, Live
  <2>2. Life'
    BY <1>13, <2>1, PoolAssumption
    DEF AcceptDenied, NextListener, Life, Starting, Stopping, TypeOK
  <2> QED
    BY <1>13, <2>1, <2>2 DEF AcceptDenied, NextListener, Counted, Uncounted
<1>14. CASE Accept
  <2>1. Live' = Live
    BY <1>14 DEF Accept, Live
  <2>2. Life'
    BY <1>14, <2>1, PoolAssumption
    DEF Accept, Life, Starting, Stopping, TypeOK
  <2> QED
    BY <1>14, <2>1, <2>2 DEF Accept, Counted, Uncounted
<1>15. CASE ProduceTest
  <2>1. Live' = Live
    BY <1>15 DEF ProduceTest, Live
  <2>2. Life'
    BY <1>15, <2>1, PoolAssumption
    DEF ProduceTest, Life, Starting, Stopping, TypeOK
  <2> QED
    BY <1>15, <2>1, <2>2 DEF ProduceTest, Counted, Uncounted
<1>16. CASE ProduceWait
  <2>1. Live' = Live
    BY <1>16 DEF ProduceWait, Live
  <2>2. Life'
    BY <1>16, <2>1, PoolAssumption
    DEF ProduceWait, Life, Starting, Stopping, TypeOK
  <2> QED
    BY <1>16, <2>1, <2>2 DEF ProduceWait, Counted, Uncounted
<1>17. CASE Produce
  <2>1. Live' = Live
    <3>1. \A v \in Workers : worker'[v] \in Dead <=> worker[v] \in Dead
      BY <1>17 DEF Produce, NextListener, SignalFull, TypeOK, Dead
    <3> QED
      BY <3>1, LiveKept
  <2>2. Life'
    BY <1>17, <2>1, PoolAssumption
    DEF Produce, NextListener, SignalFull, Life, Starting, Stopping, TypeOK
  <2> QED
    BY <1>17, <2>1, <2>2
    DEF Produce, NextListener, SignalFull, Counted, Uncounted
<1>18. CASE Shutdown
  <2>1. Live' = Live
    <3>1. \A v \in Workers : worker'[v] \in Dead <=> worker[v] \in Dead
      BY <1>18 DEF Shutdown, TypeOK, Dead
    <3> QED
      BY <3>1, LiveKept
  <2>2. Life'
    BY <1>18, <2>1, PoolAssumption
    DEF Shutdown, Life, Starting, Stopping, TypeOK
  <2> QED
    BY <1>18, <2>1, <2>2 DEF Shutdown, Counted, Uncounted
<1>19. CASE Join
  <2>1. Live' = Live
    BY <1>19 DEF Join, Live
  <2>2. num_threads = 0 => Live = {}
    <3>1. app \notin {"inc_load", "inc_store"}
      BY <1>19 DEF Join, Life, Starting, Stopping
    <3>2. num_threads = Cardinality(Live)
      BY <3>1, LiveFinite DEF Counted, Uncounted
    <3> QED
      BY Zenon, <3>2, LiveFinite, FS_EmptySet
  <2>3. num_threads >= 0
    BY <1>19, LiveFinite DEF Counted, Uncounted, Join, Life, Starting, Stopping
  <2>4. Life'
    BY <1>19, <2>1, <2>2, <2>3, PoolAssumption
    DEF Join, Life, Starting, Stopping, TypeOK
  <2> QED
    BY <1>19, <2>1, <2>4 DEF Join, Counted, Uncounted
<1>20. CASE JoinWait
  <2>1. Live' = Live
    BY <1>20 DEF JoinWait, Live
  <2>2. Life'
    BY <1>20, <2>1, PoolAssumption
    DEF JoinWait, Life, Starting, Stopping, TypeOK
  <2> QED
    BY <1>20, <2>1, <2>2 DEF JoinWait, Counted, Uncounted
<1>21. CASE Destroy
  <2>1. Live' = Live
    BY <1>21 DEF Destroy, Live
  <2>2. Life'
    BY <1>21, <2>1, PoolAssumption
    DEF Destroy, Life, Starting, Stopping, TypeOK
  <2> QED
    BY <1>21, <2>1, <2>2 DEF Destroy, Counted, Uncounted
<1>22. CASE Finish
  <2>1. Live' = Live
    BY <1>22 DEF Finish, Live
  <2>2. Life'
    BY <1>22, <2>1, PoolAssumption
    DEF Finish, Life, Starting, Stopping, TypeOK
  <2> QED
    BY <1>22, <2>1, <2>2 DEF Finish, Counted, Uncounted
<1>23. ASSUME NEW w \in Workers, WorkerBegin(w) PROVE Life' /\ Counted'
  <2>1. Live' = Live
    <3>1. \A v \in Workers : worker'[v] \in Dead <=> worker[v] \in Dead
      BY <1>23 DEF WorkerBegin, TypeOK, Dead
    <3> QED
      BY <3>1, LiveKept
  <2>2. Life'
    BY <1>23, <2>1, PoolAssumption
    DEF WorkerBegin, Life, Starting, Stopping, TypeOK
  <2> QED
    BY <1>23, <2>1, <2>2 DEF WorkerBegin, Counted, Uncounted
<1>24. ASSUME NEW w \in Workers, ConsumeTest(w) PROVE Life' /\ Counted'
  <2>1. Live' = Live
    <3>1. \A v \in Workers : worker'[v] \in Dead <=> worker[v] \in Dead
      BY <1>24 DEF ConsumeTest, TypeOK, Dead
    <3> QED
      BY <3>1, LiveKept
  <2>2. Life'
    BY <1>24, <2>1, PoolAssumption
    DEF ConsumeTest, Life, Starting, Stopping, TypeOK
  <2> QED
    BY <1>24, <2>1, <2>2 DEF ConsumeTest, Counted, Uncounted
<1>25. ASSUME NEW w \in Workers, ConsumeWait(w) PROVE Life' /\ Counted'
  <2>1. Live' = Live
    <3>1. \A v \in Workers : worker'[v] \in Dead <=> worker[v] \in Dead
      BY <1>25 DEF ConsumeWait, TypeOK, Dead
    <3> QED
      BY <3>1, LiveKept
  <2>2. Life'
    BY <1>25, <2>1, PoolAssumption
    DEF ConsumeWait, Life, Starting, Stopping, TypeOK
  <2> QED
    BY <1>25, <2>1, <2>2 DEF ConsumeWait, Counted, Uncounted
<1>26. ASSUME NEW w \in Workers, Consume(w) PROVE Life' /\ Counted'
  <2>1. Live' = Live
    <3>1. \A v \in Workers : worker'[v] \in Dead <=> worker[v] \in Dead
      BY <1>26 DEF Consume, TypeOK, Dead
    <3> QED
      BY <3>1, LiveKept
  <2>2. Life'
    BY <1>26, <2>1, PoolAssumption
    DEF Consume, Life, Starting, Stopping, TypeOK
  <2> QED
    BY <1>26, <2>1, <2>2 DEF Consume, Counted, Uncounted
<1>27. ASSUME NEW w \in Workers, ConsumeReturn(w) PROVE Life' /\ Counted'
  <2>1. Live' = Live
    <3>1. \A v \in Workers : worker'[v] \in Dead <=> worker[v] \in Dead
      BY <1>27 DEF ConsumeReturn, TypeOK, Dead
    <3> QED
      BY <3>1, LiveKept
  <2>2. Life'
    BY <1>27, <2>1, PoolAssumption
    DEF ConsumeReturn, Life, Starting, Stopping, TypeOK
  <2> QED
    BY <1>27, <2>1, <2>2 DEF ConsumeReturn, Counted, Uncounted
<1>28. ASSUME NEW w \in Workers, Serve(w) PROVE Life' /\ Counted'
  <2>1. Live' = Live
    <3>1. \A v \in Workers : worker'[v] \in Dead <=> worker[v] \in Dead
      BY <1>28 DEF Serve, TypeOK, Dead
    <3> QED
      BY <3>1, LiveKept
  <2>2. Life'
    BY <1>28, <2>1, PoolAssumption
    DEF Serve, Life, Starting, Stopping, TypeOK
  <2> QED
    BY <1>28, <2>1, <2>2 DEF Serve, Counted, Uncounted
<1>29. ASSUME NEW w \in Workers, ExitLoad(w) PROVE Life' /\ Counted'
  <2>1. Live' = Live
    <3>1. \A v \in Workers : worker'[v] \in Dead <=> worker[v] \in Dead
      BY <1>29 DEF ExitLoad, TypeOK, Dead
    <3> QED
      BY <3>1, LiveKept
  <2>2. Life'
    BY <1>29, <2>1, PoolAssumption
    DEF ExitLoad, Life, Starting, Stopping, TypeOK
  <2> QED
    BY <1>29, <2>1, <2>2 DEF ExitLoad, Counted, Uncounted
<1>30. ASSUME NEW w \in Workers, ExitStore(w) PROVE Life' /\ Counted'
  <2>1. worker[w] = "exit_store" /\ worker'[w] = "done" /\ w \in Live
    BY <1>30 DEF ExitStore, TypeOK, Live, Dead
  <2>2. Live' = Live \ {w}
    <3>1. \A v \in Workers \ {w} : worker'[v] = worker[v]
      BY <1>30 DEF ExitStore, TypeOK
    <3> QED
      BY <2>1, <3>1 DEF Live, Dead
  <2>3. Cardinality(Live') = Cardinality(Live) - 1
    BY Zenon, <2>1, <2>2, LiveFinite, FS_RemoveElement
  <2>4. Counted'
    BY <1>30, <2>1, <2>3, LiveFinite DEF ExitStore, Counted, Uncounted, Life
  <2>5. /\ stop_flag # 0 /\ stop_flag' = stop_flag /\ ctx' = ctx /\ app' = app
        /\ app \notin Starting \cup {"run"} /\ mutex = w
        /\ master \notin {"destroy", "finish", "done"}
    BY <1>30, <2>1 DEF ExitStore, Life, Starting
  <2>6. \A v \in Workers :
          worker'[v] \notin {"consume_wait", "exit_store"}
    BY <1>30, <2>1, <2>5 DEF ExitStore, Life, TypeOK
  <2>7. /\ master' \notin {"produce_wait", "join_wait"}
        /\ master' \notin {"destroy", "finish", "done"}
    BY <1>30, <2>1, <2>5, PoolAssumption DEF ExitStore, Life
  <2> QED
    BY <2>4, <2>5, <2>6, <2>7 DEF Life, Starting, Stopping
<1>31. ASSUME NEW c \in Clients, NEW l \in Listeners, Connect(c, l)
      PROVE Life' /\ Counted'
  <2>1. Live' = Live
    BY <1>31 DEF Connect, Live
  <2>2. Life'
    BY <1>31, <2>1, PoolAssumption
    DEF Connect, Life, Starting, Stopping, TypeOK
  <2> QED
    BY <1>31, <2>1, <2>2 DEF Connect, Counted, Uncounted
<1>32. CASE AppIdle
  <2>1. Live' = Live
    BY <1>32 DEF AppIdle, vars, Live
  <2>2. Life'
    BY <1>32, <2>1, PoolAssumption
    DEF AppIdle, vars, Life, Starting, Stopping, TypeOK
  <2> QED
    BY <1>32, <2>1, <2>2 DEF AppIdle, vars, Counted, Uncounted
<1>33. CASE UNCHANGED vars
  <2>1. Live' = Live
    BY <1>33 DEF vars, Live
  <2>2. Life'
    BY <1>33, <2>1, PoolAssumption
    DEF vars, Life, Starting, Stopping, TypeOK
  <2> QED
    BY <1>33, <2>1, <2>2 DEF vars, Counted, Uncounted
<1> QED
  BY SMTT(30), <1>1, <1>2, <1>3, <1>4, <1>5, <1>6, <1>7, <1>8, <1>9, <1>10,
     <1>11, <1>12, <1>13, <1>14, <1>15, <1>16, <1>17, <1>18, <1>19, <1>20,
     <1>21, <1>22, <1>23, <1>24, <1>25, <1>26, <1>27, <1>28, <1>29, <1>30, <1>31,
     <1>32, <1>33
  DEF Next, App, Master, Worker

\* Life and Counted hold throughout while the threads' allocations succeed.
LEMMA LifeAlways ==
  ASSUME "calloc" \notin Faults
  PROVE  Spec => [](TypeOK /\ Life /\ Counted)
<1>1. Init => Life /\ Counted
  <2> SUFFICES ASSUME Init PROVE Life /\ Counted
    OBVIOUS
  <2>1. Live = {}
    BY DEF Init, Live, Dead
  <2>2. Cardinality(Live) = 0
    BY <2>1, FS_EmptySet
  <2> QED
    BY <2>1, <2>2 DEF Init, Life, Counted, Uncounted, Starting, Stopping
<1>2. TypeOK /\ Life /\ Counted /\ [Next]_vars => Life' /\ Counted'
  BY LifeStep
<1> QED
  BY <1>1, <1>2, TypeCorrect, PTL DEF Spec

\* While no allocation of the threads themselves fails: a thread that can
\* still lock the mutex finds it alive, and the context is not freed before the
\* master has left it (end of master_thread, mg_stop).
THEOREM ContextSafe ==
  ASSUME "calloc" \notin Faults
  PROVE  Spec => []ContextOutlivesThreads
<1>1. Life => ContextOutlivesThreads
  BY DEF Life, ContextOutlivesThreads, Live, Dead
<1> QED
  BY <1>1, LifeAlways, PTL

\* Likewise the assertion of worker_thread on num_threads holds, although
\* mg_start counts without the mutex.
THEOREM CountNotNegative ==
  ASSUME "calloc" \notin Faults
  PROVE  Spec => []NumThreadsAssert
<1>1. TypeOK /\ Life /\ Counted => NumThreadsAssert
  <2> SUFFICES ASSUME TypeOK, Life, Counted
               PROVE  NumThreadsAssert
    OBVIOUS
  <2>1. Uncounted = 1 => Cardinality(Live) # 0
    BY LiveFinite, FS_EmptySet DEF Life, Uncounted
  <2> QED
    BY <2>1, LiveFinite DEF Counted, Uncounted, NumThreadsAssert
<1> QED
  BY <1>1, LifeAlways, PTL
=============================================================================
