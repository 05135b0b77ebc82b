------------------------- MODULE ThreadPool_proofs --------------------------
(* Types of ThreadPool's variables and bounds of its ring, for any number *)
(* of workers, clients, listening sockets and queue slots.                 *)
EXTENDS ThreadPool, FiniteSetTheorems, SequenceTheorems, TLAPS

\* A slot number is an index of ctx->queue.
LEMMA SlotInRange == \A n \in Int : Slot(n) \in 0 .. QSize-1
  BY PoolAssumption DEF Slot

\* Two positions less than QSize apart have different slots.
LEMMA SlotsDiffer ==
  ASSUME NEW t \in 0 .. QSize, NEW j \in t .. t+QSize-1,
         NEW k \in t .. t+QSize-1, Slot(j) = Slot(k)
  PROVE  j = k
<1>1. \A n \in 0 .. QSize-1 : Slot(n) = n
  BY PoolAssumption DEF Slot
<1>2. \A n \in QSize .. 2*QSize-1 : Slot(n) = n - QSize
  BY PoolAssumption DEF Slot
<1> QED
  BY <1>1, <1>2, PoolAssumption

\* Moving a position back by QSize, as consume_socket does, keeps its slot.
LEMMA SlotWraps ==
  ASSUME NEW n \in QSize .. 2*QSize-1
  PROVE  Slot(n - QSize) = Slot(n)
<1>1. Slot(n) = n - QSize
  BY PoolAssumption DEF Slot
<1>2. Slot(n - QSize) = n - QSize
  BY PoolAssumption DEF Slot
<1> QED
  BY <1>1, <1>2

\* The listening sockets that poll reported and the loop has not visited yet
\* still have a connection to accept: only the master takes from them.
PollSnapshot ==
  /\ \A l \in ready : l > idx => backlog[l] # << >>
  /\ master = "scan" /\ idx \in ready => backlog[idx] # << >>
  /\ master \notin {"scan", "produce", "produce_wait", "on_sq_empty"}
       => ready = {}
  /\ app = "start_master" => master = "off" /\ ready = {}

\* Every variable keeps its type: the loop index of the master always names a
\* listening socket, accept is only called where a connection waits, and the
\* ring holds sockets only.
THEOREM TypeCorrect == Spec => [](TypeOK /\ PollSnapshot)
<1>1. Init => TypeOK /\ PollSnapshot
  BY PoolAssumption
  DEF Init, TypeOK, PollSnapshot, AppPC, MasterPC, WorkerPC, None
<1>2. TypeOK /\ PollSnapshot /\ [Next]_vars => TypeOK' /\ PollSnapshot'
  <2> SUFFICES ASSUME TypeOK, PollSnapshot, [Next]_vars
               PROVE  TypeOK' /\ PollSnapshot'
    OBVIOUS
  <2> USE PoolAssumption
      DEF TypeOK, PollSnapshot, AppPC, MasterPC, WorkerPC, ring, os, scan
  <2>1. CASE StartMaster
    BY <2>1 DEF StartMaster
  <2>2. ASSUME NEW w \in Workers, StartWorker(w) PROVE TypeOK' /\ PollSnapshot'
    BY <2>2 DEF StartWorker
  <2>3. CASE IncLoad
    BY <2>3 DEF IncLoad
  <2>4. CASE IncStore
    BY <2>4 DEF IncStore
  <2>5. CASE StartReturn
    BY <2>5 DEF StartReturn
  <2>6. CASE StopReturn
    BY <2>6 DEF StopReturn
  <2>7. CASE StopRequest
    BY <2>7 DEF StopRequest
  <2>8. CASE AcceptFail
    BY <2>8 DEF AcceptFail, NextListener, Listeners
  <2>9. CASE SpuriousWakeup
    BY <2>9 DEF SpuriousWakeup
  <2>10. CASE MasterBegin
    BY <2>10 DEF MasterBegin
  <2>11. CASE Poll
    BY <2>11, Zenon DEF Poll, Listeners
  <2>12. CASE ScanSkip
    BY <2>12 DEF ScanSkip, NextListener, Listeners
  <2>13. CASE AcceptDenied
    <3>1. backlog[idx] \in Seq(Clients) /\ backlog[idx] # << >>
      BY <2>13 DEF AcceptDenied
    <3>2. Tail(backlog[idx]) \in Seq(Clients)
      BY <3>1
    <3>3. backlog' \in [Listeners -> Seq(Clients)]
      BY <2>13, <3>2 DEF AcceptDenied
    <3>4. /\ idx' \in Listeners \cup {1} /\ ready' \subseteq Listeners
          /\ master' \in {"scan", "poll"}
      BY <2>13 DEF AcceptDenied, NextListener, Listeners
    <3>5. PollSnapshot'
      BY <2>13, <3>2 DEF AcceptDenied, NextListener, Listeners
    <3> QED
      BY <2>13, <3>3, <3>4, <3>5, Zenon DEF AcceptDenied
  <2>14. CASE Accept
    <3>1. backlog[idx] \in Seq(Clients) /\ backlog[idx] # << >>
      BY <2>14 DEF Accept
    <3>2. Head(backlog[idx]) \in Clients /\ Tail(backlog[idx]) \in Seq(Clients)
      BY <3>1
    <3>3. backlog' \in [Listeners -> Seq(Clients)]
      BY <2>14, <3>2 DEF Accept
    <3>4. PollSnapshot'
      BY <2>14, <3>2 DEF Accept, Listeners
    <3>5. so' \in Clients \cup {None} /\ open' \subseteq Clients
      BY <2>14, <3>2 DEF Accept
    <3> QED
      BY <2>14, <3>3, <3>4, <3>5 DEF Accept
  <2>15. CASE ProduceTest
    BY <2>15 DEF ProduceTest
  <2>16. CASE ProduceWait
    BY <2>16 DEF ProduceWait
  <2>17. CASE Produce
    <3>1. worker' \in [Workers -> WorkerPC]
      BY <2>17 DEF Produce, SignalFull
    <3>2. queue' \in [0 .. QSize-1 -> Clients \cup {None}] /\ sq_head' \in Int
      BY <2>17, SMTT(30) DEF Produce
    <3> QED
      BY <2>17, <3>1, <3>2 DEF Produce, NextListener, Listeners
  <2>18. CASE Shutdown
    BY <2>18 DEF Shutdown
  <2>19. CASE Join
    BY <2>19 DEF Join
  <2>20. CASE JoinWait
    BY <2>20 DEF JoinWait
  <2>21. CASE Destroy
    BY <2>21 DEF Destroy
  <2>22. CASE Finish
    BY <2>22 DEF Finish
  <2>23. ASSUME NEW w \in Workers, WorkerBegin(w) PROVE TypeOK' /\ PollSnapshot'
    <3>1. worker' \in [Workers -> WorkerPC]
      BY <2>23 DEF WorkerBegin
    <3> QED
      BY <2>23, <3>1 DEF WorkerBegin
  <2>24. ASSUME NEW w \in Workers, ConsumeTest(w) PROVE TypeOK' /\ PollSnapshot'
    BY <2>24 DEF ConsumeTest
  <2>25. ASSUME NEW w \in Workers, ConsumeWait(w) PROVE TypeOK' /\ PollSnapshot'
    BY <2>25 DEF ConsumeWait
  <2>26. ASSUME NEW w \in Workers, Consume(w) PROVE TypeOK' /\ PollSnapshot'
    <3>1. queue[Slot(sq_tail)] \in Clients \cup {None}
      BY Zenon, SlotInRange
    <3>2. client' \in [Workers -> Clients \cup {None}]
      BY <2>26, <3>1 DEF Consume
    <3>3. sq_head' \in Int /\ sq_tail' \in Int
      BY <2>26 DEF Consume, Wrap
    <3> QED
      BY <2>26, <3>2, <3>3, ZenonT(30) DEF Consume
  <2>27. ASSUME NEW w \in Workers, ConsumeReturn(w) PROVE TypeOK' /\ PollSnapshot'
    BY <2>27 DEF ConsumeReturn
  <2>28. ASSUME NEW w \in Workers, Serve(w) PROVE TypeOK' /\ PollSnapshot'
    BY <2>28 DEF Serve
  <2>29. ASSUME NEW w \in Workers, ExitLoad(w) PROVE TypeOK' /\ PollSnapshot'
    BY <2>29 DEF ExitLoad
  <2>30. ASSUME NEW w \in Workers, ExitStore(w) PROVE TypeOK' /\ PollSnapshot'
    BY <2>30 DEF ExitStore
  <2>31. ASSUME NEW c \in Clients, NEW l \in Listeners, Connect(c, l)
         PROVE TypeOK' /\ PollSnapshot'
    <3>1. Append(backlog[l], c) \in Seq(Clients) \ {<< >>}
      BY <2>31
    <3> QED
      BY <2>31, <3>1 DEF Connect
  <2>32. CASE AppIdle
    BY <2>32 DEF AppIdle, vars
  <2>33. CASE UNCHANGED vars
    BY <2>33 DEF vars
  <2> QED
    BY ZenonT(30), <2>1, <2>2, <2>3, <2>4, <2>5, <2>6, <2>7, <2>8, <2>9, <2>10,
       <2>11, <2>12, <2>13, <2>14, <2>15, <2>16, <2>17, <2>18, <2>19, <2>20, <2>21,
       <2>22, <2>23, <2>24, <2>25, <2>26, <2>27, <2>28, <2>29, <2>30, <2>31,
       <2>32, <2>33
    DEF Next, App, Master, Worker
<1> QED
  BY <1>1, <1>2, PTL DEF Spec

\* The socket queue's pointers never cross, never run more than QSize apart
\* and stay bounded (the wrap in consume_socket).
THEOREM RingBounded == Spec => []RingBounds
<1>1. Init => RingBounds
  BY PoolAssumption DEF Init, RingBounds
<1>2. TypeOK /\ RingBounds /\ [Next]_vars => RingBounds'
  <2> SUFFICES ASSUME TypeOK, RingBounds, [Next]_vars PROVE RingBounds'
    OBVIOUS
  <2> USE PoolAssumption DEF RingBounds, ring
  <2>1. CASE Produce
    BY <2>1 DEF Produce, QueueFull, TypeOK
  <2>2. ASSUME NEW w \in Workers, Consume(w) PROVE RingBounds'
    BY <2>2 DEF Consume, Wrap, TypeOK
  <2>3. CASE UNCHANGED <<sq_head, sq_tail>>
    BY <2>3
  <2>4. Produce \/ (\E w \in Workers : Consume(w))
          \/ UNCHANGED <<sq_head, sq_tail>>
    BY Zenon DEF Next, App, StartMaster, StartWorker, IncLoad, IncStore,
           StartReturn, StopReturn, StopRequest, AcceptFail, SpuriousWakeup,
           Master, MasterBegin, Poll, ScanSkip, AcceptDenied, Accept,
           ProduceTest, ProduceWait, Shutdown, Join, JoinWait, Destroy,
           Finish, Worker, WorkerBegin, ConsumeTest, ConsumeWait,
           ConsumeReturn, Serve, ExitLoad, ExitStore, Connect, AppIdle, vars
  <2> QED
    BY <2>1, <2>2, <2>3, <2>4
<1> QED
  BY <1>1, <1>2, TypeCorrect, PTL DEF Spec
=============================================================================
