---------------------- MODULE ThreadPoolQueue_proofs -----------------------
(***************************************************************************)
(* ThreadPool implements SocketQueue, for any number of workers, clients,  *)
(* listening sockets and slots: what the ring holds between sq_tail and    *)
(* sq_head is a FIFO queue, produce_socket appends to it, consume_socket   *)
(* takes its head, wrapped pointers or not, and closing a connection, or   *)
(* dropping it when the server stops, releases it.                         *)
(***************************************************************************)
EXTENDS ThreadPoolOwn_proofs

\* What the refinement mapping makes of the ring and of conn->client.
Waiting == [k \in 1 .. sq_head - sq_tail |-> queue[Slot(sq_tail + k - 1)]]
Taken   == [w \in Workers |-> IF Holds(w) THEN client[w] ELSE None]

\* A sequence with one more element at the end.
LEMMA IsAppend ==
  ASSUME NEW S, NEW s \in Seq(S), NEW t \in Seq(S), NEW c \in S,
         Len(t) = Len(s) + 1, \A i \in 1 .. Len(s) : t[i] = s[i],
         t[Len(s) + 1] = c
  PROVE  t = Append(s, c)
<1>1. /\ Append(s, c) \in Seq(S) /\ Len(Append(s, c)) = Len(s) + 1
      /\ \A i \in 1 .. Len(s) : Append(s, c)[i] = s[i]
      /\ Append(s, c)[Len(s) + 1] = c
  OBVIOUS
<1>2. \A i \in 1 .. Len(t) : t[i] = Append(s, c)[i]
  BY <1>1
<1> QED BY <1>1, <1>2, SeqEqual

\* A sequence without its first element.
LEMMA IsTail ==
  ASSUME NEW S, NEW s \in Seq(S), NEW t \in Seq(S), s # << >>,
         Len(t) = Len(s) - 1, \A i \in 1 .. Len(t) : t[i] = s[i + 1]
  PROVE  t = Tail(s)
<1>1. /\ Tail(s) \in Seq(S) /\ Len(Tail(s)) = Len(s) - 1
      /\ \A i \in 1 .. Len(Tail(s)) : Tail(s)[i] = s[i + 1]
  BY HeadTailProperties
<1> QED BY <1>1, SeqEqual

\* The mapped queue is a sequence of clients, as long as the pointers are
\* apart.
LEMMA WaitingSeq ==
  ASSUME Context, Queued \subseteq Clients
  PROVE  /\ Waiting \in Seq(Clients) /\ Len(Waiting) = sq_head - sq_tail
         /\ sq_head - sq_tail \in Nat
         /\ \A k \in 1 .. sq_head - sq_tail :
              /\ sq_tail + k - 1 \in sq_tail .. sq_head - 1
              /\ Waiting[k] = queue[Slot(sq_tail + k - 1)]
              /\ Waiting[k] \in Queued
<1>1. sq_tail \in Int /\ sq_head \in Int /\ sq_head - sq_tail \in Nat
  BY PoolAssumption DEF Context, TypeOK, RingBounds
<1> DEFINE n == sq_head - sq_tail
<1>2. \A k \in 1 .. n : sq_tail + k - 1 \in sq_tail .. sq_head - 1
  BY <1>1
<1>3. \A k \in 1 .. n : Waiting[k] = queue[Slot(sq_tail + k - 1)]
  BY DEF Waiting
<1>4. \A k \in 1 .. n : Waiting[k] \in Queued
  BY <1>2, <1>3, Zenon DEF Queued
<1>5. Waiting \in [1 .. n -> Clients]
  <2>1. \A k \in 1 .. n : Waiting[k] \in Clients
    BY <1>4
  <2>2. Waiting = [k \in 1 .. n |-> Waiting[k]]
    BY DEF Waiting
  <2> HIDE DEF n
  <2> QED BY <2>1, <2>2
<1>6. Waiting \in Seq(Clients) /\ Len(Waiting) = n
  <2>1. n \in Nat
    BY <1>1
  <2> HIDE DEF n
  <2> QED BY <2>1, <1>5
<1> QED BY <1>1, <1>2, <1>3, <1>4, <1>6

\* So it is after a step.
LEMMA WaitingNext ==
  (Context /\ Queued \subseteq Clients
     => Waiting \in Seq(Clients) /\ Len(Waiting) = sq_head - sq_tail)'
<1>1. Context /\ Queued \subseteq Clients
        => Waiting \in Seq(Clients) /\ Len(Waiting) = sq_head - sq_tail
  BY WaitingSeq
<1> QED BY <1>1, PTL

\* A step that leaves the ring alone, and whether and what each worker holds,
\* is a stutter of the queue.
LEMMA Stutters ==
  ASSUME UNCHANGED ring, \A w \in Workers : /\ Holds(w)' = Holds(w)
                                            /\ client'[w] = client[w]
  PROVE  UNCHANGED Queue!vars
<1>1. UNCHANGED <<queue, sq_head, sq_tail>>
  BY DEF ring
<1>2. Waiting' = Waiting
  BY <1>1 DEF Waiting
<1>3. Taken' = Taken
  BY DEF Taken
<1> QED BY <1>2, <1>3 DEF Queue!vars, Waiting, Taken

\* produce_socket with a free slot appends the socket, which was new.
LEMMA PutStep ==
  ASSUME Context, Context', Own, Own', Produce, ~QueueFull
  PROVE  \E c \in Clients : Queue!Put(c)
<1>1. so # None /\ so \in Clients
  BY DEF Own, Producing, Produce, Context, TypeOK
<1>2. Queued \subseteq Clients /\ Queued' \subseteq Clients
  BY DEF Own, OneOwner, Context, TypeOK
<1>3. /\ sq_head' = sq_head + 1 /\ sq_tail' = sq_tail
      /\ sq_head \in Int /\ sq_tail \in Int
  BY DEF Produce, Context, TypeOK
<1>4. /\ \A k \in sq_tail .. sq_head-1 : queue'[Slot(k)] = queue[Slot(k)]
      /\ queue'[Slot(sq_head)] = so
  BY QueuePut
<1>5. /\ Waiting \in Seq(Clients) /\ Len(Waiting) = sq_head - sq_tail
      /\ sq_head - sq_tail \in Nat
      /\ \A k \in 1 .. sq_head - sq_tail :
           /\ sq_tail + k - 1 \in sq_tail .. sq_head - 1
           /\ Waiting[k] = queue[Slot(sq_tail + k - 1)]
           /\ Waiting[k] \in Queued
  BY <1>2, WaitingSeq
<1>6. Waiting' \in Seq(Clients) /\ Len(Waiting') = sq_head' - sq_tail'
  BY <1>2, WaitingNext
<1>7. \A k \in 1 .. sq_head - sq_tail : Waiting'[k] = Waiting[k]
  <2> TAKE k \in 1 .. sq_head - sq_tail
  <2>1. k \in 1 .. sq_head' - sq_tail'
    BY <1>3
  <2>2. Waiting'[k] = queue'[Slot(sq_tail' + k - 1)]
    BY <2>1 DEF Waiting
  <2>3. sq_tail' + k - 1 = sq_tail + k - 1
    BY <1>3
  <2> QED BY <1>4, <1>5, <2>2, <2>3, Zenon
<1>8. Waiting'[sq_head - sq_tail + 1] = so
  <2>1. sq_head - sq_tail + 1 \in 1 .. sq_head' - sq_tail'
    BY <1>3, <1>5
  <2>2. sq_tail' + (sq_head - sq_tail + 1) - 1 = sq_head
    BY <1>3
  <2>3. Waiting'[sq_head - sq_tail + 1]
          = queue'[Slot(sq_tail' + (sq_head - sq_tail + 1) - 1)]
    BY <2>1 DEF Waiting
  <2> QED BY <1>4, <2>2, <2>3, Zenon
<1>9. Waiting' = Append(Waiting, so)
  <2>1. Len(Waiting') = Len(Waiting) + 1
    BY <1>3, <1>5, <1>6
  <2> QED BY <1>1, <1>5, <1>6, <1>7, <1>8, <2>1, IsAppend
<1>10. \A i \in DOMAIN Waiting : Waiting[i] # so
  <2>1. DOMAIN Waiting = 1 .. sq_head - sq_tail
    BY DEF Waiting
  <2>2. so \notin Queued
    BY <1>1 DEF Own, OneOwner
  <2> QED BY <1>5, <2>1, <2>2
<1>11. \A w \in Workers : Taken[w] # so
  BY <1>1 DEF Taken, Own, OneOwner
<1>12. Taken' = Taken
  <2>1. \A w \in Workers : Holds(w)' = Holds(w) /\ client'[w] = client[w]
    BY DEF Produce, SignalFull, Holds, Context, TypeOK
  <2> QED BY <2>1 DEF Taken
<1>13. Len(Waiting) < QSize
  BY <1>3, <1>5, PoolAssumption DEF QueueFull
<1> QED BY <1>1, <1>9, <1>10, <1>11, <1>12, <1>13
        DEF Queue!Put, Waiting, Taken

\* consume_socket takes the oldest socket.
LEMMA TakeStep ==
  ASSUME Context, Context', Own, Own', NEW w \in Workers, Consume(w),
         sq_head > sq_tail
  PROVE  Queue!Take(w)
<1>1. Queued \subseteq Clients /\ Queued' \subseteq Clients
  BY DEF Own, OneOwner, Context, TypeOK
<1>2. /\ sq_tail \in 0 .. QSize /\ sq_head \in sq_tail+1 .. sq_tail+QSize
      /\ Wrap \in {0, QSize}
      /\ Wrap = QSize => sq_tail = QSize
      /\ QSize \in Nat \ {0}
  BY PoolAssumption DEF Context, TypeOK, RingBounds, Wrap
<1>3. /\ queue' = queue
      /\ client' = [client EXCEPT ![w] = queue[Slot(sq_tail)]]
      /\ sq_tail' = sq_tail + 1 - Wrap /\ sq_head' = sq_head - Wrap
      /\ worker' = [worker EXCEPT ![w] = "consume_return"]
      /\ worker[w] = "consume"
  BY DEF Consume
<1>4. /\ Waiting \in Seq(Clients) /\ Len(Waiting) = sq_head - sq_tail
      /\ sq_head - sq_tail \in Nat
      /\ \A k \in 1 .. sq_head - sq_tail :
           /\ sq_tail + k - 1 \in sq_tail .. sq_head - 1
           /\ Waiting[k] = queue[Slot(sq_tail + k - 1)]
           /\ Waiting[k] \in Queued
  BY <1>1, WaitingSeq
<1>5. Waiting' \in Seq(Clients) /\ Len(Waiting') = sq_head' - sq_tail'
  BY <1>1, WaitingNext
<1>6. Len(Waiting') = Len(Waiting) - 1 /\ Len(Waiting) > 0
  BY <1>2, <1>3, <1>4, <1>5
<1>7. \A k \in 1 .. Len(Waiting') : Waiting'[k] = Waiting[k + 1]
  <2> TAKE k \in 1 .. Len(Waiting')
  <2>1. k + 1 \in 1 .. sq_head - sq_tail /\ k \in 1 .. sq_head' - sq_tail'
    BY <1>4, <1>5, <1>6
  <2>2. Waiting'[k] = queue'[Slot(sq_tail' + k - 1)]
    BY <2>1 DEF Waiting
  <2>3. Waiting[k + 1] = queue[Slot(sq_tail + (k + 1) - 1)]
    BY <2>1, <1>4
  <2>4. Slot(sq_tail' + k - 1) = Slot(sq_tail + (k + 1) - 1)
    <3>1. CASE Wrap = 0
      <4>1. sq_tail' + k - 1 = sq_tail + (k + 1) - 1
        BY <1>2, <1>3, <2>1, <3>1
      <4> QED BY <4>1
    <3>2. CASE Wrap = QSize
      <4> DEFINE n == sq_tail + (k + 1) - 1
      <4>1. n \in QSize .. 2*QSize-1 /\ sq_tail' + k - 1 = n - QSize
        BY <1>2, <1>3, <2>1, <3>2
      <4> HIDE DEF n
      <4>2. Slot(sq_tail' + k - 1) = Slot(n)
        BY <4>1, SlotWraps
      <4> QED BY <4>2 DEF n
    <3> QED BY <1>2, <3>1, <3>2
  <2> QED BY <1>3, <2>2, <2>3, <2>4
<1>8. Waiting # << >>
  BY <1>4, <1>6
<1>9. Waiting' = Tail(Waiting)
  BY <1>4, <1>5, <1>6, <1>7, <1>8, IsTail
<1>10. Head(Waiting) = queue[Slot(sq_tail)]
  <2>1. 1 \in 1 .. sq_head - sq_tail /\ sq_tail + 1 - 1 = sq_tail
    BY <1>2
  <2>2. Waiting[1] = queue[Slot(sq_tail)]
    BY <1>4, <2>1
  <2> QED BY <1>4, <1>8, <2>2
<1>11. Taken[w] = None
  BY <1>3 DEF Taken, Holds
<1>12. Taken' = [Taken EXCEPT ![w] = Head(Waiting)]
  <2> DEFINE c == queue[Slot(sq_tail)]
  <2>1. c \in Clients
    <3>1. c \in Queued
      BY QueueTake DEF Own, OneOwner
    <3> QED BY <1>1, <3>1
  <2>2. c # None
    BY <2>1, PoolAssumption
  <2> HIDE DEF c
  <2>3. client' = [client EXCEPT ![w] = c]
    BY <1>3 DEF c
  <2>4. Holds(w)' /\ client'[w] = c
    BY <1>3, <2>2, <2>3 DEF Holds, Context, TypeOK
  <2>5. \A v \in Workers \ {w} : Holds(v)' = Holds(v) /\ client'[v] = client[v]
    BY <1>3, <2>3 DEF Holds, Context, TypeOK
  <2>6. Taken' = [Taken EXCEPT ![w] = c]
    BY <2>4, <2>5 DEF Taken
  <2> QED BY <1>10, <2>6 DEF c
<1> QED BY <1>8, <1>9, <1>11, <1>12 DEF Queue!Take, Waiting, Taken

\* A worker that closes its connection, or drops it because the server stops,
\* releases it.
LEMMA ReleaseStep ==
  ASSUME NEW w \in Workers, UNCHANGED ring, Holds(w), ~Holds(w)',
         \A v \in Workers \ {w} : Holds(v)' = Holds(v) /\ client'[v] = client[v]
  PROVE  Queue!Release(w)
<1>1. UNCHANGED <<queue, sq_head, sq_tail>>
  BY DEF ring
<1>2. Waiting' = Waiting
  BY <1>1 DEF Waiting
<1>3. Taken[w] # None
  BY DEF Taken, Holds
<1>4. Taken' = [Taken EXCEPT ![w] = None]
  BY DEF Taken
<1> QED BY <1>2, <1>3, <1>4 DEF Queue!Release, Waiting, Taken

\* Every step of the threads is one of the queue, or none.
LEMMA QueueStep ==
  Context /\ Context' /\ Own /\ Own' /\ [Next]_vars => [Queue!Next]_Queue!vars
<1> SUFFICES ASSUME Context, Context', Own, Own', [Next]_vars
             PROVE  Queue!Next \/ UNCHANGED Queue!vars
  OBVIOUS
<1>t. TypeOK
  BY DEF Context
<1>1. CASE Produce
  <2>1. CASE QueueFull
    <3>1. UNCHANGED ring /\ UNCHANGED client
      BY <1>1, <2>1 DEF Produce
    <3>2. \A w \in Workers : Holds(w)' = Holds(w) /\ client'[w] = client[w]
      BY <1>1, <3>1, <1>t DEF Produce, SignalFull, Holds, TypeOK
    <3> QED BY <3>1, <3>2, Stutters
  <2>2. CASE ~QueueFull
    BY <1>1, <2>2, PutStep DEF Queue!Next
  <2> QED BY <2>1, <2>2
<1>2. ASSUME NEW w \in Workers, Consume(w)
      PROVE  Queue!Next \/ UNCHANGED Queue!vars
  <2>1. CASE sq_head > sq_tail
    BY <1>2, <2>1, TakeStep DEF Queue!Next
  <2>2. CASE ~(sq_head > sq_tail)
    <3>1. UNCHANGED ring /\ client' = client
          /\ worker' = [worker EXCEPT ![w] = "consume_return"]
          /\ worker[w] = "consume"
      BY <1>2, <2>2 DEF Consume, ring
    <3>2. client[w] = None
      BY <3>1 DEF Own, IdlePC
    <3>3. \A v \in Workers : Holds(v)' = Holds(v) /\ client'[v] = client[v]
      BY <1>t, <3>1, <3>2 DEF Holds, TypeOK
    <3> QED BY <3>1, <3>3, Stutters
  <2> QED BY <2>1, <2>2
<1>3. ASSUME NEW w \in Workers, ConsumeReturn(w)
      PROVE  Queue!Next \/ UNCHANGED Queue!vars
  <2>1. /\ UNCHANGED ring /\ client' = client
        /\ worker[w] = "consume_return"
        /\ \A v \in Workers \ {w} : worker'[v] = worker[v]
        /\ worker'[w] \in {"serve", "exit"}
    BY <1>3, <1>t DEF ConsumeReturn, TypeOK
  <2>2. \A v \in Workers \ {w} : Holds(v)' = Holds(v) /\ client'[v] = client[v]
    BY <2>1 DEF Holds
  <2>3. CASE Holds(w)' = Holds(w)
    BY <2>1, <2>2, <2>3, Stutters
  <2>4. CASE Holds(w)' # Holds(w)
    <3>1. Holds(w) /\ ~Holds(w)'
      BY <2>1, <2>4 DEF Holds
    <3> QED BY <2>1, <2>2, <3>1, ReleaseStep DEF Queue!Next
  <2> QED BY <2>3, <2>4
<1>4. ASSUME NEW w \in Workers, Serve(w)
      PROVE  Queue!Next \/ UNCHANGED Queue!vars
  <2>1. Holds(w) /\ UNCHANGED ring
    BY <1>4 DEF Serve, Own, OneOwner
  <2>2. ~Holds(w)'
    BY <1>4, <1>t DEF Serve, Holds, TypeOK
  <2>3. \A v \in Workers \ {w} : Holds(v)' = Holds(v) /\ client'[v] = client[v]
    BY <1>4, <1>t DEF Serve, Holds, TypeOK
  <2> QED BY <2>1, <2>2, <2>3, ReleaseStep, SMTT(30) DEF Queue!Next
<1>5. CASE /\ UNCHANGED ring /\ client' = client
           /\ \A v \in Workers :
                \/ worker'[v] = worker[v]
                \/ /\ worker[v] \notin {"consume_return", "serve"}
                   /\ worker'[v] \notin {"consume_return", "serve"}
  <2>1. \A v \in Workers : Holds(v)' = Holds(v) /\ client'[v] = client[v]
    BY <1>5 DEF Holds
  <2> QED BY <1>5, <2>1, Stutters
<1>6. \/ Produce
      \/ \E w \in Workers : Consume(w) \/ ConsumeReturn(w) \/ Serve(w)
      \/ UNCHANGED <<ring, client, worker>>
      \/ /\ UNCHANGED <<ring, client>>
         /\ \/ Shutdown \/ SpuriousWakeup
            \/ \E w \in Workers :
                 \/ StartWorker(w) \/ WorkerBegin(w) \/ ConsumeTest(w)
                 \/ ConsumeWait(w) \/ ExitLoad(w) \/ ExitStore(w)
  BY ZenonT(60) DEF Next, App, StartMaster, StartWorker, IncLoad, IncStore,
     StartReturn, StopReturn, StopRequest, AcceptFail, SpuriousWakeup,
     Master, MasterBegin, Poll, ScanSkip, AcceptDenied, Accept,
     ProduceTest, ProduceWait, Shutdown, Join, JoinWait, Destroy,
     Finish, Worker, WorkerBegin, ConsumeTest, ConsumeWait,
     ExitLoad, ExitStore, Connect, AppIdle, vars
<1>7. CASE /\ UNCHANGED <<ring, client>>
           /\ \/ Shutdown \/ SpuriousWakeup
              \/ \E w \in Workers :
                   \/ StartWorker(w) \/ WorkerBegin(w) \/ ConsumeTest(w)
                   \/ ConsumeWait(w) \/ ExitLoad(w) \/ ExitStore(w)
  <2>1. ASSUME NEW w \in Workers,
               \/ StartWorker(w) \/ WorkerBegin(w) \/ ConsumeTest(w)
               \/ ConsumeWait(w) \/ ExitLoad(w) \/ ExitStore(w)
        PROVE  /\ worker[w] \notin {"consume_return", "serve"}
               /\ worker'[w] \notin {"consume_return", "serve"}
               /\ \A v \in Workers \ {w} : worker'[v] = worker[v]
    BY <2>1, <1>t, SMTT(30) DEF StartWorker, WorkerBegin, ConsumeTest, ConsumeWait,
                      ExitLoad, ExitStore, TypeOK
  <2>2. CASE Shutdown
    BY <1>5, <1>7, <2>2, <1>t, SMTT(30) DEF Shutdown, TypeOK
  <2>3. CASE SpuriousWakeup
    BY <1>5, <1>7, <2>3, <1>t, SMTT(30) DEF SpuriousWakeup, TypeOK
  <2>4. CASE \E w \in Workers :
                   \/ StartWorker(w) \/ WorkerBegin(w) \/ ConsumeTest(w)
                   \/ ConsumeWait(w) \/ ExitLoad(w) \/ ExitStore(w)
    BY <1>5, <1>7, <2>1, <2>4
  <2> QED BY <1>7, <2>2, <2>3, <2>4
<1> QED BY <1>1, <1>2, <1>3, <1>4, <1>5, <1>6, <1>7

\* The threads of ThreadPool implement SocketQueue: accepted sockets are queued
\* and handed out first in, first out, each to one worker, never more than
\* QSize at a time, through produce_socket and consume_socket with their
\* wrapped pointers and unlocked reads of stop_flag.
THEOREM QueueImplemented == Spec => ImplementsQueue
<1>1. Init => Queue!Init
  <2> SUFFICES ASSUME Init PROVE Queue!Init
    OBVIOUS
  <2>1. sq_head = 0 /\ sq_tail = 0 /\ \A w \in Workers : ~Holds(w)
    BY DEF Init, Holds
  <2>2. Waiting = << >>
    BY <2>1 DEF Waiting
  <2>3. Taken = [w \in Workers |-> None]
    BY <2>1 DEF Taken
  <2> QED BY <2>2, <2>3 DEF Queue!Init, Waiting, Taken
<1> QED BY <1>1, QueueStep, OwnAlways, PTL DEF Spec, ImplementsQueue, Queue!Spec
=============================================================================
