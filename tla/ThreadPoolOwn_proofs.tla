----------------------- MODULE ThreadPoolOwn_proofs ------------------------
(* Ownership of the accepted sockets in ThreadPool: each has one owner and *)
(* none is lost, for any number of workers, clients, listening sockets and *)
(* queue slots.                                                            *)
EXTENDS ThreadPool_proofs

Producing == {"produce", "produce_wait", "on_sq_empty"}
IdlePC    == {"off", "begin", "consume", "consume_wait", "on_sq_full"}

\* A connection still waiting on a listening socket waits there once, and the
\* server has no descriptor for it.
BacklogFresh ==
  \A l \in Listeners : \A i \in 1 .. Len(backlog[l]) :
    /\ backlog[l][i] \notin open
    /\ \A m \in Listeners : \A j \in 1 .. Len(backlog[m]) :
         backlog[l][i] = backlog[m][j] => l = m /\ i = j

\* While the server runs every open socket has an owner.
NoOrphan ==
  stop_flag = 0 =>
    \A c \in open : \/ c \in Queued
                    \/ c = so
                    \/ \E w \in Workers : Holds(w) /\ client[w] = c

\* The inductive strengthening of OneOwner: the master has a socket exactly
\* between accept and the end of produce_socket, what it accepts is new to the
\* server, and a worker that will serve has taken a socket.
Own ==
  /\ OneOwner /\ NoOrphan /\ BacklogFresh
  /\ so # None <=> master \in Producing
  /\ \A w \in Workers :
       /\ worker[w] = "consume_return" /\ stop_flag = 0 => client[w] # None
       /\ worker[w] \in IdlePC => client[w] = None

Context == TypeOK /\ PollSnapshot /\ RingBounds

\* produce_socket adds the socket behind the others.
LEMMA QueuePut ==
  ASSUME Context, Produce, ~QueueFull
  PROVE  /\ \A k \in sq_tail .. sq_head-1 :
              queue'[Slot(k)] = queue[Slot(k)]
         /\ queue'[Slot(sq_head)] = so
         /\ Queued' = Queued \cup {so}
<1> USE PoolAssumption
<1>1. sq_head \in sq_tail .. sq_tail+QSize-1 /\ sq_tail \in 0 .. QSize
  BY DEF Context, TypeOK, RingBounds, QueueFull
<1>2. Slot(sq_head) \in 0 .. QSize-1
  BY <1>1, SlotInRange
<1>3. /\ queue' = [queue EXCEPT ![Slot(sq_head)] = so]
      /\ sq_head' = sq_head + 1 /\ sq_tail' = sq_tail
  BY DEF Produce
<1>4. ASSUME NEW k \in sq_tail .. sq_head-1
      PROVE  Slot(k) # Slot(sq_head)
  <2>1. k \in sq_tail .. sq_tail+QSize-1 /\ k # sq_head
    BY <1>1
  <2> QED
    BY <1>1, <2>1, SlotsDiffer
<1>5. ASSUME NEW k \in sq_tail .. sq_head-1
      PROVE  queue'[Slot(k)] = queue[Slot(k)]
  <2> DEFINE i == Slot(k)
  <2>1. k \in Int
    BY <1>1
  <2>2. i \in 0 .. QSize-1
    BY <2>1, SlotInRange
  <2>3. i # Slot(sq_head)
    BY <1>4, Zenon
  <2> HIDE DEF i
  <2>4. queue'[i] = queue[i]
    BY <1>3, <2>2, <2>3 DEF Context, TypeOK
  <2> QED
    BY <2>4 DEF i
<1>6. queue'[Slot(sq_head)] = so
  BY <1>2, <1>3 DEF Context, TypeOK
<1>7. Queued' = Queued \cup {so}
  <2>1. (sq_tail .. sq_head-1)' = (sq_tail .. sq_head-1) \cup {sq_head}
    BY <1>1, <1>3
  <2>2. ASSUME NEW c \in Queued' PROVE c \in Queued \cup {so}
    <3>1. PICK k \in (sq_tail .. sq_head-1)' : c = queue'[Slot(k)]
      BY DEF Queued
    <3> QED
      BY <3>1, <2>1, <1>5, <1>6, Zenon DEF Queued
  <2>3. ASSUME NEW c \in Queued \cup {so} PROVE c \in Queued'
    <3>1. CASE c = so
      BY <3>1, <2>1, <1>6, Zenon DEF Queued
    <3>2. CASE c \in Queued
      <4>1. PICK k \in sq_tail .. sq_head-1 : c = queue[Slot(k)]
        BY <3>2 DEF Queued
      <4> QED
        BY <4>1, <2>1, <1>5, Zenon DEF Queued
    <3> QED
      BY <3>1, <3>2
  <2> QED
    BY <2>2, <2>3
<1> QED
  BY <1>5, <1>6, <1>7

\* consume_socket takes the oldest socket and leaves the others in place,
\* whether or not it wraps the pointers.
LEMMA QueueTake ==
  ASSUME Context, NEW w \in Workers, Consume(w), sq_head > sq_tail,
         QueueDistinct
  PROVE  /\ client' = [client EXCEPT ![w] = queue[Slot(sq_tail)]]
         /\ queue[Slot(sq_tail)] \in Queued
         /\ Queued' = Queued \ {queue[Slot(sq_tail)]}
         /\ QueueDistinct'
<1> USE PoolAssumption
<1>1. /\ sq_tail \in 0 .. QSize /\ sq_head \in sq_tail+1 .. sq_tail+QSize
      /\ Wrap \in {0, QSize}
      /\ Wrap = QSize => sq_tail = QSize
  BY DEF Context, TypeOK, RingBounds, Wrap
<1>2. /\ queue' = queue
      /\ client' = [client EXCEPT ![w] = queue[Slot(sq_tail)]]
      /\ sq_tail' = sq_tail + 1 - Wrap /\ sq_head' = sq_head - Wrap
  BY DEF Consume
<1>3. \A k \in (sq_tail .. sq_head-1)' :
        /\ k + Wrap \in sq_tail+1 .. sq_head-1
        /\ Slot(k) = Slot(k + Wrap)
  <2> SUFFICES ASSUME NEW k \in (sq_tail .. sq_head-1)'
               PROVE  /\ k + Wrap \in sq_tail+1 .. sq_head-1
                      /\ Slot(k) = Slot(k + Wrap)
    OBVIOUS
  <2>1. k + Wrap \in sq_tail+1 .. sq_head-1
    BY <1>1, <1>2
  <2>2. CASE Wrap = 0
    BY <2>1, <2>2, <1>1, <1>2
  <2>3. CASE Wrap = QSize
    <3>1. k + QSize \in QSize .. 2*QSize-1
      BY <2>1, <2>3, <1>1
    <3>2. (k + QSize) - QSize = k
      BY <1>1, <1>2, <2>3
    <3> QED
      BY <2>1, <2>3, <3>1, <3>2, SlotWraps
  <2> QED
    BY <2>2, <2>3, <1>1
<1>4. \A k \in sq_tail+1 .. sq_head-1 :
        /\ k - Wrap \in (sq_tail .. sq_head-1)'
        /\ Slot(k) = Slot(k - Wrap)
  <2> SUFFICES ASSUME NEW k \in sq_tail+1 .. sq_head-1
               PROVE  /\ k - Wrap \in (sq_tail .. sq_head-1)'
                      /\ Slot(k) = Slot(k - Wrap)
    OBVIOUS
  <2>1. k - Wrap \in (sq_tail .. sq_head-1)' /\ (k - Wrap) + Wrap = k
    BY <1>1, <1>2
  <2> QED
    BY <2>1, <1>3
<1>5. queue[Slot(sq_tail)] \in Queued
  BY <1>1 DEF Queued
<1>6. ASSUME NEW k \in sq_tail+1 .. sq_head-1
      PROVE  queue[Slot(k)] # queue[Slot(sq_tail)]
  <2>1. /\ k \in sq_tail .. sq_head-1 /\ sq_tail \in sq_tail .. sq_head-1
        /\ k # sq_tail
    BY <1>1
  <2> QED
    BY <2>1, Zenon DEF QueueDistinct
<1>7. Queued' = {queue[Slot(k)] : k \in sq_tail+1 .. sq_head-1}
  <2>1. ASSUME NEW c \in Queued'
        PROVE  c \in {queue[Slot(k)] : k \in sq_tail+1 .. sq_head-1}
    <3>1. PICK k \in (sq_tail .. sq_head-1)' : c = queue'[Slot(k)]
      BY DEF Queued
    <3> QED
      BY <3>1, <1>2, <1>3
  <2>2. ASSUME NEW k \in sq_tail+1 .. sq_head-1
        PROVE  queue[Slot(k)] \in Queued'
    BY <1>2, <1>4 DEF Queued
  <2> QED
    BY <2>1, <2>2
<1>8. Queued = {queue[Slot(k)] : k \in sq_tail+1 .. sq_head-1}
                 \cup {queue[Slot(sq_tail)]}
  BY <1>1 DEF Queued
<1>9. QueueDistinct'
  <2> SUFFICES ASSUME NEW j \in (sq_tail .. sq_head-1)',
                      NEW k \in (sq_tail .. sq_head-1)',
                      queue'[Slot(j)] = queue'[Slot(k)]
               PROVE  j = k
    BY Zenon DEF QueueDistinct
  <2>1. /\ j + Wrap \in sq_tail .. sq_head-1
        /\ k + Wrap \in sq_tail .. sq_head-1
    BY <1>1, <1>3
  <2>2. queue[Slot(j + Wrap)] = queue[Slot(k + Wrap)]
    BY <1>2, <1>3, Zenon
  <2>3. j + Wrap = k + Wrap
    BY <2>1, <2>2, Zenon DEF QueueDistinct
  <2> QED
    BY <2>3, <1>1, <1>2
<1>10. Queued' = Queued \ {queue[Slot(sq_tail)]}
  BY <1>6, <1>7, <1>8, Zenon
<1> QED
  BY <1>2, <1>5, <1>9, <1>10

\* Steps that move no socket preserve Own.
WorkersQuiet ==
  \A v \in Workers :
    \/ worker'[v] = worker[v]
    \/ /\ worker[v] \notin {"consume_return", "serve"}
       /\ worker'[v] \notin {"consume_return", "serve"}
       /\ worker'[v] \in IdlePC => worker[v] \in IdlePC

LEMMA OwnFrame ==
  ASSUME TypeOK, Own, UNCHANGED <<ring, so, open, client>>, WorkersQuiet,
         stop_flag' = stop_flag \/ stop_flag' # 0,
         BacklogFresh' \/ backlog' = backlog,
         so # None <=> master' \in Producing
  PROVE  Own'
<1>1. UNCHANGED <<queue, sq_head, sq_tail>>
  BY DEF ring
<1>2. Queued' = Queued /\ QueueDistinct' = QueueDistinct
  BY <1>1 DEF Queued, QueueDistinct
<1>3. \A w \in Workers : /\ Holds(w)' = Holds(w)
                         /\ worker'[w] = "serve" <=> worker[w] = "serve"
                         /\ worker'[w] \in IdlePC => worker[w] \in IdlePC
                         /\ worker'[w] = "consume_return"
                              <=> worker[w] = "consume_return"
  BY DEF WorkersQuiet, Holds
<1>4. OneOwner'
  BY <1>1, <1>2, <1>3 DEF Own, OneOwner
<1>5. NoOrphan'
  BY <1>2, <1>3 DEF Own, NoOrphan
<1>6. BacklogFresh'
  BY DEF Own, BacklogFresh
<1> QED
  BY <1>3, <1>4, <1>5, <1>6 DEF Own

\* Closing sockets leaves the waiting connections fresh.
LEMMA BacklogKept ==
  ASSUME BacklogFresh, backlog' = backlog, open' \subseteq open
  PROVE  BacklogFresh'
<1>1. \A l \in Listeners : \A i \in 1 .. Len(backlog[l]) :
        /\ backlog[l][i] \notin open'
        /\ \A m \in Listeners : \A j \in 1 .. Len(backlog[m]) :
             backlog[l][i] = backlog[m][j] => l = m /\ i = j
  BY Zenon DEF BacklogFresh
<1> QED
  BY <1>1 DEF BacklogFresh

\* Taking the first connection off a listening socket leaves the others, none
\* of which is the one taken.
LEMMA BacklogPop ==
  ASSUME TypeOK, BacklogFresh, idx \in Listeners, backlog[idx] # << >>,
         backlog' = [backlog EXCEPT ![idx] = Tail(@)]
  PROVE  \A l \in Listeners : \A i \in 1 .. Len(backlog'[l]) :
           /\ backlog'[l][i] \notin open
           /\ backlog'[l][i] # Head(backlog[idx])
           /\ \A m \in Listeners : \A j \in 1 .. Len(backlog'[m]) :
                backlog'[l][i] = backlog'[m][j] => l = m /\ i = j
<1> DEFINE at(l, i) == IF l = idx THEN i + 1 ELSE i
<1>1. ASSUME NEW l \in Listeners, NEW i \in 1 .. Len(backlog'[l])
      PROVE  /\ at(l, i) \in 1 .. Len(backlog[l])
             /\ backlog'[l][i] = backlog[l][at(l, i)]
             /\ l = idx => at(l, i) # 1
  <2>1. backlog[l] \in Seq(Clients)
    BY DEF TypeOK
  <2>2. CASE l = idx
    <3>1. backlog'[l] = Tail(backlog[l])
      BY <2>2 DEF TypeOK
    <3>2. /\ Len(Tail(backlog[l])) = Len(backlog[l]) - 1
          /\ Tail(backlog[l])[i] = backlog[l][i + 1]
      BY Zenon, <2>1, <2>2, <3>1, HeadTailProperties
    <3>3. Len(backlog[l]) \in Nat
      BY <2>1
    <3>4. i \in 1 .. Len(backlog[l]) - 1
      BY Zenon, <3>1, <3>2
    <3>5. i + 1 \in 1 .. Len(backlog[l]) /\ i + 1 # 1
      BY <3>3, <3>4
    <3> QED
      BY Zenon, <2>2, <3>1, <3>2, <3>5
  <2>3. CASE l # idx
    <3>1. backlog'[l] = backlog[l]
      BY <2>3 DEF TypeOK
    <3> QED
      BY <2>1, <2>3, <3>1
  <2> QED
    BY <2>2, <2>3
<1>2. /\ Head(backlog[idx]) = backlog[idx][1]
      /\ 1 \in 1 .. Len(backlog[idx])
  BY DEF TypeOK
<1>3. ASSUME NEW l \in Listeners, NEW i \in 1 .. Len(backlog'[l]),
             NEW m \in Listeners, NEW j \in 1 .. Len(backlog'[m]),
             at(l, i) = at(m, j), l = m
      PROVE  i = j
  <2>1. backlog'[l] \in Seq(Clients) /\ backlog'[m] \in Seq(Clients)
    BY DEF TypeOK
  <2> QED
    BY <1>3, <2>1
<1> HIDE DEF at
<1> QED
  BY <1>1, <1>2, <1>3 DEF BacklogFresh

\* A connection that is new to the server can wait on a listening socket.
LEMMA BacklogPush ==
  ASSUME TypeOK, BacklogFresh, NEW c \in Clients, NEW h \in Listeners,
         Connect(c, h)
  PROVE  BacklogFresh'
<1>1. /\ backlog' = [backlog EXCEPT ![h] = Append(@, c)] /\ open' = open
      /\ c \notin open
  BY DEF Connect
<1>2. \A l \in Listeners : \A i \in 1 .. Len(backlog[l]) : backlog[l][i] # c
  BY DEF Connect, TypeOK
<1>3. ASSUME NEW l \in Listeners, NEW i \in 1 .. Len(backlog'[l])
      PROVE  \/ i \in 1 .. Len(backlog[l]) /\ backlog'[l][i] = backlog[l][i]
             \/ /\ l = h /\ i = Len(backlog[h]) + 1
                /\ backlog'[l][i] = c
  <2>1. backlog[l] \in Seq(Clients)
    BY DEF TypeOK
  <2>2. CASE l = h
    <3>1. backlog'[l] = Append(backlog[l], c)
      BY <1>1, <2>2 DEF TypeOK
    <3> QED
      BY <2>1, <2>2, <3>1
  <2>3. CASE l # h
    <3>1. backlog'[l] = backlog[l]
      BY <1>1, <2>3 DEF TypeOK
    <3> QED
      BY <2>1, <3>1
  <2> QED
    BY <2>2, <2>3
<1> QED
  BY <1>1, <1>2, <1>3 DEF BacklogFresh

LEMMA OwnStep == Context /\ Own /\ [Next]_vars => Own'
<1> SUFFICES ASSUME Context, Own, [Next]_vars PROVE Own'
  OBVIOUS
<1>0. TypeOK /\ PollSnapshot
  BY DEF Context
<1> USE <1>0
<1>1. CASE StartMaster
  <2>1. UNCHANGED <<ring, so, open, client, backlog>> /\ WorkersQuiet
    BY SMTT(30), <1>1
    DEF StartMaster, WorkersQuiet, IdlePC, ring, os, scan, TypeOK
  <2> QED
    BY <1>1, <2>1, OwnFrame, Zenon
    DEF StartMaster, PollSnapshot, Own, Producing
<1>2. ASSUME NEW w \in Workers, StartWorker(w) PROVE Own'
  <2>1. UNCHANGED <<ring, so, open, client, backlog>> /\ WorkersQuiet
    BY <1>2
    DEF StartWorker, WorkersQuiet, IdlePC, ring, os, scan, TypeOK
  <2> QED
    BY <1>2, <2>1, OwnFrame DEF StartWorker, Own, Producing
<1>3. CASE IncLoad
  <2>1. UNCHANGED <<ring, so, open, client, backlog>> /\ WorkersQuiet
    BY <1>3 DEF IncLoad, WorkersQuiet, IdlePC, ring, os, scan, TypeOK
  <2> QED
    BY <1>3, <2>1, OwnFrame DEF IncLoad, Own, Producing
<1>4. CASE IncStore
  <2>1. UNCHANGED <<ring, so, open, client, backlog>> /\ WorkersQuiet
    BY <1>4
    DEF IncStore, WorkersQuiet, IdlePC, ring, os, scan, TypeOK
  <2> QED
    BY <1>4, <2>1, OwnFrame DEF IncStore, Own, Producing
<1>5. CASE StartReturn
  <2>1. UNCHANGED <<ring, so, open, client, backlog>> /\ WorkersQuiet
    BY <1>5
    DEF StartReturn, WorkersQuiet, IdlePC, ring, os, scan, TypeOK
  <2> QED
    BY <1>5, <2>1, OwnFrame DEF StartReturn, Own, Producing
<1>6. CASE StopReturn
  <2>1. UNCHANGED <<ring, so, open, client, backlog>> /\ WorkersQuiet
    BY <1>6
    DEF StopReturn, WorkersQuiet, IdlePC, ring, os, scan, TypeOK
  <2> QED
    BY <1>6, <2>1, OwnFrame DEF StopReturn, Own, Producing
<1>7. CASE StopRequest
  <2>1. UNCHANGED <<ring, so, open, client, backlog>> /\ WorkersQuiet
    BY <1>7 DEF StopRequest, WorkersQuiet, IdlePC, ring, os, scan, TypeOK
  <2> QED
    BY <1>7, <2>1, OwnFrame DEF StopRequest, Own, Producing
<1>8. CASE AcceptFail
  <2>1. UNCHANGED <<ring, so, open, client, backlog>> /\ WorkersQuiet
    BY <1>8
    DEF AcceptFail, WorkersQuiet, NextListener, IdlePC, ring, os, scan, TypeOK
  <2>2. so = None /\ master' \in {"scan", "poll"} /\ stop_flag' = stop_flag
    BY <1>8 DEF AcceptFail, NextListener, Own, Producing
  <2> QED
    BY <1>8, <2>1, <2>2, OwnFrame DEF Producing
<1>9. CASE SpuriousWakeup
  <2>1. UNCHANGED <<ring, so, open, client, backlog>> /\ WorkersQuiet
    BY <1>9
    DEF SpuriousWakeup, WorkersQuiet, IdlePC, ring, os, scan, TypeOK
  <2> QED
    BY <1>9, <2>1, OwnFrame DEF SpuriousWakeup, Own, Producing
<1>10. CASE MasterBegin
  <2>1. UNCHANGED <<ring, so, open, client, backlog>> /\ WorkersQuiet
    BY <1>10
    DEF MasterBegin, WorkersQuiet, IdlePC, ring, os, scan, TypeOK
  <2> QED
    BY <1>10, <2>1, OwnFrame, Zenon DEF MasterBegin, Own, Producing
<1>11. CASE Poll
  <2>1. UNCHANGED <<ring, so, open, client, backlog>> /\ WorkersQuiet
    BY <1>11 DEF Poll, WorkersQuiet, IdlePC, ring, os, scan, TypeOK
  <2> QED
    BY <1>11, <2>1, OwnFrame DEF Poll, Own, Producing
<1>12. CASE ScanSkip
  <2>1. UNCHANGED <<ring, so, open, client, backlog>> /\ WorkersQuiet
    BY <1>12
    DEF ScanSkip, WorkersQuiet, NextListener, IdlePC, ring, os, scan, TypeOK
  <2>2. so = None /\ master' \in {"scan", "poll"} /\ stop_flag' = stop_flag
    BY <1>12 DEF ScanSkip, NextListener, Own, Producing
  <2> QED
    BY <1>12, <2>1, <2>2, OwnFrame DEF Producing
<1>13. CASE AcceptDenied
  <2>1. UNCHANGED <<ring, so, open, client>> /\ WorkersQuiet
    BY <1>13 DEF AcceptDenied, WorkersQuiet, ring
  <2>2. BacklogFresh'
    <3>1. idx \in ready /\ master = "scan" /\ open' = open
      BY <1>13 DEF AcceptDenied
    <3>2. backlog' = [backlog EXCEPT ![idx] = Tail(@)]
      BY <1>13 DEF AcceptDenied
    <3>3. idx \in Listeners /\ backlog[idx] # << >>
      BY <3>1 DEF TypeOK, PollSnapshot
    <3>4. BacklogFresh
      BY DEF Own
    <3>5. \A l \in Listeners : \A i \in 1 .. Len(backlog'[l]) :
            /\ backlog'[l][i] \notin open
            /\ backlog'[l][i] # Head(backlog[idx])
            /\ \A m \in Listeners : \A j \in 1 .. Len(backlog'[m]) :
                 backlog'[l][i] = backlog'[m][j] => l = m /\ i = j
      BY <3>2, <3>3, <3>4, BacklogPop, Zenon
    <3> QED
      BY <3>1, <3>5, Zenon DEF BacklogFresh
  <2> QED
    BY <1>13, <2>1, <2>2, OwnFrame
    DEF AcceptDenied, NextListener, Own, Producing
<1>14. CASE Accept
  <2> DEFINE c == Head(backlog[idx])
  <2>1. /\ idx \in Listeners /\ backlog[idx] \in Seq(Clients)
        /\ backlog[idx] # << >>
    BY <1>14 DEF Accept, TypeOK, PollSnapshot
  <2>2. c \in Clients /\ c = backlog[idx][1] /\ 1 \in 1 .. Len(backlog[idx])
    BY <2>1
  <2>3. c \notin open
    BY <2>1, <2>2 DEF Own, BacklogFresh
  <2>4. BacklogFresh'
    <3>1. backlog' = [backlog EXCEPT ![idx] = Tail(@)] /\ open' = open \cup {c}
      BY <1>14 DEF Accept
    <3>2. BacklogFresh
      BY DEF Own
    <3>3. \A l \in Listeners : \A i \in 1 .. Len(backlog'[l]) :
            /\ backlog'[l][i] \notin open
            /\ backlog'[l][i] # c
            /\ \A m \in Listeners : \A j \in 1 .. Len(backlog'[m]) :
                 backlog'[l][i] = backlog'[m][j] => l = m /\ i = j
      BY <2>1, <3>1, <3>2, BacklogPop, Zenon
    <3> HIDE DEF c
    <3>4. \A l \in Listeners : \A i \in 1 .. Len(backlog'[l]) :
            backlog'[l][i] \notin open'
      BY <3>1, <3>3
    <3> QED
      BY <3>3, <3>4, Zenon DEF BacklogFresh
  <2>5. /\ so = None /\ so' = c /\ open' = open \cup {c}
        /\ UNCHANGED <<queue, sq_head, sq_tail, client, worker, stop_flag>>
        /\ master' = "produce"
    BY <1>14 DEF Accept, Own, Producing, ring
  <2> HIDE DEF c
  <2>6. /\ Queued' = Queued /\ QueueDistinct' = QueueDistinct
        /\ \A w \in Workers : Holds(w)' = Holds(w)
    BY <2>5 DEF Queued, QueueDistinct, Holds
  <2>7. OneOwner'
    <3>1. Queued' \subseteq open' /\ QueueDistinct' /\ so' \in open' \ Queued'
      BY <2>2, <2>3, <2>5, <2>6 DEF Own, OneOwner
    <3>2. ASSUME NEW w \in Workers
          PROVE  /\ worker'[w] = "serve" => Holds(w)'
                 /\ Holds(w)' => client'[w] \in open' \ (Queued' \cup {so'})
      BY <2>3, <2>5, <2>6 DEF Own, OneOwner
    <3>3. ASSUME NEW w \in Workers, NEW v \in Workers, Holds(v)', Holds(w)',
                 client'[v] = client'[w]
          PROVE  v = w
      BY <2>5, <2>6, <3>3 DEF Own, OneOwner
    <3> QED
      BY <3>1, <3>2, <3>3 DEF OneOwner
  <2>8. NoOrphan'
    <3>1. ASSUME stop_flag = 0, NEW d \in open
          PROVE  d \in Queued \/ \E w \in Workers : Holds(w) /\ client[w] = d
      BY <2>5, <3>1, PoolAssumption DEF Own, NoOrphan, TypeOK
    <3> QED
      BY <2>5, <2>6, <3>1 DEF NoOrphan
  <2> QED
    BY <2>2, <2>4, <2>5, <2>7, <2>8, PoolAssumption
    DEF Own, Producing
<1>15. CASE ProduceTest
  <2>1. UNCHANGED <<ring, so, open, client, backlog>> /\ WorkersQuiet
    BY <1>15
    DEF ProduceTest, WorkersQuiet, IdlePC, ring, os, scan, TypeOK
  <2> QED
    BY <1>15, <2>1, OwnFrame, Zenon DEF ProduceTest, Own, Producing
<1>16. CASE ProduceWait
  <2>1. UNCHANGED <<ring, so, open, client, backlog>> /\ WorkersQuiet
    BY <1>16 DEF ProduceWait, WorkersQuiet, IdlePC, ring, os, scan, TypeOK
  <2> QED
    BY <1>16, <2>1, OwnFrame DEF ProduceWait, Own, Producing
<1>17. CASE Produce
  <2>1. /\ so # None /\ so \in open \ Queued
        /\ so' = None /\ open' = open /\ client' = client
        /\ backlog' = backlog /\ stop_flag' = stop_flag
        /\ master' \in {"scan", "poll"}
    BY <1>17 DEF Produce, NextListener, Own, Producing, OneOwner, os
  <2>2. \A w \in Workers : /\ Holds(w)' = Holds(w)
                           /\ worker'[w] = "serve" <=> worker[w] = "serve"
                           /\ worker'[w] = "consume_return"
                                <=> worker[w] = "consume_return"
                           /\ worker'[w] \in IdlePC <=> worker[w] \in IdlePC
    BY <1>17, <2>1 DEF Produce, SignalFull, Holds, TypeOK, IdlePC
  <2>3. BacklogFresh'
    BY <2>1, SMTT(30) DEF Own, BacklogFresh
  <2>4. CASE QueueFull
    <3>1. stop_flag # 0 /\ UNCHANGED <<queue, sq_head, sq_tail>>
      BY <1>17, <2>4 DEF Produce, ring
    <3>2. Queued' = Queued /\ QueueDistinct' = QueueDistinct
      BY <3>1 DEF Queued, QueueDistinct
    <3>3. OneOwner'
      <4>1. ASSUME NEW w \in Workers
            PROVE  /\ worker'[w] = "serve" => Holds(w)'
                   /\ Holds(w)' => client'[w] \in open' \ (Queued' \cup {so'})
        BY SMTT(30), <2>1, <2>2, <3>2, PoolAssumption
        DEF Own, OneOwner, TypeOK, Holds
      <4>2. ASSUME NEW w \in Workers, NEW v \in Workers, Holds(v)',
                   Holds(w)', client'[v] = client'[w]
            PROVE  v = w
        BY <2>1, <2>2, <4>2 DEF Own, OneOwner
      <4> QED
        BY <2>1, <3>2, <4>1, <4>2, SMTT(30) DEF Own, OneOwner
    <3> QED
      BY <2>1, <2>2, <2>3, <3>1, <3>3 DEF Own, NoOrphan, Producing
  <2>5. CASE ~QueueFull
    <3>1. /\ \A k \in sq_tail .. sq_head-1 :
               queue'[Slot(k)] = queue[Slot(k)]
          /\ queue'[Slot(sq_head)] = so
          /\ Queued' = Queued \cup {so}
      BY <1>17, <2>5, QueuePut
    <3>2. (sq_tail .. sq_head-1)' = (sq_tail .. sq_head-1) \cup {sq_head}
      <4>1. sq_head' = sq_head + 1 /\ sq_tail' = sq_tail
        BY <1>17, <2>5 DEF Produce
      <4> QED
        BY <4>1 DEF TypeOK, Context, RingBounds
    <3>3. QueueDistinct'
      <4>1. \A k \in sq_tail .. sq_head-1 : queue[Slot(k)] # so
        BY <2>1, Zenon DEF Queued
      <4>2. ASSUME NEW j \in (sq_tail .. sq_head-1)',
                   NEW k \in (sq_tail .. sq_head-1)',
                   queue'[Slot(j)] = queue'[Slot(k)]
            PROVE  j = k
        <5>1. CASE j = sq_head \/ k = sq_head
          BY <3>1, <3>2, <4>1, <4>2, <5>1
        <5>2. CASE j # sq_head /\ k # sq_head
          BY <3>1, <3>2, <4>2, <5>2, Zenon DEF Own, OneOwner, QueueDistinct
        <5> QED
          BY <5>1, <5>2
      <4> QED
        BY <4>2, Zenon DEF QueueDistinct, Slot
    <3>4. OneOwner'
      BY <2>1, <2>2, <3>1, <3>3, Zenon DEF Own, OneOwner, Holds
    <3>5. NoOrphan'
      BY <2>1, <2>2, <3>1 DEF Own, NoOrphan
    <3> QED
      BY <2>1, <2>2, <2>3, <3>4, <3>5 DEF Own, Producing
  <2> QED
    BY <2>4, <2>5
<1>18. CASE Shutdown
  <2>1. UNCHANGED <<ring, so, open, client>> /\ WorkersQuiet
    BY <1>18 DEF Shutdown, WorkersQuiet, IdlePC, ring, scan, TypeOK
  <2>2. BacklogFresh'
    BY <1>18 DEF Shutdown, BacklogFresh
  <2> QED
    BY <1>18, <2>1, <2>2, OwnFrame DEF Shutdown, Own, Producing
<1>19. CASE Join
  <2>1. UNCHANGED <<ring, so, open, client, backlog>> /\ WorkersQuiet
    BY <1>19, SMTT(30) DEF Join, WorkersQuiet, IdlePC, ring, os, scan, TypeOK
  <2> QED
    BY <1>19, <2>1, OwnFrame DEF Join, Own, Producing
<1>20. CASE JoinWait
  <2>1. UNCHANGED <<ring, so, open, client, backlog>> /\ WorkersQuiet
    BY <1>20 DEF JoinWait, WorkersQuiet, IdlePC, ring, os, scan, TypeOK
  <2> QED
    BY <1>20, <2>1, OwnFrame DEF JoinWait, Own, Producing
<1>21. CASE Destroy
  <2>1. UNCHANGED <<ring, so, open, client, backlog>> /\ WorkersQuiet
    BY SMTT(30), <1>21
    DEF Destroy, WorkersQuiet, IdlePC, ring, os, scan, TypeOK
  <2> QED
    BY <1>21, <2>1, OwnFrame, Zenon DEF Destroy, Own, Producing
<1>22. CASE Finish
  <2>1. UNCHANGED <<ring, so, open, client, backlog>> /\ WorkersQuiet
    BY <1>22, SMTT(30) DEF Finish, WorkersQuiet, IdlePC, ring, os, scan, TypeOK
  <2> QED
    BY <1>22, <2>1, OwnFrame DEF Finish, Own, Producing
<1>23. ASSUME NEW w \in Workers, WorkerBegin(w) PROVE Own'
  <2>1. UNCHANGED <<ring, so, open, client, backlog>> /\ WorkersQuiet
    BY <1>23 DEF WorkerBegin, WorkersQuiet, IdlePC, ring, os, scan, TypeOK
  <2> QED
    BY <1>23, <2>1, OwnFrame DEF WorkerBegin, Own, Producing
<1>24. ASSUME NEW w \in Workers, ConsumeTest(w) PROVE Own'
  <2>1. UNCHANGED <<ring, so, open, client, backlog>> /\ WorkersQuiet
    BY SMTT(30), <1>24
    DEF ConsumeTest, WorkersQuiet, IdlePC, ring, os, scan, TypeOK
  <2> QED
    BY <1>24, <2>1, OwnFrame, Zenon DEF ConsumeTest, Own, Producing
<1>25. ASSUME NEW w \in Workers, ConsumeWait(w) PROVE Own'
  <2>1. UNCHANGED <<ring, so, open, client, backlog>> /\ WorkersQuiet
    BY <1>25 DEF ConsumeWait, WorkersQuiet, IdlePC, ring, os, scan, TypeOK
  <2> QED
    BY <1>25, <2>1, OwnFrame DEF ConsumeWait, Own, Producing
<1>26. ASSUME NEW w \in Workers, Consume(w) PROVE Own'
  <2>1. /\ so' = so /\ open' = open /\ backlog' = backlog
        /\ stop_flag' = stop_flag /\ ~Holds(w)
        /\ worker' = [worker EXCEPT ![w] = "consume_return"]
        /\ master' \in Producing <=> master \in Producing
    BY <1>26, Zenon DEF Consume, Holds, Producing, os, scan
  <2>2. BacklogFresh'
    BY <2>1, BacklogKept DEF Own
  <2>3. CASE ~(sq_head > sq_tail)
    <3>1. /\ stop_flag # 0 /\ UNCHANGED <<queue, sq_head, sq_tail, client>>
          /\ sq_tail .. sq_head-1 = {}
      BY <1>26, <2>3, SMTT(30) DEF Consume, Context, RingBounds, TypeOK
    <3>2. Queued' = Queued /\ QueueDistinct' = QueueDistinct
      BY <3>1 DEF Queued, QueueDistinct
    <3>3. /\ client[w] = None /\ worker'[w] = "consume_return" /\ ~Holds(w)'
          /\ \A v \in Workers \ {w} :
               Holds(v)' = Holds(v) /\ worker'[v] = worker[v]
      BY <1>26, <2>1, <3>1, SMTT(30) DEF Consume, Own, Holds, IdlePC, TypeOK
    <3>4. OneOwner'
      BY <2>1, <3>1, <3>2, <3>3 DEF Own, OneOwner
    <3> QED
      BY <2>1, <2>2, <3>1, <3>3, <3>4, SMTT(30) DEF Own, NoOrphan, IdlePC
  <2>4. CASE sq_head > sq_tail
    <3> DEFINE c == queue[Slot(sq_tail)]
    <3>1. /\ client' = [client EXCEPT ![w] = c]
          /\ c \in Queued /\ Queued' = Queued \ {c}
          /\ QueueDistinct'
      BY <1>26, <2>4, QueueTake, Zenon DEF Own, OneOwner
    <3>2. c \in open /\ c # None
      BY <3>1, PoolAssumption DEF Own, OneOwner, TypeOK
    <3> HIDE DEF c
    <3>3. /\ Holds(w)' /\ client'[w] = c
          /\ \A v \in Workers \ {w} :
               /\ Holds(v)' = Holds(v)
               /\ client'[v] = client[v]
               /\ worker'[v] = worker[v]
      BY <2>1, <3>1, <3>2, SMTT(30) DEF Holds, TypeOK
    <3>4. OneOwner'
      BY <2>1, <3>1, <3>2, <3>3 DEF Own, OneOwner, TypeOK
    <3>5. NoOrphan'
      BY <2>1, <3>1, <3>3, ZenonT(30) DEF Own, NoOrphan
    <3>6. ASSUME NEW v \in Workers
          PROVE  /\ worker'[v] = "consume_return" /\ stop_flag' = 0
                      => client'[v] # None
                 /\ worker'[v] \in IdlePC => client'[v] = None
      <4>1. worker'[w] = "consume_return"
        BY <2>1 DEF TypeOK
      <4> QED
        BY <2>1, <3>2, <3>3, <4>1 DEF Own, IdlePC
    <3> QED
      BY <2>1, <2>2, <3>4, <3>5, <3>6, Zenon DEF Own
  <2> QED
    BY <2>3, <2>4
<1>27. ASSUME NEW w \in Workers, ConsumeReturn(w) PROVE Own'
  <2>1. UNCHANGED <<queue, sq_head, sq_tail, so, open, client, backlog,
                    stop_flag, master>>
    BY <1>27 DEF ConsumeReturn, ring, os, scan
  <2>2. /\ Queued' = Queued /\ QueueDistinct' = QueueDistinct
        /\ BacklogFresh'
    BY <2>1 DEF Own, Queued, QueueDistinct, BacklogFresh
  <2>3. \A v \in Workers \ {w} :
          Holds(v)' = Holds(v) /\ worker'[v] = worker[v]
    BY <1>27, <2>1, SMTT(30) DEF ConsumeReturn, Holds, TypeOK
  <2>4. CASE stop_flag = 0
    <3>1. Holds(w) /\ Holds(w)' /\ worker'[w] = "serve"
      BY <1>27, <2>1, <2>4 DEF ConsumeReturn, Holds, TypeOK, Own
    <3>2. OneOwner'
      BY <2>1, <2>2, <2>3, <3>1, Zenon DEF Own, OneOwner
    <3>3. NoOrphan'
      BY <2>1, <2>2, <2>3, <3>1, Zenon DEF Own, NoOrphan
    <3> QED
      BY <2>1, <2>2, <2>3, <3>1, <3>2, <3>3, SMTT(30) DEF Own, IdlePC
  <2>5. CASE stop_flag # 0
    <3>1. ~Holds(w)' /\ worker'[w] = "exit"
      BY <1>27, <2>1, <2>5 DEF ConsumeReturn, Holds, TypeOK
    <3> QED
      BY <2>1, <2>2, <2>3, <2>5, <3>1, Zenon
      DEF Own, OneOwner, NoOrphan, IdlePC
  <2> QED
    BY <2>4, <2>5
<1>28. ASSUME NEW w \in Workers, Serve(w) PROVE Own'
  <2>1. UNCHANGED <<queue, sq_head, sq_tail, so, backlog, stop_flag, master>>
    BY <1>28 DEF Serve, ring, scan
  <2>2. Queued' = Queued /\ QueueDistinct' = QueueDistinct
    BY <2>1, SMTT(30) DEF Queued, QueueDistinct
  <2>3. /\ Holds(w) /\ ~Holds(w)' /\ worker'[w] = "consume"
        /\ client'[w] = None
        /\ open' = open \ {client[w]}
    BY <1>28 DEF Serve, Holds, TypeOK, Own, OneOwner
  <2>4. \A v \in Workers \ {w} : /\ Holds(v)' = Holds(v)
                                 /\ worker'[v] = worker[v]
                                 /\ client'[v] = client[v]
    BY <1>28 DEF Serve, Holds, TypeOK
  <2>5. OneOwner'
    BY <2>1, <2>2, <2>3, <2>4, Zenon DEF Own, OneOwner
  <2>6. NoOrphan'
    BY <2>1, <2>2, <2>3, <2>4, Zenon DEF Own, NoOrphan
  <2>7. BacklogFresh'
    BY <2>1, <2>3, BacklogKept, ZenonT(30) DEF Own
  <2> QED
    BY <2>1, <2>3, <2>4, <2>5, <2>6, <2>7, Zenon DEF Own, IdlePC
<1>29. ASSUME NEW w \in Workers, ExitLoad(w) PROVE Own'
  <2>1. UNCHANGED <<ring, so, open, client, backlog>> /\ WorkersQuiet
    BY <1>29 DEF ExitLoad, WorkersQuiet, IdlePC, ring, os, scan, TypeOK
  <2> QED
    BY <1>29, <2>1, OwnFrame, Zenon DEF ExitLoad, Own, Producing
<1>30. ASSUME NEW w \in Workers, ExitStore(w) PROVE Own'
  <2>1. UNCHANGED <<ring, so, open, client, backlog>> /\ WorkersQuiet
    BY <1>30 DEF ExitStore, WorkersQuiet, IdlePC, ring, os, scan, TypeOK
  <2> QED
    BY <1>30, <2>1, OwnFrame, Zenon DEF ExitStore, Own, Producing
<1>31. ASSUME NEW c \in Clients, NEW l \in Listeners, Connect(c, l)
       PROVE Own'
  <2>1. UNCHANGED <<ring, so, open, client>> /\ WorkersQuiet
    BY <1>31 DEF Connect, WorkersQuiet, ring, scan
  <2>2. BacklogFresh'
    BY <1>31, BacklogPush DEF Own
  <2> QED
    BY <1>31, <2>1, <2>2, OwnFrame, Zenon DEF Connect, Own

<1>32. CASE AppIdle
  <2>1. UNCHANGED <<ring, so, open, client, backlog>> /\ WorkersQuiet
    BY <1>32 DEF AppIdle, WorkersQuiet, vars, IdlePC, ring, os, scan, TypeOK
  <2> QED
    BY <1>32, <2>1, OwnFrame, Zenon DEF AppIdle, vars, Own, Producing
<1>33. CASE UNCHANGED vars
  <2>1. UNCHANGED <<ring, so, open, client, backlog>> /\ WorkersQuiet
    BY <1>33 DEF WorkersQuiet, vars, IdlePC, ring, os, scan, TypeOK
  <2> QED
    BY <1>33, <2>1, OwnFrame, Zenon DEF vars, Own, Producing
<1> QED
  BY SMTT(30), <1>1, <1>2, <1>3, <1>4, <1>5, <1>6, <1>7, <1>8, <1>9, <1>10,
     <1>11, <1>12, <1>13, <1>14, <1>15, <1>16, <1>17, <1>18, <1>19, <1>20,
     <1>21, <1>22, <1>23, <1>24, <1>25, <1>26, <1>27, <1>28, <1>29, <1>30, <1>31,
     <1>32, <1>33
  DEF Next, App, Master, Worker

\* Own holds throughout.
LEMMA OwnAlways == Spec => [](Context /\ Own)
<1>1. Init => Own
  BY PoolAssumption DEF Init, Own, OneOwner, NoOrphan, BacklogFresh, Queued,
                        QueueDistinct, Holds, Producing
<1> QED
  BY <1>1, TypeCorrect, RingBounded, OwnStep, PTL DEF Spec, Context

\* No accepted socket ever has two owners, or is served after it was closed,
\* whatever the number of threads, clients and slots.
THEOREM SocketsOwned == Spec => []OneOwner
<1>1. Own => OneOwner
  BY DEF Own
<1> QED
  BY <1>1, OwnAlways, PTL

\* No accepted socket is lost between the master, the queue and the workers
\* while the server runs.
THEOREM NoneLost == Spec => []NoLostSocket
<1>1. Context /\ Own => NoLostSocket
  <2> SUFFICES ASSUME TypeOK, Own, stop_flag = 0
               PROVE  open = Queued \cup ({so} \ {None})
                        \cup {client[w] : w \in {v \in Workers : Holds(v)}}
    BY DEF Context, NoLostSocket
  <2>1. ASSUME NEW c \in open
        PROVE  \/ c \in Queued \/ (c = so /\ so # None)
               \/ c \in {client[w] : w \in {v \in Workers : Holds(v)}}
    BY PoolAssumption DEF Own, NoOrphan, OneOwner, TypeOK
  <2>2. /\ Queued \subseteq open /\ (so # None => so \in open)
        /\ \A w \in Workers : Holds(w) => client[w] \in open
    BY DEF Own, OneOwner
  <2> QED
    BY <2>1, <2>2, Zenon
<1> QED
  BY <1>1, OwnAlways, PTL
=============================================================================
