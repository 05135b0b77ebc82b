----------------------------- MODULE ThreadPool -----------------------------
(***************************************************************************)
(* The threads of the server and the context they share: the application   *)
(* thread that calls mg_start and mg_stop, the master thread that accepts  *)
(* connections into a ring of QSize slots, and the workers that take them  *)
(* out and serve them.                                                     *)
(*                                                                         *)
(* A critical section that does not wait is one step: everything it        *)
(* touches is protected by ctx->mutex except stop_flag, which it reads     *)
(* once.  The code is split where another thread can get in between: at    *)
(* every read or write of stop_flag and num_threads that is not under the  *)
(* mutex, and between the test of a wait loop and pthread_cond_wait (the   *)
(* mutex is held there, but stop_flag is written, and sq_full broadcast,   *)
(* without it).  The set of threads blocked on a condition variable is     *)
(* read off the program counters: workers wait on sq_full, the master on   *)
(* sq_empty and cond.                                                      *)
(***************************************************************************)
EXTENDS Integers, Sequences, FiniteSets

CONSTANTS
  Workers,        \* the threads mg_start creates, config[NUM_THREADS] of them
  Clients,        \* client connections; an element is reused once closed
  Denied,         \* the clients whose address check_acl refuses
  QSize,          \* ARRAY_SIZE(ctx->queue)
  NumListeners,   \* ctx->num_listening_sockets
  Faults          \* which calls may fail: "calloc", "pthread_create", "accept"

None == "none"

ASSUME PoolAssumption ==
  /\ IsFiniteSet(Workers)
  /\ Workers \cap {"free", "master"} = {}
  /\ None \notin Clients
  /\ Denied \subseteq Clients
  /\ QSize \in Nat \ {0}
  /\ NumListeners \in Nat
  /\ Faults \subseteq {"calloc", "pthread_create", "accept"}

VARIABLES
  \* struct mg_context
  stop_flag, num_threads, queue, sq_head, sq_tail,
  mutex,          \* owner of ctx->mutex, or "free"
  ctx,            \* "live", "destroyed" (mutex and condvars) or "freed"
  \* program counters
  app, master, worker,
  \* locals
  so, ready, idx, \* the master's accepted socket, poll result and loop index
  client,         \* conn->client of each worker
  inc, dec,       \* num_threads loaded by mg_start's ++ and by a worker's --
  \* the sockets of the operating system
  backlog,        \* connections waiting on each listening socket
  open            \* connections accepted and not closed by the server

ring == <<queue, sq_head, sq_tail>>
os   == <<backlog, open>>
scan == <<so, ready, idx>>
vars == <<stop_flag, num_threads, ring, mutex, ctx, app, master, worker,
          scan, client, inc, dec, os>>

Listeners == 1 .. NumListeners

AppPC    == {"start_master", "start_workers", "inc_load", "inc_store", "run",
             "stopping", "done"}
MasterPC == {"off", "failed", "begin", "poll", "scan", "produce",
             "produce_wait", "on_sq_empty", "shutdown", "join", "join_wait",
             "on_cond", "destroy", "finish", "done"}
WorkerPC == {"off", "failed", "begin", "consume", "consume_wait",
             "on_sq_full", "consume_return", "serve", "exit", "exit_store",
             "done"}

Init ==
  /\ stop_flag = 0 /\ num_threads = 0
  /\ queue = [i \in 0 .. QSize-1 |-> None] /\ sq_head = 0 /\ sq_tail = 0
  /\ mutex = "free" /\ ctx = "live"
  /\ app = "start_master" /\ master = "off"
  /\ worker = [w \in Workers |-> "off"]
  /\ so = None /\ ready = {} /\ idx = 1
  /\ client = [w \in Workers |-> None]
  /\ inc = 0 /\ dec = 0
  /\ backlog = [l \in Listeners |-> << >>] /\ open = {}

-----------------------------------------------------------------------------
(* The application thread: the end of mg_start, and mg_stop.               *)

\* mg_start ignores the result of starting the master.
StartMaster ==
  /\ app = "start_master"
  /\ app' = "start_workers"
  /\ \/ master' = "begin"
     \/ "pthread_create" \in Faults /\ master' = "failed"
  /\ UNCHANGED <<stop_flag, num_threads, ring, mutex, ctx, worker, scan,
                 client, inc, dec, os>>

StartWorker(w) ==
  /\ app = "start_workers"
  /\ worker[w] = "off"
  /\ \/ /\ worker' = [worker EXCEPT ![w] = "begin"]
        /\ app' = "inc_load"
     \/ /\ "pthread_create" \in Faults
        /\ worker' = [worker EXCEPT ![w] = "failed"]
        /\ app' = app
  /\ UNCHANGED <<stop_flag, num_threads, ring, mutex, ctx, master, scan,
                 client, inc, dec, os>>

\* Mutant: the increment is lost.
IncStoreLost ==
  /\ app = "inc_store"
  /\ num_threads' = inc
  /\ inc' = 0
  /\ app' = "start_workers"
  /\ UNCHANGED <<stop_flag, ring, mutex, ctx, master, worker, scan, client,
                 dec, os>>

\* ctx->num_threads++, without the mutex: a load and a store.
IncLoad ==
  /\ app = "inc_load"
  /\ inc' = num_threads
  /\ app' = "inc_store"
  /\ UNCHANGED <<stop_flag, num_threads, ring, mutex, ctx, master, worker,
                 scan, client, dec, os>>

IncStore ==
  /\ app = "inc_store"
  /\ num_threads' = inc + 1
  /\ inc' = 0
  /\ app' = "start_workers"
  /\ UNCHANGED <<stop_flag, ring, mutex, ctx, master, worker, scan, client,
                 dec, os>>

StartReturn ==
  /\ app = "start_workers"
  /\ \A w \in Workers : worker[w] # "off"
  /\ app' = "run"
  /\ UNCHANGED <<stop_flag, num_threads, ring, mutex, ctx, master, worker,
                 scan, client, inc, dec, os>>

StopRequest ==
  /\ app = "run"
  /\ stop_flag' = 1
  /\ app' = "stopping"
  /\ UNCHANGED <<num_threads, ring, mutex, ctx, master, worker, scan, client,
                 inc, dec, os>>

StopReturn ==
  /\ app = "stopping"
  /\ stop_flag = 2
  /\ ctx' = "freed"
  /\ app' = "done"
  /\ UNCHANGED <<stop_flag, num_threads, ring, mutex, master, worker, scan,
                 client, inc, dec, os>>

-----------------------------------------------------------------------------
(* The master thread.                                                      *)

MasterBegin ==
  /\ master = "begin"
  /\ \/ master' = "poll"
     \/ "calloc" \in Faults /\ master' = "shutdown"    \* pfd == NULL
  /\ UNCHANGED <<stop_flag, num_threads, ring, mutex, ctx, app, worker, scan,
                 client, inc, dec, os>>

\* One turn of the outer loop; a poll that times out changes nothing.
Poll ==
  /\ master = "poll"
  /\ \/ /\ stop_flag # 0
        /\ master' = "shutdown"
        /\ UNCHANGED <<ready, idx>>
     \/ /\ stop_flag = 0
        /\ ready' = {l \in Listeners : backlog[l] # << >>}
        /\ ready' # {}
        /\ idx' = 1
        /\ master' = "scan"
  /\ UNCHANGED <<stop_flag, num_threads, ring, mutex, ctx, app, worker, so,
                 client, inc, dec, os>>

\* Mutant: the index is not reset at the end of the loop.
NextListenerOver ==
  /\ idx' = idx + 1
  /\ master' = IF idx < NumListeners THEN "scan" ELSE "poll"
  /\ ready' = IF idx < NumListeners THEN ready ELSE {}

\* Advance the loop over the listening sockets past listener idx.
NextListener ==
  /\ idx' = IF idx < NumListeners THEN idx + 1 ELSE 1
  /\ master' = IF idx < NumListeners THEN "scan" ELSE "poll"
  /\ ready' = IF idx < NumListeners THEN ready ELSE {}

ScanSkip ==
  /\ master = "scan"
  /\ stop_flag # 0 \/ idx \notin ready
  /\ NextListener
  /\ UNCHANGED <<stop_flag, num_threads, ring, mutex, ctx, app, worker, so,
                 client, inc, dec, os>>

AcceptFail ==
  /\ master = "scan" /\ stop_flag = 0 /\ idx \in ready
  /\ "accept" \in Faults
  /\ NextListener
  /\ UNCHANGED <<stop_flag, num_threads, ring, mutex, ctx, app, worker, so,
                 client, inc, dec, os>>

AcceptDenied ==
  /\ master = "scan" /\ stop_flag = 0 /\ idx \in ready
  /\ Head(backlog[idx]) \in Denied
  /\ backlog' = [backlog EXCEPT ![idx] = Tail(@)]
  /\ NextListener
  /\ UNCHANGED <<stop_flag, num_threads, ring, mutex, ctx, app, worker, so,
                 client, inc, dec, open>>

Accept ==
  /\ master = "scan" /\ stop_flag = 0 /\ idx \in ready
  /\ Head(backlog[idx]) \notin Denied
  /\ so' = Head(backlog[idx])
  /\ open' = open \cup {Head(backlog[idx])}
  /\ backlog' = [backlog EXCEPT ![idx] = Tail(@)]
  /\ master' = "produce"
  /\ UNCHANGED <<stop_flag, num_threads, ring, mutex, ctx, app, worker, ready,
                 idx, client, inc, dec>>

\* Mutant: off by one.
QueueFullLate == sq_head - sq_tail > QSize

Slot(n) == n % QSize

QueueFull == sq_head - sq_tail >= QSize

\* produce_socket finds the queue full: the test of its wait loop ...
ProduceTest ==
  /\ master = "produce" /\ mutex = "free"
  /\ stop_flag = 0 /\ QueueFull
  /\ mutex' = "master"
  /\ master' = "produce_wait"
  /\ UNCHANGED <<stop_flag, num_threads, ring, ctx, app, worker, scan, client,
                 inc, dec, os>>

\* ... and pthread_cond_wait(&ctx->sq_empty, &ctx->mutex).
ProduceWait ==
  /\ master = "produce_wait"
  /\ mutex' = "free"
  /\ master' = "on_sq_empty"
  /\ UNCHANGED <<stop_flag, num_threads, ring, ctx, app, worker, scan, client,
                 inc, dec, os>>

\* Mutant: produce_socket does not signal.
SignalNobody == worker' = worker

\* pthread_cond_signal(&ctx->sq_full): wake one of the idle workers, if any.
SignalFull ==
  LET idle == {w \in Workers : worker[w] = "on_sq_full"} IN
    \/ idle = {} /\ worker' = worker
    \/ \E w \in idle : worker' = [worker EXCEPT ![w] = "consume"]

\* produce_socket without waiting.  When the server stops with a full queue
\* the socket is neither queued nor closed.
Produce ==
  /\ master = "produce" /\ mutex = "free"
  /\ stop_flag # 0 \/ ~QueueFull
  /\ IF QueueFull
     THEN UNCHANGED ring
     ELSE /\ queue' = [queue EXCEPT ![Slot(sq_head)] = so]
          /\ sq_head' = sq_head + 1
          /\ sq_tail' = sq_tail
  /\ SignalFull
  /\ so' = None
  /\ NextListener
  /\ UNCHANGED <<stop_flag, num_threads, mutex, ctx, app, client, inc, dec,
                 os>>

\* Mutant: no broadcast.
ShutdownSilent ==
  /\ master = "shutdown"
  /\ backlog' = [l \in Listeners |-> << >>]
  /\ master' = "join"
  /\ UNCHANGED <<stop_flag, num_threads, ring, mutex, ctx, app, worker, scan,
                 client, inc, dec, open>>

\* close_all_listening_sockets (the kernel resets what waits on them), then
\* pthread_cond_broadcast(&ctx->sq_full) without the mutex.
Shutdown ==
  /\ master = "shutdown"
  /\ backlog' = [l \in Listeners |-> << >>]
  /\ worker' = [w \in Workers |->
                  IF worker[w] = "on_sq_full" THEN "consume" ELSE worker[w]]
  /\ master' = "join"
  /\ UNCHANGED <<stop_flag, num_threads, ring, mutex, ctx, app, scan, client,
                 inc, dec, open>>

\* Mutant: the master does not wait for the workers.
JoinAtOnce ==
  /\ master = "join" /\ mutex = "free"
  /\ master' = "destroy"
  /\ UNCHANGED <<stop_flag, num_threads, ring, mutex, ctx, app, worker, scan,
                 client, inc, dec, os>>

\* Wait until num_threads drops to 0.
Join ==
  /\ master = "join" /\ mutex = "free"
  /\ IF num_threads > 0
     THEN mutex' = "master" /\ master' = "join_wait"
     ELSE mutex' = "free" /\ master' = "destroy"
  /\ UNCHANGED <<stop_flag, num_threads, ring, ctx, app, worker, scan, client,
                 inc, dec, os>>

JoinWait ==
  /\ master = "join_wait"
  /\ mutex' = "free"
  /\ master' = "on_cond"
  /\ UNCHANGED <<stop_flag, num_threads, ring, ctx, app, worker, scan, client,
                 inc, dec, os>>

Destroy ==
  /\ master = "destroy"
  /\ ctx' = "destroyed"
  /\ master' = "finish"
  /\ UNCHANGED <<stop_flag, num_threads, ring, mutex, app, worker, scan,
                 client, inc, dec, os>>

Finish ==
  /\ master = "finish"
  /\ stop_flag' = 2
  /\ master' = "done"
  /\ UNCHANGED <<num_threads, ring, mutex, ctx, app, worker, scan, client,
                 inc, dec, os>>

-----------------------------------------------------------------------------
(* A worker thread.                                                        *)

WorkerBegin(w) ==
  /\ worker[w] = "begin"
  /\ \/ worker' = [worker EXCEPT ![w] = "consume"]
     \/ /\ "calloc" \in Faults                         \* conn == NULL
        /\ worker' = [worker EXCEPT ![w] = "exit"]
  /\ UNCHANGED <<stop_flag, num_threads, ring, mutex, ctx, app, master, scan,
                 client, inc, dec, os>>

\* consume_socket finds nothing to do: the test of its wait loop ...
ConsumeTest(w) ==
  /\ worker[w] = "consume" /\ mutex = "free"
  /\ sq_head = sq_tail /\ stop_flag = 0
  /\ mutex' = w
  /\ worker' = [worker EXCEPT ![w] = "consume_wait"]
  /\ UNCHANGED <<stop_flag, num_threads, ring, ctx, app, master, scan, client,
                 inc, dec, os>>

\* ... and pthread_cond_wait(&ctx->sq_full, &ctx->mutex).
ConsumeWait(w) ==
  /\ worker[w] = "consume_wait"
  /\ mutex' = "free"
  /\ worker' = [worker EXCEPT ![w] = "on_sq_full"]
  /\ UNCHANGED <<stop_flag, num_threads, ring, ctx, app, master, scan, client,
                 inc, dec, os>>

\* Mutant: the pointers are never wrapped.
WrapNever == 0

\* How far the loop that wraps the ring's pointers moves them back.  It runs
\* at most once: sq_tail never exceeds QSize between calls (RingBounds).
Wrap == IF sq_tail + 1 > QSize THEN QSize ELSE 0

\* consume_socket without waiting, up to the unlock.
Consume(w) ==
  /\ worker[w] = "consume" /\ mutex = "free"
  /\ sq_head # sq_tail \/ stop_flag # 0
  /\ IF sq_head > sq_tail
     THEN /\ client' = [client EXCEPT ![w] = queue[Slot(sq_tail)]]
          /\ sq_tail' = sq_tail + 1 - Wrap
          /\ sq_head' = sq_head - Wrap
     ELSE UNCHANGED <<client, sq_tail, sq_head>>
  /\ master' = IF master = "on_sq_empty" THEN "produce" ELSE master
  /\ worker' = [worker EXCEPT ![w] = "consume_return"]
  /\ UNCHANGED <<stop_flag, num_threads, queue, mutex, ctx, app, scan, inc,
                 dec, os>>

\* Mutant: consume_socket always reports a socket.
ConsumeReturnAlways(w) ==
  /\ worker[w] = "consume_return"
  /\ worker' = [worker EXCEPT ![w] = "serve"]
  /\ UNCHANGED <<stop_flag, num_threads, ring, mutex, ctx, app, master, scan,
                 client, inc, dec, os>>

\* return !ctx->stop_flag, read after the mutex was released.
ConsumeReturn(w) ==
  /\ worker[w] = "consume_return"
  /\ worker' = [worker EXCEPT ![w] = IF stop_flag = 0 THEN "serve" ELSE "exit"]
  /\ UNCHANGED <<stop_flag, num_threads, ring, mutex, ctx, app, master, scan,
                 client, inc, dec, os>>

\* The loop body of worker_thread: sslize or process_new_connection (a
\* connection of its own), then close_connection.
Serve(w) ==
  /\ worker[w] = "serve"
  /\ open' = open \ {client[w]}
  /\ client' = [client EXCEPT ![w] = None]
  /\ worker' = [worker EXCEPT ![w] = "consume"]
  /\ UNCHANGED <<stop_flag, num_threads, ring, mutex, ctx, app, master, scan,
                 inc, dec, backlog>>

\* ctx->num_threads-- under the mutex; its load and store are two steps
\* because mg_start increments num_threads without the mutex.
ExitLoad(w) ==
  /\ worker[w] = "exit" /\ mutex = "free"
  /\ mutex' = w
  /\ dec' = num_threads
  /\ worker' = [worker EXCEPT ![w] = "exit_store"]
  /\ UNCHANGED <<stop_flag, num_threads, ring, ctx, app, master, scan, client,
                 inc, os>>

ExitStore(w) ==
  /\ worker[w] = "exit_store"
  /\ num_threads' = dec - 1
  /\ dec' = 0
  /\ mutex' = "free"
  /\ master' = IF master = "on_cond" THEN "join" ELSE master
  /\ worker' = [worker EXCEPT ![w] = "done"]
  /\ UNCHANGED <<stop_flag, ring, ctx, app, scan, client, inc, os>>

-----------------------------------------------------------------------------
(* The environment.                                                        *)

Listening ==
  master \notin {"join", "join_wait", "on_cond", "destroy", "finish", "done"}

Connect(c, l) ==
  /\ Listening
  /\ c \notin open
  /\ \A k \in Listeners : \A i \in DOMAIN backlog[k] : backlog[k][i] # c
  /\ backlog' = [backlog EXCEPT ![l] = Append(@, c)]
  /\ UNCHANGED <<stop_flag, num_threads, ring, mutex, ctx, app, master,
                 worker, scan, client, inc, dec, open>>

\* POSIX lets pthread_cond_wait return although nobody signalled.
SpuriousWakeup ==
  /\ \/ /\ master = "on_sq_empty" /\ master' = "produce"
        /\ UNCHANGED worker
     \/ /\ master = "on_cond" /\ master' = "join"
        /\ UNCHANGED worker
     \/ \E w \in Workers :
          /\ worker[w] = "on_sq_full"
          /\ worker' = [worker EXCEPT ![w] = "consume"]
          /\ UNCHANGED master
  /\ UNCHANGED <<stop_flag, num_threads, ring, mutex, ctx, app, scan, client,
                 inc, dec, os>>

\* The sleep loop of mg_stop, and the process after it.
AppIdle ==
  /\ app = "done" \/ (app = "stopping" /\ stop_flag # 2)
  /\ UNCHANGED vars

App       == \/ StartMaster \/ \E w \in Workers : StartWorker(w)
             \/ IncLoad \/ IncStore \/ StartReturn \/ StopReturn
Master    == \/ MasterBegin \/ Poll \/ ScanSkip
             \/ AcceptDenied \/ Accept
             \/ ProduceTest \/ ProduceWait \/ Produce
             \/ Shutdown \/ Join \/ JoinWait \/ Destroy \/ Finish
Worker(w) == \/ WorkerBegin(w) \/ ConsumeTest(w) \/ ConsumeWait(w)
             \/ Consume(w) \/ ConsumeReturn(w) \/ Serve(w)
             \/ ExitLoad(w) \/ ExitStore(w)

Next == \/ App \/ StopRequest \/ AppIdle
        \/ Master \/ AcceptFail \/ SpuriousWakeup
        \/ \E w \in Workers : Worker(w)
        \/ \E c \in Clients, l \in Listeners : Connect(c, l)

Spec == Init /\ [][Next]_vars

\* Threads keep running, and a thread that asks for the mutex gets it in the
\* end.  Nothing says that a request ends: reads from the client time out, but
\* a client may send for ever, and the pipes of a CGI program have no timeout.
\* The application need not stop the server, clients need not connect.
Fairness ==
  /\ WF_vars(App)
  /\ WF_vars(Master)
  /\ SF_vars(Produce \/ ProduceTest \/ Join)
  /\ \A w \in Workers : WF_vars(worker[w] # "serve" /\ Worker(w))
  /\ \A w \in Workers : SF_vars(ConsumeTest(w) \/ Consume(w) \/ ExitLoad(w))

\* Every request ends: what the clients and the CGI programs may grant.
RequestsEnd == \A w \in Workers : WF_vars(Serve(w))

FairSpec == Spec /\ Fairness

EndingSpec == FairSpec /\ RequestsEnd

-----------------------------------------------------------------------------
TypeOK ==
  /\ stop_flag \in 0 .. 2 /\ num_threads \in Int
  /\ queue \in [0 .. QSize-1 -> Clients \cup {None}]
  /\ sq_head \in Int /\ sq_tail \in Int
  /\ mutex \in Workers \cup {"free", "master"}
  /\ ctx \in {"live", "destroyed", "freed"}
  /\ app \in AppPC /\ master \in MasterPC /\ worker \in [Workers -> WorkerPC]
  /\ so \in Clients \cup {None} /\ ready \subseteq Listeners
  /\ idx \in Listeners \cup {1}
  /\ client \in [Workers -> Clients \cup {None}]
  /\ inc \in Int /\ dec \in Int
  /\ backlog \in [Listeners -> Seq(Clients)] /\ open \subseteq Clients

\* The ring's pointers stay in order, the queue never holds more than QSize
\* sockets and wrapping keeps sq_tail, hence sq_head, bounded however long
\* the server runs (consume_socket, produce_socket).
RingBounds ==
  /\ sq_tail \in 0 .. QSize
  /\ sq_head \in sq_tail .. sq_tail + QSize

\* The sockets between sq_tail and sq_head.
Queued == {queue[Slot(k)] : k \in sq_tail .. sq_head-1}
\* The worker has a socket of its own in conn->client.
Holds(w) == worker[w] \in {"consume_return", "serve"} /\ client[w] # None

QueueDistinct ==
  \A j, k \in sq_tail .. sq_head-1 :
    queue[Slot(j)] = queue[Slot(k)] => j = k

\* Every accepted socket has at most one owner (the master that has not queued
\* it yet, one slot of the queue, or one worker), what is owned is open, and a
\* worker that serves a connection owns one: no socket is served twice, served
\* after it was closed, or closed by two workers.
OneOwner ==
  /\ Queued \subseteq open
  /\ QueueDistinct
  /\ so # None => so \in open \ Queued
  /\ \A w \in Workers :
       /\ worker[w] = "serve" => Holds(w)
       /\ Holds(w) => client[w] \in open \ (Queued \cup {so})
       /\ \A v \in Workers :
            Holds(v) /\ Holds(w) /\ client[v] = client[w] => v = w

\* While the server runs no accepted socket is lost between the threads.
NoLostSocket ==
  stop_flag = 0 =>
    open = Queued \cup ({so} \ {None})
                  \cup {client[w] : w \in {v \in Workers : Holds(v)}}

\* A thread that may still touch the context finds it alive: the mutex is not
\* destroyed under a worker, nor the context freed under the master
\* (comments at the end of master_thread).
ContextOutlivesThreads ==
  /\ ctx # "live" =>
       \A w \in Workers : worker[w] \in {"off", "failed", "done"}
  /\ ctx = "freed" => master = "done"

\* The ring and the workers' conn->client implement a bounded FIFO queue that
\* hands every accepted socket to one worker, in order of acceptance.
Queue == INSTANCE SocketQueue WITH
  q    <- [k \in 1 .. sq_head - sq_tail |-> queue[Slot(sq_tail + k - 1)]],
  held <- [w \in Workers |-> IF Holds(w) THEN client[w] ELSE None]
ImplementsQueue == Queue!Spec

\* assert(ctx->num_threads >= 0) in worker_thread.
NumThreadsAssert == num_threads >= 0

\* mg_stop "blocks until all Mongoose threads are stopped" and returns.
StopReturns == app = "stopping" ~> app = "done"

\* A worker went to sleep on sq_full after master_thread broadcast it.  Only
\* one can: it held the mutex between its test and pthread_cond_wait.
MissedBroadcast ==
  /\ master = "on_cond"
  /\ \E w \in Workers :
       /\ worker[w] = "on_sq_full"
       /\ \A v \in Workers \ {w} : worker[v] \in {"failed", "done"}

\* The master sleeps on sq_empty, in produce_socket, and every worker has left:
\* those that found stop_flag set when they had taken a socket do not pass
\* through consume_socket again, which is what would wake the master.
MasterAbandoned ==
  /\ master = "on_sq_empty"
  /\ \A w \in Workers : worker[w] \in {"failed", "done"}

\* Once it is asked to, mg_stop returns, or exactly one worker missed the broadcast
\* and is all the master waits for, or the master was left waiting for a place
\* in the queue; unless some request never ends (a worker in it does not look
\* at stop_flag) or the master thread could not be started.  Nothing else can
\* block shutdown.
StopReturnsOrMissed ==
  \/ <>(master = "failed")
  \/ \E w \in Workers : <>[](worker[w] = "serve")
  \/ app = "stopping" ~> app = "done" \/ MissedBroadcast \/ MasterAbandoned

AtListener(c) == \E l \in Listeners : \E i \in DOMAIN backlog[l] : backlog[l][i] = c

\* A single worker whose requests end is enough: while the server runs, every
\* connection that reaches a listening socket is refused, or gets through the
\* queue to a worker, however long the other workers are held by theirs, unless
\* the master, or every worker, could not be started or is held for ever.
EveryConnectionServed ==
  \/ <>(master = "failed")
  \/ <>[](\A w \in Workers : worker[w] \in {"failed", "serve"})
  \/ \A c \in Clients :
       AtListener(c) ~> stop_flag # 0 \/ ~(AtListener(c) \/ so = c \/ c \in Queued)
=============================================================================
