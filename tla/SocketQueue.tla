---------------------------- MODULE SocketQueue -----------------------------
(***************************************************************************)
(* What the master and the workers promise about accepted connections: they *)
(* wait in a FIFO queue of bounded length and each is handed to exactly one *)
(* worker.  ThreadPool implements it with a ring of slots, wrapped counters *)
(* and condition variables.                                                *)
(***************************************************************************)
EXTENDS Naturals, Sequences

CONSTANTS Workers, Clients, QSize, None

VARIABLES
  q,      \* connections waiting, oldest first
  held    \* the connection each worker has taken, or None

vars == <<q, held>>

Init == q = << >> /\ held = [w \in Workers |-> None]

Put(c) ==
  /\ Len(q) < QSize
  /\ \A i \in DOMAIN q : q[i] # c
  /\ \A w \in Workers : held[w] # c
  /\ q' = Append(q, c)
  /\ UNCHANGED held

Take(w) ==
  /\ q # << >> /\ held[w] = None
  /\ q' = Tail(q)
  /\ held' = [held EXCEPT ![w] = Head(q)]

Release(w) ==
  /\ held[w] # None
  /\ held' = [held EXCEPT ![w] = None]
  /\ UNCHANGED q

Next == \/ \E c \in Clients : Put(c)
        \/ \E w \in Workers : Take(w) \/ Release(w)

Spec == Init /\ [][Next]_vars
=============================================================================
