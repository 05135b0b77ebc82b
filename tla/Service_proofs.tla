--------------------------- MODULE Service_proofs ---------------------------
(***************************************************************************)
(* Who has the ports and the pid file, for any number of servers, scripts  *)
(* and ports and any configurations: PidLatest,                            *)
(* StartFailsCleanly and OneWins.  The invariant says of each server       *)
(* which ports it has at each step of mg_start, and that no two servers    *)
(* have the same port.                                                     *)
(***************************************************************************)
EXTENDS Service, TLAPS

Early == {"none", "options", "gpass", "ssl"}
Up    == {"uid", "acl", "threads", "pid", "serving"}
Pcs   == Early \cup Up \cup {"ports", "closing", "failed", "stopping",
                             "draining", "gone"}
Reasons == {"", "options", "gpass", "ssl", "uid", "acl", "bad", "nossl",
            "denied", "taken", "rival", "fault", "signal", "crash", "pidfile"}

Server == [pc : Pcs, i : Nat, bound : SUBSET Nat, ssl : BOOLEAN, root : BOOLEAN,
           sig : BOOLEAN, stuck : {"", "master", "queue", "worker"}, why : Reasons]

\* The ports before the k-th of the list.
Before(k) == {Conf.ports[j].port : j \in 1 .. k - 1}

\* What a server has at each step.
Fits(s) ==
  /\ s.i \in DOMAIN Conf.ports
  /\ s.pc \in Early => s.bound = {} /\ s.i = 1 /\ s.why = ""
  /\ s.pc = "ports" => s.bound = Before(s.i) /\ s.why = ""
  /\ s.pc \in Up => s.bound = Ports /\ s.why = ""
  /\ s.pc = "closing" => s.bound \subseteq Before(s.i)
  /\ s.pc = "failed" => s.bound = {} \/ s.why \in {"uid", "acl"}
  /\ s.pc = "stopping" => s.why = ""
  /\ s.pc \in {"draining", "gone"} => s.bound = {}
  /\ s.pc \in {"options", "gpass", "ssl", "ports", "uid"} => s.root = Conf.root
  /\ s.pc = "ports" => (s.ssl <=> Conf.pem = "good") /\ Conf.pem # "bad"
  /\ s.why = "denied" => ~Conf.root
  /\ s.why = "nossl" => Conf.pem = "none"

Shape ==
  /\ sc \in Scenarios
  /\ server \in [Pids -> Server]
  /\ pidfile \in Pids \cup {NoFile, Empty}
  /\ script \in [Scripts ->
       [pc : {"idle", "begin", "kill", "truncate", "sleep", "launch"},
        stop : BOOLEAN, pid : Pids \cup {Empty}]]

Exclusive == \A p, q \in Pids : p # q => server[p].bound \cap server[q].bound = {}

Inv == /\ Shape /\ Exclusive
       /\ \A p \in Pids : Fits(server[p])
       /\ PidLatest

\* The ports are a sequence that is not empty.
LEMMA ConfFacts ==
  ASSUME sc \in Scenarios
  PROVE  /\ Conf \in Config /\ Len(Conf.ports) \in Nat \ {0}
         /\ DOMAIN Conf.ports = 1 .. Len(Conf.ports)
         /\ \A k \in DOMAIN Conf.ports : Conf.ports[k].port \in Nat
         /\ Ports # {} /\ Ports \subseteq Nat
<1>1. Conf \in Config /\ Conf.ports # << >>
  BY ServiceAssumption DEF Conf
<1>2. Conf.ports \in Seq(Listening)
  BY <1>1 DEF Config
<1>3. /\ Len(Conf.ports) \in Nat \ {0}
      /\ DOMAIN Conf.ports = 1 .. Len(Conf.ports)
  BY <1>1, <1>2
<1>4. \A k \in DOMAIN Conf.ports : Conf.ports[k].port \in Nat
  <2>1. \A k \in DOMAIN Conf.ports : Conf.ports[k] \in Listening
    BY <1>2, <1>3
  <2> QED BY <2>1 DEF Listening
<1>5. 1 \in DOMAIN Conf.ports
  BY <1>3
<1> QED BY <1>1, <1>3, <1>4, <1>5 DEF Ports

\* The steps of mg_start in their order.
LEMMA OrderFacts ==
  /\ Order[1] = "gpass" /\ After("gpass") = "ssl" /\ After("ssl") = "ports"
  /\ After("ports") = "uid" /\ After("uid") = "acl" /\ After("acl") = "threads"
<1>1. /\ DOMAIN Order = 1 .. 5 /\ Len(Order) = 5
      /\ Order[1] = "gpass" /\ Order[2] = "ssl" /\ Order[3] = "ports"
      /\ Order[4] = "uid" /\ Order[5] = "acl"
  BY DEF Order
<1> HIDE DEF Order
<1> DEFINE K(step) == CHOOSE k \in DOMAIN Order : Order[k] = step
<1>2. \A k \in DOMAIN Order : k \in {1, 2, 3, 4, 5}
  BY <1>1
<1>3. K("gpass") = 1
  BY <1>1, <1>2
<1>4. K("ssl") = 2
  BY <1>1, <1>2
<1>5. K("ports") = 3
  BY <1>1, <1>2
<1>6. K("uid") = 4
  BY <1>1, <1>2
<1>7. K("acl") = 5
  BY <1>1, <1>2
<1> QED BY <1>1, <1>3, <1>4, <1>5, <1>6, <1>7 DEF After

\* What is in the ports before the next one, and before the one after the last.
LEMMA BeforeFacts ==
  ASSUME sc \in Scenarios, NEW k \in DOMAIN Conf.ports
  PROVE  /\ Before(1) = {} /\ Before(k) \subseteq Ports
         /\ Before(k + 1) = Before(k) \cup {Conf.ports[k].port}
         /\ k = Len(Conf.ports) => Before(k + 1) = Ports
  BY ConfFacts DEF Before, Ports

-----------------------------------------------------------------------------
(* One server's step.                                                      *)

\* Server p finds that another has the port it wants.
Outdone(p) ==
  /\ server[p].pc = "ports"
  /\ \E q \in Pids : Conf.ports[server[p].i].port \in server[q].bound
  /\ server'[p].pc = "closing" /\ server'[p].i = server[p].i

\* A step of server p alone: it stays within the invariant, takes no port that
\* another has, begins to serve only from "pid", is outdone only by a server
\* that has the port, and never goes back.
Moves(p) ==
  /\ server' = [server EXCEPT ![p] = server'[p]]
  /\ server'[p] \in Server /\ Fits(server'[p])
  /\ \A q \in Pids : q # p => server'[p].bound \cap server[q].bound = {}
  /\ server'[p].pc = "serving" => server[p].pc \in {"serving", "pid"}
  /\ server'[p].why = "rival" => server[p].why = "rival" \/ Outdone(p)
  /\ server'[p].pc = "closing" /\ server'[p].why = "rival" =>
       \/ Outdone(p)
       \/ server[p].pc = "closing" /\ server'[p].i = server[p].i
  /\ server'[p].pc \in Early => server[p].pc \in Early
  /\ server'[p].pc = "none" => server[p].pc = "none"
  /\ server'[p].pc = "ports" /\ server[p].pc \notin Early =>
       server[p].pc = "ports" /\ server'[p].i >= server[p].i

\* A step that keeps the ports a server has, or fewer of them.
LEMMA MovesSimply ==
  ASSUME Inv, NEW p \in Pids, NEW s \in Server, Fits(s),
         server' = [server EXCEPT ![p] = s],
         s.bound \subseteq server[p].bound,
         s.pc = "serving" => server[p].pc = "serving",
         s.why = "rival" => server[p].why = "rival",
         s.pc = "closing" => server[p].pc = "closing" /\ s.i = server[p].i,
         s.pc \in Early => server[p].pc \in Early,
         s.pc = "none" => server[p].pc = "none",
         s.pc = "ports" /\ server[p].pc \notin Early =>
           server[p].pc = "ports" /\ s.i >= server[p].i
  PROVE  Moves(p)
<1>1. server'[p] = s /\ server' = [server EXCEPT ![p] = server'[p]]
  BY DEF Inv, Shape
<1>2. ASSUME NEW q \in Pids, q # p
      PROVE  server'[p].bound \cap server[q].bound = {}
  <2>1. server[p].bound \cap server[q].bound = {}
    BY <1>2 DEF Inv, Exclusive
  <2> QED BY <1>1, <2>1
<1> QED BY <1>1, <1>2 DEF Moves

\* Processes that end: by themselves or not, they have nothing open after.
LEMMA GoneMoves ==
  ASSUME Inv, NEW p \in Pids, NEW why \in Reasons,
         why = server[p].why \/ why \notin {"denied", "nossl", "rival"},
         server' = [server EXCEPT ![p] = Gone(why)]
  PROVE  Moves(p)
<1>1. /\ Gone(why).pc = "gone" /\ Gone(why).i = 1 /\ Gone(why).bound = {}
      /\ Gone(why).why = why
  BY DEF Gone, Unborn
<1>2. Gone(why) \in Server
  <2>1. Unborn \in Server
    BY DEF Unborn, Server, Pcs, Early, Reasons
  <2>2. "gone" \in Pcs
    BY DEF Pcs
  <2> QED BY <2>1, <2>2 DEF Gone, Server
<1>3. Fits(server[p]) /\ 1 \in DOMAIN Conf.ports
  BY ConfFacts DEF Inv, Shape
<1>4. Fits(Gone(why))
  BY <1>1, <1>3 DEF Fits, Early, Up
<1> QED BY <1>1, <1>2, <1>4, MovesSimply DEF Early

\* The steps of main, mg_start and mg_stop that bind no port and write no pid.
LEMMA ServerMoves ==
  ASSUME Inv, NEW p \in Pids,
         Configure(p) \/ Apply(p) \/ StartThreads(p) \/ Die(p)
         \/ NoticeSignal(p) \/ WorkerHeld(p) \/ WorkerFree(p)
         \/ CloseListening(p) \/ Exit(p) \/ Crash(p)
  PROVE  Moves(p)
<1> DEFINE s == server[p]
<1>a. s \in Server /\ Fits(s) /\ sc \in Scenarios /\ Conf \in Config
  BY ConfFacts DEF Inv, Shape
<1>b. /\ Before(1) = {} /\ 1 \in DOMAIN Conf.ports
      /\ \A k \in DOMAIN Conf.ports : Before(k) \subseteq Ports
  BY <1>a, ConfFacts, BeforeFacts
<1>1. CASE Configure(p)
  <2> DEFINE t == [s EXCEPT !.pc = IF Conf.args THEN Order[1] ELSE "failed",
                            !.why = IF Conf.args THEN "" ELSE "options"]
  <2>1. s.pc = "options" /\ server' = [server EXCEPT ![p] = t]
    BY <1>1, <1>a DEF Configure, Inv, Shape
  <2>2. t \in Server
    BY <1>a, OrderFacts DEF Server, Pcs, Early, Reasons
  <2>3. Fits(t) /\ t.bound = s.bound /\ t.pc \in {"gpass", "failed"}
        /\ t.why # "rival"
    BY <1>a, <2>1, OrderFacts DEF Fits, Early, Up, Server
  <2> QED BY <2>1, <2>2, <2>3, MovesSimply DEF Early
<1>2. CASE Apply(p)
  <2>1. s.pc \in {"gpass", "ssl", "uid", "acl"}
    BY <1>2 DEF Apply
  <2>2. CASE ~Accepts(p, s.pc)
    <3> DEFINE t == [s EXCEPT !.pc = "failed", !.why = s.pc]
    <3>1. server' = [server EXCEPT ![p] = t]
      BY <1>2, <2>2 DEF Apply
    <3>2. t \in Server
      BY <1>a, <2>1, <3>1 DEF Server, Pcs, Reasons
    <3>3. Fits(t) /\ t.bound = s.bound /\ t.pc = "failed" /\ t.why # "rival"
      BY <1>a, <2>1, <3>1 DEF Fits, Early, Up, Server
    <3> HIDE DEF t
    <3> QED BY <2>1, <3>1, <3>2, <3>3, MovesSimply DEF Early
  <2>3. CASE Accepts(p, s.pc)
    <3> DEFINE ssl  == IF s.pc = "ssl" THEN Conf.pem = "good" ELSE s.ssl
               root == s.root /\ (s.pc = "uid" => Conf.uid = "none")
               t == [s EXCEPT !.pc = After(s.pc), !.ssl = ssl, !.root = root]
    <3>1. server' = [server EXCEPT ![p] = t]
      BY <1>2, <2>3 DEF Apply
    <3>2. After(s.pc) \in {"ssl", "ports", "acl", "threads"}
      BY <2>1, OrderFacts
    <3>3. t \in Server
      <4>1. After(s.pc) \in Pcs
        BY <3>2 DEF Pcs, Early, Up
      <4>2. ssl \in BOOLEAN /\ root \in BOOLEAN
        BY <1>a DEF Server
      <4> QED BY <1>a, <4>1, <4>2 DEF Server
    <3>4. s.pc = "ssl" => Conf.pem # "bad"
      BY <2>3 DEF Accepts
    <3>5. Fits(t)
      BY <1>a, <1>b, <2>1, <3>1, <3>4, OrderFacts DEF Fits, Early, Up, Server
    <3>6. /\ t.bound = s.bound /\ t.why = s.why /\ t.pc = After(s.pc)
          /\ t.pc \in Early \/ t.pc = "ports" => s.pc \in Early
      BY <1>a, <2>1, <3>1, OrderFacts DEF Server, Early
    <3> HIDE DEF t
    <3> QED BY <2>1, <3>1, <3>2, <3>3, <3>5, <3>6, MovesSimply DEF Early
  <2> QED BY <2>2, <2>3
<1>3. CASE StartThreads(p)
  <2>1. PICK t \in Server :
          /\ s.pc = "threads" /\ server' = [server EXCEPT ![p] = t]
          /\ t.pc = "pid" /\ t.i = s.i /\ t.bound = s.bound /\ t.why = s.why
    <3> DEFINE ok   == [s EXCEPT !.pc = "pid"]
               lone == [s EXCEPT !.pc = "pid", !.stuck = "master"]
    <3>1. /\ ok \in Server /\ ok.pc = "pid" /\ ok.i = s.i
          /\ ok.bound = s.bound /\ ok.why = s.why
      BY <1>a DEF Server, Pcs, Up
    <3>2. /\ lone \in Server /\ lone.pc = "pid" /\ lone.i = s.i
          /\ lone.bound = s.bound /\ lone.why = s.why
      BY <1>a DEF Server, Pcs, Up
    <3>3. /\ s.pc = "threads"
          /\ \/ server' = [server EXCEPT ![p] = ok]
             \/ server' = [server EXCEPT ![p] = lone]
      BY <1>3 DEF StartThreads
    <3> QED BY <3>1, <3>2, <3>3
  <2>2. Fits(t)
    BY <1>a, <2>1 DEF Fits, Early, Up
  <2> QED BY <2>1, <2>2, MovesSimply DEF Early
<1>4. CASE Die(p)
  <2>1. s.why \in Reasons /\ server' = [server EXCEPT ![p] = Gone(s.why)]
    BY <1>4, <1>a DEF Die, Server
  <2> QED BY <2>1, GoneMoves
<1>5. CASE NoticeSignal(p)
  <2>1. PICK t \in Server :
          /\ s.pc = "serving" /\ server' = [server EXCEPT ![p] = t]
          /\ t.pc = "stopping" /\ t.i = s.i /\ t.bound = s.bound /\ t.why = s.why
    <3> DEFINE soon  == [s EXCEPT !.pc = "stopping"]
               later == [s EXCEPT !.pc = "stopping", !.stuck = "queue"]
    <3>1. /\ soon \in Server /\ soon.pc = "stopping" /\ soon.i = s.i
          /\ soon.bound = s.bound /\ soon.why = s.why
      BY <1>a DEF Server, Pcs
    <3>2. /\ later \in Server /\ later.pc = "stopping" /\ later.i = s.i
          /\ later.bound = s.bound /\ later.why = s.why
      BY <1>a DEF Server, Pcs
    <3>3. /\ s.pc = "serving"
          /\ \/ server' = [server EXCEPT ![p] = soon]
             \/ server' = [server EXCEPT ![p] = later]
      BY <1>5 DEF NoticeSignal
    <3> QED BY <3>1, <3>2, <3>3
  <2>2. Fits(t)
    BY <1>a, <2>1 DEF Fits, Early, Up
  <2> QED BY <2>1, <2>2, MovesSimply DEF Early
<1>6. CASE WorkerHeld(p) \/ WorkerFree(p)
  <2>1. PICK t \in Server :
          /\ server' = [server EXCEPT ![p] = t] /\ Fits(t)
          /\ t.pc = s.pc /\ t.i = s.i /\ t.bound = s.bound /\ t.why = s.why
    <3> DEFINE held == [s EXCEPT !.stuck = "worker"]
               free == [s EXCEPT !.stuck = ""]
    <3>1. /\ held \in Server /\ held.pc = s.pc /\ held.i = s.i
          /\ held.bound = s.bound /\ held.why = s.why
      BY <1>a DEF Server
    <3>2. /\ free \in Server /\ free.pc = s.pc /\ free.i = s.i
          /\ free.bound = s.bound /\ free.why = s.why
      BY <1>a DEF Server
    <3>3. Fits(held) /\ Fits(free)
      BY <1>a, ZenonT(60) DEF Fits, Server
    <3>4. \/ server' = [server EXCEPT ![p] = held]
          \/ server' = [server EXCEPT ![p] = free]
      BY <1>6 DEF WorkerHeld, WorkerFree
    <3> QED BY <3>1, <3>2, <3>3, <3>4
  <2>2. s.i \in Nat
    BY <1>a DEF Server
  <2>3. t.i >= s.i
    BY <2>1, <2>2
  <2> QED BY <2>1, <2>3, MovesSimply
<1>7. CASE CloseListening(p)
  <2>1. CASE s.bound # {}
    <3> DEFINE first == CHOOSE k \in DOMAIN Conf.ports :
                          /\ Conf.ports[k].port \in s.bound
                          /\ \A j \in 1 .. k - 1 : Conf.ports[j].port \notin s.bound
               n == Conf.ports[first].port
               t == [s EXCEPT !.bound = s.bound \ {n}]
    <3>1. s.pc \in {"closing", "stopping"}
      BY <1>7 DEF CloseListening
    <3>4. server' = [server EXCEPT ![p] = t]
      BY <1>7, <2>1 DEF CloseListening
    <3> HIDE DEF n
    <3>2. t \in Server
      BY <1>a DEF Server
    <3>3. /\ Fits(t) /\ t.bound \subseteq s.bound /\ t.pc = s.pc
          /\ t.why = s.why /\ t.i = s.i
      BY <1>a, <3>1 DEF Fits, Early, Up, Server
    <3> QED BY <1>a, <3>1, <3>2, <3>3, <3>4, MovesSimply DEF Server, Early
  <2>2. CASE s.bound = {}
    <3> DEFINE t == [s EXCEPT !.pc = IF s.pc = "closing" THEN "failed"
                                     ELSE "draining"]
    <3>1. s.pc \in {"closing", "stopping"} /\ server' = [server EXCEPT ![p] = t]
      BY <1>7, <2>2 DEF CloseListening
    <3>2. t \in Server
      BY <1>a DEF Server, Pcs
    <3>3. /\ Fits(t) /\ t.bound = s.bound /\ t.pc \in {"failed", "draining"}
          /\ t.why = s.why
      BY <1>a, <2>2, <3>1 DEF Fits, Early, Up, Server
    <3> QED BY <3>1, <3>2, <3>3, MovesSimply, ZenonT(60) DEF Early
  <2> QED BY <2>1, <2>2
<1>8. CASE Exit(p)
  BY <1>8, GoneMoves DEF Exit, Reasons
<1>9. CASE Crash(p)
  BY <1>9, GoneMoves DEF Crash, Reasons
<1> QED BY <1>1, <1>2, <1>3, <1>4, <1>5, <1>6, <1>7, <1>8, <1>9

\* set_ports_option: a port refused leaves the ports before it, one that is
\* bound was nobody's.
LEMMA BindMoves ==
  ASSUME Inv, NEW p \in Pids, BindPort(p)
  PROVE  Moves(p)
<1> DEFINE s == server[p]
           port == Conf.ports[s.i]
           no == Refusal(p, port)
<1>a. /\ s \in Server /\ Fits(s) /\ sc \in Scenarios /\ Conf \in Config
      /\ s.pc = "ports" /\ s.i \in DOMAIN Conf.ports /\ s.i \in Nat
  BY ConfFacts DEF Inv, Shape, BindPort, Fits, Server
<1>1. ASSUME NEW why \in Reasons \ {""},
             server' = [server EXCEPT ![p] = Refused(s, why)],
             why = "denied" => ~s.root,
             why = "nossl" => ~s.ssl,
             why = "rival" => \E q \in Pids : port.port \in server[q].bound
      PROVE  Moves(p)
  <2> DEFINE t == Refused(s, why)
  <2>1. /\ t \in Server /\ t.pc = "closing" /\ t.why = why /\ t.i = s.i
        /\ t.bound = s.bound
    BY <1>a, <1>1 DEF Refused, Server, Pcs
  <2>2. (Conf.pem \in {"none", "good", "bad"})
    BY <1>a DEF Config
  <2> HIDE DEF t
  <2>3. Fits(t)
    BY <1>a, <1>1, <2>1, <2>2 DEF Fits, Early, Up
  <2>4. server'[p] = t /\ server' = [server EXCEPT ![p] = server'[p]]
    BY <1>1 DEF Inv, Shape, t
  <2>5. \A q \in Pids : q # p => server'[p].bound \cap server[q].bound = {}
    BY <2>1, <2>4 DEF Inv, Exclusive
  <2>6. why = "rival" => Outdone(p)
    BY <1>a, <1>1, <2>1, <2>4 DEF Outdone
  <2> QED BY <1>1, <2>1, <2>3, <2>4, <2>5, <2>6 DEF Moves, Early
<1>2. ASSUME no = "",
             server' = [server EXCEPT ![p] =
               [s EXCEPT !.bound = s.bound \cup {port.port},
                         !.i  = IF s.i = Len(Conf.ports) THEN s.i ELSE s.i + 1,
                         !.pc = IF s.i # Len(Conf.ports) THEN "ports"
                                ELSE IF s.why = "" THEN After("ports")
                                ELSE "closing"]]
      PROVE  Moves(p)
  <2> DEFINE i  == IF s.i = Len(Conf.ports) THEN s.i ELSE s.i + 1
             at == IF s.i # Len(Conf.ports) THEN "ports" ELSE "uid"
             t  == [s EXCEPT !.bound = s.bound \cup {port.port}, !.i = i, !.pc = at]
  <2>1. server' = [server EXCEPT ![p] = t]
    BY <1>a, <1>2, OrderFacts DEF Fits
  <2>2. /\ Len(Conf.ports) \in Nat /\ DOMAIN Conf.ports = 1 .. Len(Conf.ports)
        /\ port.port \in Nat
    BY <1>a, ConfFacts
  <2>3. i \in DOMAIN Conf.ports /\ i \in Nat /\ i >= s.i
    BY <1>a, <2>2
  <2>4. /\ t \in Server /\ t.pc = at /\ t.why = s.why /\ t.i = i
        /\ t.bound = s.bound \cup {port.port} /\ t.root = s.root /\ t.ssl = s.ssl
    BY <1>a, <2>2, <2>3, ZenonT(60) DEF Server, Pcs, Up
  <2>5. /\ Before(s.i + 1) = Before(s.i) \cup {port.port}
        /\ s.i = Len(Conf.ports) => Before(s.i + 1) = Ports
    BY <1>a, BeforeFacts
  <2>6. s.bound = Before(s.i) /\ s.why = ""
    BY <1>a DEF Fits
  <2> HIDE DEF t
  <2>7. Fits(t)
    <3>1. CASE s.i = Len(Conf.ports)
      BY <1>a, <2>3, <2>4, <2>5, <2>6, <3>1, ZenonT(60) DEF Fits, Early, Up
    <3>2. CASE s.i # Len(Conf.ports)
      <4>1. i = s.i + 1 /\ at = "ports"
        BY <3>2
      <4> QED BY <1>a, <2>3, <2>4, <2>5, <2>6, <4>1, ZenonT(60) DEF Fits, Early, Up
    <3> QED BY <3>1, <3>2
  <2>8. \A q \in Pids : port.port \notin server[q].bound
    BY <1>2 DEF Refusal
  <2>9. server'[p] = t /\ server' = [server EXCEPT ![p] = server'[p]]
    BY <2>1 DEF Inv, Shape
  <2>10. \A q \in Pids : q # p => server'[p].bound \cap server[q].bound = {}
    BY <2>4, <2>8, <2>9, SMTT(30) DEF Inv, Exclusive
  <2>11. at \in {"ports", "uid"}
    OBVIOUS
  <2> HIDE DEF i, at
  <2> QED BY <1>a, <2>3, <2>4, <2>6, <2>7, <2>9, <2>10, <2>11 DEF Moves, Early
<1>3. /\ no \in Reasons
      /\ no = "denied" => ~s.root
      /\ no = "nossl" => ~s.ssl
      /\ no = "rival" => \E q \in Pids : port.port \in server[q].bound
  BY DEF Refusal, Reasons
<1>4. \/ /\ no # "" /\ server' = [server EXCEPT ![p] = Refused(s, no)]
      \/ server' = [server EXCEPT ![p] = Refused(s, "fault")]
      \/ /\ no = ""
         /\ server' = [server EXCEPT ![p] =
               [s EXCEPT !.bound = s.bound \cup {port.port},
                         !.i  = IF s.i = Len(Conf.ports) THEN s.i ELSE s.i + 1,
                         !.pc = IF s.i # Len(Conf.ports) THEN "ports"
                                ELSE IF s.why = "" THEN After("ports")
                                ELSE "closing"]]
  BY DEF BindPort
<1>5. CASE no # "" /\ server' = [server EXCEPT ![p] = Refused(s, no)]
  <2> HIDE DEF no
  <2> QED BY <1>1, <1>3, <1>5
<1>6. CASE server' = [server EXCEPT ![p] = Refused(s, "fault")]
  <2>1. "fault" \in Reasons \ {""}
    BY DEF Reasons
  <2> QED BY <1>1, <1>6, <2>1
<1> QED BY <1>2, <1>4, <1>5, <1>6

\* A signal ends a process that has no handler yet, and is noted otherwise.
LEMMA SignalMoves ==
  ASSUME Inv, NEW p \in Pids, server' = Signalled(p)
  PROVE  server' = server \/ Moves(p)
<1> DEFINE s == server[p]
           t == [s EXCEPT !.sig = TRUE]
<1>1. CASE ~Alive(p)
  BY <1>1, SMTT(30) DEF Signalled
<1>2. CASE Alive(p) /\ s.pc = "options"
  <2>1. server' = [server EXCEPT ![p] = Gone("signal")]
    BY <1>2 DEF Signalled
  <2> QED BY <2>1, GoneMoves DEF Reasons
<1>3. CASE Alive(p) /\ s.pc # "options"
  <2>1. server' = [server EXCEPT ![p] = t]
    BY <1>3 DEF Signalled
  <2>2. s \in Server /\ Fits(s) /\ s.i \in Nat
    BY DEF Inv, Shape, Server
  <2>3. t \in Server
    BY <2>2 DEF Server
  <2>4. Fits(t) /\ t.bound = s.bound /\ t.pc = s.pc /\ t.why = s.why /\ t.i = s.i
    BY <2>2, ZenonT(60) DEF Fits, Server
  <2> HIDE DEF t
  <2>5. t.i >= s.i
    BY <2>2, <2>4
  <2> QED BY <2>1, <2>3, <2>4, <2>5, MovesSimply
<1> QED BY <1>1, <1>2, <1>3

\* A server that is launched has nothing open yet.
LEMMA LaunchMoves ==
  ASSUME Inv, NEW p \in Pids, server[p].pc = "none",
         server' = [server EXCEPT ![p].pc = "options", ![p].root = Conf.root]
  PROVE  Moves(p)
<1> DEFINE s == server[p]
           t == [s EXCEPT !.pc = "options", !.root = Conf.root]
<1>1. s \in Server /\ Fits(s) /\ Conf.root \in BOOLEAN
  BY ConfFacts DEF Inv, Shape, Config
<1>2. server' = [server EXCEPT ![p] = t]
  BY DEF Inv, Shape
<1>3. t \in Server
  BY <1>1 DEF Server, Pcs, Early
<1>4. /\ Fits(t) /\ t.bound = s.bound /\ t.pc = "options" /\ t.why = s.why
  BY <1>1 DEF Fits, Early, Up, Server
<1> HIDE DEF t
<1> QED BY <1>2, <1>3, <1>4, MovesSimply DEF Early

\* The pid is written by a server that listens on all the ports.
LEMMA WritePidMoves ==
  ASSUME Inv, NEW p \in Pids, WritePid(p)
  PROVE  /\ Moves(p)
         /\ \/ server[p].pc = "pid" /\ pidfile' = p
            \/ pidfile' = pidfile /\ server'[p].pc # "serving"
<1> DEFINE s == server[p]
           t == [s EXCEPT !.pc = "serving"]
<1>1. CASE pidfile' = p /\ server' = [server EXCEPT ![p].pc = "serving"]
  <2>1. s.pc = "pid" /\ server' = [server EXCEPT ![p] = t]
    BY <1>1 DEF WritePid
  <2>2. s \in Server /\ Fits(s)
    BY DEF Inv, Shape
  <2>3. t \in Server
    BY <2>2 DEF Server, Pcs, Up
  <2>4. Fits(t) /\ t.bound = s.bound /\ t.pc = "serving" /\ t.why = ""
    BY <2>1, <2>2 DEF Fits, Early, Up, Server
  <2> HIDE DEF t
  <2>5. server'[p] = t /\ server' = [server EXCEPT ![p] = server'[p]]
    BY <2>1 DEF Inv, Shape
  <2>6. \A q \in Pids : q # p => server'[p].bound \cap server[q].bound = {}
    BY <2>4, <2>5 DEF Inv, Exclusive
  <2> QED BY <1>1, <2>1, <2>3, <2>4, <2>5, <2>6 DEF Moves, Early
<1>2. CASE pidfile' = pidfile /\ server' = [server EXCEPT ![p] = Gone("pidfile")]
  <2>1. Moves(p)
    BY <1>2, GoneMoves DEF Reasons
  <2>2. server'[p].pc = "gone"
    BY <1>2 DEF Inv, Shape, Gone, Unborn
  <2> QED BY <1>2, <2>1, <2>2, SMTT(30)
<1> QED BY <1>1, <1>2 DEF WritePid

-----------------------------------------------------------------------------
(* The system.                                                             *)

\* What a step does to the servers, the file and the scripts.
OneMoves ==
  /\ sc' = sc
  /\ script' \in [Scripts ->
       [pc : {"idle", "begin", "kill", "truncate", "sleep", "launch"},
        stop : BOOLEAN, pid : Pids \cup {Empty}]]
  /\ \/ server' = server /\ pidfile' \in {pidfile, Empty}
     \/ \E p \in Pids :
          /\ Moves(p)
          /\ \/ server[p].pc = "pid" /\ pidfile' = p
             \/ /\ pidfile' = pidfile
                /\ server'[p].pc = "serving" => server[p].pc = "serving"

\* Every step of the system moves at most one server.
LEMMA StepsMove ==
  ASSUME Inv, [Next]_vars
  PROVE  OneMoves
<1> DEFINE Script == [pc : {"idle", "begin", "kill", "truncate", "sleep", "launch"},
                      stop : BOOLEAN, pid : Pids \cup {Empty}]
<1>a. script \in [Scripts -> Script]
  BY DEF Inv, Shape
<1>b. Idle \in Script
  BY DEF Idle
<1>1. CASE UNCHANGED vars \/ Finished
  BY <1>1, <1>a DEF vars, Finished, OneMoves
<1>2. ASSUME NEW p \in Pids,
             Configure(p) \/ Apply(p) \/ StartThreads(p) \/ Die(p)
             \/ NoticeSignal(p) \/ WorkerHeld(p) \/ WorkerFree(p)
             \/ CloseListening(p) \/ Exit(p) \/ Crash(p)
      PROVE  OneMoves
  <2>1. Moves(p)
    BY <1>2, ServerMoves, SMTT(30)
  <2>2. UNCHANGED <<sc, script, pidfile>>
    BY <1>2 DEF Configure, Apply, StartThreads, Die, NoticeSignal, WorkerHeld,
                WorkerFree, CloseListening, Exit, Crash
  <2>3. server[p].pc # "pid" \/ server'[p].pc # "serving"
    <3>1. SUFFICES ASSUME server[p].pc = "pid" PROVE server'[p].pc # "serving"
      OBVIOUS
    <3>2. CASE WorkerFree(p)
      BY <3>1, <3>2, ZenonT(60) DEF WorkerFree, Inv, Shape, Server
    <3>4. CASE WorkerHeld(p)
      BY <3>1, <3>4 DEF WorkerHeld
    <3>3. CASE Crash(p)
      BY <3>3 DEF Crash, Gone, Unborn, Inv, Shape
    <3> QED BY <1>2, <3>1, <3>2, <3>3, <3>4 DEF Configure, Apply, StartThreads, Die,
               NoticeSignal, CloseListening, Exit
  <2> QED BY <1>a, <2>1, <2>2, <2>3 DEF OneMoves, Moves
<1>3. ASSUME NEW p \in Pids, BindPort(p) PROVE OneMoves
  <2>1. Moves(p) /\ server[p].pc = "ports" /\ UNCHANGED <<sc, script, pidfile>>
    BY <1>3, BindMoves DEF BindPort
  <2> QED BY <1>a, <2>1 DEF OneMoves, Moves
<1>4. ASSUME NEW p \in Pids, WritePid(p) PROVE OneMoves
  <2>1. UNCHANGED <<sc, script>>
    BY <1>4 DEF WritePid
  <2> QED BY <1>4, <1>a, <2>1, WritePidMoves DEF OneMoves
<1>5. ASSUME NEW p \in Pids, server' = Signalled(p),
             UNCHANGED <<sc, pidfile>>, script' \in [Scripts -> Script]
      PROVE  OneMoves
  <2>1. server' = server \/ Moves(p)
    BY <1>5, SignalMoves
  <2>2. server'[p].pc = "serving" => server[p].pc = "serving"
    BY <1>5, ZenonT(60) DEF Signalled, Gone, Unborn, Inv, Shape, Server
  <2> QED BY <1>5, <2>1, <2>2 DEF OneMoves
<1>6. ASSUME NEW p \in Pids, Terminate(p) PROVE OneMoves
  <2>1. server' = Signalled(p) /\ UNCHANGED <<sc, script, pidfile>>
    BY <1>6 DEF Terminate
  <2> QED BY <1>5, <1>a, <2>1
<1>7. ASSUME NEW k \in Scripts, ScriptStep(k) PROVE OneMoves
  <2>1. CASE ReadPid(k)
    <3>1. script' \in [Scripts -> Script]
      BY <1>a, <1>b, <2>1 DEF ReadPid, Ended, Inv, Shape
    <3> QED BY <2>1, <3>1 DEF ReadPid, OneMoves
  <2>2. CASE Kill(k)
    <3>1. /\ script' \in [Scripts -> Script] /\ UNCHANGED <<sc, pidfile>>
          /\ script[k].pid \in Pids \cup {Empty}
      BY <1>a, <2>2 DEF Kill
    <3>2. CASE script[k].pid = Empty
      BY <2>2, <3>1, <3>2 DEF Kill, OneMoves
    <3>3. CASE script[k].pid # Empty
      <4>1. script[k].pid \in Pids /\ server' = Signalled(script[k].pid)
        BY <2>2, <3>1, <3>3 DEF Kill
      <4> QED BY <1>5, <3>1, <4>1
    <3> QED BY <3>2, <3>3
  <2>3. CASE Truncate(k)
    <3>1. script' \in [Scripts -> Script]
      BY <1>a, <2>3 DEF Truncate
    <3> QED BY <2>3, <3>1 DEF Truncate, OneMoves
  <2>4. CASE Wake(k)
    <3>1. script' \in [Scripts -> Script]
      BY <1>a, <1>b, <2>4 DEF Wake, Ended
    <3> QED BY <2>4, <3>1 DEF Wake, OneMoves
  <2>5. CASE Launch(k)
    <3>1. script' \in [Scripts -> Script] /\ UNCHANGED <<sc, pidfile>>
      BY <1>a, <1>b, <2>5 DEF Launch, Ended
    <3>2. CASE server' = server
      BY <3>1, <3>2 DEF OneMoves
    <3>3. ASSUME NEW p \in Pids, server[p].pc = "none",
                 server' = [server EXCEPT ![p].pc = "options",
                                          ![p].root = Conf.root]
          PROVE  OneMoves
      <4>1. Moves(p)
        BY <3>3, LaunchMoves
      <4> QED BY <3>1, <3>3, <4>1 DEF OneMoves, Moves
    <3> QED BY <2>5, <3>2, <3>3 DEF Launch
  <2> QED BY <1>7, <2>1, <2>2, <2>3, <2>4, <2>5 DEF ScriptStep
<1>8. CASE OnStart \/ OnRefresh \/ OnStop \/ OnDestroy \/ BinaryThread
  <2>1. UNCHANGED <<sc, server, pidfile>>
    BY <1>8 DEF OnStart, OnRefresh, OnStop, OnDestroy, BinaryThread, Intent
  <2>2. script' = script \/ \E stop \in BOOLEAN : Run(stop)
    BY <1>8 DEF OnStart, OnRefresh, OnStop, OnDestroy, BinaryThread
  <2>3. script' \in [Scripts -> Script]
    <3>1. ASSUME NEW stop \in BOOLEAN, Run(stop)
          PROVE  script' \in [Scripts -> Script]
      <4>1. [Idle EXCEPT !.pc = "begin", !.stop = stop] \in Script
        BY <1>b
      <4> HIDE DEF Script
      <4> QED BY <1>a, <3>1, <4>1 DEF Run
    <3> QED BY <1>a, <2>2, <3>1
  <2> QED BY <2>1, <2>3 DEF OneMoves
<1> QED BY <1>1, <1>2, <1>3, <1>4, <1>6, <1>7, <1>8 DEF Next, ServerStep

\* Every step keeps the invariant.
LEMMA InvStep == Inv /\ [Next]_vars => Inv'
<1> SUFFICES ASSUME Inv, [Next]_vars PROVE Inv'
  OBVIOUS
<1>1. OneMoves
  BY StepsMove
<1>2. CASE server' = server /\ pidfile' \in {pidfile, Empty}
  <2>1. Shape' /\ Exclusive' /\ PidLatest'
    BY <1>1, <1>2 DEF OneMoves, Inv, Shape, Exclusive, PidLatest
  <2>2. ASSUME NEW q \in Pids PROVE Fits(server[q])'
    <3>1. Fits(server[q]) /\ server' = server /\ sc' = sc
      BY <1>1, <1>2 DEF OneMoves, Inv
    <3> QED BY <3>1, ZenonT(60) DEF Fits, Before, Ports, Conf
  <2> QED BY <2>1, <2>2 DEF Inv
<1>3. ASSUME NEW p \in Pids, Moves(p),
             \/ server[p].pc = "pid" /\ pidfile' = p
             \/ /\ pidfile' = pidfile
                /\ server'[p].pc = "serving" => server[p].pc = "serving"
      PROVE  Inv'
  <2>1. Shape'
    BY <1>1, <1>3 DEF OneMoves, Moves, Inv, Shape
  <2>2. \A q \in Pids : q # p => server'[q] = server[q]
    BY <1>3 DEF Moves, Inv, Shape
  <2>3. Exclusive'
    BY <1>3, <2>2 DEF Moves, Inv, Exclusive
  <2>4. ASSUME NEW q \in Pids PROVE Fits(server[q])'
    <3>1. Fits(server'[q])
      BY <1>3, <2>2 DEF Moves, Inv
    <3>2. sc' = sc
      BY <1>1 DEF OneMoves
    <3> QED BY <3>1, <3>2, ZenonT(60) DEF Fits, Before, Ports, Conf
  <2>5. ASSUME NEW q \in Pids, server'[q].pc = "serving"
        PROVE  pidfile' \in {q, Empty}
    <3>1. CASE server[p].pc = "pid" /\ pidfile' = p
      <4>1. SUFFICES ASSUME q # p PROVE FALSE
        BY <3>1
      <4>2. server[q].bound = Ports /\ server[p].bound = Ports
        BY <2>2, <2>5, <3>1, <4>1, ZenonT(60) DEF Inv, Fits, Up
      <4>3. Ports # {}
        BY ConfFacts DEF Inv, Shape
      <4> QED BY <4>1, <4>2, <4>3 DEF Inv, Exclusive
    <3>2. CASE /\ pidfile' = pidfile
               /\ server'[p].pc = "serving" => server[p].pc = "serving"
      BY <2>2, <2>5, <3>2 DEF Inv, PidLatest
    <3> QED BY <1>3, <3>1, <3>2
  <2> QED BY <2>1, <2>3, <2>4, <2>5 DEF Inv, PidLatest
<1> QED BY <1>1, <1>2, <1>3 DEF OneMoves

\* At first there is no server and no pid file.
LEMMA InvInit == Init => Inv
<1> SUFFICES ASSUME Init PROVE Inv
  OBVIOUS
<1>1. Unborn \in Server
  BY DEF Unborn, Server, Pcs, Early, Reasons
<1>2. 1 \in DOMAIN Conf.ports
  BY ConfFacts DEF Init
<1>3. Fits(Unborn)
  BY <1>2 DEF Fits, Unborn, Early, Up
<1>4. Shape
  BY <1>1 DEF Init, Shape, Idle
<1>5. \A p \in Pids : server[p] = Unborn
  BY DEF Init
<1>6. Exclusive /\ PidLatest
  <2>1. Unborn.bound = {} /\ Unborn.pc # "serving"
    BY DEF Unborn
  <2> QED BY <1>5, <2>1 DEF Exclusive, PidLatest
<1> QED BY <1>3, <1>4, <1>5, <1>6 DEF Inv

\* The invariant holds always.
LEMMA InvAlways == Spec => []Inv
  BY InvInit, InvStep, PTL DEF Spec

\* While a server listens, the pid file names it or is empty: for any number of
\* servers, scripts and ports, and whatever fails, nobody else's pid is there.
THEOREM PidFileLatest == Spec => []PidLatest
<1>1. Inv => PidLatest
  BY DEF Inv
<1> QED BY <1>1, InvAlways, PTL

\* No port is refused for privileges mg_start gave up itself, nor an SSL port
\* when there is a certificate, and a start that failed has closed its sockets,
\* unless it was the user or the access control list that failed.
THEOREM FailureSound == Spec => []StartFailsCleanly
<1>1. Inv => StartFailsCleanly
  BY DEF Inv, Fits, StartFailsCleanly
<1> QED BY <1>1, InvAlways, PTL

-----------------------------------------------------------------------------
(* Servers that compete.  A server that has been refused a port and still  *)
(* has others may refuse them to the next one: what keeps OneWins is that  *)
(* somebody who was not refused has come further in the list than it.      *)

Distinct ==
  \A s \in Scenarios : \A j, k \in DOMAIN s.conf.ports :
    s.conf.ports[j].port = s.conf.ports[k].port => j = k

Ahead(q, j) ==
  /\ server[q].why # "rival" /\ server[q].pc \notin Early
  /\ server[q].pc = "ports" => server[q].i > j

RivalInv ==
  \A p \in Pids : server[p].pc = "closing" /\ server[p].why = "rival" =>
    \E q \in Pids : Ahead(q, server[p].i)

\* Whoever has a port has come to it and past it.
LEMMA BoundIsPast ==
  ASSUME Distinct, Inv, NEW q \in Pids, NEW j \in DOMAIN Conf.ports,
         server[q].pc \in {"ports", "closing"},
         Conf.ports[j].port \in server[q].bound
  PROVE  j < server[q].i
<1>1. /\ server[q].bound \subseteq Before(server[q].i)
      /\ server[q].i \in DOMAIN Conf.ports
  BY DEF Inv, Fits
<1>2. DOMAIN Conf.ports = 1 .. Len(Conf.ports) /\ Len(Conf.ports) \in Nat
  BY ConfFacts DEF Inv, Shape
<1>3. PICK k \in 1 .. server[q].i - 1 : Conf.ports[k].port = Conf.ports[j].port
  BY <1>1 DEF Before
<1>4. k \in DOMAIN Conf.ports /\ k < server[q].i
  BY <1>1, <1>2, <1>3
<1>5. k = j
  BY <1>3, <1>4 DEF Distinct, Inv, Shape, Conf
<1> QED BY <1>4, <1>5

\* When a server is refused a port, another one is ahead of it.
LEMMA SomeoneAhead ==
  ASSUME Distinct, Inv, RivalInv, NEW p \in Pids, Outdone(p)
  PROVE  \E w \in Pids : w # p /\ Ahead(w, server[p].i)
<1> DEFINE j == server[p].i
<1>1. PICK q \in Pids : Conf.ports[j].port \in server[q].bound
  BY DEF Outdone
<1>2. server[p].pc = "ports" /\ j \in DOMAIN Conf.ports /\ j \in Nat
  BY DEF Outdone, Inv, Fits, Shape, Server
<1>3. q # p
  BY <1>1, <1>2, BoundIsPast
<1>4. Fits(server[q]) /\ server[q].bound # {} /\ server[q] \in Server
  BY <1>1 DEF Inv, Shape
<1>5. server[q].pc \notin Early
  BY <1>4 DEF Fits
<1>6. CASE server[q].why # "rival"
  <2>1. server[q].pc = "ports" => server[q].i > j
    BY <1>1, <1>2, <1>4, BoundIsPast DEF Server
  <2> QED BY <1>3, <1>5, <1>6, <2>1 DEF Ahead
<1>7. CASE server[q].why = "rival"
  <2>1. server[q].pc = "closing"
    BY <1>4, <1>5, <1>7 DEF Fits, Server, Pcs
  <2>2. j < server[q].i /\ server[q].i \in Nat
    BY <1>1, <1>2, <1>4, <2>1, BoundIsPast DEF Server
  <2>3. PICK w \in Pids : Ahead(w, server[q].i)
    BY <1>7, <2>1 DEF RivalInv
  <2>4. server[w].i \in Nat
    BY DEF Inv, Shape, Server
  <2>5. w # p
    BY <1>2, <2>2, <2>3 DEF Ahead
  <2>6. Ahead(w, j)
    BY <1>2, <2>2, <2>3, <2>4 DEF Ahead
  <2> QED BY <2>5, <2>6
<1> QED BY <1>6, <1>7

\* Every step keeps somebody ahead of those that were refused.
LEMMA RivalStep ==
  ASSUME Distinct, Inv, RivalInv, OneWins, [Next]_vars
  PROVE  RivalInv' /\ OneWins'
<1>1. OneMoves
  BY StepsMove
<1>2. CASE server' = server
  BY <1>2 DEF RivalInv, Ahead, OneWins
<1>3. ASSUME NEW p \in Pids, Moves(p) PROVE RivalInv' /\ OneWins'
  <2>1. \A q \in Pids : q # p => server'[q] = server[q]
    BY <1>3 DEF Moves, Inv, Shape
  <2>2. \A q \in Pids : server[q].i \in Nat
    BY DEF Inv, Shape, Server
  <2>3. server'[p].i \in Nat
    BY <1>3 DEF Moves, Server
  <2>4. CASE Outdone(p)
    <3>1. PICK w \in Pids : w # p /\ Ahead(w, server[p].i)
      BY <2>4, SomeoneAhead
    <3>2. server'[w] = server[w]
      BY <2>1, <3>1
    <3>3. OneWins'
      BY <3>1, <3>2 DEF OneWins, Ahead, Early
    <3>4. ASSUME NEW r \in Pids, server'[r].pc = "closing",
                 server'[r].why = "rival"
          PROVE  \E q \in Pids : Ahead(q, server[r].i)'
      <4>1. CASE r = p
        <5>1. server'[r].i = server[p].i
          BY <2>4, <4>1 DEF Outdone
        <5> QED BY <3>1, <3>2, <5>1 DEF Ahead
      <4>2. CASE r # p
        <5>1. server'[r] = server[r]
          BY <2>1, <4>2
        <5>2. PICK q \in Pids : Ahead(q, server[r].i)
          BY <3>4, <5>1 DEF RivalInv
        <5>3. CASE q # p
          <6>1. server'[q] = server[q]
            BY <2>1, <5>3
          <6> QED BY <5>1, <5>2, <6>1 DEF Ahead
        <5>4. CASE q = p
          <6>1. server[p].i > server[r].i
            BY <2>4, <5>2, <5>4 DEF Ahead, Outdone
          <6>2. Ahead(w, server[r].i)
            BY <2>2, <3>1, <6>1 DEF Ahead
          <6> QED BY <3>2, <5>1, <6>2 DEF Ahead
        <5> QED BY <5>3, <5>4
      <4> QED BY <4>1, <4>2
    <3> QED BY <3>3, <3>4 DEF RivalInv
  <2>5. CASE ~Outdone(p)
    <3>1. /\ server'[p].why = "rival" => server[p].why = "rival"
          /\ server'[p].pc = "closing" /\ server'[p].why = "rival" =>
               server[p].pc = "closing" /\ server'[p].i = server[p].i
          /\ server'[p].pc \in Early => server[p].pc \in Early
          /\ server'[p].pc = "none" => server[p].pc = "none"
          /\ server'[p].pc = "ports" /\ server[p].pc \notin Early =>
               server[p].pc = "ports" /\ server'[p].i >= server[p].i
      BY <1>3, <2>5 DEF Moves
    <3>2. ASSUME NEW q \in Pids, NEW j \in Nat, Ahead(q, j)
          PROVE  /\ server'[q].why # "rival" /\ server'[q].pc \notin Early
                 /\ server'[q].pc = "ports" => server'[q].i > j
      <4>1. CASE q # p
        <5>1. server'[q] = server[q]
          BY <2>1, <4>1
        <5> QED BY <3>2, <5>1 DEF Ahead
      <4>2. CASE q = p
        BY <2>2, <2>3, <3>1, <3>2, <4>2 DEF Ahead
      <4> QED BY <4>1, <4>2
    <3>3. ASSUME NEW r \in Pids, server'[r].pc = "closing",
                 server'[r].why = "rival"
          PROVE  \E q \in Pids : Ahead(q, server[r].i)'
      <4>1. /\ server[r].pc = "closing" /\ server[r].why = "rival"
            /\ server'[r].i = server[r].i
        BY <2>1, <3>1, <3>3
      <4>2. PICK q \in Pids : Ahead(q, server[r].i)
        BY <4>1 DEF RivalInv
      <4> QED BY <2>2, <3>2, <4>1, <4>2 DEF Ahead
    <3>4. OneWins'
      <4>1. SUFFICES ASSUME NEW r \in Pids, server'[r].why = "rival"
                     PROVE  \E q \in Pids : /\ server'[q].pc # "none"
                                            /\ server'[q].why # "rival"
        BY DEF OneWins
      <4>2. server[r].why = "rival"
        BY <2>1, <3>1, <4>1
      <4>3. PICK q \in Pids : server[q].pc # "none" /\ server[q].why # "rival"
        BY <4>2 DEF OneWins
      <4> QED BY <2>1, <3>1, <4>3
    <3> QED BY <3>3, <3>4 DEF RivalInv
  <2> QED BY <2>4, <2>5
<1> QED BY <1>1, <1>2, <1>3 DEF OneMoves

\* Servers that start at the same time never all fail because of each other,
\* when no port is listed twice: one gets the ports or failed for another reason.
THEOREM RivalsDoNotAllFail ==
  ASSUME Distinct
  PROVE  Spec => []OneWins
<1>1. Init => RivalInv /\ OneWins
  <2>1. Unborn.why # "rival"
    BY DEF Unborn
  <2> QED BY <2>1 DEF Init, RivalInv, OneWins
<1>2. Inv /\ RivalInv /\ OneWins /\ [Next]_vars => RivalInv' /\ OneWins'
  BY RivalStep
<1> QED BY <1>1, <1>2, InvAlways, PTL DEF Spec
=============================================================================
