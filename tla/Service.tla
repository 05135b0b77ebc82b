------------------------------ MODULE Service ------------------------------
(***************************************************************************)
(* Starting and stopping: main of tinyweb.c with mg_start and mg_stop, the *)
(* script service.sh that replaces a running server by a new one through a *)
(* pid file, and the Android service that runs the script.                 *)
(*                                                                         *)
(* Servers are processes that share the ports and the pid file and take a  *)
(* step at a time, as do the scripts.  A port is a member of Nat.          *)
(***************************************************************************)
EXTENDS Integers, Sequences, FiniteSets

CONSTANTS
  Pids,        \* 1 .. n: at most n servers are launched
  Scripts,     \* 1 .. m: at most m scripts run at a time
  Scenarios    \* [calm, conf, taken, asks, faults]; see Init

\* What tinyweb is told: whether its arguments, the password file and the
\* access control list are good, the certificate, the user, whether it is
\* started by root, and the ports; low is a port only root may listen on.
Listening == [port : Nat, kind : {"plain", "ssl", "bad"}, low : BOOLEAN]
Config == [args : BOOLEAN, gpass : BOOLEAN, acl : BOOLEAN, root : BOOLEAN,
           pem : {"none", "good", "bad"}, uid : {"none", "good", "bad"},
           ports : Seq(Listening)]

ASSUME ServiceAssumption ==
  /\ Pids \subseteq Nat \ {0} /\ Scripts \subseteq Nat
  /\ Scenarios \subseteq [calm : BOOLEAN, conf : Config, taken : SUBSET Nat,
                          asks : Nat, faults : Nat]
  /\ \A s \in Scenarios : s.conf.ports # << >>

VARIABLES
  sc,       \* the scenario
  svc,      \* the Android service
  script,   \* [Scripts -> the state of a run of service.sh]
  server,   \* [Pids -> the state of a tinyweb process]
  pidfile,  \* a pid, Empty or NoFile
  intents, faults

vars == <<sc, svc, script, server, pidfile, intents, faults>>

NoFile == -1
Empty  == 0

Idle   == [pc |-> "idle", stop |-> FALSE, pid |-> Empty]
Unborn == [pc |-> "none", i |-> 1, bound |-> {}, ssl |-> FALSE, root |-> FALSE,
           sig |-> FALSE, stuck |-> "", why |-> ""]

\* The system closes what an ended process had open.
Gone(why) == [Unborn EXCEPT !.pc = "gone", !.why = why]

Conf  == sc.conf
Ports == {Conf.ports[k].port : k \in DOMAIN Conf.ports}
Fault == faults < sc.faults /\ faults' = faults + 1

-----------------------------------------------------------------------------
(* mg_start.                                                               *)

\* Mutant: the user is changed as soon as possible.
UidFirst == <<"gpass", "uid", "ssl", "ports", "acl">>

\* The order in which the options are applied.
Order == <<"gpass", "ssl", "ports", "uid", "acl">>

After(step) ==
  LET k == CHOOSE k \in DOMAIN Order : Order[k] = step
  IN IF k = Len(Order) THEN "threads" ELSE Order[k + 1]

Accepts(p, step) ==
  CASE step = "gpass" -> Conf.gpass
    [] step = "ssl"   -> Conf.pem # "bad"
    [] step = "uid"   -> Conf.uid = "none" \/ (Conf.uid = "good" /\ server[p].root)
    [] step = "acl"   -> Conf.acl

\* Why the port cannot be listened on, or "".
Refusal(p, port) ==
  CASE port.kind = "bad" -> "bad"
    [] port.kind = "ssl" /\ ~server[p].ssl -> "nossl"
    [] port.low /\ ~server[p].root -> "denied"
    [] port.port \in sc.taken -> "taken"
    [] \E q \in Pids : port.port \in server[q].bound -> "rival"
    [] OTHER -> ""

\* Mutant: the pid is written first of all.
ConfigureWritingPid(p) ==
  /\ server[p].pc = "options"
  /\ server' = [server EXCEPT ![p].pc = Order[1]]
  /\ pidfile' = p
  /\ UNCHANGED <<sc, svc, script, intents, faults>>

\* The command line and configuration file are read, then the handler of
\* SIGTERM is installed.
Configure(p) ==
  /\ server[p].pc = "options"
  /\ server' = [server EXCEPT ![p].pc = IF Conf.args THEN Order[1] ELSE "failed",
                              ![p].why = IF Conf.args THEN "" ELSE "options"]
  /\ UNCHANGED <<sc, svc, script, pidfile, intents, faults>>

\* set_gpass_option, set_ssl_option, set_uid_option and set_acl_option.
Apply(p) ==
  LET s == server[p] IN
  /\ s.pc \in {"gpass", "ssl", "uid", "acl"}
  /\ server' = [server EXCEPT ![p] =
       IF ~Accepts(p, s.pc) THEN [s EXCEPT !.pc = "failed", !.why = s.pc]
       ELSE [s EXCEPT !.pc = After(s.pc),
                      !.ssl = IF s.pc = "ssl" THEN Conf.pem = "good" ELSE s.ssl,
                      !.root = s.root /\ (s.pc = "uid" => Conf.uid = "none")]]
  /\ UNCHANGED <<sc, svc, script, pidfile, intents, faults>>

\* Mutant: the ports after the one refused are tried too.
RefusedGoesOn(s, why) ==
  IF s.i < Len(Conf.ports) THEN [s EXCEPT !.i = @ + 1, !.why = why]
  ELSE [s EXCEPT !.pc = "closing", !.why = why]

\* A port refused ends the loop; what is open already is closed.
Refused(s, why) == [s EXCEPT !.pc = "closing", !.why = why]

\* set_ports_option, a port at a time.
BindPort(p) ==
  LET s    == server[p]
      port == Conf.ports[s.i]
      no   == Refusal(p, port)
      last == s.i = Len(Conf.ports)
  IN /\ s.pc = "ports"
     /\ \/ /\ server' = [server EXCEPT ![p] =
                IF no # "" THEN Refused(s, no)
                ELSE [s EXCEPT !.bound = s.bound \cup {port.port},
                               !.i  = IF last THEN s.i ELSE s.i + 1,
                               !.pc = IF ~last THEN "ports"
                                      ELSE IF s.why = "" THEN After("ports")
                                      ELSE "closing"]]
           /\ UNCHANGED faults
        \/ /\ no = "" /\ Fault    \* socket, listen or realloc fails
           /\ server' = [server EXCEPT ![p] = Refused(s, "fault")]
     /\ UNCHANGED <<sc, svc, script, pidfile, intents>>

\* The threads are started; whether the master was is not looked at.  Without
\* it nobody accepts connections, and nobody stops either.
StartThreads(p) ==
  /\ server[p].pc = "threads"
  /\ \/ server' = [server EXCEPT ![p].pc = "pid"] /\ UNCHANGED faults
     \/ server' = [server EXCEPT ![p].pc = "pid", ![p].stuck = "master"]
        /\ Fault
  /\ UNCHANGED <<sc, svc, script, pidfile, intents>>

-----------------------------------------------------------------------------
(* main of tinyweb.c.                                                      *)

\* start_server dies when mg_start gave no context.
Die(p) ==
  /\ server[p].pc = "failed"
  /\ server' = [server EXCEPT ![p] = Gone(server[p].why)]
  /\ UNCHANGED <<sc, svc, script, pidfile, intents, faults>>

\* Mutant: exit_flag is cleared before the loop.
WritePidClearing(p) ==
  /\ server[p].pc = "pid"
  /\ pidfile' = p
  /\ server' = [server EXCEPT ![p].pc = "serving", ![p].sig = FALSE]
  /\ UNCHANGED <<sc, svc, script, intents, faults>>

\* The pid is written once the server listens.  A file that cannot be opened
\* is written to all the same, which ends the process.
WritePid(p) ==
  /\ server[p].pc = "pid"
  /\ \/ /\ pidfile' = p
        /\ server' = [server EXCEPT ![p].pc = "serving"]
        /\ UNCHANGED faults
     \/ /\ Fault
        /\ server' = [server EXCEPT ![p] = Gone("pidfile")]
        /\ UNCHANGED pidfile
  /\ UNCHANGED <<sc, svc, script, intents>>

\* The loop ends on a signal and mg_stop sets stop_flag.  The master may be
\* waiting for a place in the queue just then, and closes nothing until a
\* worker takes a socket.
NoticeSignal(p) ==
  /\ server[p].pc = "serving" /\ server[p].sig
  /\ \/ server' = [server EXCEPT ![p].pc = "stopping"] /\ UNCHANGED faults
     \/ /\ server[p].stuck = "" /\ Fault
        /\ server' = [server EXCEPT ![p].pc = "stopping", ![p].stuck = "queue"]
  /\ UNCHANGED <<sc, svc, script, pidfile, intents>>

\* A worker takes a socket from the queue, or comes to the end of its request.
WorkerFree(p) ==
  /\ server[p].stuck \in {"queue", "worker"}
  /\ server' = [server EXCEPT ![p].stuck = ""]
  /\ UNCHANGED <<sc, svc, script, pidfile, intents, faults>>

\* close_all_listening_sockets, a socket at a time in the order of the list:
\* in the master when it stops, in mg_start when a port was refused.
CloseListening(p) ==
  LET s == server[p]
      first == CHOOSE k \in DOMAIN Conf.ports :
                 /\ Conf.ports[k].port \in s.bound
                 /\ \A j \in 1 .. k - 1 : Conf.ports[j].port \notin s.bound
  IN /\ \/ s.pc = "closing"
        \/ s.pc = "stopping" /\ s.stuck = ""
     /\ server' = [server EXCEPT ![p] =
          IF s.bound # {}
          THEN [s EXCEPT !.bound = s.bound \ {Conf.ports[first].port}]
          ELSE [s EXCEPT !.pc = IF s.pc = "closing" THEN "failed" ELSE "draining"]]
     /\ UNCHANGED <<sc, svc, script, pidfile, intents, faults>>

\* The master waits for the workers.  One may be in a request that does not end,
\* or have missed the broadcast (ThreadPool).
WorkerHeld(p) ==
  /\ server[p].pc = "draining" /\ server[p].stuck = "" /\ Fault
  /\ server' = [server EXCEPT ![p].stuck = "worker"]
  /\ UNCHANGED <<sc, svc, script, pidfile, intents>>

\* The last worker has left, mg_stop returns.
Exit(p) ==
  /\ server[p].pc = "draining" /\ server[p].stuck = ""
  /\ server' = [server EXCEPT ![p] = Gone("signal")]
  /\ UNCHANGED <<sc, svc, script, pidfile, intents, faults>>

Alive(p) == server[p].pc \notin {"none", "gone"}

\* What a SIGTERM does to process p: before the handler is installed it ends
\* the process.
Signalled(p) ==
  IF ~Alive(p) THEN server
  ELSE IF server[p].pc = "options"
  THEN [server EXCEPT ![p] = Gone("signal")]
  ELSE [server EXCEPT ![p].sig = TRUE]

\* Somebody else sends the signal.
Terminate(p) ==
  /\ Alive(p) /\ ~server[p].sig /\ Fault
  /\ server' = Signalled(p)
  /\ UNCHANGED <<sc, svc, script, pidfile, intents>>

Crash(p) ==
  /\ Alive(p) /\ Fault
  /\ server' = [server EXCEPT ![p] = Gone("crash")]
  /\ UNCHANGED <<sc, svc, script, pidfile, intents>>

ServerStep(p) ==
  \/ Configure(p) \/ Apply(p) \/ BindPort(p) \/ StartThreads(p) \/ WritePid(p)
  \/ Die(p) \/ NoticeSignal(p) \/ CloseListening(p) \/ Exit(p)

-----------------------------------------------------------------------------
(* service.sh.                                                             *)

Ended(s) == [script EXCEPT ![s] = Idle]

\* PID is read; without a file there is nothing to stop, and no sleep.
ReadPid(s) ==
  /\ script[s].pc = "begin"
  /\ script' = IF pidfile # NoFile
               THEN [script EXCEPT ![s].pc = "kill", ![s].pid = pidfile]
               ELSE IF script[s].stop THEN Ended(s)
               ELSE [script EXCEPT ![s].pc = "launch"]
  /\ UNCHANGED <<sc, svc, server, pidfile, intents, faults>>

\* Mutant: nothing is killed.
KillNobody(s) ==
  /\ script[s].pc = "kill"
  /\ script' = [script EXCEPT ![s].pc = "truncate"]
  /\ UNCHANGED <<sc, svc, server, pidfile, intents, faults>>

Kill(s) ==
  /\ script[s].pc = "kill"
  /\ server' = IF script[s].pid = Empty THEN server ELSE Signalled(script[s].pid)
  /\ script' = [script EXCEPT ![s].pc = "truncate", ![s].pid = Empty]
  /\ UNCHANGED <<sc, svc, pidfile, intents, faults>>

Truncate(s) ==
  /\ script[s].pc = "truncate"
  /\ pidfile' = Empty
  /\ script' = [script EXCEPT ![s].pc = "sleep"]
  /\ UNCHANGED <<sc, svc, server, intents, faults>>

\* Two seconds are enough for the scripts that already run to come as far, and
\* for a server that is not stuck to close its ports: it polls five times a
\* second and looks at exit_flag once.
LongEnough ==
  /\ \A t \in Scripts : script[t].pc \notin {"begin", "kill", "truncate"}
  /\ \A p \in Pids : server[p].sig /\ server[p].stuck = "" => server[p].bound = {}

Wake(s) ==
  /\ script[s].pc = "sleep"
  /\ sc.calm => LongEnough
  /\ script' = IF script[s].stop THEN Ended(s)
               ELSE [script EXCEPT ![s].pc = "launch"]
  /\ UNCHANGED <<sc, svc, server, pidfile, intents, faults>>

\* tinyweb forks; the parent always ends well, and the script with it.
Launch(s) ==
  /\ script[s].pc = "launch"
  /\ script' = Ended(s)
  /\ \/ \E p \in Pids :
          /\ server[p].pc = "none" /\ \A q \in 1 .. p - 1 : server[q].pc # "none"
          /\ server' = [server EXCEPT ![p].pc = "options", ![p].root = Conf.root]
          /\ UNCHANGED faults
     \/ Fault /\ UNCHANGED server
  /\ UNCHANGED <<sc, svc, pidfile, intents>>

ScriptStep(s) == ReadPid(s) \/ Kill(s) \/ Truncate(s) \/ Wake(s) \/ Launch(s)

-----------------------------------------------------------------------------
(* TinywebService.java.  proc: binary_process is not null; threads: those  *)
(* that startTinywebServer has made and that have not run the script yet.  *)

\* A run of the script is begun.
Run(stop) ==
  \E s \in Scripts :
    /\ script[s].pc = "idle" /\ \A t \in 1 .. s - 1 : script[t].pc # "idle"
    /\ script' = [script EXCEPT ![s] = [Idle EXCEPT !.pc = "begin", !.stop = stop]]

\* Nothing is under way, but perhaps a server that is stuck.
Settled ==
  /\ svc.threads = 0 /\ ~svc.dying
  /\ \A s \in Scripts : script[s].pc = "idle"
  /\ \A p \in Pids : \/ server[p].pc \in {"none", "gone"}
                     \/ server[p].pc = "serving" /\ ~server[p].sig
                     \/ server[p].pc \in {"stopping", "draining"} /\ server[p].stuck # ""

Intent ==
  /\ intents < sc.asks /\ intents' = intents + 1
  /\ ~svc.dying
  /\ sc.calm => Settled
  /\ UNCHANGED <<sc, server, pidfile, faults>>

\* onCreate stops what an earlier service may have left running.
OnCreateStops == ~svc.alive /\ svc.installed

OnStart ==
  LET fresh == ~svc.alive
      start == fresh \/ ~svc.proc
  IN /\ Intent
     /\ IF OnCreateStops THEN Run(TRUE) ELSE UNCHANGED script
     /\ svc' = [svc EXCEPT !.alive = TRUE, !.installed = TRUE, !.want = "run",
                           !.proc = @ /\ ~fresh,
                           !.threads = IF start THEN @ + 1 ELSE @]

\* The script that stops is not waited for.
OnRefresh ==
  /\ Intent /\ svc.alive
  /\ Run(TRUE)
  /\ svc' = [svc EXCEPT !.proc = FALSE, !.want = "run", !.threads = @ + 1]

OnStop ==
  /\ Intent /\ svc.alive
  /\ Run(TRUE)
  /\ svc' = [svc EXCEPT !.proc = FALSE, !.want = "stop", !.dying = TRUE]

\* stopSelf leads to onDestroy; the next start makes a new service.
OnDestroy ==
  /\ svc.dying
  /\ IF svc.proc THEN Run(TRUE) ELSE UNCHANGED script
  /\ svc' = [svc EXCEPT !.alive = FALSE, !.dying = FALSE, !.proc = FALSE]
  /\ UNCHANGED <<sc, server, pidfile, intents, faults>>

\* The thread of startTinywebServer.
BinaryThread ==
  /\ svc.threads > 0
  /\ Run(FALSE)
  /\ svc' = [svc EXCEPT !.threads = @ - 1, !.proc = TRUE]
  /\ UNCHANGED <<sc, server, pidfile, intents, faults>>

-----------------------------------------------------------------------------
Finished == Settled /\ intents = sc.asks /\ UNCHANGED vars

\* calm: the user waits until nothing is under way, and a sleep is long enough.
\* conf: what tinyweb is told; taken: the ports some other program has; asks:
\* how often the user starts, stops or refreshes the service; faults: how many
\* things go wrong that have no cause in the model.
Init ==
  /\ sc \in Scenarios
  /\ svc = [alive |-> FALSE, installed |-> FALSE, dying |-> FALSE,
            proc |-> FALSE, threads |-> 0, want |-> "stop"]
  /\ script = [s \in Scripts |-> Idle]
  /\ server = [p \in Pids |-> Unborn]
  /\ pidfile = NoFile
  /\ intents = 0 /\ faults = 0

Next ==
  \/ \E p \in Pids : \/ ServerStep(p) \/ WorkerHeld(p) \/ WorkerFree(p)
                     \/ Terminate(p) \/ Crash(p)
  \/ \E s \in Scripts : ScriptStep(s)
  \/ OnStart \/ OnRefresh \/ OnStop \/ OnDestroy \/ BinaryThread
  \/ Finished

\* A process is scheduled again and again.
Spec == Init /\ [][Next]_vars /\ \A p \in Pids : WF_vars(ServerStep(p))

-----------------------------------------------------------------------------
(* Properties.                                                             *)

\* While a server listens, the pid file names it or has been emptied: the pid
\* is written after the ports are bound and before they can be closed, so no
\* server that failed, or that had the ports before, has the last word.
PidLatest ==
  \A p \in Pids : server[p].pc = "serving" => pidfile \in {p, Empty}

\* Servers that are started at the same time never all fail because of each
\* other: they bind the same ports in the same order and give up at the first
\* refused, so one gets them all, or one of them ended for another reason.  It
\* need not be there any more.
OneWins ==
  (\E p \in Pids : server[p].why = "rival") =>
    \E q \in Pids : server[q].pc # "none" /\ server[q].why # "rival"

\* "SSL certificates must be initialized before listening ports. UID must be
\* set last": mg_start is refused no port for want of privileges that it gave
\* up itself, nor an SSL port when there is a certificate.  And when it has
\* failed, the sockets it opened are closed, unless it was the user or the
\* access control list that failed: then they stay open until the process ends.
StartFailsCleanly ==
  \A p \in Pids :
    /\ server[p].why = "denied" => ~Conf.root
    /\ server[p].why = "nossl" => Conf.pem = "none"
    /\ server[p].pc = "failed" /\ server[p].bound # {} =>
         server[p].why \in {"uid", "acl"}

Good == /\ Conf.args /\ Conf.gpass /\ Conf.acl /\ Conf.pem # "bad"
        /\ Conf.uid # "bad" /\ (Conf.uid = "good" => Conf.root)
        /\ \A k \in DOMAIN Conf.ports :
             /\ Conf.ports[k].kind # "bad"
             /\ Conf.ports[k].low => Conf.root
             /\ Conf.ports[k].kind = "ssl" => Conf.pem = "good"
             /\ Conf.ports[k].port \notin sc.taken

\* With a user who waits for each request to be carried out, and sleeps that
\* are long enough, a start or refresh of the service leaves one server that
\* listens and that the pid file names, and a stop leaves none, although the
\* script that stops the old server runs beside the one that starts the new.
FollowsIntent ==
  sc.calm /\ Settled /\ faults = 0 /\ Good =>
    LET up == {p \in Pids : server[p].pc = "serving"}
    IN IF svc.want = "run" THEN up = {pidfile} ELSE up = {}

\* A server that was sent SIGTERM once its handler was there ends, also when it
\* was still starting, unless from some time on its master thread is not there,
\* waits for a place in the queue or waits for a worker.
StopEnds ==
  \A p \in Pids : \/ <>[](server[p].stuck # "")
                  \/ server[p].sig ~> server[p].pc = "gone"
=============================================================================
