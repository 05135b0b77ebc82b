-------------------------------- MODULE Cgi --------------------------------
(***************************************************************************)
(* CGI requests: each worker in handle_cgi_request makes two pipes, forks  *)
(* the program, forwards the request body into its stdin, closes it, and   *)
(* copies its stdout to the client.  The workers are threads of one        *)
(* process: they share the table of descriptors, and a fork copies the     *)
(* whole table, the other workers' pipes included.                         *)
(*                                                                         *)
(* Data is counted in units: a body has so many, a pipe holds Cap of them, *)
(* a program is the list of what it does to its stdin and stdout.  The     *)
(* empty program is also a child whose chdir, dup2 or execle fails.        *)
(* Whether the connection is kept is left to HttpConnection.               *)
(***************************************************************************)
EXTENDS CgiEnv, Sequences, FiniteSets

CONSTANTS
  Workers,
  Scenarios,   \* requests and the programs that serve them
  Cap,         \* what a pipe holds
  BufSize,     \* sizeof(buf) in handle_cgi_request
  MaxFd,       \* the process's limit on descriptors
  Faults       \* "fork", "fdopen", "client", "stop"

(* What a program does next: read one unit or up to the end of its input,  *)
(* write a unit that completes the headers ("hdr") or one that does not.   *)
Ops   == {"read", "eof", "hdr", "out"}
Ends  == {"in_r", "in_w", "out_r", "out_w"}

\* A request: POST or not, its content_len, how much of the body came with the
\* headers, the Expect header ("none", "continue" or another value),
\* the program, and the environment strings of both, in order.
Scenario == [post : BOOLEAN, len : Nat \cup {-1}, buffered : Nat,
             expect : {"none", "continue", "other"}, prog : Seq(Ops),
             env : Seq(Nat)]

ASSUME CgiAssumption ==
  /\ Scenarios \subseteq Scenario
  /\ Cap \in Nat \ {0} /\ BufSize \in Nat \ {0} /\ MaxFd \in Nat

VARIABLES
  req,         \* the request each worker handles
  pc,
  blk,         \* the environment block
  next_var,    \* how many strings addenv was called with
  table,       \* the server's descriptors: number -> <<worker, end>> or Free
  fds,         \* fd_stdin and fd_stdout; also what `in' and `out' close
  consumed,    \* conn->consumed_content
  got,         \* units read into buf (data_len), and whether they end headers
  answers,     \* status lines sent, 100 Continue aside
  child,       \* "none", "run" or "dead"
  cpc,         \* what the child does next
  inherited,   \* pipe ends the child has open
  inpipe,      \* units in the stdin pipe
  outpipe,     \* units in the stdout pipe
  stop_flag

block == <<blk, next_var>>
descs == <<table, fds>>
body  == <<consumed, got>>
kids  == <<child, cpc, inherited>>
pipes == <<inpipe, outpipe>>
given == <<req, stop_flag>>
vars  == <<given, pc, block, descs, body, answers, kids, pipes>>

Free    == <<>>
Closed  == -1
Numbers == 0 .. MaxFd - 1
FreeNumbers == {k \in Numbers : table[k] = Free}
Lowest(S)   == CHOOSE k \in S : \A j \in S : k <= j

\* Somebody, the server or a child, has this end open.
Open(w, e) == \/ \E k \in Numbers : table[k] = <<w, e>>
              \/ \E v \in Workers : <<w, e>> \in inherited[v]

Init ==
  /\ req \in [Workers -> Scenarios]
  /\ pc = [w \in Workers |-> "env"]
  /\ blk = [w \in Workers |-> NewBlock]
  /\ next_var = [w \in Workers |-> 0]
  /\ table = [k \in Numbers |-> Free]
  /\ fds = [w \in Workers |-> [e \in Ends |-> Closed]]
  /\ consumed = [w \in Workers |-> 0]
  /\ got = [w \in Workers |-> [len |-> 0, hdr |-> FALSE]]
  /\ answers = [w \in Workers |-> 0]
  /\ child = [w \in Workers |-> "none"]
  /\ cpc = [w \in Workers |-> 1]
  /\ inherited = [w \in Workers |-> {}]
  /\ inpipe = [w \in Workers |-> 0] /\ outpipe = [w \in Workers |-> << >>]
  /\ stop_flag = FALSE

Goto(w, l) == pc' = [pc EXCEPT ![w] = l]

\* send_http_error; done: follows.
Fail(w) == /\ answers' = [answers EXCEPT ![w] = @ + 1]
           /\ Goto(w, "kill")

-----------------------------------------------------------------------------
(* prepare_cgi_environment, the pipes and the child.                       *)

\* The next variable: of the server, the request, its headers or the option.
AddVar(w) ==
  /\ pc[w] = "env" /\ next_var[w] < Len(req[w].env)
  /\ blk' = [blk EXCEPT ![w] = AddEnv(@, req[w].env[next_var[w] + 1])]
  /\ next_var' = [next_var EXCEPT ![w] = @ + 1]
  /\ UNCHANGED <<given, pc, descs, body, answers, kids, pipes>>

EndVars(w) ==
  /\ pc[w] = "env" /\ next_var[w] = Len(req[w].env)
  /\ blk' = [blk EXCEPT ![w] = EndEnv(@)]
  /\ Goto(w, "pipe_in")
  /\ UNCHANGED <<given, next_var, descs, body, answers, kids, pipes>>

\* pipe(): the two lowest free numbers, or EMFILE.
Pipe(w, r, wr, next) ==
  LET a == Lowest(FreeNumbers)
      b == Lowest(FreeNumbers \ {a})
  IN IF Cardinality(FreeNumbers) < 2
     THEN Fail(w) /\ UNCHANGED <<table, fds>>
     ELSE /\ table' = [table EXCEPT ![a] = <<w, r>>, ![b] = <<w, wr>>]
          /\ fds' = [fds EXCEPT ![w][r] = a, ![w][wr] = b]
          /\ Goto(w, next)
          /\ UNCHANGED answers

PipeIn(w) ==
  /\ pc[w] = "pipe_in"
  /\ Pipe(w, "in_r", "in_w", "pipe_out")
  /\ UNCHANGED <<given, block, body, kids, pipes>>

PipeOut(w) ==
  /\ pc[w] = "pipe_out"
  /\ Pipe(w, "out_r", "out_w", "fork")
  /\ UNCHANGED <<given, block, body, kids, pipes>>

\* fork() in spawn_process.  The child's stdin and stdout are its own pipes;
\* every other descriptor of the server stays open in it too, the write end of
\* its own stdin among them.
Fork(w) ==
  /\ pc[w] = "fork"
  /\ \/ /\ child' = [child EXCEPT ![w] = "run"]
        /\ inherited' = [inherited EXCEPT
              ![w] = {table[k] : k \in Numbers} \ {Free}]
        /\ UNCHANGED answers
     \/ /\ "fork" \in Faults
        /\ answers' = [answers EXCEPT ![w] = @ + 1]
        /\ UNCHANGED <<child, inherited>>
  /\ Goto(w, "spawned")
  /\ UNCHANGED <<given, block, descs, body, cpc, pipes>>

\* Mutant: the variables keep the numbers.
CloseEndsUnmarked(w, E) ==
  /\ table' = [k \in Numbers |->
       IF k \in {fds[w][e] : e \in E} THEN Free ELSE table[k]]
  /\ UNCHANGED fds

\* Closing, by number, the ends E of worker w that it has not marked closed.
CloseEnds(w, E) ==
  LET nums == {fds[w][e] : e \in E} \ {Closed}
  IN /\ table' = [k \in Numbers |-> IF k \in nums THEN Free ELSE table[k]]
     /\ fds' = [fds EXCEPT ![w] = [e \in Ends |->
                   IF e \in E THEN Closed ELSE @[e]]]

\* Mutant: the parent keeps the write end of the child's stdout.
SpawnedKeepsWriter(w) ==
  /\ pc[w] = "spawned"
  /\ CloseEnds(w, {"in_r"})
  /\ IF child[w] = "none" THEN Fail(w)
     ELSE Goto(w, "fdopen") /\ UNCHANGED answers
  /\ UNCHANGED <<given, block, body, kids, pipes>>

\* The parent's part of spawn_process, and the test of the pid after it.
Spawned(w) ==
  /\ pc[w] = "spawned"
  /\ CloseEnds(w, {"in_r", "out_w"})
  /\ IF child[w] = "none" THEN Fail(w)
     ELSE Goto(w, "fdopen") /\ UNCHANGED answers
  /\ UNCHANGED <<given, block, body, kids, pipes>>

Fdopen(w) ==
  /\ pc[w] = "fdopen"
  /\ \/ /\ Goto(w, IF req[w].post THEN "forward" ELSE "close_in")
        /\ UNCHANGED answers
     \/ "fdopen" \in Faults /\ Fail(w)
  /\ UNCHANGED <<given, block, descs, body, kids, pipes>>

-----------------------------------------------------------------------------
(* forward_body_data into the stdin pipe.                                  *)

SmallerOf(a, b) == IF a < b THEN a ELSE b
BufferedBody(w) == SmallerOf(req[w].buffered, req[w].len)

\* 411 and 417; nothing is read.
ForwardRefused(w) ==
  /\ pc[w] = "forward" /\ consumed[w] = 0
  /\ req[w].len = -1 \/ req[w].expect = "other"
  /\ Fail(w)
  /\ UNCHANGED <<given, block, descs, body, kids, pipes>>

\* A unit that came with the headers: push blocks while the pipe is full.  When
\* nobody can read the pipe it gives up, and its result is not looked at.
ForwardBuffered(w) ==
  /\ pc[w] = "forward"
  /\ req[w].len # -1 /\ req[w].expect # "other"
  /\ consumed[w] < BufferedBody(w)
  /\ IF Open(w, "in_r")
     THEN /\ inpipe[w] < Cap
          /\ inpipe' = [inpipe EXCEPT ![w] = @ + 1]
          /\ consumed' = [consumed EXCEPT ![w] = @ + 1]
     ELSE /\ consumed' = [consumed EXCEPT ![w] = BufferedBody(w)]
          /\ UNCHANGED inpipe
  /\ UNCHANGED <<given, block, pc, descs, got, answers, kids, outpipe>>

\* The rest of the body: pull a unit from the client ...
ForwardPull(w) ==
  /\ pc[w] = "forward"
  /\ req[w].len # -1 /\ req[w].expect # "other"
  /\ BufferedBody(w) <= consumed[w] /\ consumed[w] < req[w].len
  /\ \/ ~stop_flag /\ Goto(w, "push") /\ UNCHANGED answers
     \/ (stop_flag \/ "client" \in Faults) /\ Fail(w)
  /\ UNCHANGED <<given, block, descs, body, kids, pipes>>

\* Mutant: the error is sent, the request goes on.
ForwardPushGoesOn(w) ==
  /\ pc[w] = "push"
  /\ \/ /\ Open(w, "in_r") /\ inpipe[w] < Cap
        /\ inpipe' = [inpipe EXCEPT ![w] = @ + 1]
        /\ consumed' = [consumed EXCEPT ![w] = @ + 1]
        /\ Goto(w, "forward")
        /\ UNCHANGED answers
     \/ /\ ~Open(w, "in_r")
        /\ answers' = [answers EXCEPT ![w] = @ + 1]
        /\ Goto(w, "close_in")
        /\ UNCHANGED <<inpipe, consumed>>
  /\ UNCHANGED <<given, block, descs, got, kids, outpipe>>

\* ... and push it.
ForwardPush(w) ==
  /\ pc[w] = "push"
  /\ IF Open(w, "in_r")
     THEN /\ inpipe[w] < Cap
          /\ inpipe' = [inpipe EXCEPT ![w] = @ + 1]
          /\ consumed' = [consumed EXCEPT ![w] = @ + 1]
          /\ Goto(w, "forward")
          /\ UNCHANGED answers
     ELSE Fail(w) /\ UNCHANGED <<inpipe, consumed>>
  /\ UNCHANGED <<given, block, descs, got, kids, outpipe>>

ForwardEnd(w) ==
  /\ pc[w] = "forward"
  /\ req[w].expect # "other" /\ consumed[w] = req[w].len
  /\ Goto(w, "close_in")
  /\ UNCHANGED <<given, block, descs, body, answers, kids, pipes>>

-----------------------------------------------------------------------------
(* The answer.                                                             *)

\* "Close so child gets an EOF."
CloseIn(w) ==
  /\ pc[w] = "close_in"
  /\ CloseEnds(w, {"in_w"})
  /\ Goto(w, "read")
  /\ UNCHANGED <<given, block, body, answers, kids, pipes>>

\* One pull of read_request: what the pipe holds and the buffer takes.
ReadHeaders(w) ==
  /\ pc[w] = "read" /\ got[w].len < BufSize /\ ~got[w].hdr
  /\ LET k == SmallerOf(Len(outpipe[w]), BufSize - got[w].len) IN
     \/ /\ k > 0
        /\ outpipe' = [outpipe EXCEPT ![w] = SubSeq(@, k + 1, Len(@))]
        /\ IF stop_flag THEN Fail(w) /\ UNCHANGED got
           ELSE /\ got' = [got EXCEPT ![w] = [len |-> @.len + k,
                      hdr |-> \E j \in 1 .. k : outpipe[w][j] = "hdr"]]
                /\ UNCHANGED <<pc, answers>>
     \/ /\ k = 0 /\ ~Open(w, "out_w")
        /\ Fail(w)
        /\ UNCHANGED <<outpipe, got>>
  /\ UNCHANGED <<given, block, descs, consumed, kids, inpipe>>

\* read_request returns: the status line, the headers and what follows them in
\* the buffer, or 500 when they do not fit.
SendHeaders(w) ==
  /\ pc[w] = "read"
  /\ got[w].len >= BufSize \/ got[w].hdr
  /\ IF got[w].hdr
     THEN /\ answers' = [answers EXCEPT ![w] = @ + 1]
          /\ Goto(w, "copy")
     ELSE Fail(w)
  /\ UNCHANGED <<given, block, descs, body, kids, pipes>>

\* send_file_data(conn, &fout, 0, INT64_MAX): to the end of the output, or
\* until the client no longer takes it.
CopyOutput(w) ==
  /\ pc[w] = "copy"
  /\ \/ /\ outpipe[w] # << >>
        /\ outpipe' = [outpipe EXCEPT ![w] = Tail(@)]
        /\ pc' = pc \/ ("client" \in Faults /\ Goto(w, "kill"))
     \/ /\ outpipe[w] = << >> /\ ~Open(w, "out_w")
        /\ Goto(w, "kill")
        /\ UNCHANGED outpipe
  /\ UNCHANGED <<given, block, descs, body, answers, kids, inpipe>>

\* Mutant: fd_stdin[0] is taken to be closed already.
DoneLeaky(w) ==
  /\ pc[w] = "kill"
  /\ child' = [child EXCEPT ![w] = IF @ = "run" THEN "dead" ELSE @]
  /\ inherited' = [inherited EXCEPT ![w] = {}]
  /\ CloseEnds(w, Ends \ {"in_r"})
  /\ Goto(w, "end")
  /\ UNCHANGED <<given, block, body, answers, cpc, pipes>>

\* done: kill the child, close what is not marked closed.
Done(w) ==
  /\ pc[w] = "kill"
  /\ IF child[w] = "run"
     THEN /\ child' = [child EXCEPT ![w] = "dead"]
          /\ inherited' = [inherited EXCEPT ![w] = {}]
     ELSE UNCHANGED <<child, inherited>>
  /\ CloseEnds(w, Ends)
  /\ Goto(w, "end")
  /\ UNCHANGED <<given, block, body, answers, cpc, pipes>>

-----------------------------------------------------------------------------
(* The program, and mg_stop.                                               *)

Running(w) == child[w] = "run" /\ cpc[w] <= Len(req[w].prog)
Op(w)      == req[w].prog[cpc[w]]
Advance(w) == cpc' = [cpc EXCEPT ![w] = @ + 1]

\* A read blocks while the pipe is empty and somebody may still write to it.
ChildRead(w) ==
  /\ Running(w) /\ Op(w) \in {"read", "eof"}
  /\ IF inpipe[w] > 0
     THEN /\ inpipe' = [inpipe EXCEPT ![w] = @ - 1]
          /\ IF Op(w) = "read" THEN Advance(w) ELSE UNCHANGED cpc
     ELSE /\ ~Open(w, "in_w")
          /\ Advance(w) /\ UNCHANGED inpipe
  /\ UNCHANGED <<given, block, pc, descs, body, answers, child, inherited,
                 outpipe>>

\* A write blocks while the pipe is full; the child itself has the read end
\* open, so it is never broken.
ChildWrite(w) ==
  /\ Running(w) /\ Op(w) \in {"hdr", "out"}
  /\ Len(outpipe[w]) < Cap
  /\ outpipe' = [outpipe EXCEPT ![w] = Append(@, Op(w))]
  /\ Advance(w)
  /\ UNCHANGED <<given, block, pc, descs, body, answers, child, inherited,
                 inpipe>>

ChildExit(w) ==
  /\ child[w] = "run" /\ cpc[w] > Len(req[w].prog)
  /\ child' = [child EXCEPT ![w] = "dead"]
  /\ inherited' = [inherited EXCEPT ![w] = {}]
  /\ UNCHANGED <<given, block, pc, descs, body, answers, cpc, pipes>>

Stop ==
  /\ "stop" \in Faults /\ ~stop_flag
  /\ stop_flag' = TRUE
  /\ UNCHANGED <<req, block, pc, descs, body, answers, kids, pipes>>

WorkerStep(w) ==
  \/ AddVar(w) \/ EndVars(w)
  \/ PipeIn(w) \/ PipeOut(w) \/ Fork(w) \/ Spawned(w) \/ Fdopen(w)
  \/ ForwardRefused(w) \/ ForwardBuffered(w) \/ ForwardPull(w)
  \/ ForwardPush(w) \/ ForwardEnd(w)
  \/ CloseIn(w) \/ ReadHeaders(w) \/ SendHeaders(w) \/ CopyOutput(w)
  \/ Done(w)
ChildStep(w) == ChildRead(w) \/ ChildWrite(w) \/ ChildExit(w)

Next == Stop \/ \E w \in Workers : WorkerStep(w) \/ ChildStep(w)
Spec == Init /\ [][Next]_vars

\* Threads and programs that can go on do.
Fairness == \A w \in Workers : WF_vars(WorkerStep(w)) /\ WF_vars(ChildStep(w))
FairSpec == Spec /\ Fairness

-----------------------------------------------------------------------------
(* Properties.                                                             *)

Labels == {"env", "pipe_in", "pipe_out", "fork", "spawned", "fdopen",
           "forward", "push", "close_in", "read", "copy", "kill", "end"}

\* The assertions of addenv and prepare_cgi_environment: there is never less
\* than no space, and both terminators fit.
EnvAsserts ==
  \A w \in Workers :
    IF pc[w] = "env" THEN Space(blk[w]) >= 0
    ELSE blk[w].nvars < MaxVars /\ 0 < blk[w].len /\ blk[w].len < EnvSize

\* A number a worker has not marked closed in fd_stdin and fd_stdout still
\* names its own pipe end: what done: closes is never a descriptor that was
\* closed before and has since been given to another thread.
OwnDescriptors ==
  \A w \in Workers, e \in Ends :
    fds[w][e] # Closed => table[fds[w][e]] = <<w, e>>

\* Whatever way handle_cgi_request is left, the pipes it made are closed in the
\* server and the program it started is gone, and with it what that inherited.
NothingLeaks ==
  \A w \in Workers : pc[w] = "end" =>
    /\ \A k \in Numbers : table[k] = Free \/ table[k][1] # w
    /\ child[w] # "run" /\ inherited[w] = {}

\* Every request is answered, and one whose program was started exactly once:
\* no error follows a status line that was already sent.
AnsweredOnce ==
  \A w \in Workers :
    /\ pc[w] = "end" => answers[w] >= 1
    /\ child[w] # "none" => answers[w] <= 1

\* A program the scheme is sound for: it does not wait for the end of its
\* input, reads no more than the body, and does not fill its output pipe while
\* more of the body is left than the input pipe holds.
Polite(s) ==
  LET size == IF s.post /\ s.len > 0 THEN s.len ELSE 0
      Reads(j)  == Cardinality({i \in 1 .. j : s.prog[i] = "read"})
      Writes(j) == j - Reads(j)
  IN /\ \A i \in DOMAIN s.prog : s.prog[i] # "eof"
     /\ Reads(Len(s.prog)) <= size
     /\ \A j \in DOMAIN s.prog : Writes(j) > Cap => size - Reads(j) <= Cap

\* With such programs every request ends, whatever descriptors the children of
\* the other workers happen to have inherited, and whatever fails.
PoliteEnds ==
  (\A w \in Workers : Polite(req[w])) => <>(\A w \in Workers : pc[w] = "end")

\* The comment at CloseIn: once the worker has closed the write end, a program
\* that reads to the end of its input comes to it.
ChildGetsEof ==
  \A w \in Workers :
    (pc[w] = "read" /\ Running(w)) ~> (~Running(w) \/ Op(w) # "eof")

=============================================================================
