----------------------------- MODULE Cgi_proofs -----------------------------
(***************************************************************************)
(* What the runs check of Cgi, for any number of workers, requests,        *)
(* programs, descriptors and sizes: EnvAsserts, OwnDescriptors,            *)
(* NothingLeaks and AnsweredOnce.  Three invariants, each inductive by     *)
(* itself, carry them: EnvInv, FdInv and KidsInv.                          *)
(***************************************************************************)
EXTENDS Cgi, FiniteSetTheorems, WellFoundedInduction, TLAPS

\* The number pipe() picks is one of those it picks from.
LEMMA LowestIn ==
  ASSUME NEW S, S \subseteq Nat, S # {}
  PROVE  Lowest(S) \in S
<1> DEFINE R == {ss \in Nat \X Nat : ss[1] < ss[2]}
<1>1. IsWellFoundedOn(R, Nat)
  BY NatLessThanWellFounded DEF OpToRel
<1>2. \E x \in S : \A y \in S : <<y, x>> \notin R
  <2> HIDE DEF R
  <2> QED BY <1>1, WFMin
<1>3. \E x \in S : \A y \in S : x <= y
  <2>1. PICK x \in S : \A y \in S : <<y, x>> \notin R
    BY <1>2
  <2>2. ASSUME NEW y \in S PROVE x <= y
    <3>1. <<y, x>> \in Nat \X Nat /\ <<y, x>>[1] = y /\ <<y, x>>[2] = x
      OBVIOUS
    <3>2. ~(y < x)
      BY <2>1, <3>1
    <3> QED BY <3>2
  <2> QED BY <2>2
<1> QED BY <1>3 DEF Lowest

\* When pipe() does not fail, it picks two different free numbers.
LEMMA TwoFree ==
  ASSUME ~(Cardinality(FreeNumbers) < 2)
  PROVE  LET a == Lowest(FreeNumbers)
             b == Lowest(FreeNumbers \ {a})
         IN a \in FreeNumbers /\ b \in FreeNumbers /\ a # b
<1> DEFINE a == Lowest(FreeNumbers)
<1>1. IsFiniteSet(FreeNumbers) /\ FreeNumbers \subseteq Nat
  <2>1. MaxFd - 1 \in Int /\ 0 \in Int
    BY CgiAssumption
  <2>2. IsFiniteSet(Numbers)
    BY <2>1, FS_Interval DEF Numbers
  <2>3. FreeNumbers \subseteq Numbers /\ Numbers \subseteq Nat
    BY CgiAssumption DEF FreeNumbers, Numbers
  <2> QED BY <2>2, <2>3, FS_Subset
<1>2. FreeNumbers # {}
  BY FS_EmptySet
<1>3. a \in FreeNumbers
  BY <1>1, <1>2, LowestIn
<1>4. FreeNumbers \ {a} # {}
  <2>1. SUFFICES ASSUME FreeNumbers = {a} PROVE FALSE
    BY <1>3
  <2>2. Cardinality({a}) = 1
    BY FS_Singleton
  <2> QED BY <2>1, <2>2
<1>5. Lowest(FreeNumbers \ {a}) \in FreeNumbers \ {a}
  BY <1>1, <1>4, LowestIn
<1> QED BY <1>3, <1>5

-----------------------------------------------------------------------------
(* The environment block.                                                  *)

EnvShape ==
  /\ req \in [Workers -> Scenarios] /\ pc \in [Workers -> Labels]
  /\ blk \in [Workers -> Blocks] /\ next_var \in [Workers -> Nat]

EnvInv ==
  /\ EnvShape
  /\ \A w \in Workers :
       IF pc[w] = "env"
       THEN blk[w].len <= EnvSize - 2 /\ blk[w].nvars <= MaxVars - 2
       ELSE blk[w].nvars < MaxVars /\ 0 < blk[w].len /\ blk[w].len < EnvSize

\* addenv leaves room for both terminators.
LEMMA AddEnvFits ==
  ASSUME NEW b \in Blocks, NEW n \in Nat,
         b.len <= EnvSize - 2, b.nvars <= MaxVars - 2
  PROVE  /\ AddEnv(b, n) \in Blocks
         /\ AddEnv(b, n).len <= EnvSize - 2
         /\ AddEnv(b, n).nvars <= MaxVars - 2
<1> DEFINE m == Vsnprintf(n, Space(b))
<1>1. Space(b) \in Nat /\ Space(b) = EnvSize - b.len - 2
  BY EnvAssumption DEF Space, Blocks
<1>2. m \in Nat
  <2>1. ASSUME NEW s \in Nat PROVE Vsnprintf(n, s) \in Nat
    BY DEF Vsnprintf
  <2> QED BY <1>1, <2>1
<1>3. CASE m > 0 /\ m + 1 < Space(b) /\ b.nvars < MaxVars - 2
  <2>1. AddEnv(b, n) = [len |-> b.len + m + 1, nvars |-> b.nvars + 1]
    BY <1>3 DEF AddEnv
  <2> HIDE DEF m
  <2> QED BY <1>1, <1>2, <1>3, <2>1, EnvAssumption DEF Blocks
<1>4. CASE ~(m > 0 /\ m + 1 < Space(b) /\ b.nvars < MaxVars - 2)
  <2>1. AddEnv(b, n) = b
    BY <1>4 DEF AddEnv
  <2> QED BY <2>1
<1> QED BY <1>3, <1>4

\* What the steps after the block do: they leave it alone and never go back.
Later(w) ==
  /\ UNCHANGED <<req, blk, next_var>>
  /\ \/ pc' = pc
     \/ pc[w] # "env" /\ \E l \in Labels \ {"env"} : Goto(w, l)

\* Every step of a worker or a program but AddVar and EndVars is such a step.
LEMMA LaterSteps ==
  ASSUME EnvShape, NEW w \in Workers,
         WorkerStep(w) \/ ChildStep(w), ~AddVar(w), ~EndVars(w)
  PROVE  Later(w)
<1> USE DEF Later, Labels, given, block
<1>1. CASE PipeIn(w)
  BY <1>1 DEF PipeIn, Pipe, Fail, Goto
<1>2. CASE PipeOut(w)
  BY <1>2 DEF PipeOut, Pipe, Fail, Goto
<1>3. CASE Fork(w)
  BY <1>3 DEF Fork, Goto
<1>4. CASE Spawned(w)
  BY <1>4 DEF Spawned, Fail, Goto
<1>5. CASE Fdopen(w)
  BY <1>5 DEF Fdopen, Fail, Goto
<1>6. CASE ForwardRefused(w)
  BY <1>6 DEF ForwardRefused, Fail, Goto
<1>7. CASE ForwardBuffered(w)
  BY <1>7 DEF ForwardBuffered
<1>8. CASE ForwardPull(w)
  BY <1>8 DEF ForwardPull, Fail, Goto
<1>9. CASE ForwardPush(w)
  BY <1>9 DEF ForwardPush, Fail, Goto
<1>10. CASE ForwardEnd(w)
  BY <1>10 DEF ForwardEnd, Goto
<1>11. CASE CloseIn(w)
  BY <1>11 DEF CloseIn, Goto
<1>12. CASE ReadHeaders(w)
  BY <1>12 DEF ReadHeaders, Fail, Goto
<1>13. CASE SendHeaders(w)
  BY <1>13 DEF SendHeaders, Fail, Goto
<1>14. CASE CopyOutput(w)
  BY <1>14 DEF CopyOutput, Goto
<1>15. CASE Done(w)
  BY <1>15 DEF Done, Goto
<1>16. CASE ChildRead(w)
  BY <1>16 DEF ChildRead
<1>17. CASE ChildWrite(w)
  BY <1>17 DEF ChildWrite
<1>18. CASE ChildExit(w)
  BY <1>18 DEF ChildExit
<1> QED BY <1>1, <1>2, <1>3, <1>4, <1>5, <1>6, <1>7, <1>8, <1>9, <1>10,
           <1>11, <1>12, <1>13, <1>14, <1>15, <1>16, <1>17, <1>18
           DEF WorkerStep, ChildStep

\* addenv and prepare_cgi_environment keep the room the terminators need.
LEMMA EnvStep == EnvInv /\ [Next]_vars => EnvInv'
<1> SUFFICES ASSUME EnvInv, [Next]_vars PROVE EnvInv'
  OBVIOUS
<1> USE DEF EnvInv, EnvShape
<1>1. CASE UNCHANGED vars \/ Stop
  BY <1>1 DEF vars, given, block, Stop
<1>2. ASSUME NEW w \in Workers, AddVar(w) PROVE EnvInv'
  <2>1. /\ pc' = pc /\ req' = req /\ pc[w] = "env"
        /\ blk' = [blk EXCEPT ![w] = AddEnv(blk[w], req[w].env[next_var[w] + 1])]
        /\ next_var' = [next_var EXCEPT ![w] = next_var[w] + 1]
    BY <1>2 DEF AddVar, given
  <2>2. req[w].env[next_var[w] + 1] \in Nat
    <3>1. req[w] \in Scenario
      BY CgiAssumption
    <3>2. req[w].env \in Seq(Nat)
      BY <3>1 DEF Scenario
    <3>3. next_var[w] + 1 \in 1 .. Len(req[w].env)
      BY <1>2, <3>2 DEF AddVar
    <3> QED BY <3>2, <3>3
  <2>3. /\ AddEnv(blk[w], req[w].env[next_var[w] + 1]) \in Blocks
        /\ AddEnv(blk[w], req[w].env[next_var[w] + 1]).len <= EnvSize - 2
        /\ AddEnv(blk[w], req[w].env[next_var[w] + 1]).nvars <= MaxVars - 2
    BY <2>1, <2>2, AddEnvFits
  <2> QED BY <2>1, <2>3
<1>3. ASSUME NEW w \in Workers, EndVars(w) PROVE EnvInv'
  <2>1. /\ pc[w] = "env" /\ pc' = [pc EXCEPT ![w] = "pipe_in"]
        /\ blk' = [blk EXCEPT ![w] = [len |-> blk[w].len + 1,
                                      nvars |-> blk[w].nvars + 1]]
        /\ req' = req /\ next_var' = next_var
    BY <1>3 DEF EndVars, EndEnv, Goto, given
  <2> QED BY <2>1, EnvAssumption DEF Labels, Blocks
<1>4. ASSUME NEW w \in Workers, WorkerStep(w) \/ ChildStep(w),
             ~AddVar(w), ~EndVars(w)
      PROVE  EnvInv'
  <2>1. Later(w)
    BY <1>4, LaterSteps
  <2> QED BY <2>1 DEF Later, Goto
<1> QED BY <1>1, <1>2, <1>3, <1>4 DEF Next

\* The assertions of addenv and prepare_cgi_environment never fail: whatever
\* strings the request, its headers and the options give, and whatever the sizes
\* of the block and of the table of pointers, both terminators fit.
THEOREM EnvironmentFits == Spec => []EnvAsserts
<1>1. Init => EnvInv
  BY EnvAssumption DEF Init, EnvInv, EnvShape, Labels, Blocks, NewBlock
<1>2. EnvInv => EnvAsserts
  BY EnvAssumption DEF EnvInv, EnvShape, EnvAsserts, Space, Blocks
<1> QED BY <1>1, <1>2, EnvStep, PTL DEF Spec

-----------------------------------------------------------------------------
(* The descriptors.  OwnDescriptors alone is not inductive: pipe() must    *)
(* not overwrite a number that is still open, and what is in the table     *)
(* must be known to somebody, or done: could not close it.                 *)

FdShape ==
  /\ pc \in [Workers -> Labels]
  /\ table \in [Numbers -> {Free} \cup (Workers \X Ends)]
  /\ fds \in [Workers -> [Ends -> {Closed} \cup Numbers]]

\* Every descriptor in the table is marked open in its worker's variables.
Known ==
  \A k \in Numbers : \A w \in Workers, e \in Ends :
    table[k] = <<w, e>> => fds[w][e] = k

\* The ends a worker cannot have open where it is.
NotOpen(l) ==
  IF l \in {"env", "pipe_in", "end"} THEN Ends
  ELSE IF l = "pipe_out" THEN {"out_r", "out_w"} ELSE {}

Marked == \A w \in Workers : \A e \in NotOpen(pc[w]) : fds[w][e] = Closed

FdInv == FdShape /\ OwnDescriptors /\ Known /\ Marked

\* -1 marks a closed descriptor and is no descriptor.
LEMMA NumbersFacts == Numbers \subseteq Nat /\ Closed \notin Numbers
  BY CgiAssumption DEF Numbers, Closed

\* close(), by number, takes from the table what the worker has there, no more.
LEMMA ClosingKeeps ==
  ASSUME FdInv, NEW w \in Workers, NEW E \in SUBSET Ends, CloseEnds(w, E)
  PROVE  /\ table' \in [Numbers -> {Free} \cup (Workers \X Ends)]
         /\ fds' \in [Workers -> [Ends -> {Closed} \cup Numbers]]
         /\ OwnDescriptors' /\ Known'
         /\ \A v \in Workers, e \in Ends :
              fds'[v][e] = IF v = w /\ e \in E THEN Closed ELSE fds[v][e]
<1> DEFINE nums == {fds[w][e] : e \in E} \ {Closed}
<1>1. /\ table' = [k \in Numbers |-> IF k \in nums THEN Free ELSE table[k]]
      /\ fds' = [fds EXCEPT ![w] = [e \in Ends |->
                   IF e \in E THEN Closed ELSE fds[w][e]]]
  BY DEF CloseEnds
<1>2. /\ table' \in [Numbers -> {Free} \cup (Workers \X Ends)]
      /\ fds' \in [Workers -> [Ends -> {Closed} \cup Numbers]]
  BY <1>1 DEF FdInv, FdShape
<1>3. \A v \in Workers, e \in Ends :
        fds'[v][e] = IF v = w /\ e \in E THEN Closed ELSE fds[v][e]
  BY <1>1 DEF FdInv, FdShape
<1>4. ASSUME NEW v \in Workers, NEW e \in Ends, fds'[v][e] # Closed
      PROVE  table'[fds'[v][e]] = <<v, e>>
  <2>1. fds'[v][e] = fds[v][e] /\ ~(v = w /\ e \in E)
    BY <1>3, <1>4
  <2>2. fds[v][e] \in Numbers /\ table[fds[v][e]] = <<v, e>>
    BY <1>4, <2>1 DEF FdInv, FdShape, OwnDescriptors
  <2>3. fds[v][e] \notin nums
    <3>1. SUFFICES ASSUME NEW d \in E, fds[v][e] = fds[w][d]
                   PROVE  FALSE
      BY DEF nums
    <3>2. table[fds[w][d]] = <<w, d>>
      BY <1>4, <2>1, <3>1 DEF FdInv, OwnDescriptors
    <3> QED BY <2>1, <2>2, <3>1, <3>2
  <2> QED BY <1>1, <2>1, <2>2, <2>3
<1>5. ASSUME NEW k \in Numbers, NEW v \in Workers, NEW e \in Ends,
             table'[k] = <<v, e>>
      PROVE  fds'[v][e] = k
  <2>1. k \notin nums /\ table[k] = <<v, e>>
    BY <1>1, <1>5 DEF Free
  <2>2. fds[v][e] = k
    BY <2>1 DEF FdInv, Known
  <2>3. ~(v = w /\ e \in E)
    BY <2>1, <2>2, NumbersFacts
  <2> QED BY <1>3, <2>2, <2>3
<1> QED BY <1>2, <1>3, <1>4, <1>5 DEF OwnDescriptors, Known

\* pipe() takes numbers nobody has; a failure changes nothing.
LEMMA PipeKeeps ==
  ASSUME FdInv, NEW w \in Workers, NEW r \in Ends, NEW wr \in Ends, r # wr,
         fds[w][r] = Closed, fds[w][wr] = Closed,
         NEW l, Pipe(w, r, wr, l)
  PROVE  /\ table' \in [Numbers -> {Free} \cup (Workers \X Ends)]
         /\ fds' \in [Workers -> [Ends -> {Closed} \cup Numbers]]
         /\ OwnDescriptors' /\ Known'
         /\ \A v \in Workers, e \in Ends :
              ~(v = w /\ e \in {r, wr}) => fds'[v][e] = fds[v][e]
         /\ Goto(w, "kill") \/ Goto(w, l)
<1> DEFINE a == Lowest(FreeNumbers)
           b == Lowest(FreeNumbers \ {a})
<1>1. CASE Cardinality(FreeNumbers) < 2
  <2>1. UNCHANGED <<table, fds>> /\ Goto(w, "kill")
    BY <1>1 DEF Pipe, Fail
  <2> QED BY <2>1 DEF FdInv, FdShape, OwnDescriptors, Known
<1>2. CASE ~(Cardinality(FreeNumbers) < 2)
  <2>1. a \in FreeNumbers /\ b \in FreeNumbers /\ a # b
    BY <1>2, TwoFree
  <2>2. /\ table' = [table EXCEPT ![a] = <<w, r>>, ![b] = <<w, wr>>]
        /\ fds' = [fds EXCEPT ![w][r] = a, ![w][wr] = b]
        /\ Goto(w, l)
    BY <1>2 DEF Pipe
  <2> HIDE DEF a, b
  <2>3. /\ a \in Numbers /\ table[a] = Free
        /\ b \in Numbers /\ table[b] = Free
    BY <2>1 DEF FreeNumbers
  <2>4. /\ table' \in [Numbers -> {Free} \cup (Workers \X Ends)]
        /\ \A k \in Numbers : table'[k] = IF k = a THEN <<w, r>>
                                          ELSE IF k = b THEN <<w, wr>> ELSE table[k]
    BY <2>1, <2>2, <2>3 DEF FdInv, FdShape
  <2>5. /\ fds' \in [Workers -> [Ends -> {Closed} \cup Numbers]]
        /\ \A v \in Workers, e \in Ends :
             fds'[v][e] = IF v = w /\ e = r THEN a
                          ELSE IF v = w /\ e = wr THEN b ELSE fds[v][e]
    BY <2>2, <2>3 DEF FdInv, FdShape
  <2>6. ASSUME NEW v \in Workers, NEW e \in Ends, fds'[v][e] # Closed
        PROVE  table'[fds'[v][e]] = <<v, e>>
    <3>1. CASE v = w /\ e \in {r, wr}
      BY <2>1, <2>3, <2>4, <2>5, <3>1
    <3>2. CASE ~(v = w /\ e \in {r, wr})
      <4>1. fds'[v][e] = fds[v][e]
        BY <2>5, <3>2
      <4>2. fds[v][e] \in Numbers /\ table[fds[v][e]] = <<v, e>>
        BY <2>6, <4>1 DEF FdInv, FdShape, OwnDescriptors
      <4>3. fds[v][e] # a /\ fds[v][e] # b
        <5>1. <<v, e>> # Free
          BY DEF Free
        <5> QED BY <2>3, <4>2, <5>1
      <4> QED BY <2>4, <4>1, <4>2, <4>3
    <3> QED BY <3>1, <3>2
  <2>7. ASSUME NEW k \in Numbers, NEW v \in Workers, NEW e \in Ends,
               table'[k] = <<v, e>>
        PROVE  fds'[v][e] = k
    <3>1. CASE k = a
      BY <2>4, <2>5, <2>7, <3>1
    <3>2. CASE k # a /\ k = b
      BY <2>4, <2>5, <2>7, <3>2
    <3>3. CASE k # a /\ k # b
      <4>1. fds[v][e] = k
        BY <2>4, <2>7, <3>3 DEF FdInv, Known
      <4>2. ~(v = w /\ e \in {r, wr})
        BY <4>1, NumbersFacts
      <4> QED BY <2>5, <4>1, <4>2
    <3> QED BY <3>1, <3>2, <3>3
  <2>8. OwnDescriptors' /\ Known'
    BY <2>6, <2>7 DEF OwnDescriptors, Known
  <2>9. \A v \in Workers, e \in Ends :
          ~(v = w /\ e \in {r, wr}) => fds'[v][e] = fds[v][e]
    BY <2>5
  <2> QED BY <2>2, <2>4, <2>5, <2>8, <2>9
<1> QED BY <1>1, <1>2

\* Steps that open and close nothing.
Idles(w) ==
  /\ UNCHANGED descs
  /\ \/ pc' = pc
     \/ \E l \in Labels \ {"env", "pipe_out", "end"} :
          Goto(w, l) /\ (l = "pipe_in" => pc[w] = "env")

\* Every step but the two pipe() calls and the three groups of close() calls.
LEMMA IdleSteps ==
  ASSUME NEW w \in Workers, WorkerStep(w) \/ ChildStep(w),
         ~PipeIn(w), ~PipeOut(w), ~Spawned(w), ~CloseIn(w), ~Done(w)
  PROVE  Idles(w)
<1> USE DEF Idles, Labels, descs
<1>1. CASE AddVar(w)
  BY <1>1 DEF AddVar
<1>2. CASE EndVars(w)
  BY <1>2 DEF EndVars, Goto
<1>3. CASE Fork(w)
  <2>1. UNCHANGED descs /\ Goto(w, "spawned")
    BY <1>3 DEF Fork
  <2> QED BY <2>1
<1>5. CASE Fdopen(w)
  BY <1>5 DEF Fdopen, Fail, Goto
<1>6. CASE ForwardRefused(w)
  <2>1. UNCHANGED descs /\ Goto(w, "kill")
    BY <1>6 DEF ForwardRefused, Fail
  <2> QED BY <2>1
<1>7. CASE ForwardBuffered(w)
  BY <1>7 DEF ForwardBuffered
<1>8. CASE ForwardPull(w)
  BY <1>8 DEF ForwardPull, Fail, Goto
<1>9. CASE ForwardPush(w)
  BY <1>9 DEF ForwardPush, Fail, Goto
<1>10. CASE ForwardEnd(w)
  <2>1. UNCHANGED descs /\ Goto(w, "close_in")
    BY <1>10 DEF ForwardEnd
  <2> QED BY <2>1
<1>12. CASE ReadHeaders(w)
  BY <1>12 DEF ReadHeaders, Fail, Goto
<1>13. CASE SendHeaders(w)
  BY <1>13 DEF SendHeaders, Fail, Goto
<1>14. CASE CopyOutput(w)
  BY <1>14 DEF CopyOutput, Goto
<1>16. CASE ChildRead(w)
  BY <1>16 DEF ChildRead
<1>17. CASE ChildWrite(w)
  BY <1>17, SMTT(30) DEF ChildWrite
<1>18. CASE ChildExit(w)
  BY <1>18 DEF ChildExit
<1> QED BY <1>1, <1>2, <1>3, <1>5, <1>6, <1>7, <1>8, <1>9, <1>10,
           <1>12, <1>13, <1>14, <1>16, <1>17, <1>18, SMTT(30)
           DEF WorkerStep, ChildStep

\* Every step keeps the table and the workers' variables in agreement.
LEMMA FdStep == FdInv /\ [Next]_vars => FdInv'
<1> SUFFICES ASSUME FdInv, [Next]_vars PROVE FdInv'
  OBVIOUS
<1>a. /\ pc \in [Workers -> Labels]
      /\ \A w \in Workers : \A e \in NotOpen(pc[w]) : fds[w][e] = Closed
  BY DEF FdInv, FdShape, Marked
<1>1. CASE UNCHANGED vars \/ Stop
  <2>1. UNCHANGED <<pc, table, fds>>
    BY <1>1 DEF vars, descs, Stop
  <2> QED BY <2>1 DEF FdInv, FdShape, OwnDescriptors, Known, Marked
<1>2. ASSUME NEW w \in Workers, PipeIn(w) PROVE FdInv'
  <2>1. pc[w] = "pipe_in" /\ Pipe(w, "in_r", "in_w", "pipe_out")
    BY <1>2 DEF PipeIn
  <2>2. \A e \in Ends : fds[w][e] = Closed
    BY <1>a, <2>1 DEF NotOpen
  <2>3. /\ table' \in [Numbers -> {Free} \cup (Workers \X Ends)]
        /\ fds' \in [Workers -> [Ends -> {Closed} \cup Numbers]]
        /\ OwnDescriptors' /\ Known'
        /\ \A v \in Workers, e \in Ends :
             ~(v = w /\ e \in {"in_r", "in_w"}) => fds'[v][e] = fds[v][e]
        /\ Goto(w, "kill") \/ Goto(w, "pipe_out")
    BY <2>1, <2>2, PipeKeeps DEF Ends
  <2>4. Marked'
    BY <1>a, <2>2, <2>3 DEF Marked, NotOpen, Goto, Ends
  <2> QED BY <1>a, <2>3, <2>4 DEF FdInv, FdShape, Goto, Labels
<1>3. ASSUME NEW w \in Workers, PipeOut(w) PROVE FdInv'
  <2>1. pc[w] = "pipe_out" /\ Pipe(w, "out_r", "out_w", "fork")
    BY <1>3 DEF PipeOut
  <2>2. fds[w]["out_r"] = Closed /\ fds[w]["out_w"] = Closed
    BY <1>a, <2>1 DEF NotOpen
  <2>3. /\ table' \in [Numbers -> {Free} \cup (Workers \X Ends)]
        /\ fds' \in [Workers -> [Ends -> {Closed} \cup Numbers]]
        /\ OwnDescriptors' /\ Known'
        /\ \A v \in Workers, e \in Ends :
             ~(v = w /\ e \in {"out_r", "out_w"}) => fds'[v][e] = fds[v][e]
        /\ Goto(w, "kill") \/ Goto(w, "fork")
    BY <2>1, <2>2, PipeKeeps DEF Ends
  <2>4. Marked'
    BY <1>a, <2>3 DEF Marked, NotOpen, Goto, Ends
  <2> QED BY <1>a, <2>3, <2>4 DEF FdInv, FdShape, Goto, Labels
<1>4. ASSUME NEW w \in Workers, Spawned(w) \/ CloseIn(w) \/ Done(w)
      PROVE  FdInv'
  <2>1. PICK E \in SUBSET Ends, l \in Labels \ {"env", "pipe_in", "pipe_out"} :
          /\ CloseEnds(w, E) /\ Goto(w, l)
          /\ l = "end" => E = Ends
    <3>1. CASE Spawned(w)
      BY <3>1 DEF Spawned, Fail, Ends, Labels
    <3>2. CASE CloseIn(w)
      BY <3>2 DEF CloseIn, Ends, Labels
    <3>3. CASE Done(w)
      BY <3>3 DEF Done, Labels
    <3> QED BY <1>4, <3>1, <3>2, <3>3
  <2>2. /\ table' \in [Numbers -> {Free} \cup (Workers \X Ends)]
        /\ fds' \in [Workers -> [Ends -> {Closed} \cup Numbers]]
        /\ OwnDescriptors' /\ Known'
        /\ \A v \in Workers, e \in Ends :
             fds'[v][e] = IF v = w /\ e \in E THEN Closed ELSE fds[v][e]
    BY <2>1, ClosingKeeps
  <2>3. Marked'
    BY <1>a, <2>1, <2>2 DEF Marked, NotOpen, Goto, Ends
  <2> QED BY <1>a, <2>1, <2>2, <2>3 DEF FdInv, FdShape, Goto
<1>5. ASSUME NEW w \in Workers, WorkerStep(w) \/ ChildStep(w),
             ~PipeIn(w), ~PipeOut(w), ~Spawned(w), ~CloseIn(w), ~Done(w)
      PROVE  FdInv'
  <2>1. Idles(w)
    BY <1>5, IdleSteps
  <2>2. UNCHANGED <<table, fds>>
    BY <2>1 DEF Idles, descs
  <2>3. Marked'
    BY <1>a, <2>1, <2>2 DEF Idles, Marked, NotOpen, Goto, Ends
  <2> QED BY <1>a, <2>1, <2>2, <2>3
          DEF Idles, FdInv, FdShape, OwnDescriptors, Known, Goto
<1> QED BY <1>1, <1>2, <1>3, <1>4, <1>5 DEF Next

\* At first no descriptor is open.
LEMMA FdInit == Init => FdInv
  BY DEF Init, FdInv, FdShape, OwnDescriptors, Known, Marked, NotOpen, Free,
         Labels, Ends

\* What done: closes is the worker's own: for any number of workers and any
\* limit on descriptors, no thread closes a pipe end by a number that has been
\* closed before and given to another thread since.
THEOREM DescriptorsOwned == Spec => []OwnDescriptors
<1>1. FdInv => OwnDescriptors
  BY DEF FdInv
<1> QED BY <1>1, FdInit, FdStep, PTL DEF Spec

-----------------------------------------------------------------------------
(* The program and the answers.                                            *)

\* Where a worker is, what has become of its program and how many status lines
\* it has sent.
Phase(l, c, n) ==
  \/ l \in {"env", "pipe_in", "pipe_out", "fork"} /\ c = "none" /\ n = 0
  \/ l = "spawned" /\ n = IF c = "none" THEN 1 ELSE 0
  \/ l \in {"fdopen", "forward", "push", "close_in", "read"}
       /\ c # "none" /\ n = 0
  \/ l = "copy" /\ c # "none" /\ n = 1
  \/ l = "kill" /\ n >= 1 /\ (c # "none" => n = 1)
  \/ l = "end" /\ c # "run" /\ n >= 1 /\ (c # "none" => n = 1)

KidsInv ==
  /\ pc \in [Workers -> Labels] /\ answers \in [Workers -> Nat]
  /\ child \in [Workers -> {"none", "run", "dead"}]
  /\ inherited = [w \in Workers |-> inherited[w]]
  /\ \A w \in Workers : child[w] # "run" => inherited[w] = {}
  /\ \A w \in Workers : Phase(pc[w], child[w], answers[w])

\* Steps that neither start nor end a program.
LEMMA PhaseMoves ==
  ASSUME KidsInv, NEW w \in Workers, UNCHANGED <<child, inherited>>,
         NEW l \in Labels, Goto(w, l), NEW n \in Nat,
         answers' = [answers EXCEPT ![w] = n], Phase(l, child[w], n)
  PROVE  KidsInv'
<1>1. pc' \in [Workers -> Labels] /\ answers' \in [Workers -> Nat]
  BY DEF KidsInv, Goto
<1>2. \A v \in Workers : /\ pc'[v] = IF v = w THEN l ELSE pc[v]
                         /\ answers'[v] = IF v = w THEN n ELSE answers[v]
  BY DEF KidsInv, Goto
<1>3. ASSUME NEW v \in Workers PROVE Phase(pc'[v], child[v], answers'[v])
  <2>1. Phase(pc[v], child[v], answers[v])
    BY DEF KidsInv
  <2> QED BY <1>2, <2>1
<1> QED BY <1>1, <1>3 DEF KidsInv

\* An error is sent where no answer has been, or where there is no program.
LEMMA FailMoves ==
  ASSUME KidsInv, NEW w \in Workers, UNCHANGED <<child, inherited>>, Fail(w),
         child[w] # "none" => answers[w] = 0
  PROVE  KidsInv'
<1>1. answers[w] \in Nat /\ child[w] \in {"none", "run", "dead"}
  BY DEF KidsInv
<1>2. Phase("kill", child[w], answers[w] + 1)
  BY <1>1 DEF Phase
<1>3. /\ answers[w] + 1 \in Nat /\ "kill" \in Labels /\ Goto(w, "kill")
      /\ answers' = [answers EXCEPT ![w] = answers[w] + 1]
  BY <1>1 DEF Fail, Labels
<1> QED BY <1>2, <1>3, PhaseMoves, Zenon

\* Steps on the block, the body and the pipes.
LEMMA StayMoves ==
  ASSUME KidsInv, UNCHANGED <<pc, answers, child, inherited>>
  PROVE  KidsInv'
  BY DEF KidsInv

\* The program's end: at done: or by itself.
LEMMA EndMoves ==
  ASSUME KidsInv, NEW w \in Workers, child[w] = "run", UNCHANGED answers,
         child' = [child EXCEPT ![w] = "dead"],
         inherited' = [inherited EXCEPT ![w] = {}],
         pc' = pc \/ (pc[w] = "kill" /\ Goto(w, "end"))
  PROVE  KidsInv'
<1>1. /\ pc' \in [Workers -> Labels]
      /\ child' \in [Workers -> {"none", "run", "dead"}]
      /\ inherited' = [v \in Workers |-> inherited'[v]]
  BY SMTT(30) DEF KidsInv, Goto, Labels
<1>2. ASSUME NEW v \in Workers
      PROVE  /\ child'[v] # "run" => inherited'[v] = {}
             /\ Phase(pc'[v], child'[v], answers'[v])
  <2>1. Phase(pc[v], child[v], answers[v]) /\ answers[v] \in Nat
    BY DEF KidsInv
  <2>2. CASE v = w
    <3>1. child'[v] = "dead" /\ inherited'[v] = {}
      BY <2>2 DEF KidsInv
    <3>2. pc'[v] = pc[v] \/ (pc[v] = "kill" /\ pc'[v] = "end")
      BY <2>2 DEF KidsInv, Goto
    <3> QED BY <2>1, <2>2, <3>1, <3>2 DEF Phase
  <2>3. CASE v # w
    <3>1. child'[v] = child[v] /\ inherited'[v] = inherited[v] /\ pc'[v] = pc[v]
      BY <2>3 DEF KidsInv, Goto
    <3> QED BY <2>1, <3>1 DEF KidsInv
  <2> QED BY <2>2, <2>3
<1> QED BY <1>1, <1>2 DEF KidsInv

\* Every step of handle_cgi_request keeps the phases.
LEMMA KidsWorker ==
  ASSUME KidsInv, NEW w \in Workers, WorkerStep(w)
  PROVE  KidsInv'
<1>a. /\ Phase(pc[w], child[w], answers[w])
      /\ pc[w] \in Labels /\ answers[w] \in Nat
      /\ child[w] \in {"none", "run", "dead"}
  BY DEF KidsInv
<1>b. ASSUME NEW l \in Labels, Goto(w, l), UNCHANGED <<answers, child, inherited>>,
             Phase(l, child[w], answers[w])
      PROVE  KidsInv'
  <2>1. answers' = [answers EXCEPT ![w] = answers[w]]
    BY <1>b DEF KidsInv
  <2> QED BY <1>a, <1>b, <2>1, PhaseMoves
<1>1. CASE AddVar(w)
  BY <1>1, StayMoves DEF AddVar, kids
<1>2. CASE EndVars(w)
  <2>1. /\ pc[w] = "env" /\ Goto(w, "pipe_in")
        /\ UNCHANGED <<answers, child, inherited>>
    BY <1>2 DEF EndVars, kids
  <2>2. "pipe_in" \in Labels /\ Phase("pipe_in", child[w], answers[w])
    BY <1>a, <2>1 DEF Phase, Labels
  <2> QED BY <1>b, <2>1, <2>2
<1>3. CASE PipeIn(w) \/ PipeOut(w)
  <2>1. PICK l \in {"pipe_out", "fork"} :
          /\ pc[w] \in {"pipe_in", "pipe_out"} /\ UNCHANGED <<child, inherited>>
          /\ Fail(w) \/ (Goto(w, l) /\ UNCHANGED answers)
    BY <1>3 DEF PipeIn, PipeOut, Pipe, kids
  <2>2. child[w] = "none" /\ Phase(l, child[w], answers[w]) /\ l \in Labels
    BY <1>a, <2>1 DEF Phase, Labels
  <2> QED BY <1>b, <2>1, <2>2, FailMoves
<1>4. CASE Fork(w)
  <2>1. /\ pc[w] = "fork" /\ Goto(w, "spawned")
        /\ \/ /\ child' = [child EXCEPT ![w] = "run"]
              /\ inherited' = [inherited EXCEPT
                    ![w] = {table[k] : k \in Numbers} \ {Free}]
              /\ UNCHANGED answers
           \/ /\ answers' = [answers EXCEPT ![w] = answers[w] + 1]
              /\ UNCHANGED <<child, inherited>>
    BY <1>4 DEF Fork
  <2>2. child[w] = "none" /\ answers[w] = 0
    BY <1>a, <2>1 DEF Phase
  <2>3. CASE /\ answers' = [answers EXCEPT ![w] = answers[w] + 1]
             /\ UNCHANGED <<child, inherited>>
    <3>1. Phase("spawned", child[w], answers[w] + 1) /\ "spawned" \in Labels
      BY <2>2 DEF Phase, Labels
    <3>2. answers[w] + 1 \in Nat
      BY <1>a
    <3> QED BY <2>1, <2>3, <3>1, <3>2, PhaseMoves, Zenon
  <2>4. ASSUME NEW X, child' = [child EXCEPT ![w] = "run"], UNCHANGED answers,
               inherited' = [inherited EXCEPT ![w] = X]
        PROVE  KidsInv'
    <3>1. /\ pc' \in [Workers -> Labels]
          /\ child' \in [Workers -> {"none", "run", "dead"}]
          /\ inherited' = [v \in Workers |-> inherited'[v]]
      BY <2>1, <2>4 DEF KidsInv, Goto, Labels
    <3>2. ASSUME NEW v \in Workers
          PROVE  /\ child'[v] # "run" => inherited'[v] = {}
                 /\ Phase(pc'[v], child'[v], answers'[v])
      <4>1. CASE v = w
        <5>1. child'[v] = "run" /\ pc'[v] = "spawned" /\ answers'[v] = 0
          BY <2>1, <2>2, <2>4, <4>1 DEF KidsInv, Goto
        <5> QED BY <5>1 DEF Phase
      <4>2. CASE v # w
        <5>1. child'[v] = child[v] /\ inherited'[v] = inherited[v] /\ pc'[v] = pc[v]
          BY <2>1, <2>4, <4>2 DEF KidsInv, Goto
        <5> QED BY <2>4, <5>1 DEF KidsInv
      <4> QED BY <4>1, <4>2
    <3> QED BY <2>4, <3>1, <3>2 DEF KidsInv
  <2> QED BY <2>1, <2>3, <2>4
<1>5. CASE Spawned(w)
  <2>1. /\ pc[w] = "spawned" /\ UNCHANGED <<child, inherited>>
        /\ IF child[w] = "none" THEN Fail(w)
           ELSE Goto(w, "fdopen") /\ UNCHANGED answers
    BY <1>5 DEF Spawned, kids
  <2>2. /\ "fdopen" \in Labels
        /\ child[w] # "none" => Phase("fdopen", child[w], answers[w])
    BY <1>a, <2>1, SMTT(30) DEF Phase, Labels
  <2> QED BY <1>b, <2>1, <2>2, FailMoves
<1>6. CASE \/ Fdopen(w) \/ ForwardRefused(w) \/ ForwardBuffered(w)
           \/ ForwardPull(w) \/ ForwardPush(w) \/ ForwardEnd(w)
           \/ CloseIn(w) \/ ReadHeaders(w)
  <2> DEFINE Body == {"fdopen", "forward", "push", "close_in", "read"}
             Goes == \/ Fail(w)
                     \/ UNCHANGED answers /\ (pc' = pc \/ \E l \in Body : Goto(w, l))
  <2>1. pc[w] \in Body /\ UNCHANGED <<child, inherited>> /\ Goes
    <3> USE DEF kids
    <3>1. CASE Fdopen(w)
      BY <3>1 DEF Fdopen
    <3>2. CASE ForwardRefused(w)
      BY <3>2 DEF ForwardRefused
    <3>3. CASE ForwardBuffered(w)
      BY <3>3 DEF ForwardBuffered
    <3>4. CASE ForwardPull(w)
      BY <3>4 DEF ForwardPull
    <3>5. CASE ForwardPush(w)
      BY <3>5 DEF ForwardPush
    <3>6. CASE ForwardEnd(w)
      BY <3>6 DEF ForwardEnd
    <3>7. CASE CloseIn(w)
      BY <3>7 DEF CloseIn
    <3>8. CASE ReadHeaders(w)
      BY <3>8, SMTT(30) DEF ReadHeaders
    <3> QED BY <1>6, <3>1, <3>2, <3>3, <3>4, <3>5, <3>6, <3>7, <3>8
  <2>2. child[w] # "none" /\ answers[w] = 0
    BY <1>a, <2>1 DEF Phase
  <2>3. \A l \in Body : l \in Labels /\ Phase(l, child[w], answers[w])
    BY <2>2 DEF Phase, Labels
  <2> QED BY <1>b, <2>1, <2>2, <2>3, FailMoves, StayMoves
<1>7. CASE SendHeaders(w)
  <2>1. /\ pc[w] = "read" /\ UNCHANGED <<child, inherited>>
        /\ \/ Fail(w)
           \/ answers' = [answers EXCEPT ![w] = answers[w] + 1] /\ Goto(w, "copy")
    BY <1>7 DEF SendHeaders, kids
  <2>2. /\ child[w] # "none" /\ answers[w] = 0 /\ "copy" \in Labels
        /\ Phase("copy", child[w], answers[w] + 1)
    BY <1>a, <2>1 DEF Phase, Labels
  <2>3. CASE Fail(w)
    BY <2>1, <2>2, <2>3, FailMoves
  <2>4. CASE answers' = [answers EXCEPT ![w] = answers[w] + 1] /\ Goto(w, "copy")
    <3>1. answers[w] + 1 \in Nat
      BY <1>a
    <3> QED BY <2>1, <2>2, <2>4, <3>1, PhaseMoves, Zenon
  <2> QED BY <2>1, <2>3, <2>4
<1>8. CASE CopyOutput(w)
  <2>1. /\ pc[w] = "copy" /\ UNCHANGED <<answers, child, inherited>>
        /\ pc' = pc \/ Goto(w, "kill")
    BY <1>8 DEF CopyOutput, kids
  <2>2. "kill" \in Labels /\ Phase("kill", child[w], answers[w])
    BY <1>a, <2>1 DEF Phase, Labels
  <2> QED BY <1>b, <2>1, <2>2, StayMoves
<1>9. CASE Done(w)
  <2>1. pc[w] = "kill" /\ Goto(w, "end") /\ UNCHANGED answers
    BY <1>9 DEF Done
  <2>2. CASE child[w] = "run"
    BY <1>9, <2>1, <2>2, EndMoves DEF Done
  <2>3. CASE child[w] # "run"
    <3>1. UNCHANGED <<child, inherited>>
      BY <1>9, <2>3 DEF Done
    <3>2. "end" \in Labels /\ Phase("end", child[w], answers[w])
      BY <1>a, <2>1, <2>3 DEF Phase, Labels
    <3> QED BY <1>b, <2>1, <3>1, <3>2
  <2> QED BY <2>2, <2>3
<1> QED BY <1>1, <1>2, <1>3, <1>4, <1>5, <1>6, <1>7, <1>8, <1>9 DEF WorkerStep

\* Every step keeps the phases.
LEMMA KidsStep == KidsInv /\ [Next]_vars => KidsInv'
<1> SUFFICES ASSUME KidsInv, [Next]_vars PROVE KidsInv'
  OBVIOUS
<1>1. CASE UNCHANGED vars \/ Stop
  BY <1>1, StayMoves DEF vars, kids, Stop
<1>2. ASSUME NEW w \in Workers, ChildStep(w) PROVE KidsInv'
  <2>1. CASE ChildRead(w)
    BY <2>1, StayMoves DEF ChildRead
  <2>2. CASE ChildWrite(w)
    BY <2>2, StayMoves DEF ChildWrite
  <2>3. CASE ChildExit(w)
    BY <2>3, EndMoves DEF ChildExit
  <2> QED BY <1>2, <2>1, <2>2, <2>3 DEF ChildStep
<1> QED BY <1>1, <1>2, KidsWorker DEF Next

\* At first there is no program and no answer.
LEMMA KidsInit == Init => KidsInv
  BY DEF Init, KidsInv, Phase, Labels

\* Whatever way handle_cgi_request is left, for any number of workers, any
\* programs and any failures, the server has none of its pipes open and its
\* program is gone.
THEOREM RequestsLeaveNothing == Spec => []NothingLeaks
<1>1. FdInv /\ KidsInv => NothingLeaks
  <2> SUFFICES ASSUME FdInv, KidsInv, NEW w \in Workers, pc[w] = "end"
               PROVE  /\ \A k \in Numbers : table[k] = Free \/ table[k][1] # w
                      /\ child[w] # "run" /\ inherited[w] = {}
    BY DEF NothingLeaks
  <2>1. child[w] # "run" /\ inherited[w] = {}
    BY DEF KidsInv, Phase
  <2>2. ASSUME NEW k \in Numbers, table[k] # Free, table[k][1] = w PROVE FALSE
    <3>1. PICK e \in Ends : table[k] = <<w, e>>
      BY <2>2 DEF FdInv, FdShape
    <3>2. fds[w][e] = k
      BY <3>1 DEF FdInv, Known
    <3>3. fds[w][e] = Closed
      BY DEF FdInv, Marked, NotOpen
    <3> QED BY <3>2, <3>3, NumbersFacts
  <2> QED BY <2>1, <2>2
<1> QED BY <1>1, FdInit, FdStep, KidsInit, KidsStep, PTL DEF Spec

\* Every CGI request is answered, and one whose program was started exactly
\* once: no error is sent after the status line of the program's answer.
THEOREM OneAnswer == Spec => []AnsweredOnce
<1>1. KidsInv => AnsweredOnce
  BY DEF KidsInv, Phase, AnsweredOnce
<1> QED BY <1>1, KidsInit, KidsStep, PTL DEF Spec
=============================================================================
