----------------------------- MODULE MCService -----------------------------
(***************************************************************************)
(* Servers with two ports, the second for SSL as service.sh has it, and    *)
(* configurations that fail at each of the steps of mg_start.              *)
(***************************************************************************)
EXTENDS Service

Port(n, kind, low) == [port |-> n, kind |-> kind, low |-> low]
Usual == [args |-> TRUE, gpass |-> TRUE, pem |-> "good", uid |-> "none",
          acl |-> TRUE, root |-> FALSE,
          ports |-> <<Port(1, "plain", FALSE), Port(2, "ssl", FALSE)>>]
Root  == [Usual EXCEPT !.root = TRUE, !.uid = "good",
                       !.ports = <<Port(1, "plain", TRUE), Port(2, "ssl", FALSE)>>]

Failing ==
  {[Usual EXCEPT !.args = FALSE], [Usual EXCEPT !.gpass = FALSE],
   [Usual EXCEPT !.pem = "bad"], [Usual EXCEPT !.pem = "none"],
   [Root EXCEPT !.uid = "bad"], [Usual EXCEPT !.uid = "good"],
   [Root EXCEPT !.acl = FALSE], [Root EXCEPT !.root = FALSE],
   [Usual EXCEPT !.ports[2] = Port(2, "bad", FALSE)]}

Calm(conf, taken, n) ==
  [calm |-> TRUE, conf |-> conf, taken |-> taken, asks |-> 3, faults |-> n]
Hasty(asks, n) ==
  [calm |-> FALSE, conf |-> Usual, taken |-> {}, asks |-> asks, faults |-> n]

MCScenarios ==
  {Calm(conf, {}, 1) : conf \in {Usual, Root}}
  \cup {Calm(conf, {}, 0) : conf \in Failing} \cup {Calm(Usual, {2}, 0)}
  \cup {Hasty(3, 0), Hasty(2, 1)}
MCPids == 1 .. 3
MCScripts == 1 .. 2
=============================================================================
