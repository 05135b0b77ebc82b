------------------------------- MODULE CgiEnv -------------------------------
(***************************************************************************)
(* The environment block of a CGI program: VARIABLE=VALUE strings one      *)
(* after the other in buf, each ended by a zero byte, and pointers to them *)
(* in vars.  A string is its length, a block the space and the pointers it *)
(* has taken.                                                              *)
(***************************************************************************)
EXTENDS Integers

CONSTANTS
  EnvSize,     \* CGI_ENVIRONMENT_SIZE
  MaxVars      \* MAX_CGI_ENVIR_VARS

ASSUME EnvAssumption == EnvSize \in Nat /\ EnvSize >= 2
                        /\ MaxVars \in Nat /\ MaxVars >= 2

Blocks == [len : Nat, nvars : Nat]

NewBlock == [len |-> 0, nvars |-> 0]

\* How much mg_vsnprintf says it wrote of n bytes into buflen.
Vsnprintf(n, buflen) ==
  IF buflen = 0 THEN 0 ELSE IF n >= buflen THEN buflen - 1 ELSE n

Space(b) == EnvSize - b.len - 2

\* Mutant: one pointer too many.
AddEnvOneMore(b, n) ==
  LET m == Vsnprintf(n, Space(b))
  IN IF m > 0 /\ m + 1 < Space(b) /\ b.nvars < MaxVars - 1
     THEN [len |-> b.len + m + 1, nvars |-> b.nvars + 1]
     ELSE b

\* addenv: a string that does not fit, or for which there is no pointer left,
\* is not added.
AddEnv(b, n) ==
  LET m == Vsnprintf(n, Space(b))
  IN IF m > 0 /\ m + 1 < Space(b) /\ b.nvars < MaxVars - 2
     THEN [len |-> b.len + m + 1, nvars |-> b.nvars + 1]
     ELSE b

\* The end of prepare_cgi_environment: the last pointer and the second zero.
EndEnv(b) == [len |-> b.len + 1, nvars |-> b.nvars + 1]
=============================================================================
