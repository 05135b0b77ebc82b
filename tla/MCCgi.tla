-------------------------------- MODULE MCCgi --------------------------------
(* Small requests and programs for Cgi.                                    *)
EXTENDS Cgi

S(post, len, buffered, expect, prog, env) ==
  [post |-> post, len |-> len, buffered |-> buffered, expect |-> expect,
   prog |-> prog, env |-> env]

MCScenarios ==
  { S(FALSE, -1, 0, "none", <<"hdr", "out">>, <<3, 1>>),
    S(FALSE, -1, 0, "none", <<"out", "out", "hdr">>, <<1, 1, 1>>),
    S(TRUE, 2, 1, "none", <<"read", "read", "hdr">>, <<7>>),
    S(TRUE, 3, 1, "continue", <<"hdr", "out", "read">>, <<4, 3>>),
    S(TRUE, 1, 2, "none", <<"eof", "hdr">>, <<9, 2>>),
    S(TRUE, 2, 1, "none", << >>, <<6>>),
    S(TRUE, -1, 0, "none", << >>, <<8>>) }

EofScenarios == { S(TRUE, 1, 1, "none", <<"eof", "hdr">>, <<1>>) }
=============================================================================
