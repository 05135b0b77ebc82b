---------------------------- MODULE MCThreadPool ----------------------------
(* Instances of ThreadPool for TLC.                                        *)
EXTENDS ThreadPool, TLC

\* Workers are interchangeable, and so are the clients check_acl lets in.
Symmetry == Permutations(Workers) \cup Permutations(Clients \ Denied)
=============================================================================
