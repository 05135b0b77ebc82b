------------------------------ MODULE MCFiles ------------------------------
(* Small trees, requests and edits for Files.                              *)
EXTENDS Files, TLC

CONSTANTS w1, w2, e1, e2

d == <<"d">>
f == <<"d", "f">>
g == <<"d", "e", "f">>
MCPaths == { << >>, d, f, <<"d", "e">>, g, <<"d", "index">>, <<"cgi">>,
             <<"ssi">>, <<"cgi", "f">>, <<"hidden">>, <<"d", "cgi">>,
             <<"d", ".htpasswd">>, <<"d", ".tmp">>, <<".put">>, <<".tmp">>,
             <<".htpasswd">> }
MCIndex == <<"index", "cgi">>

\* A tree from its directories and files; file k of the list has number k.
Tree(dirs, files) ==
  [p \in MCPaths |-> IF p \in dirs \cup {<< >>} THEN Dir
                     ELSE SelectInSeq(files, LAMBDA q : q = p)]

User(u) == <<u, "x">>
R(method, path, slash, u) ==
  [method |-> method, path |-> path, slash |-> slash, cred |-> User(u),
   range |-> -1, body |-> 1, fresh |-> FALSE, how |-> "plain"]
NoEdit == [file |-> None, user |-> "u", pass |-> "y"]

S(r1, r2, tree, data, edits) ==
  [req |-> w1 :> r1 @@ w2 :> r2, tree |-> tree, data |-> data, edit |-> edits,
   root |-> TRUE, listing |-> FALSE, gpass |-> None, put |-> <<".put">>,
   protect |-> [path |-> <<"none">>, file |-> <<".tmp">>]]

Empty == Tree({}, << <<".put">> >>)
Full  == Tree({d}, << <<".put">>, f >>)
Users == << User("u"), User("v") >>
Old   == << <<"o">>, <<"o">> >>

\* Two workers at the same files; which of the two has which request is all one.
Shared ==
  LET rs == <<R("GET", f, FALSE, "u"), R("PUT", f, FALSE, "u"),
              [R("PUT", f, FALSE, "u") EXCEPT !.body = 2],
              [R("PUT", f, FALSE, "u") EXCEPT !.body = 2, !.range = 1],
              R("DELETE", f, FALSE, "u"), R("DELETE", d, TRUE, "u"),
              R("PUT", g, FALSE, "v"), R("PUT", d, TRUE, "v"),
              R("HEAD", d, TRUE, "u"), R("PUT", d, FALSE, "u"),
              R("PUT", f, TRUE, "u"), R("PUT", f, FALSE, "w")>>
      trees == {<<Empty, <<Users>>>>, <<Full, <<Users, Old>>>>}
      pairs == {ij \in (1 .. Len(rs)) \X (1 .. Len(rs)) : ij[1] <= ij[2]}
  IN {S(rs[ij[1]], rs[ij[2]], t[1], t[2], e1 :> NoEdit) :
        ij \in pairs, t \in trees}

\* One worker through all of handle_request, the other does nothing.
Other == R("OPTIONS", << >>, TRUE, "u")
Site  == Tree({d}, << <<".put">>, <<"d", "index">>, <<"cgi">>, <<"ssi">>,
                      <<"hidden">>, <<"d", ".htpasswd">> >>)
Data  == << Users, Old, Old, Old, Old, <<User("v")>> >>
Single ==
  LET rs == {R(m, q, sl, u) : m \in {"GET", "HEAD", "PROPFIND", "DELETE"},
               q \in {d, <<"cgi">>, <<"ssi">>, <<"hidden">>, <<"cgi", "f">>},
               sl \in BOOLEAN, u \in {"u", "v", ""}}
      odd == {R("PUT", <<"cgi", "f">>, sl, "v") : sl \in BOOLEAN}
             \cup
             {[R("GET", f, FALSE, "v") EXCEPT !.how = h] :
                h \in {"redirect", "callback", "websocket"}}
             \cup {[R("GET", <<"d", "index">>, FALSE, "v")
                     EXCEPT !.fresh = TRUE]}
      base == {S(r, Other, Site, Data, e1 :> NoEdit) : r \in rs \cup odd}
      some == {S(r, Other, Full, <<Users, Old>>, e1 :> NoEdit) : r \in rs}
  IN base \cup some \cup {[s EXCEPT !.listing = TRUE] : s \in some}
     \cup {[s EXCEPT !.gpass = <<".put">>] : s \in base}
     \cup {[s EXCEPT !.root = FALSE] : s \in base}
     \cup {[s EXCEPT !.put = None] : s \in base}
     \cup {[s EXCEPT !.protect = [path |-> d, file |-> <<".put">>]] :
             s \in base}

\* Requests while a passwords file is edited.
Edits ==
  LET ed1(q, u, p) == e1 :> [file |-> q, user |-> u, pass |-> p]
      gets == {R("GET", <<"d", "index">>, FALSE, u) : u \in {"u", "v"}}
      htp  == <<"d", ".htpasswd">>
  IN {S(r, Other, Site, Data, ed1(htp, u, p)) :
        r \in gets, u \in {"u", "v"}, p \in {"x", "y", ""}}
     \cup {S(R("PUT", f, FALSE, "u"), r, Site, Data, ed1(<<".put">>, u, p)) :
             r \in {R("DELETE", f, FALSE, "v"), Other},
             u \in {"u", "v"}, p \in {"x", ""}}
     \cup {S(R("GET", <<"ssi">>, FALSE, "u"),
             R("DELETE", <<"ssi">>, FALSE, "u"), t, Data,
             ed1(<<".htpasswd">>, "v", "x")) :
             t \in {Site, [Site EXCEPT ![<<".tmp">>] = Dir]}}

MCScenarios == Shared \cup Single \cup Edits

\* Two edits of one file.
TwoEdits ==
  {S(Other, Other, Site, Data,
     e1 :> [file |-> <<".put">>, user |-> "a", pass |-> "x"]
       @@ e2 :> [file |-> <<".put">>, user |-> "b", pass |-> "x"])}
=============================================================================
