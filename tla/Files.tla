------------------------------- MODULE Files -------------------------------
(***************************************************************************)
(* Requests for files: handle_request of mongoose.c from the parsed URI to *)
(* the answer, in several workers that share a tree of files with each     *)
(* other and with processes that edit a passwords file (tinyweb -A).       *)
(*                                                                         *)
(* Every access to the file system is a step of its own, except that one   *)
(* look for the passwords file, and one for a CGI script in the path, is   *)
(* one step.  A path is a sequence of names below the document root; a     *)
(* file is a sequence of units: pieces of a body or records of users.  CGI,*)
(* SSI and WebSocket handlers are other modules: here they are an answer.  *)
(***************************************************************************)
EXTENDS Integers, Sequences, SequencesExt

CONSTANTS
  Workers, Editors,
  Index,       \* index_files
  Paths,       \* the paths that exist or may, the root << >> among them
  Scenarios,   \* what is configured, asked, edited and there at the start
  Crashes      \* how often everything may stop at once

VARIABLES
  sc,          \* the scenario
  node,        \* path -> Absent, Dir or the number of a file
  inode,       \* what the files hold; a removed file stays for who has it open
  conn,        \* the workers
  ed,          \* the editors
  crashes,
  hole         \* an editor was stopped between remove and rename

fs   == <<node, inode>>
life == <<crashes, hole>>
vars == <<sc, fs, conn, ed, life>>

Absent == 0
Dir    == -1

(* Scenarios.  A request has a method, a path and whether a slash ends it, *)
(* credentials, the offset of a Content-Range or -1, the length of the     *)
(* body, whether the copy of the client is fresh, and how it is taken:     *)
(* "plain", "redirect" (to the SSL port), "callback" (begin_request serves *)
(* it) or "websocket".  The options: root, gpass, protect (a path and its  *)
(* passwords file), put (PUT_DELETE_PASSWORDS_FILE), None if not set.      *)
None == <<"-">>

NewConn(r) ==
  [pc |-> "uri", path |-> r.path, slash |-> r.slash, found |-> FALSE,
   dir |-> FALSE, size |-> 0, pos |-> 0, ino |-> 0, buf |-> << >>,
   sent |-> << >>, status |-> 0, touched |-> FALSE]
NewEdit == [pc |-> "create", old |-> 0, tmp |-> 0, ret |-> -1]

Init ==
  /\ sc \in Scenarios
  /\ node = sc.tree /\ inode = sc.data
  /\ conn = [w \in Workers |-> NewConn(sc.req[w])]
  /\ ed = [e \in Editors |-> NewEdit]
  /\ crashes = 0 /\ hole = FALSE

-----------------------------------------------------------------------------
(* The file system.                                                        *)

IsFile(p)   == p \in Paths /\ node[p] > 0
IsDir(p)    == p \in Paths /\ node[p] = Dir

\* stat: a path that ends in a slash is a directory.
Exists(p, slash) == IsDir(p) \/ (IsFile(p) /\ ~slash)
CanCreate(p)     == /\ p \in Paths \ {<< >>} /\ node[p] = Absent
                    /\ IsDir(Front(p))
CanOpenW(p)      == IsFile(p) \/ CanCreate(p)

\* fopen(p, "w+"): the number of the file, which is emptied or made.
Opened(p) == IF IsFile(p) THEN node[p] ELSE Len(inode) + 1
OpenW(p) ==
  /\ node' = [node EXCEPT ![p] = Opened(p)]
  /\ inode' = IF IsFile(p) THEN [inode EXCEPT ![node[p]] = << >>]
              ELSE Append(inode, << >>)

\* Writing units at offset k; what was skipped over reads as a hole.
WriteAt(data, k, us) ==
  IF us = << >> THEN data
  ELSE [i \in 1 .. IF k + Len(us) < Len(data) THEN Len(data) ELSE k + Len(us) |->
          IF i \in k + 1 .. k + Len(us) THEN us[i - k]
          ELSE IF i <= Len(data) THEN data[i] ELSE <<"hole">>]

\* remove: files, and directories that are empty.
CanRemove(p, slash) ==
  \/ IsFile(p) /\ ~slash
  \/ IsDir(p) /\ \A q \in Paths : q # << >> /\ Front(q) = p => node[q] = Absent

-----------------------------------------------------------------------------
(* The workers.                                                            *)

Req(w) == sc.req[w]
PutOrDelete(w) == Req(w).method \in {"PUT", "DELETE"}

Become(w, c) == conn' = [conn EXCEPT ![w] = c]
At(w, l)     == [conn[w] EXCEPT !.pc = l]
Answer(w, s) == Become(w, [conn[w] EXCEPT !.pc = "done", !.status = s])

\* w becomes c, having changed something at, above or below where others are.
Disturb(w, c, p) ==
  LET near(q) == IsPrefix(p, q) \/ IsPrefix(q, p)
  IN conn' = [x \in Workers |->
                IF x = w THEN c
                ELSE IF conn[x].pc = "uri" \/ ~near(conn[x].path) THEN conn[x]
                ELSE [conn[x] EXCEPT !.touched = TRUE]]

Stat(c, p, slash) ==
  [c EXCEPT !.path = p, !.found = Exists(p, slash), !.dir = IsDir(p),
            !.size = IF IsFile(p) /\ ~slash THEN Len(inode[node[p]]) ELSE 0]

\* convert_uri_to_file_name: the path, or the longest start of it that is a CGI
\* script.
ConvertUri(w) ==
  LET p == Req(w).path
      scripts == {k \in 1 .. Len(p) :
                    /\ k < Len(p) \/ Req(w).slash
                    /\ p[k] = "cgi" /\ Exists(SubSeq(p, 1, k), FALSE)}
      k == CHOOSE i \in scripts : \A j \in scripts : j <= i
  IN /\ conn[w].pc = "uri"
     /\ Become(w, IF Exists(p, Req(w).slash) \/ scripts = {}
                  THEN Stat(At(w, "auth"), p, Req(w).slash)
                  ELSE [Stat(At(w, "auth"), SubSeq(p, 1, k), FALSE)
                          EXCEPT !.slash = FALSE])
     /\ UNCHANGED <<sc, fs, ed, life>>

\* check_password, with the digest taken for the password it is made from.
CheckPassword(line, cred) == line[2] = cred[2]

\* authorize: the first record of the user decides.
Authorize(f, cred) ==
  LET lines == inode[node[f]]
      k == SelectInSeq(lines, LAMBDA l : l[1] = cred[1])
  IN k > 0 /\ CheckPassword(lines[k], cred)

\* The file check_authorization opens: of protect_uri, else the global one,
\* else the one in the directory.
AuthFile(w) ==
  LET p == conn[w].path
  IN IF IsPrefix(sc.protect.path, Req(w).path) /\ IsFile(sc.protect.file)
     THEN sc.protect.file
     ELSE IF sc.gpass # None THEN sc.gpass
     ELSE Append(IF IsDir(p) \/ (conn[w].slash /\ ~conn[w].found) THEN p
                 ELSE Front(p), ".htpasswd")

\* Mutant: credentials are only looked at when the request has some.
AuthorizedIfAsked(w) ==
  \/ ~IsFile(AuthFile(w)) \/ Req(w).cred[1] = ""
  \/ Authorize(AuthFile(w), Req(w).cred)

\* check_authorization: without a passwords file everybody is.
Authorized(w) == ~IsFile(AuthFile(w)) \/ Authorize(AuthFile(w), Req(w).cred)

CheckAuth(w) ==
  /\ conn[w].pc = "auth"
  /\ IF Req(w).how = "redirect" THEN Answer(w, 302)
     ELSE IF PutOrDelete(w) \/ Authorized(w) THEN Become(w, At(w, "route"))
     ELSE Answer(w, 401)
  /\ UNCHANGED <<sc, fs, ed, life>>

\* Mutant: without a passwords file everybody may.
MayPutAnyone(w) == ~IsFile(sc.put) \/ Authorize(sc.put, Req(w).cred)

\* is_authorized_for_put.
MayPut(w) == IsFile(sc.put) /\ Authorize(sc.put, Req(w).cred)

Hidden(p) == p # << >> /\ Last(p) \in {".htpasswd", "hidden"}

\* A test of handle_request and what it leads to: a step or an answer.
Step(test, l)  == [when |-> test, pc |-> l, status |-> 0]
Reply(test, n) == [when |-> test, pc |-> "done", status |-> n]

\* The first test that holds counts.
Follow(w, tests) ==
  LET t == tests[SelectInSeq(tests, LAMBDA x : x.when)]
  IN Become(w, [conn[w] EXCEPT !.pc = t.pc, !.status = t.status])

\* Their order; 1 is what begin_request answers.
Routes(w) ==
  LET c == conn[w]  r == Req(w) IN
  << Reply(r.how = "callback", 1),
     Reply(r.how = "websocket", 101),
     Reply(r.method = "OPTIONS", 200),
     Reply(~sc.root, 404),
     Reply(PutOrDelete(w) /\ ~MayPut(w), 401),
     Step(r.method = "PUT", "put"),
     Step(r.method = "DELETE", "delete"),
     Reply(~c.found \/ Hidden(c.path), 404),
     Reply(c.dir /\ ~r.slash, 301),
     Reply(r.method = "PROPFIND", 207),
     Step(c.dir, "index"),
     Step(TRUE, "serve") >>

\* Then, for a file: CGI (2 is handle_cgi_request), SSI, or itself.
Servers(w) ==
  LET c == conn[w]  r == Req(w) IN
  << Reply(/\ Last(c.path) = "cgi"
           /\ r.method \notin {"POST", "HEAD", "GET"}, 501),
     Reply(Last(c.path) = "cgi", 2),
     Step(Last(c.path) = "ssi", "ssi"),
     Reply(r.fresh, 304),
     Step(TRUE, "open") >>

Route(w) == /\ conn[w].pc = "route" /\ Follow(w, Routes(w))
            /\ UNCHANGED <<sc, fs, ed, life>>
Serve(w) == /\ conn[w].pc = "serve" /\ Follow(w, Servers(w))
            /\ UNCHANGED <<sc, fs, ed, life>>

-----------------------------------------------------------------------------
(* Reading.                                                                *)

\* substitute_index_file, one name of index_files; then the listing, or not.
SubstituteIndex(w) ==
  LET c == conn[w]
      p == Append(c.path, Index[c.pos + 1])
  IN /\ c.pc = "index"
     /\ IF c.pos = Len(Index) THEN Answer(w, IF sc.listing THEN 200 ELSE 403)
        ELSE IF Exists(p, FALSE)
        THEN Become(w, [Stat(At(w, "serve"), p, FALSE) EXCEPT !.pos = 0])
        ELSE Become(w, [c EXCEPT !.pos = @ + 1])
     /\ UNCHANGED <<sc, fs, ed, life>>

\* handle_ssi_file_request.
OpenSsi(w) ==
  /\ conn[w].pc = "ssi"
  /\ Answer(w, IF Exists(conn[w].path, FALSE) THEN 200 ELSE 500)
  /\ UNCHANGED <<sc, fs, ed, life>>

\* handle_file_request: the headers announce the size found by stat.
OpenFile(w) ==
  LET p == conn[w].path
  IN /\ conn[w].pc = "open"
     /\ IF ~Exists(p, FALSE) THEN Answer(w, 500)
        ELSE IF Req(w).method = "HEAD" THEN Answer(w, 200)
        ELSE Become(w, [At(w, "send") EXCEPT !.status = 200,
                          !.ino = IF IsFile(p) THEN node[p] ELSE 0])
     /\ UNCHANGED <<sc, fs, ed, life>>

\* Mutant: the last unit is left out.
SendDataShort(w) ==
  LET c == conn[w]
      data == IF c.ino = 0 THEN << >> ELSE inode[c.ino]
  IN /\ c.pc = "send"
     /\ IF c.pos < c.size - 1 /\ c.pos < Len(data)
        THEN Become(w, [c EXCEPT !.pos = @ + 1,
                                 !.sent = Append(@, data[c.pos + 1])])
        ELSE Become(w, At(w, "done"))
     /\ UNCHANGED <<sc, fs, ed, life>>

\* send_file_data: a unit, until enough are sent or the file ends.
SendData(w) ==
  LET c == conn[w]
      data == IF c.ino = 0 THEN << >> ELSE inode[c.ino]
  IN /\ c.pc = "send"
     /\ IF c.pos < c.size /\ c.pos < Len(data)
        THEN Become(w, [c EXCEPT !.pos = @ + 1,
                                 !.sent = Append(@, data[c.pos + 1])])
        ELSE Become(w, At(w, "done"))
     /\ UNCHANGED <<sc, fs, ed, life>>

-----------------------------------------------------------------------------
(* Writing.                                                                *)

Delete(w) ==
  LET p == conn[w].path
  IN /\ conn[w].pc = "delete"
     /\ IF CanRemove(p, conn[w].slash)
        THEN /\ node' = [node EXCEPT ![p] = Absent]
             /\ Disturb(w, [At(w, "done") EXCEPT !.status = 200], p)
        ELSE Answer(w, 500) /\ UNCHANGED node
     /\ UNCHANGED <<sc, inode, ed, life>>

\* put_file starts.
Put(w) ==
  /\ conn[w].pc = "put"
  /\ Become(w, [At(w, "put_dir") EXCEPT !.pos = 1,
       !.status = IF Exists(conn[w].path, conn[w].slash) THEN 200 ELSE 201])
  /\ UNCHANGED <<sc, fs, ed, life>>

\* The directories put_dir goes through.
Levels(w) == IF conn[w].slash THEN Len(conn[w].path) ELSE Len(conn[w].path) - 1
Level(w)  == SubSeq(conn[w].path, 1, conn[w].pos)

\* put_dir: is there something of that name?
PutDir(w) ==
  /\ conn[w].pc = "put_dir" /\ conn[w].pos <= Levels(w)
  /\ Become(w, IF Exists(Level(w), FALSE) THEN [conn[w] EXCEPT !.pos = @ + 1]
               ELSE At(w, "mkdir"))
  /\ UNCHANGED <<sc, fs, ed, life>>

\* put_dir: no, so make it.
Mkdir(w) ==
  /\ conn[w].pc = "mkdir"
  /\ IF CanCreate(Level(w))
     THEN /\ node' = [node EXCEPT ![Level(w)] = Dir]
          /\ Disturb(w, [At(w, "put_dir") EXCEPT !.pos = @ + 1], Level(w))
     ELSE Answer(w, 500) /\ UNCHANGED node
  /\ UNCHANGED <<sc, inode, ed, life>>

\* Back in put_file: a directory is done, a file is opened.
PutOpen(w) ==
  LET p == conn[w].path
      k == Req(w).range
  IN /\ conn[w].pc = "put_dir" /\ conn[w].pos > Levels(w)
     /\ IF conn[w].slash THEN Become(w, At(w, "done")) /\ UNCHANGED fs
        ELSE IF ~CanOpenW(p) THEN Answer(w, 500) /\ UNCHANGED fs
        ELSE /\ OpenW(p)
             /\ Disturb(w, [At(w, "body") EXCEPT !.ino = Opened(p),
                              !.pos = IF k < 0 THEN 0 ELSE k,
                              !.status = IF k < 0 THEN @ ELSE 206], p)
     /\ UNCHANGED <<sc, ed, life>>

\* Where the body of a PUT begins in the file.
Start(w) == IF Req(w).range < 0 THEN 0 ELSE Req(w).range

\* Mutant: the file is open for appending.
WriteOutAppends(w, c, n) ==
  /\ inode' = [inode EXCEPT ![c.ino] = @ \o SubSeq(c.buf, 1, n)]
  /\ Disturb(w, [c EXCEPT !.buf = SubSeq(@, n + 1, Len(@))], c.path)

\* The first n units of the stdio buffer, which ends at the position of the
\* file, are written to the file, and w becomes c without them.
WriteOut(w, c, n) ==
  /\ inode' = [inode EXCEPT ![c.ino] =
                  WriteAt(@, c.pos - Len(c.buf), SubSeq(c.buf, 1, n))]
  /\ Disturb(w, [c EXCEPT !.buf = SubSeq(@, n + 1, Len(@))], c.path)

\* Mutant: the answer is given with a unit still to come.
PutBodyShort(w) ==
  /\ conn[w].pc = "body" /\ Become(w, At(w, "close"))
  /\ UNCHANGED <<sc, fs, ed, life>>

\* forward_body_data: a unit of the body goes to the buffer, which is written
\* out when it is full; at the end of the body the answer is given.
PutBody(w) ==
  LET c == conn[w]
      more == [c EXCEPT !.pos = @ + 1, !.buf = Append(@, <<w>>)]
  IN /\ c.pc = "body"
     /\ IF c.pos = Start(w) + Req(w).body
        THEN Become(w, At(w, "close")) /\ UNCHANGED inode
        ELSE \/ Become(w, more) /\ UNCHANGED inode
             \/ WriteOut(w, more, Len(more.buf))
     /\ UNCHANGED <<sc, node, ed, life>>

\* forward_body_data: the rest of the body was in the request buffer.  Whether
\* push wrote that is not looked at.
PutUnchecked(w) ==
  LET c == conn[w]
      n == Start(w) + Req(w).body
  IN /\ c.pc = "body" /\ c.pos < n
     /\ Become(w, [At(w, "close") EXCEPT !.pos = n,
                     !.buf = @ \o [i \in 1 .. n - c.pos |-> <<w>>]])
     /\ UNCHANGED <<sc, fs, ed, life>>

\* forward_body_data: the client or the disk gives up.
PutBroken(w) ==
  /\ conn[w].pc = "body"
  /\ Become(w, [At(w, "close") EXCEPT !.status = 577])
  /\ UNCHANGED <<sc, fs, ed, life>>

\* mg_fclose writes out the rest, or some of it, which nobody looks at.
PutClose(w) ==
  LET c == At(w, "done")
  IN /\ conn[w].pc = "close"
     /\ \/ \E n \in 1 .. Len(c.buf) : WriteOut(w, c, n)
        \/ Become(w, c) /\ UNCHANGED inode
     /\ UNCHANGED <<sc, node, ed, life>>

-----------------------------------------------------------------------------
(* mg_modify_passwords_file, in a process of its own.  One passwords file  *)
(* of a directory is edited; all records have the same length.             *)

Edit(e)  == sc.edit[e]
TmpOf(f) == Append(Front(f), ".tmp")
Turn(e, c) == ed' = [ed EXCEPT ![e] = c]
Return(e, n) == Turn(e, [ed[e] EXCEPT !.pc = "done", !.ret = n])

\* Mutant: copying ends with the record of the user.
EditedUpTo(lines, d) ==
  LET k == SelectInSeq(lines, LAMBDA l : l[1] = d.user)
  IN SubSeq(lines, 1, IF k = 0 THEN Len(lines) ELSE k - 1)
     \o <<<<d.user, d.pass>>>>

\* The lines with the record of the user changed, added or, without a password,
\* left out.
Edited(lines, d) ==
  LET new  == IF d.pass = "" THEN << >> ELSE <<<<d.user, d.pass>>>>
      mine == {k \in DOMAIN lines : lines[k][1] = d.user}
  IN FlattenSeq([k \in DOMAIN lines |->
                   IF k \in mine THEN new ELSE <<lines[k]>>])
     \o (IF mine = {} THEN new ELSE << >>)

\* Writing lines from the start of a file that holds data.
Over(data, lines) ==
  lines \o SubSeq(data, Len(lines) + 1, Len(data))

\* fopen(fname, "a+") and fclose.
EditCreate(e) ==
  /\ ed[e].pc = "create" /\ Turn(e, [ed[e] EXCEPT !.pc = "old"])
  /\ IF CanCreate(Edit(e).file) THEN OpenW(Edit(e).file) ELSE UNCHANGED fs
  /\ UNCHANGED <<sc, conn, life>>

EditOld(e) ==
  /\ ed[e].pc = "old"
  /\ IF IsFile(Edit(e).file)
     THEN Turn(e, [ed[e] EXCEPT !.pc = "tmp", !.old = node[Edit(e).file]])
     ELSE Return(e, 0)
  /\ UNCHANGED <<sc, fs, conn, life>>

EditTmp(e) ==
  LET t == TmpOf(Edit(e).file)
  IN /\ ed[e].pc = "tmp"
     /\ IF CanOpenW(t)
        THEN /\ OpenW(t)
             /\ Turn(e, [ed[e] EXCEPT !.pc = "copy", !.tmp = Opened(t)])
        ELSE Return(e, 0) /\ UNCHANGED fs
     /\ UNCHANGED <<sc, conn, life>>

\* The loop; what was printed to the temporary file is written by fclose.
EditCopy(e) ==
  LET lines == Edited(inode[ed[e].old], Edit(e))
  IN /\ ed[e].pc = "copy" /\ Turn(e, [ed[e] EXCEPT !.pc = "remove"])
     /\ inode' = [inode EXCEPT ![ed[e].tmp] = Over(@, lines)]
     /\ UNCHANGED <<sc, node, conn, life>>

EditRemove(e) ==
  /\ ed[e].pc = "remove" /\ Turn(e, [ed[e] EXCEPT !.pc = "rename"])
  /\ node' = [node EXCEPT ![Edit(e).file] = Absent]
  /\ UNCHANGED <<sc, inode, conn, life>>

EditRename(e) ==
  LET f == Edit(e).file  t == TmpOf(f)
  IN /\ ed[e].pc = "rename" /\ Return(e, 1)
     /\ node' = IF node[t] = Absent THEN node
                ELSE [node EXCEPT ![f] = node[t], ![t] = Absent]
     /\ UNCHANGED <<sc, inode, conn, life>>

-----------------------------------------------------------------------------
(* Everything stops; the files stay, and the edit is started again.        *)

Crash ==
  /\ crashes < Crashes
  /\ crashes' = crashes + 1
  /\ hole' = (hole \/ \E e \in Editors : ed[e].pc = "rename")
  /\ conn' = [w \in Workers |-> IF conn[w].pc = "done" THEN conn[w]
                ELSE [conn[w] EXCEPT !.pc = "done",
                        !.status = IF conn[w].pc = "close" THEN @ ELSE 0]]
  /\ ed' = [e \in Editors |-> IF ed[e].pc = "done" THEN ed[e] ELSE NewEdit]
  /\ UNCHANGED <<sc, fs>>

\* All requests are answered and all edits made.
Finished ==
  /\ \A w \in Workers : conn[w].pc = "done"
  /\ \A e \in Editors : ed[e].pc = "done"
  /\ UNCHANGED vars

Worker(w) ==
  \/ ConvertUri(w) \/ CheckAuth(w) \/ Route(w) \/ Serve(w)
  \/ SubstituteIndex(w) \/ OpenSsi(w) \/ OpenFile(w) \/ SendData(w)
  \/ Delete(w) \/ Put(w) \/ PutDir(w) \/ Mkdir(w) \/ PutOpen(w)
  \/ PutBody(w) \/ PutUnchecked(w) \/ PutBroken(w) \/ PutClose(w)
Editor(e) ==
  \/ EditCreate(e) \/ EditOld(e) \/ EditTmp(e) \/ EditCopy(e)
  \/ EditRemove(e) \/ EditRename(e)

Next == \/ \E w \in Workers : Worker(w)
        \/ \E e \in Editors : Editor(e)
        \/ Crash \/ Finished

Spec == Init /\ [][Next]_vars

-----------------------------------------------------------------------------
(* Properties.                                                             *)

Lines(p) == IF IsFile(p) THEN inode[node[p]] ELSE << >>
Before(p) == IF p \in Paths /\ sc.tree[p] > 0 THEN sc.data[sc.tree[p]]
             ELSE << >>
Answered(w, S) == conn[w].pc \in {"close", "done"} /\ conn[w].status \in S
Alone(w) == ~conn[w].touched

\* What a worker says is so, unless another changed something at that path from
\* its first look at it to its answer: stat, open and read, or stat and mkdir,
\* are separate steps.  A GET is answered with the whole file it found, as long
\* as it announced, and 500 only with a reason: a directory where a file is put,
\* a file where a directory is needed, or nothing that can be removed.
AnswersTrue ==
  \A w \in Workers :
    LET p == conn[w].path  r == Req(w)
    IN /\ Answered(w, {200}) /\ conn[w].ino > 0 /\ Alone(w) /\ ~PutOrDelete(w) =>
            conn[w].sent = Lines(p) /\ Len(conn[w].sent) = conn[w].size
       /\ Answered(w, {500}) /\ Alone(w) =>
            \/ r.method = "DELETE" /\ ~CanRemove(p, conn[w].slash)
            \/ r.method = "PUT" /\ ~conn[w].slash /\ IsDir(p)
            \/ /\ r.method = "PUT"
               /\ \E k \in 1 .. Len(p) - 1 : IsFile(SubSeq(p, 1, k))

\* What a PUT of a file leaves there, behind a hole if it had a range.
Stored(w) ==
  [i \in 1 .. IF Req(w).body = 0 THEN 0 ELSE Start(w) + Req(w).body |->
     IF i <= Start(w) THEN <<"hole">> ELSE <<w>>]

\* A PUT that is answered with success left the directory, or what it was sent
\* but for an end of it that was not written: it is answered before mg_fclose,
\* and writes are looked at only while the body comes in.  Nothing else is
\* missing, and nothing is wrong or in the wrong place.  Unless another worker
\* changed something there since it started.  (A name with a slash counts as a
\* directory even if a file has it.)
PutComplete ==
  \A w \in Workers :
    LET c == conn[w]
    IN Req(w).method = "PUT" /\ Answered(w, {200, 201, 206}) /\ Alone(w) =>
         IF c.slash THEN Exists(c.path, FALSE)
         ELSE WriteAt(Lines(c.path), c.pos - Len(c.buf), c.buf) = Stored(w)

\* Uploads of one file at a time: when all that opened it were stored, the body
\* of one of them (the last that emptied the file) is there, except where
\* another wrote over it; no part of it is missing.
UploadsCover ==
  \A p \in Paths :
    LET ws == {w \in Workers : Req(w).method = "PUT" /\ conn[w].ino # 0
                                 /\ conn[w].ino = node[p]}
        stored(w) == Answered(w, {200, 201, 206}) /\ conn[w].buf = << >>
    IN ws # {} /\ (\A w \in ws : stored(w)) =>
         \E w \in ws :
           \A i \in Start(w) + 1 .. Start(w) + Req(w).body :
             i <= Len(Lines(p)) /\ Lines(p)[i] \in {<<x>> : x \in ws}

IsPasswords(p) == p # << >> /\ Last(p) \in {".htpasswd", ".tmp", ".put"}
PutRecords == ToSet(Before(sc.put))
                \cup {<<Edit(e).user, Edit(e).pass>> : e \in Editors}
Changed(p) == Lines(p)' # Lines(p) \/ IsDir(p)' # IsDir(p)

\* Only a PUT or DELETE of a user with a record in put_delete_passwords_file, at
\* the start or by an edit, changes anything but passwords files.
TreeGranted ==
  [][ (\E p \in Paths : ~IsPasswords(p) /\ Changed(p)) =>
        \E w \in Workers : /\ PutOrDelete(w) /\ conn'[w] # conn[w]
                           /\ sc.put # None /\ Req(w).cred \in PutRecords ]_vars

\* The passwords file that ought to decide on a request.
Guard(w) ==
  LET p == conn[w].path
  IN IF IsPrefix(sc.protect.path, Req(w).path) /\ sc.tree[sc.protect.file] > 0
     THEN sc.protect.file
     ELSE IF sc.gpass # None THEN sc.gpass
     ELSE Append(IF IsDir(p) THEN p ELSE Front(p), ".htpasswd")

\* A request for what a passwords file protects gets past check_authorization
\* only with a record of that file, except while an edit has removed the file
\* and not yet put the new one in its place, or was stopped there.
ServedAllowed ==
  [][ \A w \in Workers :
        conn[w].pc = "auth" /\ conn'[w].pc = "route" /\ ~PutOrDelete(w) =>
          \/ Before(Guard(w)) = << >>
          \/ Req(w).cred \in ToSet(Lines(Guard(w)))
          \/ hole \/ \E e \in Editors : ed[e].pc = "rename" ]_vars

\* With one editor, the records of other users are always in the passwords file
\* or, while it is replaced, in the temporary one, and an edit that returned 1
\* was made; a crash at any other point than between remove and rename loses
\* nothing.
RecordsKept ==
  \A e \in Editors :
    LET f   == Edit(e).file
        now == IF ed[e].pc = "rename" THEN Lines(TmpOf(f)) ELSE Lines(f)
        others(s) == SelectSeq(s, LAMBDA l : l[1] # Edit(e).user)
    IN ~hole => /\ others(now) = others(Before(f))
                /\ ed[e].ret = 1 => now = Edited(Before(f), Edit(e))

\* mongoose.h: "entry is added (or modified if already exists)", and 1 is
\* returned "on success", by mg_modify_passwords_file "on the fly".
\* When all edits have returned 1, all their records are in the file.
EditsMade ==
  (\A e \in Editors : ed[e].ret = 1) =>
    \A e \in Editors :
      <<Edit(e).user, Edit(e).pass>> \in ToSet(Lines(Edit(e).file))
=============================================================================
