------------------------------- MODULE MCText -------------------------------
(***************************************************************************)
(* The functions of Uri, Fields, Content, Output and Options against what  *)
(* they are for.                                                           *)
(* A state is an input: letters of one topic, one after the other.  A      *)
(* letter is a character, or a field, cookie, rule or file of which the    *)
(* text is made up.                                                        *)
(***************************************************************************)
EXTENDS Output, Options

VARIABLES topic, text

Item(n, v) == [name |-> n, value |-> v]
Names  == {<<"a">>, <<"a", "b">>, <<"b">>}
Values == {<< >>, <<"v", "=", "v">>, <<"v", "%", "0", "1">>, <<"+">>}
Cookies == {<<"a">>, <<"b">>, <<"b", "a">>, <<"a", "a", "a">>}
Parts  == {<< >>, <<"a">>, <<"r">>, <<"r", "n", "-">>, <<"r", "r", "n">>,
           <<"n", "-", "d", "a", "r", "n">>, <<"a", "a", "r", "n", "a", "a">>}
Dates  == [year : 1970 .. 1980 \cup {1999, 2000, 2001, 2100, 2101},
           month : 1 .. 12, day : {1, 28, 31}]
Rules  == [flag : {"+", "-"}, net : 0 .. 7, slash : 0 .. AddrBits]
          \cup [flag : {"*"}, net : {0}, slash : {0}]

Settings == [from : {"file", "line"}, name : {"a", "b", "r", "x"}, value : {1, 2}]

Letters ==
  [uri     |-> {"0", "1", "a", "%", "+", " ", "/"},
   path    |-> {"/", "\\", ".", "a"},
   glob    |-> {"a", "b", "/"},
   request |-> {"n", "r", "a", "ctl"},
   form    |-> {Item(n, v) : n \in Names, v \in Values},
   cookie  |-> {Item(n, v) : n \in Cookies,
                  v \in {<< >>, <<"v">>, <<"q", "v", "q">>}},
   auth    |-> {Item(n, v) : n \in {<<"u">>, <<"n", "c">>},
                  v \in {<< >>, <<"v">>, <<"q", "v">>, <<"v", "q">>,
                         <<"q", "q">>, <<"v", " ", ",", "=", "v">>}},
   ssi     |-> {"<", "#", ">", "a"},
   upload  |-> Parts,
   base64  |-> {0, 1, 63, 64, 170, 255},
   range   |-> 0 .. 5,
   date    |-> Dates,
   acl     |-> Rules,
   writes  |-> [gap : 0 .. 2, len : 0 .. 7],
   printf  |-> {"a"},
   options |-> Settings]

MaxLen ==
  [uri |-> 4, path |-> 6, glob |-> 4, request |-> 6, form |-> 3, cookie |-> 3,
   auth |-> 3, ssi |-> 7, upload |-> 2, base64 |-> 4, range |-> 3, date |-> 1,
   acl |-> 2, writes |-> 3, printf |-> 5, options |-> 4]

Init == topic \in DOMAIN Letters /\ text = << >>
Next == /\ Len(text) < MaxLen[topic]
        /\ \E c \in Letters[topic] : text' = Append(text, c)
        /\ UNCHANGED topic
Spec == Init /\ [][Next]_<<topic, text>>

-----------------------------------------------------------------------------
(* Uri.                                                                    *)

\* Decoding what mg_url_encode wrote gives the text back, for a form or not.
CodingInverse ==
  topic = "uri" => \A form \in BOOLEAN :
    UrlDecode(UrlEncode(text, 99), 99, form)
      = [dst |-> text, len |-> Len(text)]

\* mg_url_decode into a buffer of any size leaves room for the terminator, what
\* it writes is the start of the whole decoded text, and it answers -1 exactly
\* when it had to cut that, never between an escape and its digits.
DecodeTruncates ==
  topic = "uri" => \A form \in BOOLEAN, size \in 1 .. 5 :
    LET r == UrlDecode(text, size, form)
        whole == UrlDecode(text, 99, form).dst
    IN /\ Len(r.dst) < size /\ IsPrefix(r.dst, whole)
       /\ r.len = IF r.dst = whole THEN Len(whole) ELSE -1

\* After remove_double_dots_and_double_slashes no slash or backslash is
\* followed by another or by "..", and nothing changes when it is done again.
NoDotsAfterSlash ==
  topic = "path" => LET r == RemoveDots(text) IN
    /\ \A i \in DOMAIN r : r[i] \in Slashes =>
         /\ At(r, i + 1) \notin Slashes
         /\ ~(At(r, i + 1) = "." /\ At(r, i + 2) = ".")
    /\ RemoveDots(r) = r

\* The redirection of a directory: a URI that decoding and cleaning leave as it
\* is is redirected when it has no slash at its end, and a client that was
\* redirected from a URI whose clean form has no slash at its end is not
\* redirected again.
RedirectEnds ==
  topic = "uri" /\ At(text, 1) = "/" =>
    LET clean == Cleaned(text)
        slash == clean[Len(clean)] = "/"
    IN /\ clean = text => (Redirected(text) <=> ~slash)
       /\ Redirected(text) /\ ~slash /\ "%" \notin {clean[i] : i \in DOMAIN clean} =>
            ~Redirected(Location(text))

\* All lengths of a start of s that a pattern without alternatives describes.
RECURSIVE Described(_, _)
Described(p, s) ==
  LET after(q, k) == {k + j : j \in Described(q, From(s, k + 1))}
  IN CASE p = << >> -> {0}
       [] At(p, 1) = "$" -> IF s = << >> THEN {0} ELSE {}
       [] At(p, 1) = "*" /\ At(p, 2) = "*" ->
            UNION {after(From(p, 3), k) : k \in 0 .. Len(s)}
       [] At(p, 1) = "*" ->
            UNION {after(From(p, 2), k) :
                     k \in {j \in 0 .. Len(s) : \A i \in 1 .. j : s[i] # "/"}}
       [] OTHER -> IF s # << >> /\ p[1] \in {"?", s[1]}
                   THEN after(From(p, 2), 1) ELSE {}

\* match_prefix, which tries the longest star first and never goes back over
\* an earlier choice, still finds the longest start that the pattern describes,
\* and finds one whenever there is one; of two alternatives the first counts
\* unless it matches nothing.
MatchIsLongest ==
  LET longest(p) == LET d == Described(p, text) IN
        IF d = {} THEN -1 ELSE CHOOSE k \in d : \A j \in d : j <= k
      patterns == BoundedSeq({"a", "/", "*", "?", "$"}, 3)
  IN topic = "glob" => \A p \in patterns :
       /\ MatchPrefix(p, text) = longest(p)
       /\ \A q \in {<<"a">>, <<"*", "b">>, << >>} :
            MatchPrefix(p \o <<"|">> \o q, text) =
              IF longest(p) > 0 THEN longest(p) ELSE longest(q)

\* More bytes never change what get_request_len has once said of a buffer, and
\* the length it gives is inside the buffer and ends a line: read_request may
\* ask after any number of bytes.
RequestLenStable ==
  topic = "request" => LET r == RequestLen(text) IN
    /\ \A k \in 0 .. Len(text) :
         LET e == RequestLen(SubSeq(text, 1, k)) IN e # 0 => e = r
    /\ r > 0 => /\ r <= Len(text) /\ text[r] = "n"
                /\ "ctl" \notin ToSet(SubSeq(text, 1, r))

-----------------------------------------------------------------------------
(* Fields.  The text is written from items, then looked up in.             *)

Joined(strings, sep) ==
  FlattenSeq([k \in DOMAIN strings |->
                IF k = 1 THEN strings[k] ELSE sep \o strings[k]])
Written(sep) ==
  Joined([k \in DOMAIN text |-> text[k].name \o <<"=">> \o text[k].value], sep)
FirstItem(T(_)) == LET hits == {k \in DOMAIN text : T(text[k])} IN
                   IF hits = {} THEN 0 ELSE Least(hits)
LastItem(n) == CHOOSE k \in DOMAIN text :
                 /\ text[k].name = n
                 /\ \A j \in k + 1 .. Len(text) : text[j].name # n

\* mg_get_var gives the decoded value of the first variable with exactly that
\* name, -1 when there is none and -2 when it does not fit.
GetVarFirst ==
  topic = "form" => \A name \in Names, size \in 1 .. 4 :
    LET k == FirstItem(LAMBDA i : i.name = name)
        r == GetVar(Written(<<"&">>), name, size)
        v == UrlDecode(text[k].value, 99, TRUE).dst
    IN IF k = 0 THEN r = NotFound
       ELSE IF Len(v) < size THEN r = [dst |-> v, len |-> Len(v)]
       ELSE r.len = -2

\* decode_query of cgi-getfield, when every field has a name and a value and
\* fits in its buffer, gives the decoded value of the first field whose name
\* starts with the key.
QueryFirst ==
  LET v(i) == UrlDecode(i.value, 99, TRUE)
      fits(i, size) == Len(i.name) + 1 + v(i).len < size
  IN topic = "form" => \A key \in Names, size \in {4, 99} :
       (\A k \in DOMAIN text : fits(text[k], size)) =>
         LET k == FirstItem(LAMBDA i : StartsWith(i.name, 1, key))
         IN DecodeQuery(Written(<<"&">>), key, size) =
              IF k = 0 THEN NotFound ELSE v(text[k])

\* next_option takes a list apart into the items it was written from; a comma
\* at its end adds none.
OptionsSplit ==
  topic = "form" => \A end \in {<< >>, <<",">>} :
    text # << >> =>
    OptionList(Written(<<",">>) \o end) =
      [k \in DOMAIN text |-> [val |-> text[k].name, eq_val |-> text[k].value]]

Unquoted(v) == IF At(v, 1) = "q" THEN SubSeq(v, 2, Len(v) - 1) ELSE v

\* mg_get_cookie gives the value, without quotes, of the first cookie with the
\* name asked for, -1 when there is none, and when the value does not fit some
\* other error and an empty value, provided no other cookie has a name that
\* ends in the one asked for.
GetCookieFirst ==
  topic = "cookie" =>
  \A name \in Cookies \cup {<<"a", "a">>}, size \in 1 .. 2 :
    LET k == FirstItem(LAMBDA i : i.name = name)
        v == Unquoted(text[k].value)
        r == GetCookie(Written(<<";", " ">>), name, size)
    IN (\A i \in DOMAIN text : IsSuffix(name, text[i].name) => text[i].name = name) =>
         IF k = 0 THEN r = NotFound
         ELSE IF Len(v) < size THEN r = [len |-> Len(v), dst |-> v]
         ELSE r.len < -1 /\ r.dst = << >>

\* cgi-getcookie gives the value, without quotes, of the first cookie with
\* exactly the name asked for, when its input is shorter than its buffer.
CookieByName ==
  topic = "cookie" => \A name \in Cookies, size \in {8, 99} :
    LET k == FirstItem(LAMBDA i : i.name = name)
        v == Unquoted(text[k].value)
        h == Written(<<";", " ">>)
    IN Len(h) < size =>
         FindCookie(h, name, size) =
           IF k = 0 THEN NotFound ELSE [len |-> Len(v), dst |-> v]

Escape(v) == FlattenSeq([k \in DOMAIN v |->
                           IF v[k] = "q" THEN <<"\\", "q">> ELSE <<v[k]>>])
AuthItem(i) == i.name \o <<"=">> \o
  (IF i.name = <<"n", "c">> /\ i.value = <<"v">> THEN i.value
   ELSE <<"q">> \o Escape(i.value) \o <<"q">>)

\* parse_auth_header finds the names of an Authorization header and the values
\* written there, in quotes with quotes escaped or bare, commas, spaces and '='
\* inside quotes included; the last of equal names counts.
AuthFields ==
  topic = "auth" =>
    ParseAuthHeader(Joined([k \in DOMAIN text |-> AuthItem(text[k])],
                           <<",", " ">>))
      = [n \in {text[k].name : k \in DOMAIN text} |-> text[LastItem(n)].value]

-----------------------------------------------------------------------------
(* Content.                                                                *)

\* For a range inside the file, or one without an end, the length announced is
\* the length sent, and the last byte announced is in the file; for no other is
\* more sent than was announced.
RangeAnnounced ==
  topic = "range" /\ Len(text) = 3 =>
    LET size == text[1]  r1 == text[2]  r2 == text[3]
        exact(n) == SentLen(size, r1, RangeLen(size, n, r1, r2))
                      = RangeLen(size, n, r1, r2)
    IN /\ r1 <= r2 /\ r2 < size =>
            exact(2) /\ r1 + RangeLen(size, 2, r1, r2) - 1 = r2
       /\ r1 <= size => exact(1)
       /\ r1 <= r2 /\ r1 < size =>
            SentLen(size, r1, RangeLen(size, 2, r1, r2)) <= RangeLen(size, 2, r1, r2)

Leap(y) == y % 4 = 0 /\ (y % 100 # 0 \/ y % 400 = 0)
DaysIn(y, m) == CASE m = 2 -> IF Leap(y) THEN 29 ELSE 28
                  [] m \in {4, 6, 9, 11} -> 30
                  [] OTHER -> 31
DayNumber(y, m, d) ==
  365 * (y - 1970) + Cardinality({x \in 1970 .. y - 1 : Leap(x)})
    + MapThenSumSet(LAMBDA k : DaysIn(y, k), 1 .. m - 1) + d - 1

Earlier(d, e) ==
  \/ d.year < e.year
  \/ d.year = e.year /\ (d.month < e.month \/ (d.month = e.month /\ d.day < e.day))

\* parse_date_string counts the days since 1970 as the calendar does, also over
\* leap years and centuries, outside January and February of a leap year, and
\* never takes a later day for an earlier one, which is what is_not_modified
\* needs.  (Years up to 1970 are refused.)
DateIsDay ==
  topic = "date" /\ text # << >> =>
    LET d == text[1]
        days == {e \in Dates : e.day <= DaysIn(e.year, e.month)}
    IN d \in days /\ d.year > 1970 =>
         /\ ~(Leap(d.year) /\ d.month <= 2) =>
              ParseDate(d) = DayNumber(d.year, d.month, d.day)
         /\ \A e \in days : Earlier(d, e) => ParseDate(d) <= ParseDate(e)

Bit(n, k) == (n \div 2 ^ k) % 2

\* The bits that base64_encode writes, six to a character, are those of the
\* bytes, eight to a byte, then zeros; the padding makes groups of four.
Base64Bits ==
  topic = "base64" =>
    LET r == Base64Encode(text)
        n == (8 * Len(text) + 5) \div 6
    IN /\ Len(r) = 4 * ((Len(text) + 2) \div 3)
       /\ \A k \in 1 .. Len(r) : (r[k] = 64) <=> k > n
       /\ \A b \in 0 .. 6 * n - 1 :
            Bit(r[b \div 6 + 1], 5 - (b % 6)) =
              IF b < 8 * Len(text) THEN Bit(text[b \div 8 + 1], 7 - (b % 8))
              ELSE 0

\* check_acl: an address is let in when the last rule whose prefix it shares
\* says so, provided the nets are written without host bits; everybody is let
\* in without a list, and nobody is by default with one.
AclByPrefix ==
  topic = "acl" => \A ip \in 0 .. 7 :
    LET Top(a, k) == a \div 2 ^ (AddrBits - text[k].slash)
        hits == {k \in DOMAIN text : Top(ip, k) = Top(text[k].net, k)}
        proper == \A k \in DOMAIN text : text[k].flag # "*" /\
                    text[k].net % 2 ^ (AddrBits - text[k].slash) = 0
        last == CHOOSE k \in hits : \A j \in hits : j <= k
    IN proper => (CheckAcl(text, ip) = 1 <=>
                    text = << >> \/ (hits # {} /\ text[last].flag = "+"))

\* send_ssi_file stays inside its buffer whatever the file holds, and a file
\* without the start of a directive is sent as it is.
SsiText ==
  topic = "ssi" => \A size \in 5 .. 6 :
    LET r == SendSsi(text, size) IN
    /\ r.fits
    /\ (\A i \in DOMAIN text : ~StartsWith(text, i, Tag)) => r.out = text

Body == FlattenSeq([k \in DOMAIN text |->
          (IF k = 1 THEN <<"-", "d">> ELSE Delim)
            \o <<"r", "n", "F", "r", "n", "r", "n">> \o text[k]])
        \o Delim \o <<"-", "-", "r", "n">>

\* mg_upload writes each file byte for byte and counts it, wherever its buffer
\* happens to end: in the data, in the boundary or in something like it.
UploadExact ==
  topic = "upload" /\ text # << >> =>
    \A size \in 11 .. 16 : Upload(Body, size) = text

-----------------------------------------------------------------------------
(* Output and Options.                                                     *)

\* Whenever mg_write returns, a throttled connection that is not broken has kept
\* to its limit of bytes per second on the average, from any second on up to
\* now, however the data is cut into writes.  A write returns its length unless
\* the peer takes no more or the server stops.
ThrottleHolds ==
  topic = "writes" => \A limit \in 0 .. 3, room \in {2, 6, 99}, stop \in {2, 99} :
    LET r == Writes(text, limit, room, stop)
        since(a) == MapThenSumSet(LAMBDA t : r.out[t], a .. r.now)
    IN /\ limit > 0 /\ r.room > 0 =>
            \A a \in 0 .. r.now : since(a) <= limit * (r.now - a + 1)
       /\ text # << >> /\ room = 99 /\ stop = 99 =>
            r.total = text[Len(text)].len

\* mg_printf sends the message it was given, on the stack or from the heap,
\* unless it is exactly as long as the buffer on the stack.
PrintfWhole ==
  topic = "printf" => \A size \in 1 .. 4 :
    Len(text) # size => Printf(text, size) = text

Given(from, name) == {k \in DOMAIN text : text[k].from = from /\ text[k].name = name}

\* An option has the value given last on the command line, or else last in the
\* configuration file, or else its default.  tinyweb ends before it writes past
\* its array of MaxOptions pointers, and mg_start refuses a name it does not know.
LineOverridesFile ==
  topic = "options" =>
    LET pick(f) == SelectSeq(text, LAMBDA s : s.from = f)
        r == ProcessArguments(pick("file"), pick("line"))
        last(S) == text[CHOOSE k \in S : \A j \in S : j <= k].value
    IN /\ r.used <= MaxOptions
       /\ (r.died <=> 2 * Len(text) + 1 >= MaxOptions)
       /\ ~r.died =>
            LET config == ReadOptions(r.options)
            IN IF \E k \in DOMAIN text : text[k].name \notin DOMAIN Defaults
               THEN config = Refusal
               ELSE \A n \in DOMAIN Defaults :
                      config[n] = IF Given("line", n) # {} THEN last(Given("line", n))
                                  ELSE IF Given("file", n) # {}
                                  THEN last(Given("file", n))
                                  ELSE Defaults[n]

-----------------------------------------------------------------------------
(* What each part of the code promises.                                    *)

\* mg_url_encode, mg_url_decode and base64_encode: what is encoded decodes to
\* itself, what is cut is cut between characters with room for the terminator,
\* and no bit is lost in Base64.
CodingExact == CodingInverse /\ DecodeTruncates /\ Base64Bits

\* remove_double_dots_and_double_slashes, match_prefix and the redirection of
\* handle_request: a cleaned path has nothing left to clean, a pattern matches
\* as much as it describes, and a redirected client is redirected once, unless
\* the URI had slashes to spare.
PathsResolved == NoDotsAfterSlash /\ MatchIsLongest /\ RedirectEnds

\* mg_get_var, mg_get_cookie, parse_auth_header, cgi-getfield and cgi-getcookie
\* find what was written, under the name each of them takes for the same, with
\* look-alike names, quotes and delimiters around it.
FieldsFound ==
  GetVarFirst /\ QueryFirst /\ GetCookieFirst /\ CookieByName /\ AuthFields

\* next_option, check_acl, and the options of tinyweb and mg_start: lists come
\* apart as they were written, the last rule that fits decides, and the command
\* line overrides the file.
OptionsApplied == OptionsSplit /\ AclByPrefix /\ LineOverridesFile

\* get_request_len, send_ssi_file and mg_upload scan data that comes in pieces:
\* where a buffer happens to end changes neither what they find nor what they
\* copy, and none writes past its buffer.
ScansExact == RequestLenStable /\ SsiText /\ UploadExact

\* handle_file_request announces what it sends, and parse_date_string counts
\* days as the calendar does and in its order.  (A range that ends past the file
\* and the first two months of a leap year are left out.)
NumbersRight == RangeAnnounced /\ DateIsDay

\* mg_write keeps to the throttle on the average and sends all it was given, as
\* mg_printf does but for one length.
OutputWhole == ThrottleHolds /\ PrintfWhole

=============================================================================
