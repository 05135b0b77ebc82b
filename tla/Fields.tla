------------------------------- MODULE Fields -------------------------------
(***************************************************************************)
(* Looking values up by name: mg_get_var, mg_get_cookie, skip_quoted and   *)
(* parse_auth_header of mongoose.c, next_option, and the scanners of the   *)
(* programs cgi-getcookie and cgi-getfield.                                *)
(***************************************************************************)
EXTENDS Uri

StartsWith(s, i, t) ==
  i + Len(t) - 1 <= Len(s) /\ SubSeq(s, i, i + Len(t) - 1) = t

NotFound == [len |-> -1, dst |-> << >>]

\* The program has written past an array: it may do anything.
Undefined == [len |-> -9, dst |-> <<"undefined">>]

-----------------------------------------------------------------------------
(* mg_get_var and mg_get_cookie.                                           *)

\* Mutant: a name may start anywhere.
VarAtAnywhere(data, p, name) ==
  StartsWith(data, p, name) /\ At(data, p + Len(name)) = "="

\* The name starts a variable at position p.
VarAt(data, p, name) ==
  /\ p = 1 \/ data[p - 1] = "&"
  /\ StartsWith(data, p, name) /\ At(data, p + Len(name)) = "="

GetVar(data, name, dst_len) ==
  LET found == {p \in 1 .. Len(data) - Len(name) : VarAt(data, p, name)}
      p == Least(found) + Len(name) + 1
      v == SubSeq(data, p, FirstOf(data, p, {"&"}) - 1)
      r == UrlDecode(v, dst_len, TRUE)
  IN IF found = {} THEN NotFound
     ELSE IF r.len = -1 THEN [r EXCEPT !.len = -2] ELSE r

\* One past the value that starts at s: a space or the end ends it, and a
\* semicolon before that does not belong to it.
CookieEnd(h, s) ==
  LET p == FirstOf(h, s, {" "}) IN IF h[p - 1] = ";" THEN p - 1 ELSE p

\* mg_strcasestr finds the name anywhere from s on; an occurrence counts when
\* '=' follows it, and after another the search goes on behind the name.
RECURSIVE CookieFrom(_, _, _)
CookieFrom(h, s, name) ==
  LET p == Least({k \in s .. Len(h) : StartsWith(h, k, name)} \cup {Len(h) + 1})
  IN IF p > Len(h) \/ At(h, p + Len(name)) = "=" THEN p
     ELSE CookieFrom(h, p + Len(name), name)

GetCookie(h, name, dst_size) ==
  LET found == CookieFrom(h, 1, name)
      s == found + Len(name) + 1
      e == CookieEnd(h, s)
      quoted == At(h, s) = "q" /\ h[e - 1] = "q" /\ e > s + 1
      v == IF quoted THEN SubSeq(h, s + 1, e - 2) ELSE SubSeq(h, s, e - 1)
  IN IF found > Len(h) THEN NotFound
     ELSE IF Len(v) < dst_size THEN [len |-> Len(v), dst |-> v]
     ELSE [len |-> -3, dst |-> << >>]

-----------------------------------------------------------------------------
(* skip_quoted and parse_auth_header.  "q" is the double quote.            *)

\* Where the word that starts at i ends: at the first delimiter that the quote
\* character does not precede.
WordEnd(s, i, delims, quote) ==
  Least({k \in i .. Len(s) : /\ s[k] \in delims
                             /\ k = i \/ s[k - 1] # quote} \cup {Len(s) + 1})

\* skip_quoted: the word with the quote characters before delimiters taken out,
\* and the position after the delimiter and the white space behind it.
SkipQuoted(s, i, delims, space, quote) ==
  LET e == WordEnd(s, i, delims, quote)
      kept == {k \in i .. e - 1 :
                 ~(s[k] = quote /\ At(s, k + 1) \in delims \cup {Nul})}
      word[k \in i .. e] ==
        IF k = e THEN << >>
        ELSE (IF k \in kept THEN <<s[k]>> ELSE << >>) \o word[k + 1]
      next == IF e > Len(s) THEN e
              ELSE Least({k \in e + 1 .. Len(s) : s[k] \notin space}
                         \cup {Len(s) + 1})
  IN [word |-> word[i], next |-> next]

\* The loop of parse_auth_header from position i: the last value of each name.
RECURSIVE AuthFrom(_, _, _)
AuthFrom(s, i, ah) ==
  LET b    == Least({k \in i .. Len(s) : s[k] # " "} \cup {Len(s) + 1})
      name == SkipQuoted(s, b, {"="}, {" "}, Nul)
      inq  == At(s, name.next) = "q"
      val  == IF inq THEN SkipQuoted(s, name.next + 1, {"q"}, {" "}, "\\")
              ELSE SkipQuoted(s, name.next, {",", " "}, {" "}, Nul)
      next == IF inq /\ At(s, val.next) = "," THEN val.next + 1 ELSE val.next
  IN IF name.word = << >> THEN ah
     ELSE AuthFrom(s, next, [n \in DOMAIN ah \cup {name.word} |->
                               IF n = name.word THEN val.word ELSE ah[n]])

ParseAuthHeader(s) == AuthFrom(s, 1, << >>)

-----------------------------------------------------------------------------
(* next_option, until the list is used up.                                 *)

\* Where the name of the value between i and the comma at c ends.
OptionEq(list, i, c) == FirstOf(SubSeq(list, 1, c - 1), i, {"="})

RECURSIVE OptionsFrom(_, _)
OptionsFrom(list, i) ==
  LET c  == FirstOf(list, i, {","})
      eq == OptionEq(list, i, c)
  IN IF i > Len(list) THEN << >>
     ELSE <<[val |-> SubSeq(list, i, eq - 1),
             eq_val |-> SubSeq(list, eq + 1, c - 1)]>>
          \o OptionsFrom(list, c + 1)

OptionList(list) == OptionsFrom(list, 1)

-----------------------------------------------------------------------------
(* cgi-getcookie: scan_cookie, called by main until a name is the field.   *)

Quotes == {"q", "sq", "bq"}
Blanks == {" ", "\t"}

\* Where scanning goes on after a closing quote at k.
AfterQuote(p, k) == IF At(p, k + 1) = ";" THEN k + 2 ELSE k + 1

\* The cookie at position i and the position behind it; next = 0 is the null
\* pointer.
ScanCookie(p, i) ==
  LET b  == Least({k \in i .. Len(p) : p[k] \notin Blanks} \cup {Len(p) + 1})
      eq == FirstOf(p, b, {"="})
      inq == At(p, eq + 1) \in Quotes
      v  == IF inq THEN eq + 2 ELSE eq + 1
      e  == IF inq THEN FirstOf(p, v, {p[eq + 1]})
            ELSE FirstOf(p, v, Blanks \cup {";", "r", "n"})
      item(next) == [name |-> SubSeq(p, b, eq - 1),
                     value |-> SubSeq(p, v, e - 1), next |-> next]
  IN IF eq > Len(p) \/ eq = b \/ (inq /\ e > Len(p)) THEN item(0)
     ELSE IF inq THEN item(AfterQuote(p, e))
     ELSE item(IF e > Len(p) THEN e ELSE e + 1)

RECURSIVE FindCookieFrom(_, _, _)
FindCookieFrom(p, i, field) ==
  LET c == ScanCookie(p, i)
  IN IF c.next = 0 THEN NotFound
     ELSE IF c.name = field THEN [len |-> Len(c.value), dst |-> c.value]
     ELSE FindCookieFrom(p, c.next, field)

\* main reads up to size bytes into a buffer of that size and then ends them.
FindCookie(p, field, size) ==
  IF Len(p) >= size THEN Undefined ELSE FindCookieFrom(p, 1, field)

-----------------------------------------------------------------------------
(* cgi-getfield: decode_query.  A field is collected in nm and, once '='   *)
(* was seen after at least one character, in val; k bytes of buf are then  *)
(* taken, and j is where the last value seen starts.  A field without '='  *)
(* is given a value of k - j bytes behind its name, whatever is there.     *)

NewField == [nm |-> << >>, val |-> << >>, named |-> FALSE]
Put(f, c) == IF f.named THEN [f EXCEPT !.val = Append(@, c)]
             ELSE [f EXCEPT !.nm = Append(@, c)]

\* Whether '=' ends the name.
Split(q, f) == ~f.named /\ f.nm # << >>

RECURSIVE QueryFrom(_, _, _, _, _, _)
QueryFrom(q, i, f, j, key, size) ==
  LET c == At(q, i)
      k == Len(f.nm) + (IF f.named THEN 1 + Len(f.val) ELSE 0)
  IN CASE k >= size -> Undefined
       [] k < size /\ c = "=" /\ Split(q, f) ->
            QueryFrom(q, i + 1, [f EXCEPT !.named = TRUE, !.val = << >>],
                      Len(f.nm) + 1, key, size)
       [] k < size /\ c = "=" /\ ~f.named /\ f.nm = << >> ->
            QueryFrom(q, i + 1, f, j, key, size)
       [] k < size /\ c \in {Nul, "&"} ->
            IF f.nm # << >> /\ StartsWith(f.nm, 1, key)
            THEN [len |-> k - j, dst |-> IF f.named THEN f.val ELSE <<"junk">>]
            ELSE IF c = Nul THEN NotFound
            ELSE QueryFrom(q, i + 1, NewField, j, key, size)
       [] OTHER ->
            LET d == DecodeChar(q, i, TRUE)
            IN QueryFrom(q, i + d.w, Put(f, d.c), j, key, size)

\* size is that of buf.
DecodeQuery(q, key, size) == QueryFrom(q, 1, NewField, 0, key, size)
=============================================================================
