-------------------------------- MODULE Uri --------------------------------
(***************************************************************************)
(* The functions mongoose.c takes URIs, patterns and requests apart with.  *)
(* A string is a sequence of characters; reading past its end gives Nul.   *)
(* Escapes are written in a code page of a few characters and two digits.  *)
(***************************************************************************)
EXTENDS Integers, Sequences, FiniteSets

Nul      == "nul"
At(s, i) == IF i \in 1 .. Len(s) THEN s[i] ELSE Nul
From(s, i) == SubSeq(s, i, Len(s))
Least(S)   == CHOOSE x \in S : \A y \in S : x <= y

\* The first position of a character from C at or after i, or past the end.
FirstOf(s, i, C) ==
  Least({k \in i .. Len(s) : s[k] \in C} \cup {Len(s) + 1})

Digits   == {"0", "1"}
CodePage == [d \in Digits \X Digits |->
               CASE d = <<"0", "0">> -> "%"
                 [] d = <<"0", "1">> -> "+"
                 [] d = <<"1", "0">> -> " "
                 [] OTHER            -> "/"]

\* The characters that are neither letters, digits nor in dont_escape.
Escaped == {CodePage[d] : d \in Digits \X Digits}
CodeOf(c) == CHOOSE d \in Digits \X Digits : CodePage[d] = c

-----------------------------------------------------------------------------
(* URL coding.                                                             *)

IsEscape(src, i) ==
  /\ src[i] = "%" /\ i + 2 <= Len(src)
  /\ src[i + 1] \in Digits /\ src[i + 2] \in Digits

\* The next character decoded, and how many it was written with.
DecodeChar(src, i, form) ==
  IF IsEscape(src, i)
  THEN [c |-> CodePage[<<src[i + 1], src[i + 2]>>], w |-> 3]
  ELSE [c |-> IF form /\ src[i] = "+" THEN " " ELSE src[i], w |-> 1]

\* mg_url_decode into dst_len bytes: the text and its length, or -1 when it
\* was cut.
RECURSIVE DecodeFrom(_, _, _, _, _)
DecodeFrom(src, i, dst, dst_len, form) ==
  IF i <= Len(src) /\ Len(dst) < dst_len - 1
  THEN LET d == DecodeChar(src, i, form)
       IN DecodeFrom(src, i + d.w, Append(dst, d.c), dst_len, form)
  ELSE [dst |-> dst, len |-> IF i > Len(src) THEN Len(dst) ELSE -1]

\* Mutant: no room is kept for the terminator.
DecodeUnended(src, dst_len, form) ==
  DecodeFrom(src, 1, << >>, dst_len + 1, form)

UrlDecode(src, dst_len, form) == DecodeFrom(src, 1, << >>, dst_len, form)

\* mg_url_encode.  An escape for which there is no room leaves a byte of dst
\* as it was.
RECURSIVE EncodeFrom(_, _, _, _)
EncodeFrom(src, i, dst, dst_len) ==
  IF i > Len(src) \/ Len(dst) >= dst_len - 1 THEN dst
  ELSE EncodeFrom(src, i + 1,
         dst \o (IF src[i] \notin Escaped THEN <<src[i]>>
                 ELSE IF Len(dst) + 2 < dst_len - 1
                 THEN <<"%">> \o CodeOf(src[i]) ELSE <<"junk">>), dst_len)

UrlEncode(src, dst_len) == EncodeFrom(src, 1, << >>, dst_len)

-----------------------------------------------------------------------------
(* Paths and patterns.                                                     *)

Slashes == {"/", "\\"}

RECURSIVE SkipDots(_, _)
SkipDots(s, i) ==
  IF At(s, i) \in Slashes THEN SkipDots(s, i + 1)
  ELSE IF At(s, i) = "." /\ At(s, i + 1) = "." THEN SkipDots(s, i + 2)
  ELSE i

\* Mutant: the double dot is skipped once, before the slashes.
SkipOnce(s, i) ==
  LET j == IF At(s, i) = "." /\ At(s, i + 1) = "." THEN i + 2 ELSE i
  IN Least({k \in j .. Len(s) : s[k] \notin Slashes} \cup {Len(s) + 1})

AfterSlash(s, i) == SkipDots(s, i)

\* remove_double_dots_and_double_slashes.
RECURSIVE CleanFrom(_, _)
CleanFrom(s, i) ==
  IF i > Len(s) THEN << >>
  ELSE <<s[i]>> \o CleanFrom(s, IF s[i] \in Slashes THEN AfterSlash(s, i + 1)
                                ELSE i + 1)

RemoveDots(s) == CleanFrom(s, 1)

\* What handle_request finds in the memory of the URI once it is decoded and
\* cleaned where it stands: the shorter text, its end, and what was there.
InPlace(old, new) ==
  IF Len(new) < Len(old) THEN new \o <<Nul>> \o From(old, Len(new) + 2) ELSE new

Cleaned(uri) == RemoveDots(UrlDecode(uri, Len(uri) + 1, FALSE).dst)

\* The byte at the end of the URI, by the length it had to begin with.
LastByte(uri) ==
  LET dst == UrlDecode(uri, Len(uri) + 1, FALSE).dst
      mem == InPlace(uri, dst)
      end == InPlace(dst, RemoveDots(dst)) \o From(mem, Len(dst) + 1)
  IN end[Len(uri)]

\* A directory is redirected, and where to.
Redirected(uri) == LastByte(uri) # "/"
Location(uri) == Append(Cleaned(uri), "/")

\* The lengths a star tries, in order.
StarOrder(len) == [k \in 1 .. len + 1 |-> len + 1 - k]

\* match_prefix: how much of str the pattern matches, or -1.
RECURSIVE MatchPrefix(_, _), MatchFrom(_, _, _, _)
MatchPrefix(pattern, str) ==
  LET bar == FirstOf(pattern, 1, {"|"})
      res == MatchFrom(SubSeq(pattern, 1, bar - 1), str, 1, 1)
  IN IF bar > Len(pattern) \/ res > 0 THEN res
     ELSE MatchPrefix(From(pattern, bar + 1), str)

MatchFrom(pattern, str, i, j) ==
  IF i > Len(pattern) THEN j - 1
  ELSE IF pattern[i] = "?" /\ j <= Len(str)
  THEN MatchFrom(pattern, str, i + 1, j + 1)
  ELSE IF pattern[i] = "$" THEN IF j > Len(str) THEN j - 1 ELSE -1
  ELSE IF pattern[i] = "*"
  THEN LET two  == At(pattern, i + 1) = "*"
           rest == From(pattern, IF two THEN i + 2 ELSE i + 1)
           len  == (IF two THEN Len(str) + 1 ELSE FirstOf(str, j, {"/"})) - j
           res(l) == MatchPrefix(rest, From(str, j + l))
           tries  == StarOrder(len)
           hits   == {k \in DOMAIN tries : res(tries[k]) # -1}
       IN IF rest = << >> THEN j - 1 + len
          ELSE IF hits = {} THEN -1
          ELSE j - 1 + tries[Least(hits)] + res(tries[Least(hits)])
  ELSE IF pattern[i] # At(str, j) THEN -1
  ELSE MatchFrom(pattern, str, i + 1, j + 1)

-----------------------------------------------------------------------------
(* Requests.  "n" and "r" are line feed and carriage return, "ctl" another *)
(* control character.                                                      *)

\* What the scan says at position i of the buffer; it stops at the first that
\* is not 0.
HeaderEnd(buf, i) ==
  CASE buf[i] = "ctl" -> -1
    [] buf[i] = "n" /\ buf[i + 1] = "n" -> i + 1
    [] buf[i] = "n" /\ i + 1 < Len(buf) /\ buf[i + 1] = "r"
                    /\ buf[i + 2] = "n" -> i + 2
    [] OTHER -> 0

\* get_request_len.
RequestLen(buf) ==
  LET hits == {i \in 1 .. Len(buf) - 1 : HeaderEnd(buf, i) # 0}
  IN IF hits = {} THEN 0 ELSE HeaderEnd(buf, Least(hits))
=============================================================================
