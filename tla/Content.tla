------------------------------ MODULE Content ------------------------------
(***************************************************************************)
(* What is done to the content of files and requests: byte ranges, server  *)
(* side includes, multipart uploads, dates, Base64, and the subnets of the *)
(* access control list and of the throttle option.                         *)
(***************************************************************************)
EXTENDS Fields, SequencesExt

SmallerOf(a, b) == IF a < b THEN a ELSE b
GreaterOf(a, b) == IF a > b THEN a ELSE b

-----------------------------------------------------------------------------
(* handle_file_request and send_file_data.                                 *)

\* The length announced for a Range header with n = 1 or 2 numbers.
RangeLen(size, n, r1, r2) ==
  IF n = 2 THEN (IF r2 > size THEN size ELSE r2) - r1 + 1 ELSE size - r1

\* How many bytes send_file_data sends of a file: it stops at its end.
SentLen(size, offset, len) ==
  LET o == IF offset < 0 THEN 0 ELSE SmallerOf(offset, size)
  IN GreaterOf(0, SmallerOf(len, size - o))

-----------------------------------------------------------------------------
(* parse_date_string and is_not_modified, in days; month is 1 .. 12.       *)

DaysBefore == <<0, 31, 59, 90, 120, 151, 181, 212, 243, 273, 304, 334>>

\* Mutant: every fourth year is a leap year.
EveryFourth(year) == year \div 4

NumLeapYears(year) == year \div 4 - year \div 100 + year \div 400

ParseDate(d) ==
  IF d.year > 1970
  THEN (d.year - 1970) * 365 + DaysBefore[d.month] + (d.day - 1)
       + NumLeapYears(d.year) - NumLeapYears(1970)
  ELSE 0

-----------------------------------------------------------------------------
(* base64_encode; a character is its index in b64, 64 is '='.              *)

SecondSextet(a, b) == (a % 4) * 16 + b \div 16

Base64Group(src, i) ==
  LET byte(k) == IF k > Len(src) THEN 0 ELSE src[k]
      a == byte(i)  b == byte(i + 1)  c == byte(i + 2)
  IN <<a \div 4, SecondSextet(a, b)>>
     \o (IF i + 1 <= Len(src) THEN <<(b % 16) * 4 + c \div 64>> ELSE <<64>>)
     \o (IF i + 2 <= Len(src) THEN <<c % 64>> ELSE <<64>>)

Base64Encode(src) ==
  FlattenSeq([k \in 1 .. (Len(src) + 2) \div 3 |->
                Base64Group(src, 3 * k - 2)])

-----------------------------------------------------------------------------
(* parse_net and check_acl, with addresses of AddrBits bits.  A rule is a  *)
(* flag, a net and the length of its prefix; other flags are malformed.    *)

AddrBits == 3

\* remote_ip & mask.
Masked(ip, slash) == ip - (ip % (2 ^ (AddrBits - slash)))

\* 1 allowed, 0 denied, -1 a malformed list; no rules is no list.
CheckAcl(rules, ip) ==
  IF \E k \in DOMAIN rules : rules[k].flag \notin {"+", "-"} THEN -1
  ELSE LET hits == {k \in DOMAIN rules :
                      rules[k].net = Masked(ip, rules[k].slash)}
       IN IF rules = << >> THEN 1
          ELSE IF hits = {} THEN 0
          ELSE IF rules[CHOOSE k \in hits : \A j \in hits : j <= k].flag = "+"
          THEN 1 ELSE 0

-----------------------------------------------------------------------------
(* send_ssi_file, a character at a time, with a buffer of size bytes.  Tag *)
(* is how a directive starts ("<!--#" in the code); what a directive sends *)
(* is one "directive" in the output.  fits: no byte was written outside    *)
(* the buffer, and the assertion on len held.                              *)

Tag == <<"<", "#">>
SsiStart == [buf |-> << >>, in |-> FALSE, out |-> << >>, fits |-> TRUE]

Flush(st) == [st EXCEPT !.out = @ \o st.buf, !.buf = << >>]
Store(st, ch, size) ==
  [st EXCEPT !.buf = Append(@, ch), !.fits = @ /\ Len(st.buf) < size]

\* One byte is kept for '>' and one for the terminator.
TagTooLarge(st, size) == Len(st.buf) = size - 2

\* '>' inside what may be a tag.
SsiClose(st, size) ==
  LET t == Store(st, ">", size - 1)
  IN [(IF Len(t.buf) > Len(Tag) /\ StartsWith(t.buf, 1, Tag)
       THEN [t EXCEPT !.out = Append(@, "directive"), !.buf = << >>]
       ELSE Flush(t)) EXCEPT !.in = FALSE]

\* Another character inside it.
SsiInside(st, ch, size) ==
  Store(IF Len(st.buf) = Len(Tag) /\ st.buf # Tag THEN [st EXCEPT !.in = FALSE]
        ELSE IF TagTooLarge(st, size) THEN [st EXCEPT !.buf = << >>]
        ELSE st, ch, size)

SsiOutside(st, ch, size) ==
  IF ch = "<" THEN Store([Flush(st) EXCEPT !.in = TRUE], ch, size)
  ELSE LET t == Store(st, ch, size)
       IN IF Len(t.buf) = size THEN Flush(t) ELSE t

SsiStep(st, ch, size) ==
  IF st.in /\ ch = ">" THEN SsiClose(st, size)
  ELSE IF st.in THEN SsiInside(st, ch, size)
  ELSE SsiOutside(st, ch, size)

SendSsi(text, size) ==
  LET step(st, ch) == SsiStep(st, ch, size)
  IN Flush(FoldLeft(step, SsiStart, text))

-----------------------------------------------------------------------------
(* mg_upload, with a buffer of size bytes.  Delim is "\r\n--" and the       *)
(* boundary; a header that names a file that can be opened has an "F".     *)

Delim == <<"r", "n", "-", "d">>

\* mg_read fills the buffer unless the body ends.
Fill(buf, rest, size) ==
  LET k == SmallerOf(size - Len(buf), Len(rest))
  IN [buf |-> buf \o SubSeq(rest, 1, k), rest |-> From(rest, k + 1)]

\* Mutant: a byte less is kept for a boundary that is only partly read.
KeepShort == Len(Delim) - 2

\* How much of the buffer is kept while the boundary is not found.
Keep == Len(Delim)

\* Copies data up to the boundary; the positions tested end Len(Delim) bytes
\* before the end of the buffer.
RECURSIVE SaveFile(_, _, _, _)
SaveFile(buf, rest, size, file) ==
  LET hits == {i \in 1 .. Len(buf) - Len(Delim) : StartsWith(buf, i, Delim)}
      cut  == GreaterOf(0, Len(buf) - Keep)
      more == Fill(From(buf, cut + 1), rest, size)
  IN IF hits # {}
     THEN [eof |-> TRUE, buf |-> From(buf, Least(hits) + Len(Delim)),
           rest |-> rest, file |-> file \o SubSeq(buf, 1, Least(hits) - 1)]
     ELSE IF Len(more.buf) > Len(buf) - cut
     THEN SaveFile(more.buf, more.rest, size, file \o SubSeq(buf, 1, cut))
     ELSE [eof |-> FALSE, buf |-> From(buf, cut + 1), rest |-> rest,
           file |-> file \o SubSeq(buf, 1, cut)]

\* The files counted, in order.
RECURSIVE UploadFrom(_, _, _)
UploadFrom(buf, rest, size) ==
  LET f == Fill(buf, rest, size)
      h == RequestLen(f.buf)
      s == SaveFile(From(f.buf, h + 1), f.rest, size, << >>)
  IN IF h <= 0 \/ "F" \notin ToSet(SubSeq(f.buf, 1, h)) THEN << >>
     ELSE (IF s.eof THEN <<s.file>> ELSE << >>)
          \o UploadFrom(s.buf, s.rest, size)

Upload(body, size) == UploadFrom(<< >>, body, size)
=============================================================================
