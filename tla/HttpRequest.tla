----------------------------- MODULE HttpRequest -----------------------------
(***************************************************************************)
(* The request parser of Httpdata (Httpdata.cpp): handle_request_line and  *)
(* handle_request_head, as operators on a sequence of tokens.  A token is  *)
(* one of the characters the parser looks for or a run of others.  Where   *)
(* the parser skips a character unseen, the operators skip a token: the    *)
(* same for text with ": " after a key and CR LF at the end of a line,     *)
(* which is how Render writes a request.  Elsewhere the parser would skip  *)
(* the first character of a run, and the operators skip the run.           *)
(***************************************************************************)
EXTENDS Integers, Sequences, FiniteSets, SequencesExt

SP == "SP"
CR == "CR"
LF == "LF"
COLON == "COLON"

\* while(index < read_length && buff[index] is not in D) index++
Until(buff, D) ==
  LET to[index \in Nat] ==
        IF index > Len(buff) \/ buff[index] \in D THEN index ELSE to[index + 1]
  IN  to

\* handle_request_line: Req, URI and _version, and the index after the line.
handle_request_line(buff) ==
  LET i == Until(buff, {SP})[1]
      j == Until(buff, {SP})[i + 1]
      k == Until(buff, {CR, LF})[j + 1]
  IN  [Req |-> SubSeq(buff, 1, i - 1), URI |-> SubSeq(buff, i + 1, j - 1),
       _version |-> SubSeq(buff, j + 1, k - 1), index |-> k + 2]

ValueStart_NoSpace(colon) == colon + 1
\* The ':' and the blank after it are skipped unseen.
ValueStart(colon) == colon + 2

\* A line of the head under the lines that follow it.
Under(key, value, rest) ==
  [k \in DOMAIN rest \cup {key} |-> IF k \in DOMAIN rest THEN rest[k] ELSE value]

\* handle_request_head: the map from keys to values; a key that comes again
\* replaces the value it had.
handle_request_head(buff, index) ==
  LET head[i \in Nat] ==
        IF i > Len(buff) \/ buff[i] \in {CR, LF}
        THEN << >>
        ELSE LET colon == Until(buff, {COLON})[i]
                 eol   == Until(buff, {CR, LF})[ValueStart(colon)]
             IN  Under(SubSeq(buff, i, colon - 1), SubSeq(buff, ValueStart(colon), eol - 1),
                       head[eol + 2])
  IN  head[index]

\* handle_http's test of the Connection header.
AsksKeepAlive(buff) ==
  LET head == handle_request_head(buff, handle_request_line(buff).index)
  IN  /\ <<"Connection">> \in DOMAIN head
      /\ head[<<"Connection">>] \in {<<"keep-alive">>, <<"Keep-Alive">>}

-----------------------------------------------------------------------------
(* What a request says, and how a client writes it *)

\* A request: its URI and its header lines, each a key and a value.
Request ==
  [URI : STRING \ {SP}, heads : Seq((STRING \ {COLON, CR, LF}) \X (STRING \ {CR, LF}))]

Line(head) == <<head[1], COLON, SP, head[2], CR, LF>>

Render(r) ==
  <<"GET", SP, r.URI, SP, "HTTP", CR, LF>>
    \o FlattenSeq([i \in DOMAIN r.heads |-> Line(r.heads[i])]) \o <<CR, LF>>

\* The value a header has: that of its last line.
Says(r, key, values) ==
  LET lines == {i \in DOMAIN r.heads : r.heads[i][1] = key}
  IN  lines # {} /\ r.heads[Max(lines)][2] \in values

=============================================================================
