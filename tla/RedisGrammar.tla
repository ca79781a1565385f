---------------------------- MODULE RedisGrammar ----------------------------
(***************************************************************************)
(* The grammar redis_cmd_parse is meant to recognise, said by where the    *)
(* CR LFs whose CR is among the len bytes of the payload are.              *)
(***************************************************************************)
EXTENDS RedisCmd, FiniteSets

Lineends(buf, len) == {i \in 1..len : buf[i] = CR /\ buf[i + 1] = LF}
Lines(buf, len) == Cardinality(Lineends(buf, len))

\* Where the n-th of them is, and the text between the one before and it.
End(buf, len, n) ==
  IF n = 0 THEN -1
  ELSE CHOOSE i \in Lineends(buf, len) :
         Cardinality({j \in Lineends(buf, len) : j <= i}) = n
TextLine(buf, len, n) == SubSeq(buf, End(buf, len, n - 1) + 2, End(buf, len, n) - 1)

Header(buf, len, n, mark) ==
  /\ Lines(buf, len) >= n
  /\ End(buf, len, n) < len
  /\ buf[End(buf, len, n - 1) + 2] = mark
  /\ Atoi(Tail(TextLine(buf, len, n))) # 0

\* What the parser ought to answer: it accepts exactly the payloads that begin
\* with an array header and a bulk header and whose name, if its end has been
\* captured, has the announced length; and it returns that name.
RightAnswer(buf, len, parsed) ==
  LET request == Header(buf, len, 1, Star) /\ Header(buf, len, 2, Dollar)
      named == Lines(buf, len) >= 3
      name == TextLine(buf, len, 3)
  IN  /\ parsed.ret = 0 <=>
           request /\ (named => Len(name) = Atoi(Tail(TextLine(buf, len, 2))))
      /\ parsed.cmd = IF parsed.ret = 0 /\ named THEN name ELSE << >>
=============================================================================
