------------------------------ MODULE RedisCmd ------------------------------
(***************************************************************************)
(* redis_cmd_parse (pkt_parse.c): recognise a Redis request at the start   *)
(* of a TCP payload and extract the name of its command.                   *)
(*                                                                         *)
(* A request is                                                            *)
(*     "*" argc CR LF  "$" n CR LF  name CR LF  ...                        *)
(* The parser works in place: it overwrites the CR behind each number with *)
(* a NUL for atoi, so the buffer it returns is not the one it was given.   *)
(*                                                                         *)
(* A buffer is a sequence of byte values.  Its last two bytes lie behind   *)
(* the payload: the code looks at (and may overwrite) them when it looks   *)
(* one byte ahead for the LF and for the "$".  Pointers are positions in   *)
(* that sequence, counted from 1.                                          *)
(***************************************************************************)
EXTENDS Integers, Sequences, FiniteSetsExt

Byte == 0..255
NUL == 0
LF == 10
CR == 13
Dollar == 36
Star == 42
Plus == 43
Minus == 45
Space == {9, 10, 11, 12, 13, 32}
Digit == 48..57

\* How many bytes behind the payload the parser can touch.
Behind == 2

\* sizeof(REDIS_CMD.cmd[0]) and sizeof(PORT_VHASH_ITEM.cmd)
CmdSize == 32

(***************************************************************************)
(* atoi (libc): optional white space and sign, then decimal digits.        *)
(***************************************************************************)
Atoi(s) ==
  LET start == Min({i \in 1..(Len(s) + 1) : i > Len(s) \/ s[i] \notin Space})
      signed == start <= Len(s) /\ s[start] \in {Plus, Minus}
      from == IF signed THEN start + 1 ELSE start
      stop == Min({i \in from..(Len(s) + 1) : i > Len(s) \/ s[i] \notin Digit})
      val[i \in (from - 1)..Len(s)] ==
        IF i < from THEN 0 ELSE 10 * val[i - 1] + (s[i] - 48)
  IN  IF signed /\ s[start] = Minus THEN -val[stop - 1] ELSE val[stop - 1]

(***************************************************************************)
(* The scanning loop: the offset from p of the first CR LF whose CR is     *)
(* among the n bytes at p, or n when there is none (the LF may be the byte *)
(* behind them).                                                           *)
(***************************************************************************)
FirstCRLF(buf, p, n) ==
  LET hits == {i \in 0..(n - 1) : buf[p + i] = CR /\ buf[p + i + 1] = LF}
  IN  IF hits # {} THEN Min(hits) ELSE IF n > 0 THEN n ELSE 0

(***************************************************************************)
(* A number and its CR LF at p, n bytes before the end of the payload: its *)
(* value, the buffer with the CR overwritten, where the text behind it     *)
(* starts and how many bytes that text has.                                *)
(***************************************************************************)
\* Mistake: the CR is not overwritten.
NumberLineKept(buf, p, n) ==
  LET i == FirstCRLF(buf, p, n)
      num == Atoi(SubSeq(buf, p, p + i - 1))
  IN  [ok |-> n >= i + 2 /\ num # 0, num |-> num, buf |-> buf,
       next |-> p + i + 2, left |-> n - i - 2]

NumberLine(buf, p, n) ==
  LET i == FirstCRLF(buf, p, n)
      num == Atoi(SubSeq(buf, p, p + i - 1))
  IN  [ok |-> n >= i + 2 /\ num # 0,
       num |-> num,
       buf |-> [buf EXCEPT ![p + i] = NUL],
       next |-> p + i + 2,
       left |-> n - i - 2]

(***************************************************************************)
(* The whole function on a buffer whose payload has len bytes.  ret is its *)
(* return value, cmd the bytes copied to cmd[0], buf the buffer it leaves. *)
(***************************************************************************)
Refused(buf) == [ret |-> -1, cmd |-> << >>, buf |-> buf]

\* Mistake: the announced length is not compared.
NameAny(bulk, n) ==
  [ret |-> 0, buf |-> bulk.buf,
   cmd |-> IF n < bulk.left THEN SubSeq(bulk.buf, bulk.next, bulk.next + n - 1)
           ELSE << >>]

\* The name has n bytes, or the payload ends inside it: then nothing is
\* copied, and the request is accepted all the same.
Name(bulk, n) ==
  IF n >= bulk.left THEN [ret |-> 0, cmd |-> << >>, buf |-> bulk.buf]
  ELSE IF bulk.num # n THEN Refused(bulk.buf)
  ELSE [ret |-> 0, cmd |-> SubSeq(bulk.buf, bulk.next, bulk.next + n - 1),
        buf |-> bulk.buf]

BehindBulk(bulk) ==
  IF bulk.ok THEN Name(bulk, FirstCRLF(bulk.buf, bulk.next, bulk.left))
  ELSE Refused(bulk.buf)

BehindArgc(argc) ==
  IF argc.ok /\ argc.buf[argc.next] = Dollar
  THEN BehindBulk(NumberLine(argc.buf, argc.next + 1, argc.left - 1))
  ELSE Refused(argc.buf)

redis_cmd_parse(buf, len) ==
  IF buf[1] = Star THEN BehindArgc(NumberLine(buf, 2, len - 1))
  ELSE Refused(buf)

(***************************************************************************)
(* strncpy(item->cmd, cmd, 32): the bytes up to a NUL, 32 at the most.     *)
(***************************************************************************)
CmdString(cmd) ==
  LET ends == {i \in DOMAIN cmd : cmd[i] = NUL \/ i > CmdSize}
  IN  IF ends = {} THEN cmd ELSE SubSeq(cmd, 1, Min(ends) - 1)
=============================================================================
