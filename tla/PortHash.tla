------------------------------ MODULE PortHash ------------------------------
(***************************************************************************)
(* PORT_VHash_Calc: the bucket of a connection, from the twelve bytes of   *)
(* its PORT_ITEM, whose fields lie in memory lowest byte first and without *)
(* padding (x86_64).                                                       *)
(***************************************************************************)
EXTENDS Integers, Sequences, Bitwise
LOCAL INSTANCE SequencesExt

HASHSIZE == 2048  \* PORT_VHASH_NUM_HASHSIZE

Memory(k) == k.sport \o k.dport \o k.sip \o k.dip

XorAll(bytes) == FoldLeft(LAMBDA acc, b : acc ^^ b, 0, bytes)

\* Mistakes: only the first ten bytes; the accumulator is shifted.
CalcTen(k) == XorAll(SubSeq(Memory(k), 1, 10)) % HASHSIZE
CalcShifted(k) == FoldLeft(LAMBDA acc, b : ((8 * acc) % HASHSIZE) ^^ b, 0, Memory(k))

\* The mask HASHSIZE - 1 is a remainder.
PORT_VHash_Calc(k) == XorAll(Memory(k)) % HASHSIZE

\* pkt_recv looks up the opposite direction.
Turned(k) == [sport |-> k.dport, dport |-> k.sport, sip |-> k.dip, dip |-> k.sip]
=============================================================================
