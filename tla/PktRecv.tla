------------------------------ MODULE PktRecv ------------------------------
(***************************************************************************)
(* The tracer on its hash table: pkt_recv call by call, each call of       *)
(* port_vhash.c on the table of VHash, whose nodes it reads and writes     *)
(* through one pointer.  Module Tracer, where a pass over a frame is one   *)
(* step and the table a function, is what it implements.                   *)
(***************************************************************************)
EXTENDS PortVHash

CONSTANTS Endpoints, Monitored, Frames, Times, Stale, MallocMayFail, UIntMod, NoLine  \* as in Tracer

ASSUME KeysAreDirections == Keys = Endpoints \X Endpoints
ASSUME FramesAssumption == \A f \in Frames : f.key \in Keys
ASSUME ZeroAssumption == ZeroVal = [ts |-> 0, cmd |-> << >>]
ASSUME MallocAssumption == MallocMayFail

VARIABLES
  running, cap, line,  \* as in Tracer
  pc,          \* where main or pkt_recv is
  pass,        \* the frame pkt_recv handles: [frame, ts, buf]
  stPortItem,  \* the key it looks up
  stRedisCmd   \* the name redis_cmd_parse has copied

kvars == <<pvars, running, cap, line, pc, pass, stPortItem, stRedisCmd>>

\* An entry exists for the reader of the table once it has been filled.
Filled == {k \in DOMAIN Contents(en_PORT) : ~(pc = "fill" /\ k = stPortItem)}
Known == IF head[en_PORT] = Null THEN << >> ELSE [k \in Filled |-> Contents(en_PORT)[k]]
T == INSTANCE Tracer WITH table <- Known

KInit ==
  /\ PInit
  /\ running = TRUE
  /\ cap = [frame |-> T!NoFrame, ts |-> 0, buf |-> << >>]
  /\ line = NoLine
  /\ pc = "VHash_Init"
  /\ pass = cap
  /\ stPortItem = << >>
  /\ stRedisCmd = << >>

Goes(to) == pc' = to
\* pkt_recv returns; the buffer is as the parser left it.
Ends(done, printed) == Goes("next_ex") /\ cap' = done /\ line' = printed
Silent == UNCHANGED <<running, cap, line>>

-----------------------------------------------------------------------------
InitTable ==
  /\ \/ pc = "VHash_Init" /\ Goes("PORT_VHash_INIT") /\ VHash_Init /\ Keeps
     \/ pc = "PORT_VHash_INIT" /\ Goes("next_ex") /\ PORT_VHash_INIT
  /\ Silent /\ UNCHANGED <<pass, stPortItem, stRedisCmd>>

\* pkt_recv begins, or has nothing to do with the frame.
Take(f, ts, buf) ==
  /\ pc = "next_ex" /\ running
  /\ pass' = [frame |-> f, ts |-> ts, buf |-> buf]
  /\ IF T!Accepted(f)
     THEN /\ Goes("find")
          /\ stPortItem' = f.key
          /\ pstVhashItem' = Null
          /\ told' = FALSE
          /\ stRedisCmd' = << >>
          /\ Silent
     ELSE Ends(pass', NoLine) /\ UNCHANGED <<running, stPortItem, pstVhashItem, told, stRedisCmd>>
  /\ UNCHANGED vars

Find ==
  /\ pc = "find"
  /\ PORT_VHash_FindStruct(stPortItem)
  /\ Goes(IF pstVhashItem' # Null THEN "answer" ELSE "reverse")
  /\ Silent /\ UNCHANGED <<pass, stPortItem, stRedisCmd>>

\* Printed, then deleted.
Answer ==
  /\ pc = "answer"
  /\ PORT_VHash_Del(stPortItem)
  /\ Ends(pass, T!Report(stPortItem, item[pstVhashItem].val, pass.ts))
  /\ UNCHANGED <<running, pass, stPortItem, stRedisCmd>>

FindReverse ==
  /\ pc = "reverse"
  /\ stPortItem' = T!Rev(stPortItem)
  /\ PORT_VHash_FindStruct(stPortItem')
  /\ Goes(IF pstVhashItem' # Null THEN "again" ELSE "parse")
  /\ Silent /\ UNCHANGED <<pass, stRedisCmd>>

Again ==
  /\ pc = "again"
  /\ Write([item[pstVhashItem].val EXCEPT !.ts = pass.ts])
  /\ Ends(pass, NoLine)
  /\ UNCHANGED <<running, pass, stPortItem, stRedisCmd>>

Parse ==
  /\ pc = "parse"
  /\ \E parsed \in {T!redis_cmd_parse(pass.buf, Len(pass.frame.data))} :
       /\ pass' = [pass EXCEPT !.buf = parsed.buf]
       /\ stRedisCmd' = parsed.cmd
       /\ IF parsed.ret = 0 THEN Goes("add") /\ Silent
          ELSE Ends(pass', NoLine) /\ UNCHANGED running
  /\ UNCHANGED <<pvars, stPortItem>>

Add ==
  /\ pc = "add"
  /\ PORT_VHash_Add(stPortItem)
  /\ IF pstVhashItem' # Null THEN Goes("fill") /\ Silent
     ELSE Ends(pass, NoLine) /\ UNCHANGED running
  /\ UNCHANGED <<pass, stPortItem, stRedisCmd>>

\* Mistake: the time of the frame before.
FrameBefore == cap.ts
FrameTime == pass.ts

Fill ==
  /\ pc = "fill"
  /\ Write([ts |-> FrameTime, cmd |-> T!CmdString(stRedisCmd)])
  /\ Ends(pass, NoLine)
  /\ UNCHANGED <<running, pass, stPortItem, stRedisCmd>>

\* A negative answer of pcap_next_ex.
Fail ==
  /\ pc = "next_ex" /\ running
  /\ running' = FALSE /\ line' = NoLine
  /\ UNCHANGED <<pvars, cap, pc, pass, stPortItem, stRedisCmd>>

pkt_recv == Find \/ Answer \/ FindReverse \/ Again \/ Parse \/ Add \/ Fill

KNext ==
  \/ InitTable
  \/ \E f \in Frames, ts \in Times, stale \in Stale : Take(f, ts, f.data \o stale)
  \/ Take(cap.frame, cap.ts, cap.buf)
  \/ pkt_recv
  \/ Fail

KSpec == KInit /\ [][KNext]_kvars

-----------------------------------------------------------------------------
\* Where pkt_recv reads or writes through pstVhashItem, which two lookups
\* and an addition may have set and nothing has cleared since the first, it
\* is the allocated node of the key pkt_recv looked up last.
PointerIsOfKey ==
  pc \in {"answer", "again", "fill"} =>
    /\ pstVhashItem \in DOMAIN item
    /\ item[pstVhashItem].key = stPortItem

\* Pass by pass this is the tracer, whether or not its table could be made.
TracerSpec == T!Spec
=============================================================================
