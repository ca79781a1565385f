----------------------------- MODULE LatencyLog -----------------------------
(***************************************************************************)
(* What the tracer is for: a log of the commands of Redis clients and of   *)
(* how long each waited for its reply.  A client sends a request and waits *)
(* for the reply before it sends the next.  The log has one line for every *)
(* reply, with the name of the command and the time since the client was   *)
(* last heard; and nothing else.                                           *)
(*                                                                         *)
(* This is the abstract specification that RedisSession is compared with.  *)
(***************************************************************************)
EXTENDS Integers

CONSTANTS Conns,     \* connections of clients with servers
          Cmds,      \* names of commands
          Times,     \* clock readings
          Modulus,   \* the log gives times modulo this number
          NoRequest, \* the client waits for nothing
          NoLine     \* nothing is logged

VARIABLES clock,  \* the time of the latest event
          asked,  \* per connection, the request the client waits for
          line    \* the line just logged, or NoLine

lvars == <<clock, asked, line>>

LInit ==
  /\ clock = 0
  /\ asked = [c \in Conns |-> NoRequest]
  /\ line = NoLine

\* The client sends a request.
Ask(c, cmd) ==
  /\ asked[c] = NoRequest
  /\ asked' = [asked EXCEPT ![c] = [cmd |-> cmd, ts |-> clock']]
  /\ line' = NoLine

\* It sends more of the request, or the request again.
AskOn(c) ==
  /\ asked[c] # NoRequest
  /\ asked' = [asked EXCEPT ![c].ts = clock']
  /\ line' = NoLine

\* The server replies.
Tell(c) ==
  /\ asked[c] # NoRequest
  /\ asked' = [asked EXCEPT ![c] = NoRequest]
  /\ line' = [conn |-> c, cmd |-> asked[c].cmd,
              took |-> (clock' - asked[c].ts) % Modulus]

\* Anything else leaves no trace.
Quiet ==
  /\ line' = NoLine
  /\ UNCHANGED asked

LNext ==
  /\ \E t \in Times : t >= clock /\ clock' = t
  /\ \/ \E c \in Conns :
          (\E cmd \in Cmds : Ask(c, cmd)) \/ AskOn(c) \/ Tell(c)
     \/ Quiet

LSpec == LInit /\ [][LNext]_lvars
=============================================================================
