----------------------------- MODULE MCSession -----------------------------
(***************************************************************************)
(* Instances of RedisSession.  A is the monitored address: a server at S   *)
(* has the clients C and D; a client at E talks to a server R elsewhere.   *)
(***************************************************************************)
EXTENDS RedisSession

CONSTANTS S, C, D, E, R

MCEndpoints == {S, C, D, E, R}
MCMonitored == {S, E}
TwoClients == {<<C, S>>, <<D, S>>}
BothSides == {<<C, S>>, <<E, R>>}

CRLF == <<CR, LF>>
Encode(name, arg) ==
  <<Star, 50>> \o CRLF \o <<Dollar, 49>> \o CRLF \o <<name>> \o CRLF
               \o <<Dollar, 49>> \o CRLF \o <<arg>> \o CRLF
MCRequests == {[cmd |-> <<71>>, data |-> Encode(71, 97)],
               [cmd |-> <<83>>, data |-> Encode(83, 97)]}
\* "$1 v" or "+OK", ":0" and the like: anything that is not an array
Simple == <<Plus>> \o CRLF
\* An array of two bulk strings, as MGET and LRANGE answer
Array == Encode(118, 119)
MCChunks == {<<97>>}
AllReplies == {Simple, Array}

\* Every payload there is, and every one that is not an array reply
Payloads ==
  {<< >>, Padding} \cup MCChunks \cup AllReplies \cup {r.data : r \in MCRequests}
NotArrays == Payloads \ {Array}

MCTimes == 0..MaxTime
MCStale == {<<NUL, NUL>>}
MCFrames ==
  {Segment(k, d) : k \in BothSides \cup TwoClients \cup {Rev(c) : c \in BothSides \cup TwoClients},
                   d \in Payloads}
=============================================================================
