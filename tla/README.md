# redis_r_trace in TLA+

`redis_r_trace` watches a network interface and logs, for every command Redis
clients send to or from one address, the name of the command and the time until
the reply: `redis cmd <name> r <asked> a <answered> es <elapsed>`. These modules
model the program from its source, check it on small instances with TLC and
prove the main invariants with TLAPS.

## Inventory

| part | code | state | operations |
|---|---|---|---|
| capture loop | `main.c` 204-225 | `header`, `pkt_data` (memory of libpcap), `pktdump` | one pass per answer of `pcap_next_ex`: frame, timeout, error |
| packet handler | `pkt_parse.c` | none of its own; the port table and the payload bytes | `pkt_recv`, `pparse_get_dataptr` |
| request parser | `pkt_parse.c` 73-143 | the payload, which it overwrites | `redis_cmd_parse` |
| port table | `port_vhash.c` | module `en_PORT` of the hash table: direction of a connection -> time, name | INIT, FindStruct, Add, Del; Update, Get_NextNode, Clean, EXIT, Lock, unLock, GetCount have no caller |
| hash table | `vhash.c` | `g_uiMaxVhashModules`, `g_astVHashHead`: buckets, chains, counters, a mutex per module | Init, Create, Destory, Clean, Get, Add, Add2, Get_Next, Del, Stat, Total, Lock, unLock |
| lists | `list.c`, `vhash.c` 43-97 | `Flink`, `Blink` of every node; `FreeQueue` and `ulListLen` | insert, remove, `ChangeHead`; `VHash_Malloc`, `VHash_Free` |
| startup | `main.c` 17-57, 88-203 | `g_config`, `apppath` | `GetAppDir`, arguments, `daemon`, `check_self_vip` over `find_str`, opening the device, the filter |
| locks, threads | `spinlock.h`, `thread.h` | a pthread mutex | no thread is ever created |
| libpcap | `inc_pcap/`, `libpcap.so.1` | vendored | external |

**How they interact.** Everything is calls on one thread. The loop hands each
frame to `pkt_recv`. It looks the direction of the frame up in the port table:
an entry means that the frame answers a request, which is printed and removed.
Otherwise it looks the opposite direction up: an entry means more of a request,
and its clock is restarted. Otherwise it runs `redis_cmd_parse`, and a payload
that parses makes an entry under the direction the answer will have. The port
table calls the hash table with its five callbacks, and writes time and name
through the pointer it gets back.

**What is hard.** Not concurrency inside the program, but the environment: which
frames come, in which order, which are lost, and when nothing comes.

- `if(res = 0)` (main.c:206) is an assignment: after a timeout the loop handles
  the latest frame again, with the bytes the parser has overwritten meanwhile.
- The handler does not know which end is the server.
- A lost reply leaves its entry; the next exchange of the connection uses it.
- Times are multiplied out in 32 bits and subtracted in 64.
- The parser reads and writes one byte beyond its bounds, and accepts requests
  that end inside the name.
- The hash table has failing paths in the middle of additions, and enumerations
  that resume from a pointer the caller has kept.
- `pkt_recv` hands one pointer to three calls that leave it alone when they find
  nothing, and goes by it rather than by what they return.
- Every call of the hash table takes a mutex and has several ways out.
- The configuration is checked after `daemon()` has taken the terminal away, and
  what `VHash_Init`, `PORT_VHash_INIT` and `pcap_compile` return is not looked at.

`PROJECT.json` lists each of these as a hazard at its line.

**What makes each part correct.** The loop and handler: a printed line pairs two
packets of opposite directions of one monitored connection and says how far
apart they were; an entry lives from its request to its line; without losses the
log is exactly the clients' commands. The parser: it accepts its grammar and
nothing else. The hash table: it is a map; nothing leaks, nothing dangles, the
counters count, its calls return. The enumeration: every node that stays is
given, once, and it ends. The lists: rings. Startup: the arguments mean what they
say, an address the host shows is accepted, and who is told of a failure.

## Modules

| module | models |
|---|---|
| `RedisCmd` | `redis_cmd_parse`: bytes in, return value, name and overwritten bytes out |
| `RedisGrammar` (EXTENDS `RedisCmd`) | the grammar the parser is meant to recognise, said without its scans |
| `Packet` (EXTENDS `RedisGrammar`) | a frame byte by byte: the guards of the loop, `pparse_get_dataptr`, byte order, the parser in place, the same frame again |
| `PortHash` | `PORT_VHash_Calc` over the bytes of a key |
| `PacketHash` (EXTENDS `Packet`, `PortHash`) | the chain a frame is looked up in |
| `PortTable` | the port table as `pkt_recv` sees it: a partial function |
| `Tracer` (EXTENDS `RedisCmd`, `PortTable`) | the loop and `pkt_recv`; any frame at any time |
| `TracerHistory` | `Tracer` with the history of accepted frames |
| `PktRecv` (EXTENDS `PortVHash`) | `pkt_recv` call by call on the hash table; implements `Tracer` |
| `LatencyLog` | abstract: clients ask and are told, the log they ought to get |
| `Segments` (EXTENDS `Tracer`) | segments on the wire and their capture; requests, replies and the clock |
| `RedisSession` (EXTENDS `Segments`) | clients that wait for each reply; implements `LatencyLog` when nothing is lost |
| `RedisPipeline` (EXTENDS `Segments`) | clients that do not wait |
| `VHashCodes` | the return codes |
| `VHash` | the hash table of `vhash.c`, chains as sequences, a call a step; implements `PortMap` |
| `PortMap` | abstract: what the hash table promises |
| `PortVHash` (EXTENDS `VHash`) | the callbacks and wrappers of `port_vhash.c`, the wrappers' caller's pointer, and callers of other modules |
| `VHashLinked` (EXTENDS `ListLinks`) | the hash table on links, with mutex and the steps of a call; implements `VHash` |
| `VHashScan` (EXTENDS `VHash`) | a caller enumerating a module |
| `ListLinks` | the operations of `list.c` on the link fields |
| `LinkedLists` (EXTENDS `ListLinks`) | callers of `list.c`; implements `Lists` |
| `Lists` | abstract: lists with heads, as sequences |
| `Startup` | `main` up to the loop |
| `RedisCmdProofs` (EXTENDS `RedisGrammar`) | theorems about the parser |
| `PacketProofs` (EXTENDS `Packet`, `RedisCmdProofs`) | about what is read of the bytes of a frame |
| `TracerProofs` (EXTENDS `TracerHistory`, `RedisSession`, `RedisPipeline`, `RedisCmdProofs`) | about the loop and the handler; about the tracer between clients and servers, and its refinement; about clients that pipeline |
| `VHashProofs` (EXTENDS `VHashScan`, `PktRecv`) | about the hash table, its refinement, and its callers: the enumeration, the wrappers, and `pkt_recv` with its refinement |
| `ListLinksProofs` | lemmas: what each operation of `list.c` does to chains |
| `LinkedListsProofs` (EXTENDS `LinkedLists`, `ListLinksProofs`) | about `list.c` and its callers, and their refinement |
| `VHashLinkedProofs` (EXTENDS `VHashLinked`, `ListLinksProofs`) | about the hash table on links, and its refinement |
| `StartupProofs` | about `main` up to the loop |
| `MC...` | instances for TLC |

The refinements make one chain: links (`VHashLinked`) implement chains (`VHash`),
which implement a map (`PortMap`); `pkt_recv` on chains (`PktRecv`) implements
`Tracer` on a function; and `Tracer` between clients and servers (`RedisSession`)
implements `LatencyLog`. Below `Tracer`, `Packet` says that a record stands for
the bytes of a frame.

**State and code.** `Tracer`: `running` is whether `main` is in its loop; `cap`
is what `header` and `pkt_data` designate, with the payload bytes as they are
now; `table` is the port table; `line` is what the latest pass printed. The
fields `key`, `asked`, `answered` of a line are not printed: they record what
was paired. One step is one answer of `pcap_next_ex` and the whole pass that
follows; `Skip`, `Answer`, `Again` and `Request` are the outcomes of the pass, in
the order the code tests for them. Between two passes nothing of the program
runs, so that a pass is one step.

A direction `<<source, destination>>` is a key; `pkt_recv` rewrites the four
fields of one `PORT_ITEM` between its lookups, which is `Rev`.

A frame has what the guards look at (`caplen`, `len`, type, version, protocol,
header length), the direction and the bytes behind its TCP header. `Stale` is
what may lie behind these bytes in the buffer, which the parser looks at.

`VHash`: `head[m]` is `g_astVHashHead[m]`: Null or buckets and counters; `item`
is the heap, from addresses to key and data; an address that has been freed may
be given again by `malloc`; `res` is the latest call: the key it was about and
what it returned. One step is
one call: it holds the mutex of the module, and the program has one thread.
`Store` is the caller's write through the pointer it was given.
`complete` says whether the callbacks were given at creation, and `UpdateAnswers`
and `CopyAnswers` what they may answer: those of `port_vhash.c` always agree, since `IsUpdate` never refuses and
the module is created with the size the copy asks for.

`PortVHash`: `pstVhashItem` is the caller's pointer, which a wrapper sets or
leaves; `told` is whether the code of the latest wrapper said that there is an
entry. `PktRecv`: `pc` is the call `pkt_recv` makes next, `stPortItem` the key it
has written for it, `pass` the frame. An entry that has been added and not filled
yet is not in the table of `Tracer`: the step that fills it is `Tracer`'s.

`VHashLinked`: `links.Flink` and `links.Blink` of every bucket and node; `call` is
the call in progress with its loop variable `at` (`entry`) and `node`
(`pstDateNode`); `holder` is who has the mutex. Steps are: the checks, the mutex,
one node of a loop, and the end with everything behind the loop. `uses` is which
of `VHash_Lock` and `VHash_Add_Node` the program's callers use. A freed node
loses its links, so that reading them shows.

`Packet`: `pkt` is what a host sent, `pkt_data` the captured bytes as they are now
and two behind; one step is a pass over the frame. Numbers are the sequences of
their bytes in memory. `Startup`: `pc` is what `main` does next; strings are
sequences of characters; an argument, a check or a call is a step; `detached` is what
came of `daemon()`, which leaves no other trace when it fails.

Definitions under the comment "Mistake" are variants of the definition that
follows them; no specification uses them. They say what a property is able to
catch.

## Runs

| run | question | bounds | states |
|---|---|---|---|
| `tracer_open` | is the tracer right whatever comes? | 3 endpoints, 13 frames that differ in each guard, times 0..3 with a word of 2 ticks, `malloc` may fail; at most 3 accepted (direction, time) pairs | 203,898 |
| `packet` | what does the handler read of a frame, and what does it take it for? does the parser accept its grammar? what do repeated passes give? | every combination of two values of each field (three addresses), 5 cuts, 3 payloads; good headers before 6 commands (names of 1, 2, 3, 12, 32 bytes, empty and protocol-like arguments), every cut of each, all junk of up to 4 bytes of `* $ CR LF 1` alone and behind one or two good lines, 4 values of the bytes behind; 4 passes | 78,890 |
| `session` | is the log the ideal one? | 2 clients of one server, 2 commands, segments of every kind, timeouts but behind arrays, clock 0..3, word of 2 ticks | 2,978 |
| `session_lossy` | what survives losses? | a monitored server and a monitored client, 2 commands, simple and array replies and their segments, any packet of an exchange lost, the first segment of a reply sent again, connections closed while waiting, timeouts behind anything, exchanges under way at the start, clock 0..1 | 313,695 |
| `session_array_timeout` | is a timeout skipped, as main.c:206 says? | as `session`, timeouts anywhere | violated |
| `pipeline` | what is the log of clients that do not wait? | 2 clients, 2 commands, up to 3 requests under way, segments of one or two, clock 0..2 | 473,758 |
| `pkt_recv` | does `pkt_recv` on the hash table do what `Tracer` says? | a server and 2 clients in 2 buckets, 2 addresses for nodes, 6 frames, times 1..2, every `malloc` may fail, the table may not exist | 11,009 |
| `vhash` | is the hash table a map, and are its callers told right? | 3 ids (the port table, another, one out of range), 3 keys in 2 buckets, 3 addresses, 2 values | 33,075 |
| `vhash_linked` | do the links do that too? which calls return? | 1 module, 3 keys in 2 buckets, 2 addresses, 2 values; 4 kinds of program | 161,367 |
| `vhash_scan` | are enumerations complete, without repetition, and do they end? | 4 keys in 3 buckets (three in one, one empty bucket between), 4 addresses | 160,795 |
| `lists` | do the operations of `list.c` keep lists? | 3 heads, one of them `FreeQueue`, 4 entries | 69,580 |
| `startup` | how does `main` get to its loop, or not? | 3 names of the program, up to 5 arguments of 8, one of them ending in a newline, printed texts of up to 3 characters of 3 and a newline, a buffer of 3 | 1,314,003 |

Why the bounds are enough: the handler treats each connection by itself and
looks at most at one entry in each direction, so two connections show what can
be mixed up; three accepted pairs are a request, a frame between and an answer.
The clock wraps inside every run that compares times, but for `pipeline`: a word
of two ticks with three or four times. `session_lossy` compares none: two times
are there for frames to differ in. The parser has three scans of the same shape, which the cuts stop at
every byte. The hash table handles one chain at a time; two nodes in one chain
and one in another are first, middle and last; `lists` has lists of four.
`packet` has payloads that run to the end of the longest field and headers that
end at every place the guards distinguish. In `startup` the buffer of three is
filled, overrun and not reached by the texts.

`CHECK_DEADLOCK FALSE` where the system may stop: `main` returns when
`pcap_next_ex` fails or a check does, the clock of a session is bounded, a frame
is handled a bounded number of times, and a thread waits for ever for a mutex it
holds (`vhash_linked`).

### What the properties say

- `OneDirection`: no connection is recorded both ways, where a frame of either
  end would be taken for an answer. `MonitoredOnly`: only connections of the
  monitored address are recorded.
- `ElapsedRight`: the printed time is right modulo 2^32, and exact if the count
  did not wrap between the packets. Across a wrap it is off by 2^64 - 2^32.
- `PairsOpposite`: a line pairs two frames that were captured at its two times,
  in opposite directions. Timeouts do not break this: they replay both.
- `EntryLife`: entries leave the table only by being printed and keep the name of
  the command that made them.
- `MatchesGrammar`: the parser against a definition by the positions of the line
  ends. `ReplayNamesArgument`: parsed again, a buffer gives up its next argument.
- `InSync`: without losses the port table is the set of waiting clients, with
  what they asked and when they were last heard. `LogSpec`: the printed lines are
  those of `LatencyLog`: every reply at once, with the time of the clock, and
  nothing else. The abstract clock is the clock of the session, so that the
  abstract log cannot choose the times that suit it.
- `RolesRight`: an entry the wrong way round is always that of an array reply that
  was captured when no request of its client had been heard since the server's last
  payload: the request was lost, or sent before the capture began, or the array is
  handled a second time. No reply need be lost for that. It is set right by a request that is heard and
  a reply to it that is no array; a client whose replies are all arrays stays the
  wrong way round. `StaleOnlyAfterLoss`: an entry the right way round that is not
  that of what the client waits for is that of a reply that was lost or never came.
  `MisnamedOnlyAfterLoss`: so a line that is wrong about what is answered has one of
  these two causes. It has the name of an earlier request, after a reply that was
  lost or never came; or, under the connection itself (`Rev(c)` is what a right line is
  under), it takes what the client sends for the answer, after such an array.
  `requested` and `misled`, by which this is said, are history variables of
  `RedisSession`: what the tracer has heard of each connection. What does not survive
  losses is the elapsed time: the restart of the clock may itself be lost.
- `ReadsInside`: the one guard of 54 bytes covers every header field. `AsTracerSees`:
  whole packets without IP options are accepted just when `Tracer` accepts them,
  under the key of the direction they were sent in, however often they are
  handled. `AddressesRight`: with options too, nothing is recorded for other
  hosts. `SameChain`: both lookups of `pkt_recv` search one chain, of the first 256.
- `OneEntryABurst`: a connection has an entry while requests have been sent since
  the last reply, not while any are under way: with the name of the first of
  these and the time of the last. `LineOfPipeline`: what a line then says never
  exceeds what the client waited, and when its name and its time are right.
- `PointerIsOfKey`: where `pkt_recv` uses its pointer, it is the node of the key it
  looked up last. `TracerSpec`: pass by pass it is `Tracer`, with or without a table.
- `HeapIsTable`, `KeysUnique`, `CountersAgree`: the chains are the heap, each
  node once and in the chain of its key. `MapSpec`: a call about a key finds, adds
  or deletes that key and no other; NOT_FOUND and EXIST are said only when true;
  failing calls change nothing.
- `ToldRight`: a caller of `port_vhash.c` that goes by the codes writes to the entry
  it asked for. `PointerTells`: one that goes by its pointer, as `pkt_recv` does, is
  right if it clears it, but not after `PORT_VHash_Update`, which sets the pointer only
  where there was an entry before the call.
- `NeverLost`: no step of a call leaves the memory of the table. `AtomicSpec`: a
  call takes effect when it returns, and is then a step of `VHash`. `CallsReturn`:
  a call that can get the mutex returns; what keeps one from it is `VHash_Lock` of
  its own caller, or a chain `VHash_Add_Node` has looped. `OnlyAddNodeLoops`: and
  nothing else loops one.
- `NothingMissed`, `NothingTwice`, `EndsUnlessFed`: the enumeration. It can be kept
  going by additions: they go to the end of a chain, so that a key deleted behind
  the cursor and added again comes before it once more.
- `Rings`: links agree in both directions and lead nowhere else. `ListsSpec`: read
  along `Flink` they are the lists, and what is returned is right.
- `ArgumentsMeant`: the loop over the arguments against their meaning said without
  a loop. `HeardOnlyEarlyOrForeground`: without `-d` every message but the version
  and the complaint about no arguments, and the log, go to `/dev/null`, unless
  `daemon()` itself fails; with `-d` all are read. `AcceptsWhatIsShown`: `find_str` leaves out
  the last position, which an address shown on a line never has (unless it ends in
  a newline itself); what it accepts may be part of a longer address.

### Finding

`session_array_timeout`: main.c:206 says `/* Timeout elapsed */` and means to
skip the pass. In the run a client asks, the server answers with an array (as
`MGET` or `LRANGE` are answered), the line is printed, and 100 ms later the array
is handled again. Its connection has no entry now, the array has the form of a
request, and an entry is made for a "request" of the server. The next request of
the client is then printed as its answer. `session` shows that other
replies are handled again without harm: a request only restarts its own clock
with its own time.

## Fairness

`vhash_linked` assumes `WF_vars(Continues ...)`: a thread that is inside a call and
can take its next step takes it. It is the only thread, no call of the hash table
waits for anything but the mutex, and a step that waits for the mutex is not
enabled, so that the assumption says no more than that the processor runs.
`vhash_scan` assumes `WF_scanvars(Continue \/ End)`: the enumerating caller is in a
loop of its own and goes on until the loop is over.

Nothing is assumed of the network, and no liveness is claimed of the log: the
network owes the tracer no further packet, and an entry whose reply never comes
stays for ever. That each reply is printed when it is captured, and not later, is
safety here: a line of `LatencyLog` appears in the very step of the reply.

## Proofs

A theorem holds for every value of the constants that satisfies the named
assumptions of the modules: any number of hosts, frames, connections, modules,
keys, chains, nodes, any hash function, any word size. The runs show the same
properties on small instances, and each inductive invariant below was checked
with TLC before it was proved.

| module | theorem | says |
|---|---|---|
| `RedisCmdProofs` | `ParsesGrammar` | the parser accepts the payloads of the grammar and no others, and returns their names: `RightAnswer` of every payload, whatever is behind it |
| | `ParseType` | it answers 0 or -1, keeps the length of its buffer and takes the name from inside the payload |
| | `CmdStringFits` | what is stored of a name fits the field |
| `PacketProofs` | `HeadersInside`, `TracerFaithful`, `RightHosts`, `RequestsRecognised` | `ReadsInside`, `AsTracerSees`, `AddressesRight`, `MatchesGrammar` |
| `TracerProofs` | `TypeCorrect`, `OneDirectionCorrect`, `MonitoredOnlyCorrect`, `ElapsedRightCorrect`, `EntryLifeCorrect` | the properties of these names |
| | `PairsOppositeCorrect` | `PairsOpposite`, of `TracerHistory` |
| | `SessionIsTracer` | a session is a behaviour of `Tracer` |
| | `RolesRightCorrect`, `StaleOnlyAfterLossCorrect`, `MisnamedOnlyAfterLossCorrect` | the three properties of lossy sessions |
| | `InSyncCorrect` | `InSync` |
| | `ImplementsLog` | `LogSpec`: the refinement of `LatencyLog` |
| | `PipelineIsTracer` | a program between clients that pipeline is a behaviour of `Tracer` |
| | `OneEntryABurstCorrect`, `LineOfPipelineCorrect` | `OneEntryABurst`, `LineOfPipeline` |
| `VHashProofs` | `TypeCorrect`, `HeapCorrect`, `KeysCorrect`, `CountersCorrect` | `TypeOK`, `HeapIsTable`, `KeysUnique`, `CountersAgree` |
| | `ImplementsMap` | `MapSpec`: the refinement of `PortMap` |
| | `MissesNothing`, `RepeatsNothing` | `NothingMissed`, `NothingTwice` |
| | `PortUsesTable`, `PortImplementsMap` | a program that uses the wrappers is one of `VHash`, and of `PortMap` |
| | `CodeTells`, `PointerCorrect` | `ToldRight`, `PointerTells` |
| | `PointerAlwaysOfKey` | `PointerIsOfKey` |
| | `ImplementsTracer` | `TracerSpec`: the refinement of `Tracer` |
| `LinkedListsProofs` | `RingsCorrect` | `Rings` |
| | `ListsRefined` | `ListsSpec`: the refinement of `Lists` |
| | `PopsEntries` | taking from the end of a list gives its head just when the list is empty |
| `VHashLinkedProofs` | `NothingLost` | `NeverLost` |
| | `CallsAreAtomic` | `AtomicSpec`: the refinement of `VHash` |
| `StartupProofs` | `ArgumentsRead`, `DetachedIsUnheard`, `AddressChecked` | `ArgumentsMeant`, `HeardOnlyEarlyOrForeground`, `AcceptsWhatIsShown` |

So the whole chain from the links to the log is proved: `VHashLinked` implements
`VHash`, which implements `PortMap`; `pkt_recv` on `VHash` implements `Tracer`, and
`Tracer` between clients and servers implements `LatencyLog`. (The first link is
for a program without `VHash_Add_Node`, which this one is.) `TracerFaithful` puts the
bytes of frames under `Tracer`.

### The arguments

**Parser.** The grammar speaks of the positions of all CR LFs, the parser of three
scans, each in the buffer the one before has overwritten. `ScanIs` says that a scan
finds the first line end at or behind its start; overwriting the CR of a line end
takes that one away and adds none (`OverwrittenEnd`), so that in the buffer as it
was the three scans stop at the first, second and third (`FirstLine`, `SecondLine`,
`NameLine`). That a line end is the n-th if n of them are up to it is by
cardinalities (`EndIs`). The texts between them are the same in both buffers, since
nothing but line ends is overwritten (`SameText`).

**Packets.** `LayoutIs` says where `Bytes` puts each field, for any lengths of the
two headers: one concatenation after the other (`JoinedIs`). `BytesInv` says which
of the captured bytes are still those that were sent: the first 34 in any frame
that passes the guard of 54, and all of the headers in one without IP options,
since `Payload` is at least 34 whatever the length field says, and the parser gets
only what is behind (`LeftIs`). So `AreHeadersRead` and `ArePortsRead` hold however
often the frame has been handled, and the first time the parser has the payload
that was sent (`TextSent`), of which `ParsesGrammar` speaks.

**Tracer.** A timeout and a delivery are both a pass of `pkt_recv` over a frame
with its time and buffer (`StepIsPass`), so that each property needs one lemma
about a pass, by its four outcomes (`PassType`, `PassOneDirection`, ...). The
inductive invariant is `TypeOK /\ Safety`: the sizes of buffers and the times in
the table are needed to see that the parser and the subtraction are defined.
`PairsOpposite` is not inductive: after a timeout the frame handled is the one in
`cap`, so that `HInv` adds that this frame, if it is accepted, has been heard
(`CaptureHeard`). `ElapsedDifference` is arithmetic: the difference of two
remainders modulo `U`, taken modulo `U * U`, for any `U`; it rests on the
uniqueness of remainders (`ModUnique`), since the solver has no theory of `%` by a
variable.

**Sessions.** None of the properties holds of every environment, so that each
theorem names what it asks of it:

| hypothesis | says | asked by |
|---|---|---|
| `PlainChunks` | what is sent besides requests and replies does not begin with `*` | all |
| `RepliesSayMore` | a reply has a payload | all |
| `~MallocMayFail` | `malloc` gives memory | `RolesRight` and the two of losses |
| `NothingLost` | so it does, no packet is lost, clients wait for their replies, nothing is under way at the start, servers are monitored | `InSync`, `LogSpec` |
| `NoArrayTimedOut` | `pcap_next_ex` does not time out behind a reply that begins with `*` | `InSync`, `LogSpec` |

`session` satisfies the hypotheses of the last two properties, `session_lossy`
those of the others, which say nothing of what replies are: any may be arrays.
Without `NoArrayTimedOut` the finding is a counterexample.
That a request parses, whatever is behind it, is `RequestsAssumption`, which TLC
evaluates with the parser.

What a pass does to the entry of its connection, and that it does nothing to
others (`Untouched`), is said once for each end (`ClientPass`, `ServerPass`); the
rest is by the steps of clients and servers. All the strengthenings are about
timeouts, which handle again what `cap` holds.

`LossyInv` is about sessions with losses. It ties the entries to what was heard
(`Led`): one the wrong way round is that of a connection that is misled and has no
request heard since, and a request heard on a connection that is not misled has its
entry, so that the next array is taken for its answer. `Fresh` is
`StaleOnlyAfterLoss`. `CapFit` says of the frame in `cap` that if it is a request it has
its entry or its payload is as it was sent (which is where a failing `malloc` would
hurt: the parser has overwritten the payload and would now find another name in it),
that it is what the client waits for unless a reply has gone astray, and that
other frames of clients do not begin like requests (`Fit`). What one pass does to all this is said once for the two ends
(`Passed`); deliveries and timeouts follow.

Without losses, a request in `cap` has its entry (`CapOpen`), and the time of its
entry (`CapTime`), and a frame of a server's finds no entry (`CapServer`).
`ImplementsLog` then is `InSync`, by which
the entry is what the abstract client waits for, with `ElapsedDifference` for the
time.

**Pipelines.** `OneEntryABurst` is not inductive: a timeout behind a request would
give its entry an old time. `BurstInv` adds that the frame in `cap` has the time of
its entry, or is a server's and finds none (`CapBurst`), and that what is under way
is in the order of its times (`InOrder`), which gives `LineOfPipeline` its bound:
the last request since the last reply is no older than the first under way. Asked
of the environment are `PlainReplies`, `RepliesSayMore` and `~MallocMayFail`; the run
satisfies them. `BatchFramesAssumption` and `BatchesAssumption` say that segments are
frames and that the parser finds the first request of one, whatever is behind it.

**Hash table.** `IInv == Shape /\ HeapIsTable /\ KeysUnique /\ CountersAgree`. None
of the four is inductive alone: that `malloc` gives an address that is in no chain
needs `HeapIsTable`, an addition keeps keys apart because the search before it
looked at the one chain the key may be in, a deletion takes one node and no more
because of `KeysUnique`, and the counters agree with what is deleted because they
agreed before. `Shape` is the type invariant without the callers' data, which
no call looks at. `ImplementsMap` maps a module to the function from the keys of
its nodes to their values, and the latest result to what `PortMap` reports: the
same invariants make this a function. That the numbers of `VHash_Node_Stat` count
each entry once is by the hash of its key.

**Wrappers.** `PortInv` adds to the table's invariant that a table of `en_PORT` has
its callbacks (`Usable`: so no call is refused half-way), and that where the code
told of an entry the pointer is the node the table gave (`PointerOfCode`).

**`pkt_recv`.** `KInv` says at each call what the calls before have established:
the key is that of the frame or its reverse (`KeyRight`), what has been looked up
in vain is not there (`Unfound`), the pointer is NULL until it is the node of the
key (`PointerRight`: this is why it need not be cleared), and frame, buffer and name
are those of the pass (`PassRight`). By these the step that writes or deletes is
the pass of `Tracer`, and all the others cannot be seen.

**Enumeration.** Nodes are ordered by their places: chain, then position.
`ScanInv` says that what was given lies before the cursor or at it, and that
what lies there and was there from the beginning was given (`Cursor`).
An addition goes behind its chain and a deletion closes up, so that both keep the
order of what stays (`AddKeepsOrder`, `DelKeepsOrder`).

**Links.** `ListOf` reads a list along `Flink` with a recursive function of the
number of steps left. That it reads a chain of `n` cells as these `n` cells is
induction over `n`, in the one form the provers can use: the least number of steps
for which it failed would not be least (`LeastOfNats`, `ReadingExists`,
`ListIsChain`). A chain is a sequence of distinct cells, each linked to the
next, both ways, and the last to the head. `ListLinksProofs` says of each
operation of `list.c` which chain it makes of which, and that it writes no other
cells; nothing of it is about lengths or callers.

**Lists.** `LInv` says that what is read from the heads are chains, that no cell is
in two of them, and that the queue's length is counted (`Hold`). With it each
operation does to the sequences what `Lists` says.

**Hash table on links.** `TInv` says the same of the buckets, that the allocated
nodes are those in the chains, each in that of its key, and where a call in
progress stands: a search behind nodes that do not have its key (`Searched`), a
sweep behind buckets it has emptied (`Swept`), everything else as it was when the
call began. A step that returns is by this one step of `VHash` from there, and all
other steps cannot be seen. With `VHash_Add_Node`, which links a node twice, none of
this holds, so that `LinkedInv` is about programs without it.

**Startup.** `Read` says what the options in front of `i` mean: which arguments are
options and which are values depends on the whole row of options before them
(`IsRun`), so that the lemma of one pass of the loop (`ReadOne`, `ReadTwo`) is about
rows. `ToldInv` says where standard output leads once `daemon()` has
been passed, which is by what came of it (`Outlet`), and that every later message
went there, and `ShownInv` relates what `find_str`
answered to the buffer, which is the output cut to its size and what is behind it.

### The assumptions

Those of `Tracer` hold of frames by construction: a frame is as long as its
header says, `data` is what is behind the TCP header, time stamps are natural
numbers, two bytes can be read behind a payload. `PacketsAssumption`: the fields of
a packet fit their widths, header lengths are at least five words, and no more is
cut than there is; `MonitoredIpAssumption`: an address has four bytes.
`SegmentsAssumption`, `BatchFramesAssumption`: what clients
and servers send is among the frames. `NodesAssumption`: memory is finite and NULL is
no address. `NoTableAssumption`, `NoRequestAssumption`, `NoLineAssumption`, `NothingAssumption`: a value
that stands for "nothing" is not something. `PortAssumption`: the callbacks answer
what those of `port_vhash.c` do. `CellsAssumption`: heads are not entries. `ConnsAssumption`: of each connection one
end is monitored, and it is named once, from the client. `CommandsAssumption` and
`TextsAssumption`: arguments fit their fields, and what `ip addr` prints are whole
lines. TLC evaluates all of them.

### Only model-checked

- Liveness (`CallsReturn`, `EndsUnlessFed`) is out of the prover's reach.
- `OnlyAddNodeLoops`: it is about chains that do not come back to their head, for
  which there are no sequences to reason with.
- `SameChain`: it uses bit operations, which the prover cannot see into.
- `ReplayNamesArgument`: it is about the encodings of commands of any number of
  arguments, which is induction over data.

## Not modelled

- Names of more than 32 bytes: the copy overruns its field, which is undefined.
  A name of exactly 32 bytes is printed with bytes of the key behind it; the
  line has the name alone. In the same way arguments longer than the fields of
  `CONFIG`.
- Frames cut by the capture (`caplen < len`): the limit is 65536, more than a packet
  has. IP options are in `Packet` alone: `Tracer` and the rest have packets without.
- In sessions: failing `malloc`, and timeouts behind an array reply where the log
  is to be ideal (that is the finding). An unmonitored server's padded
  acknowledgement is in `session_lossy` alone: it is taken for the answer. So is
  the first segment of a reply that is sent again.
- `pipeline` has no array replies and no losses: what they do to roles and names is
  said of clients that wait.
- Numbers in a request of 2^31 and more: `Atoi` is not bounded, where `atoi` has no
  defined result.
- Calls with NULL arguments, and `VHash_Get_Node` on a module without callbacks.
- `FreeQueue`, on which `VHash_Malloc` and `VHash_Free` work, is initialised by
  nothing, and nothing calls the two. `LinkedLists` has them behind an
  initialisation. After `VHash_Add_Node` has looped a chain, calls other
  than searches: they would free nodes that are still linked.
- The headers under `inc_pcap`, more than half of the lines of the sources: they are
  libpcap's declarations, and the program uses four calls and two structs of them.
- Two threads: none is ever made. `trylock`, the macros of `thread.h`, and
  `PopEntryList` and `PushEntryList` have no use.
- `getInterfaceIp` and `pkt_dump` have no caller.
- The filter: its text is not in pcap's syntax, `pcap_compile` fails, the result
  is not looked at, and `pcap_setfilter` is given memory nobody has written. In
  `Startup` that is a choice: the program goes on or dies. `Tracer` takes every frame.

## Plan

Done: all of the modules above, and the theorems above.
