------------------------------ MODULE Startup ------------------------------
(***************************************************************************)
(* main from its arguments to the capture loop: the arguments, one a step, *)
(* daemon(), the checks of the configuration and of the address, opening   *)
(* the device and the filter.  Module Tracer begins where this ends.       *)
(*                                                                         *)
(* A string is the sequence of its characters; argv is without argv[0],    *)
(* which is program.                                                       *)
(* What VHash_Init and PORT_VHash_INIT return is looked at by nobody;      *)
(* their effects are in module PortVHash.                                  *)
(***************************************************************************)
EXTENDS Integers, Sequences, SequencesExt

CONSTANTS
  Programs,   \* what argv[0] may be
  Commands,   \* argument lists
  Texts,      \* what "ip addr" may print
  Behind,     \* what may be behind szbuf, up to a NUL
  BufferSize  \* sizeof(szbuf)

Dash == 45
Slash == 47
V == <<Dash, 118>>
D == <<Dash, 100>>
I == <<Dash, 105>>
A == <<Dash, 97>>

\* The fields of g_config, which strcpy does not look at: a longer argument
\* has no defined effect.
CONFIG == [device |-> 64, ip |-> 32]

Char == 0..255
String == Seq(Char)
Newline == 10

ASSUME BufferAssumption == BufferSize \in Nat \ {0}
ASSUME CommandsAssumption ==
  /\ Programs \subseteq String /\ Commands \subseteq Seq(String)
  /\ \A args \in Commands : \A p \in 2..Len(args) :
       /\ args[p - 1] = I => Len(args[p]) < CONFIG.device
       /\ args[p - 1] = A => Len(args[p]) < CONFIG.ip
\* ip addr ends every line.
ASSUME TextsAssumption ==
  /\ Texts \subseteq String /\ \A text \in Texts : text # << >> => Last(text) = Newline
  /\ Behind \subseteq String

VARIABLES
  pc,      \* where main is: the step it is about to make
  program, \* argv[0]
  argv, i, \* the arguments; the one the loop is at
  apppath, \* the directory that is printed
  deamon, device, ip,
  stdout,  \* "terminal" or "null"
  detached, \* what came of daemon(): "untried", "failed" or "done"
  told,    \* the message main left with, and where it went
  shown,   \* what ip addr printed
  found    \* what check_self_vip returned

svars == <<pc, program, apppath, argv, i, deamon, device, ip, stdout, detached, told,
          shown, found>>

Untold == [message |-> "none", to |-> "nobody"]

Return(message) ==
  /\ pc' = "returned"
  /\ told' = [message |-> message, to |-> stdout]

Init ==
  /\ pc = "args" /\ argv \in Commands /\ i = 1
  /\ program \in Programs /\ apppath = << >>
  /\ deamon = TRUE /\ device = << >> /\ ip = << >>
  /\ stdout = "terminal" /\ detached = "untried" /\ told = Untold
  /\ shown = << >> /\ found = -1

-----------------------------------------------------------------------------
More == pc = "args" /\ i <= Len(argv)

NoArguments ==
  /\ pc = "args" /\ argv = << >>
  /\ Return("arg error")
  /\ UNCHANGED <<program, apppath, argv, i, deamon, device, ip, stdout, detached, shown, found>>

Version ==
  /\ More /\ argv[i] = V
  /\ Return("version")
  /\ UNCHANGED <<program, apppath, argv, i, deamon, device, ip, stdout, detached, shown, found>>

Foreground ==
  /\ More /\ argv[i] = D
  /\ deamon' = FALSE
  /\ i' = i + 1
  /\ UNCHANGED <<pc, program, apppath, argv, device, ip, stdout, detached, told, shown, found>>

\* Mistake: the value is not skipped.
PastOption == i + 1
PastValue == i + 2

Option ==
  /\ More /\ argv[i] \in {I, A} /\ i < Len(argv)
  /\ device' = IF argv[i] = I THEN argv[i + 1] ELSE device
  /\ ip' = IF argv[i] = A THEN argv[i + 1] ELSE ip
  /\ i' = PastValue
  /\ UNCHANGED <<pc, program, apppath, argv, deamon, stdout, detached, told, shown, found>>

\* argv[argc] is NULL, and strcpy copies from it.
OptionAtEnd ==
  /\ More /\ argv[i] \in {I, A} /\ i = Len(argv)
  /\ pc' = "crashed"
  /\ UNCHANGED <<program, apppath, argv, i, deamon, device, ip, stdout, detached, told, shown, found>>

Ignored ==
  /\ More /\ argv[i] \notin {V, D, I, A}
  /\ i' = i + 1
  /\ UNCHANGED <<pc, program, apppath, argv, deamon, device, ip, stdout, detached, told, shown, found>>

\* What strrchr finds is kept with what is in front of it.
GetAppDir(Apppath) ==
  LET slashes == {p \in DOMAIN Apppath : Apppath[p] = Slash}
  IN  IF slashes = {} THEN << >>
      ELSE SubSeq(Apppath, 1, CHOOSE p \in slashes : \A q \in slashes : q <= p)

\* Mistake: the checks come before daemon().
PrintsAndChecks ==
  /\ pc = "args" /\ argv # << >> /\ i > Len(argv)
  /\ apppath' = GetAppDir(program)
  /\ pc' = "config"
  /\ UNCHANGED <<program, argv, i, deamon, device, ip, stdout, detached, told, shown, found>>

PrintAppDir ==
  /\ pc = "args" /\ argv # << >> /\ i > Len(argv)
  /\ apppath' = GetAppDir(program)
  /\ pc' = "daemon"
  /\ UNCHANGED <<program, argv, i, deamon, device, ip, stdout, detached, told, shown, found>>

\* daemon(1, 0): the standard streams become /dev/null, unless it fails.
Daemon ==
  /\ pc = "daemon"
  /\ \/ ~deamon /\ UNCHANGED <<stdout, detached>>
     \/ deamon /\ stdout' = "null" /\ detached' = "done"
     \/ deamon /\ UNCHANGED stdout /\ detached' = "failed"
  /\ pc' = "config"
  /\ UNCHANGED <<program, apppath, argv, i, deamon, device, ip, told, shown, found>>

CheckConfig ==
  /\ pc = "config"
  /\ IF device = << >> \/ ip = << >>
     THEN Return("get configure error!")
     ELSE pc' = "vip" /\ UNCHANGED told
  /\ UNCHANGED <<program, apppath, argv, i, deamon, device, ip, stdout, detached, shown, found>>

-----------------------------------------------------------------------------
\* strncmp at the p-th character, of the n characters it is told to compare.
Same(str, sub, p, n) == \A j \in 1..n : p + j - 1 <= Len(str) /\ str[p + j - 1] = sub[j]

\* Mistake: the loop stops one earlier still.
FoundShort(str, sub) == {p \in 1..(Len(str) - Len(sub) - 1) : Same(str, sub, p, Len(sub))}

\* The positions where the loop finds sub.  i < offset stops one before the
\* last.
Found(str, sub) == {p \in 1..(Len(str) - Len(sub)) : Same(str, sub, p, Len(sub))}

find_str(str, sub) ==
  IF Found(str, sub) = {} THEN -1 ELSE CHOOSE p \in Found(str, sub) : \A q \in Found(str, sub) : p <= q

\* fread fills the buffer and leaves no room for a NUL when there is more.
Buffer(text, behind) ==
  IF Len(text) < BufferSize THEN text ELSE SubSeq(text, 1, BufferSize) \o behind

\* popen fails or nothing is printed: the text is empty.
check_self_vip ==
  /\ pc = "vip"
  /\ \E text \in Texts \cup {<< >>}, behind \in Behind :
       /\ shown' = text
       /\ found' = IF text = << >> THEN -1 ELSE find_str(Buffer(text, behind), ip)
  /\ IF found' = -1 THEN Return("set ip error") ELSE pc' = "malloc" /\ UNCHANGED told
  /\ UNCHANGED <<program, apppath, argv, i, deamon, device, ip, stdout, detached>>

\* The result is not looked at before memset.
AllocatePktdump ==
  /\ pc = "malloc"
  /\ pc' \in {"open", "crashed"}
  /\ UNCHANGED <<program, apppath, argv, i, deamon, device, ip, stdout, detached, told, shown, found>>

pcap_open_live ==
  /\ pc = "open"
  /\ Return("errbuf") \/ (pc' = "filter" /\ UNCHANGED told)
  /\ UNCHANGED <<program, apppath, argv, i, deamon, device, ip, stdout, detached, shown, found>>

\* The text of the filter does not compile, so that pcap_setfilter is given
\* a bpf_program nothing has initialised.  Without instructions it is refused;
\* else they are read.
bpf_program == [bf_len : {0, 1}, bf_insns : {"mapped", "unmapped"}]

pcap_setfilter ==
  /\ pc = "filter"
  /\ \E filter \in bpf_program :
       pc' = IF filter.bf_len = 1 /\ filter.bf_insns = "unmapped" THEN "crashed" ELSE "capture"
  /\ UNCHANGED <<program, apppath, argv, i, deamon, device, ip, stdout, detached, told, shown, found>>

Next ==
  \/ NoArguments \/ Version \/ Foreground \/ Option \/ OptionAtEnd \/ Ignored
  \/ PrintAppDir \/ Daemon \/ CheckConfig \/ check_self_vip \/ AllocatePktdump
  \/ pcap_open_live \/ pcap_setfilter

Spec == Init /\ [][Next]_svars

-----------------------------------------------------------------------------
\* The arguments without the loop: a value is what follows an odd number of
\* -i and -a in a row, and these are options unless they are values.
IsRun(args, p, n) ==
  /\ \A q \in (p - n)..(p - 1) : args[q] \in {I, A}
  /\ n = p - 1 \/ args[p - n - 1] \notin {I, A}
FlagsBefore(args, p) == CHOOSE n \in 0..(p - 1) : IsRun(args, p, n)
IsValue(args, p) == FlagsBefore(args, p) % 2 = 1
Options(args, flag) == {p \in DOMAIN args : args[p] = flag /\ ~IsValue(args, p)}
ValueAt(args, at) ==
  IF at = {} THEN << >> ELSE args[1 + CHOOSE p \in at : \A q \in at : q <= p]
LastValue(args, flag) == ValueAt(args, {p \in Options(args, flag) : p < Len(args)})

\* The loop gives that meaning to the arguments: the last -i and the last -a
\* count, whatever looks like an option behind them is their value, and it is
\* a last -i or -a without a value, and nothing else, that it dies of.  The
\* directory is argv[0] up to and with its last slash.
ArgumentsMeant ==
  /\ pc = "config" =>
       /\ Len(apppath) = 0 \/ Last(apppath) = Slash
       /\ IsPrefix(apppath, program)
       /\ \A p \in DOMAIN program : program[p] = Slash => p <= Len(apppath)
       /\ device = LastValue(argv, I) /\ ip = LastValue(argv, A)
       /\ deamon = (Options(argv, D) = {})
       /\ Options(argv, V) = {}
  /\ (pc = "crashed" /\ shown = << >>) =>
       argv # << >> /\ Len(argv) \in Options(argv, I) \cup Options(argv, A)

\* Only the version and the complaint about no arguments are sure to be read.
\* Without -d every later message, and every line of the log, goes to
\* /dev/null, for daemon() comes before the checks: a missing option, a wrong
\* address and a device that does not open all look alike.  They are read with
\* -d, and when daemon() fails.
HeardOnlyEarlyOrForeground ==
  LET heard == IF Options(argv, D) = {} /\ detached # "failed" THEN "null" ELSE "terminal"
  IN  /\ told.message \in {"arg error", "version"} => told.to = "terminal"
      /\ told.message \in {"get configure error!", "set ip error", "errbuf"} => told.to = heard
      /\ pc = "capture" => stdout = heard

Occurs(str, sub) == \E p \in DOMAIN str : Same(str, sub, p, Len(sub))

\* ip addr ends its lines, so that the position find_str leaves out is never
\* that of an address, which ends no line itself: one that is shown before the
\* end of the buffer is accepted.  One that is accepted is in what was printed, if only as a part
\* of a longer one, or of the last one in a full buffer and what is behind.
AcceptsWhatIsShown ==
  /\ (told.message = "set ip error" /\ shown # << >> /\ Last(ip) # Newline) =>
       ~Occurs(SubSeq(shown, 1, IF Len(shown) < BufferSize THEN Len(shown) ELSE BufferSize - 1), ip)
  /\ found # -1 =>
       \/ Same(shown, ip, found, Len(ip))
       \/ Len(shown) >= BufferSize /\ found + Len(ip) - 1 > BufferSize
=============================================================================
