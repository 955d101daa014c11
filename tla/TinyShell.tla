------------------------------ MODULE TinyShell ------------------------------
(***************************************************************************)
(* The init program of the tiny initramfs (payload/): a shell that reads a  *)
(* line, runs one command to its end and prompts again. What is not the     *)
(* shell runs beside it: the operator types ahead, the other end of a TCP   *)
(* connection sends, closes or resets, answers to pings are late or lost,   *)
(* and the programs it starts fork and end.                                 *)
(*                                                                          *)
(* Data are counted in pieces. A file is what it is a copy of, named by its *)
(* length as a numeral, and how many pieces of it are there. A numeral is a *)
(* sequence of digits; <<>> is any text that is none. A step is one system  *)
(* call, or calls between which nothing else can matter.                    *)
(***************************************************************************)
EXTENDS Naturals, Sequences, SequencesExt

CONSTANTS
  Sessions,   \* sets of commands, one of which the operator types from
  Paths,
  Sizes,      \* the lengths a peer may send, as sequences of digits
  LocalSize,  \* length of the files that are there from the start
  Wrap,       \* 2^w, for w the width of unsigned long
  MaxPort,    \* 65535
  BufferSize, \* pieces that one read takes at most
  Pids,       \* process ids besides the shell's own
  Ends,       \* how programs end
  MaxTyped,   \* bound on lines typed ahead
  MaxPending, \* bound on echo requests under way
  None

VARIABLES
  session,    \* the commands of this session
  at,         \* where the shell is
  command,    \* the command it runs or ran last
  before,     \* history: the files when a fetch or cp began
  said,       \* what the command has printed, by message
  typed,      \* lines at the console that nothing has read
  fds,        \* open descriptors besides 0, 1 and 2
  files,
  buffer, total, expected, arg,  \* locals of fetch, cp and cat
  peer,       \* the TCP connection
  ready,      \* what ppoll reported to the relay
  procs, child,
  ended,      \* history: how the program that run started ended
  wire, ping  \* ICMP on its way and at the socket; the locals of ping

disk == <<files, buffer, total, expected, arg>>
tcp == <<peer, ready>>
processes == <<procs, child, ended>>
icmp == <<wire, ping>>
console == <<session, command, before, typed>>
vars == <<at, said, console, fds, disk, tcp, processes, icmp>>

Data == [name |-> "data"]   \* a line that is no command
Eof == [name |-> "eof"]     \* the end-of-file character
Commands == UNION Sessions
Lines == Commands \cup {Data, Eof}

-----------------------------------------------------------------------------
\* Numbers.

Bad == Wrap   \* no number: the parser returned -1

\* The number that is written.
Decimal(text) ==
  LET value[i \in 0..Len(text)] == IF i = 0 THEN 0 ELSE value[i - 1] * 10 + text[i]
  IN value[Len(text)]

\* Mutant: the accumulator wraps unnoticed.
AccumulateWrapping(text) == IF text = <<>> THEN Bad ELSE Decimal(text) % Wrap

\* The accumulator of parse_unsigned after each digit: it gives up when the
\* next value is smaller than the last.
Parsed(text) ==
  LET parsed[i \in 0..Len(text)] ==
        IF i = 0 THEN 0
        ELSE LET next == (parsed[i - 1] * 10 + text[i]) % Wrap
             IN IF parsed[i - 1] = Bad \/ next < parsed[i - 1] THEN Bad ELSE next
  IN parsed

ParseUnsigned(text) == IF text = <<>> THEN Bad ELSE Parsed(text)[Len(text)]

\* content_length has the same loop.
ContentLength(text) == ParseUnsigned(text)

ASSUME NumberAssumption ==
  /\ {Wrap, MaxPort, BufferSize, MaxTyped, MaxPending} \subseteq Nat
  /\ 10 * MaxPort + 9 < Wrap
ASSUME DigitAssumption == Sizes \cup {LocalSize} \subseteq Seq(0..9)
ASSUME NoneAssumption == None \notin [of : Sizes, size : Nat] \cup Pids
ASSUME EndAssumption ==
  Ends \subseteq [how : {"exited"}, code : 0..255] \cup [how : {"killed", "dumped"}, code : 1..127]
ASSUME CommandAssumption ==
  \A S \in Sessions : \A c \in S :
    /\ c.name \in {"fetch", "nc", "nc -l"} => c.port \in Seq(0..9)
    /\ c.name = "fetch" => c.path \in Paths
    /\ c.name = "cp" => {c.from, c.to} \subseteq Paths

Copy(of, n) == [of |-> of, size |-> n]
Whole(f) == f.size = Decimal(f.of)

NoPeer == [is |-> "none", port |-> 0, size |-> <<>>, sent |-> 0, taken |-> 0]
NoProcess == [is |-> "none", parent |-> 0, end |-> None]

Init ==
  /\ session \in Sessions
  /\ at = "prompt" /\ command = Data /\ said = {} /\ typed = <<>> /\ fds = {}
  /\ files \in [Paths -> {None, Copy(LocalSize, Decimal(LocalSize))}] /\ before = <<>>
  /\ buffer = 0 /\ total = 0 /\ expected = None /\ arg = 1
  /\ peer = NoPeer /\ ready = {}
  /\ procs = [p \in Pids |-> NoProcess] /\ child = None /\ ended = None
  /\ wire = [pending |-> 0, queue |-> <<>>]
  /\ ping = [seq |-> 1, answered |-> 0, received |-> 0]

-----------------------------------------------------------------------------
\* The reader.

\* Elsewhere nothing reads the console: a line that comes earlier makes no
\* difference.
Type(line) ==
  /\ at \in {"prompt", "relay", "relay socket", "relay console"}
  /\ Len(typed) < MaxTyped /\ typed' = Append(typed, line)
  /\ UNCHANGED <<session, at, said, command, before, fds, disk, tcp, processes, icmp>>

Builtins == {"fetch", "cp", "cat", "touch", "rm", "run", "ping", "nc", "nc -l"}

\* run_command: a built-in, a program by its path (as run), or neither.
RunCommand(line) ==
  /\ command' = line /\ before' = (IF line.name \in {"fetch", "cp"} THEN files ELSE <<>>)
  /\ total' = 0 /\ expected' = None /\ arg' = 1 /\ ended' = None
  /\ ping' = [seq |-> 1, answered |-> 0, received |-> 0]
  /\ IF line.name \in Builtins
     THEN at' = line.name /\ said' = {}
     ELSE at' = "prompt" /\ said' = {<<"unknown command">>}

\* The read-eval loop. read_line fails at an end of file and is called again.
ReadLine ==
  /\ at = "prompt" /\ typed # <<>> /\ typed' = Tail(typed)
  /\ IF Head(typed) = Eof
     THEN UNCHANGED <<at, said, command, before, total, expected, arg, ended, ping>>
     ELSE RunCommand(Head(typed))
  /\ UNCHANGED <<session, fds, files, buffer, tcp, procs, child, wire>>

Say(message) == said' = said \cup {<<message>>}
Failed == <<"failed">> \in said

\* The command ends, having closed the descriptors in ds.
Return(ds) == at' = "prompt" /\ fds' = fds \ ds
Usage == Return({}) /\ Say("usage")

Available == peer.sent - peer.taken

\* Mutant: a read may take more than the buffer holds.
PiecesUnbounded(n) == 1..n

\* What one read of n pieces that are there may give.
Pieces(n) == 1..(IF n < BufferSize THEN n ELSE BufferSize)
SetFile(path, f) == files' = [files EXCEPT ![path] = f]
Grow(path, n) == SetFile(path, Copy(files[path].of, files[path].size + n))

-----------------------------------------------------------------------------
\* fetch IPv4 PORT /REMOTE_PATH LOCAL_PATH

Dial(next) ==
  /\ at' = next /\ fds' = fds \cup {"socket"} /\ UNCHANGED said
  /\ \E size \in Sizes :
       peer' = [NoPeer EXCEPT !.is = "open", !.port = ParseUnsigned(command.port), !.size = size]

\* The checks of cmd_fetch and connect_tcp.
FetchConnect ==
  /\ at = "fetch"
  /\ IF ParseUnsigned(command.port) \in 1..MaxPort
     THEN Dial("header") \/ (Return({}) /\ Say("failed") /\ UNCHANGED peer)
     ELSE Usage /\ UNCHANGED peer
  /\ UNCHANGED <<console, disk, ready, processes, icmp>>

\* send_request, read_response_header and content_length: the exchange may
\* fail, the length may be absent or unusable.
FetchHeader ==
  /\ at = "header"
  /\ \/ /\ Return({"socket"}) /\ (Say("failed") \/ Say("invalid Content-Length"))
        /\ peer' = NoPeer /\ UNCHANGED expected
     \/ /\ at' = "open" /\ expected' \in {None, ContentLength(peer.size)} \ {Bad}
        /\ UNCHANGED <<said, fds, peer>>
  /\ UNCHANGED <<console, files, buffer, total, arg, ready, processes, icmp>>

\* Mutant: the socket stays open when the local file cannot be opened.
FetchOpenLeaking ==
  /\ at = "open"
  /\ \/ /\ Return({}) /\ Say("failed") /\ peer' = NoPeer
        /\ UNCHANGED files
     \/ /\ at' = "receive" /\ fds' = fds \cup {"output"}
        /\ SetFile(command.path, Copy(peer.size, 0)) /\ UNCHANGED <<said, peer>>
  /\ UNCHANGED <<console, buffer, total, expected, arg, ready, processes, icmp>>

\* openat truncates what is there; when fchmod fails the file is unlinked.
FetchOpen ==
  /\ at = "open"
  /\ \/ /\ Return({"socket"}) /\ Say("failed") /\ peer' = NoPeer
        /\ UNCHANGED files \/ SetFile(command.path, None)
     \/ /\ at' = "receive" /\ fds' = fds \cup {"output"}
        /\ SetFile(command.path, Copy(peer.size, 0)) /\ UNCHANGED <<said, peer>>
  /\ UNCHANGED <<console, buffer, total, expected, arg, ready, processes, icmp>>

FetchRead ==
  /\ at = "receive"
  /\ \/ \E n \in Pieces(Available) :
          at' = "store" /\ buffer' = n /\ peer' = [peer EXCEPT !.taken = @ + n]
     \/ Available = 0 /\ peer.is = "closed" /\ at' = "finish" /\ UNCHANGED <<buffer, peer>>
     \/ peer.is = "reset" /\ at' = "discard" /\ UNCHANGED <<buffer, peer>>
  /\ UNCHANGED <<said, console, fds, files, total, expected, arg, ready, processes, icmp>>

\* write_all writes everything, or fails after some of it.
FetchWrite ==
  /\ at = "store" /\ buffer' = 0
  /\ \/ at' = "receive" /\ Grow(command.path, buffer) /\ total' = total + buffer
     \/ at' = "discard" /\ (\E n \in 0..(buffer - 1) : Grow(command.path, n)) /\ UNCHANGED total
  /\ UNCHANGED <<said, console, fds, expected, arg, tcp, processes, icmp>>

\* Mutant: an orderly end of the connection is the end of the body.
FetchFinishUnchecked ==
  /\ at \in {"finish", "discard"}
  /\ Return({"socket", "output"}) /\ peer' = NoPeer
  /\ IF at = "finish"
     THEN Say("saved") /\ UNCHANGED files
     ELSE Say("failed") /\ SetFile(command.path, None)
  /\ UNCHANGED <<console, buffer, total, expected, arg, ready, processes, icmp>>

\* The length is compared when there is one; a failed download is unlinked.
FetchFinish ==
  /\ at \in {"finish", "discard"}
  /\ Return({"socket", "output"}) /\ peer' = NoPeer
  /\ IF at = "finish" /\ expected \in {None, total}
     THEN Say("saved") /\ UNCHANGED files
     ELSE Say("failed") /\ SetFile(command.path, None)
  /\ UNCHANGED <<console, buffer, total, expected, arg, ready, processes, icmp>>

-----------------------------------------------------------------------------
\* Files.

CpOpen ==
  /\ at = "cp" /\ UNCHANGED <<console, buffer, total, expected, arg, tcp, processes, icmp>>
  /\ \/ Return({}) /\ Say("failed") /\ UNCHANGED files
     \/ /\ files[command.from] # None
        /\ at' = "copy" /\ fds' = fds \cup {"source", "output"} /\ UNCHANGED said
        /\ SetFile(command.to, Copy(files[command.from].of, 0))

CpRead ==
  /\ at = "copy" /\ UNCHANGED <<console, fds, files, expected, arg, tcp, processes, icmp>>
  /\ \/ /\ \E n \in Pieces(files[command.from].size - total) : buffer' = n /\ total' = total + n
        /\ at' = "copy out" /\ UNCHANGED said
     \/ files[command.from].size = total /\ at' = "copied" /\ UNCHANGED <<said, buffer, total>>
     \/ at' = "copied" /\ Say("failed") /\ UNCHANGED <<buffer, total>>

\* Mutant: what was not written is not missed.
CpWriteSilent ==
  /\ at = "copy out" /\ buffer' = 0 /\ UNCHANGED <<console, fds, total, expected, arg, tcp, processes, icmp>>
  /\ at' = "copy" /\ UNCHANGED said
  /\ \E n \in 0..buffer : Grow(command.to, n)

CpWrite ==
  /\ at = "copy out" /\ buffer' = 0 /\ UNCHANGED <<console, fds, total, expected, arg, tcp, processes, icmp>>
  /\ \/ at' = "copy" /\ Grow(command.to, buffer) /\ UNCHANGED said
     \/ at' = "copied" /\ (\E n \in 0..(buffer - 1) : Grow(command.to, n)) /\ Say("failed")

CpClose ==
  /\ at = "copied" /\ Return({"source", "output"})
  /\ UNCHANGED <<said, console, disk, tcp, processes, icmp>>

\* One file after the other, each until its end or an error.
Cat ==
  /\ at = "cat" /\ UNCHANGED <<console, files, buffer, total, expected, tcp, processes, icmp>>
  /\ IF arg > Len(command.paths)
     THEN Return({}) /\ UNCHANGED <<said, arg>>
     ELSE \/ Say("failed") /\ arg' = arg + 1 /\ UNCHANGED <<at, fds>>
          \/ /\ files[command.paths[arg]] # None
             /\ at' = "show" /\ fds' = fds \cup {"source"} /\ UNCHANGED <<said, arg>>

\* A read error is reported, a failed write to the console is not.
Show ==
  /\ at = "show" /\ at' = "cat" /\ fds' = fds \ {"source"} /\ arg' = arg + 1
  /\ UNCHANGED said \/ Say("failed")
  /\ UNCHANGED <<console, files, buffer, total, expected, tcp, processes, icmp>>

\* touch creates what is missing and leaves what is there.
Touch ==
  /\ at = "touch" /\ Return({})
  /\ \E made \in SUBSET ToSet(command.paths) :
       /\ files' = [p \in Paths |-> IF p \in made /\ files[p] = None THEN Copy(<<0>>, 0) ELSE files[p]]
       /\ IF made = ToSet(command.paths) THEN UNCHANGED said ELSE Say("failed")
  /\ UNCHANGED <<console, buffer, total, expected, arg, tcp, processes, icmp>>

Unlink ==
  /\ at = "rm" /\ Return({})
  /\ \/ files[command.path] # None /\ SetFile(command.path, None) /\ UNCHANGED said
     \/ Say("failed") /\ UNCHANGED files
  /\ UNCHANGED <<console, buffer, total, expected, arg, tcp, processes, icmp>>

-----------------------------------------------------------------------------
\* run PATH: clone, execve in the child, wait4 in the shell.

\* Programs are in files; the shell adopts the children of those that end.
Fork(p, parent, is) ==
  /\ procs[p] = NoProcess
  /\ procs' = [procs EXCEPT ![p] = [is |-> is, parent |-> parent, end |-> None]]

RunClone ==
  /\ at = "run"
  /\ \/ Return({}) /\ Say("failed") /\ UNCHANGED <<procs, child>>
     \/ \E p \in Pids : Fork(p, 1, "forked") /\ child' = p /\ at' = "wait" /\ UNCHANGED <<said, fds>>
  /\ UNCHANGED <<console, disk, tcp, ended, icmp>>

End(p, e) ==
  /\ procs' = [q \in Pids |->
       IF q = p THEN [procs[p] EXCEPT !.is = "zombie", !.end = e]
       ELSE IF procs[q].parent = p THEN [procs[q] EXCEPT !.parent = 1] ELSE procs[q]]
  /\ ended' = IF at = "wait" /\ child = p THEN e ELSE ended

\* The child: a file that cannot be executed is reported by the child.
Exec ==
  /\ at = "wait" /\ procs[child].is = "forked"
  /\ \/ /\ files[command.path] # None /\ procs' = [procs EXCEPT ![child].is = "running"]
        /\ UNCHANGED <<said, ended>>
     \/ Say("failed") /\ End(child, [how |-> "exited", code |-> 127])
  /\ UNCHANGED <<at, console, fds, disk, tcp, child, icmp>>

\* What a program may do: start another, and end.
ProgramForks(p) ==
  /\ procs[p].is = "running" /\ \E q \in Pids : Fork(q, p, "running")
  /\ UNCHANGED <<at, said, console, fds, disk, tcp, child, ended, icmp>>

ProgramEnds(p) ==
  /\ procs[p].is = "running" /\ \E e \in Ends : End(p, e)
  /\ UNCHANGED <<at, said, console, fds, disk, tcp, child, icmp>>

\* The status that wait4 gives on 64 bits.
KernelStatus(e) ==
  CASE e.how = "exited" -> (e.code % 256) * 256
    [] e.how = "killed" -> e.code
    [] e.how = "dumped" -> e.code + 128

\* On 32 bits sys_wait4 builds it from the siginfo of waitid.
WaitidStatus(e) ==
  LET siCode == [exited |-> 1, killed |-> 2, dumped |-> 3][e.how]
      siStatus == e.code
  IN CASE siCode = 1 -> (siStatus % 256) * 256
       [] siCode = 2 -> siStatus % 128
       [] siCode = 3 -> (siStatus % 128) + 128

\* What run_program prints of a status: both widths take the low seven bits
\* for the signal.
Report(status) ==
  IF status % 128 = 0
  THEN said' = said \cup {<<"exit", (status \div 256) % 256>>}
  ELSE said' = said \cup {<<"signal", status % 128>>}

\* Mutant: the first child that ends is taken for the program.
WaitAny ==
  /\ at = "wait" /\ Return({}) /\ child' = None
  /\ \E p \in Pids :
       /\ procs[p].is = "zombie" /\ procs[p].parent = 1
       /\ Report(KernelStatus(procs[p].end)) /\ procs' = [procs EXCEPT ![p] = NoProcess]
  /\ UNCHANGED <<console, disk, tcp, ended, icmp>>

\* sys_wait4 with the child's id, on a machine of either width.
Wait ==
  /\ at = "wait" /\ procs[child].is = "zombie"
  /\ Report(KernelStatus(procs[child].end)) \/ Report(WaitidStatus(procs[child].end))
  /\ procs' = [procs EXCEPT ![child] = NoProcess] /\ child' = None
  /\ Return({})
  /\ UNCHANGED <<console, disk, tcp, ended, icmp>>

-----------------------------------------------------------------------------
\* ping IPv4: three requests, each given a second.

PingOpen ==
  /\ at = "ping"
  /\ \/ Return({}) /\ Say("failed") /\ UNCHANGED icmp
     \/ /\ at' = "request" /\ fds' = fds \cup {"raw"} /\ UNCHANGED <<said, ping>>
        /\ wire' = [wire EXCEPT !.queue = <<>>]
  /\ UNCHANGED <<console, disk, tcp, processes>>

\* The next round, after a reply or not; the count is printed after the third.
NextRequest(n) ==
  /\ at' = IF ping.seq = 3 THEN "replies" ELSE "request"
  /\ ping' = [ping EXCEPT !.seq = IF @ = 3 THEN 3 ELSE @ + 1, !.received = @ + n]

PingSend ==
  /\ at = "request"
  /\ \/ /\ at' = "answer" /\ UNCHANGED <<said, ping>>
        /\ wire' = [wire EXCEPT !.pending = IF @ = MaxPending THEN @ ELSE @ + 1]
     \/ NextRequest(0) /\ Say("failed") /\ UNCHANGED wire
  /\ UNCHANGED <<console, fds, disk, tcp, processes>>

\* ppoll for a second: nothing may have come by then.
PingTimeout ==
  /\ at = "answer" /\ wire.queue = <<>> /\ NextRequest(0) /\ Say("timeout")
  /\ UNCHANGED <<console, fds, disk, tcp, processes, wire>>

\* Mutant: whatever comes is a reply.
PingReceiveAny ==
  /\ at = "answer" /\ wire.queue # <<>> /\ wire' = [wire EXCEPT !.queue = Tail(@)]
  /\ NextRequest(1) /\ UNCHANGED said
  /\ UNCHANGED <<console, fds, disk, tcp, processes>>

\* The first message that came: an echo reply, also a late one, or another
\* ICMP message.
PingReceive ==
  /\ at = "answer" /\ wire.queue # <<>> /\ wire' = [wire EXCEPT !.queue = Tail(@)]
  /\ IF Head(wire.queue) = "reply"
     THEN NextRequest(1) /\ UNCHANGED said
     ELSE NextRequest(0) /\ Say("invalid reply")
  /\ UNCHANGED <<console, fds, disk, tcp, processes>>

PingClose ==
  /\ at = "replies" /\ Return({"raw"})
  /\ said' = said \cup {<<"replies", ping.received>>}
  /\ UNCHANGED <<console, disk, tcp, processes, icmp>>

\* A request is answered once, is refused by a router, or is lost. What comes
\* when no raw socket is open is gone.
Arrive(message) ==
  /\ wire.pending > 0
  /\ wire' = [pending |-> wire.pending - 1,
              queue |-> IF "raw" \in fds THEN Append(wire.queue, message) ELSE wire.queue]
  /\ ping' = IF "raw" \in fds /\ message = "reply" THEN [ping EXCEPT !.answered = @ + 1] ELSE ping
  /\ UNCHANGED <<at, said, console, fds, disk, tcp, processes>>

Lose ==
  /\ wire.pending > 0 /\ wire' = [wire EXCEPT !.pending = @ - 1]
  /\ UNCHANGED <<at, said, console, fds, disk, tcp, processes, ping>>

-----------------------------------------------------------------------------
\* nc IPv4 PORT and nc -l PORT: one connection, and a relay.

NcConnect ==
  /\ at = "nc"
  /\ IF ParseUnsigned(command.port) \in 1..MaxPort
     THEN Dial("relay") \/ (Return({}) /\ Say("failed") /\ UNCHANGED peer)
     ELSE Usage /\ UNCHANGED peer
  /\ UNCHANGED <<console, disk, ready, processes, icmp>>

NcListen ==
  /\ at = "nc -l"
  /\ IF ParseUnsigned(command.port) \in 1..MaxPort
     THEN \/ Return({}) /\ Say("failed")
          \/ at' = "accept" /\ fds' = fds \cup {"listener"} /\ UNCHANGED said
     ELSE Usage
  /\ UNCHANGED <<console, disk, tcp, processes, icmp>>

NcAccept ==
  /\ at = "accept"
  /\ Dial("relay") \/ (Return({"listener"}) /\ Say("failed") /\ UNCHANGED peer)
  /\ UNCHANGED <<console, disk, ready, processes, icmp>>

HangUp == Return({"socket", "listener"}) /\ peer' = NoPeer /\ ready' = {}

\* ppoll: what is ready now, once something is.
RelayPoll ==
  /\ at = "relay"
  /\ LET able == {d \in {"socket", "console"} :
                    IF d = "socket" THEN Available > 0 \/ peer.is # "open" ELSE typed # <<>>}
     IN \/ /\ able # {} /\ at' = "relay socket" /\ ready' = able
           /\ UNCHANGED <<said, fds, peer>>
        \/ HangUp /\ Say("failed")
  /\ UNCHANGED <<console, disk, processes, icmp>>

\* Mutant: a connection that the peer has ended is not read.
RelayToConsoleHasty ==
  /\ at = "relay socket" /\ UNCHANGED <<console, disk, processes, icmp>>
  /\ \/ "socket" \notin ready /\ at' = "relay console" /\ UNCHANGED <<said, fds, tcp>>
     \/ /\ "socket" \in ready /\ peer.is = "open"
        /\ \E n \in Pieces(Available) :
             /\ at' = "relay console" /\ peer' = [peer EXCEPT !.taken = @ + n]
             /\ UNCHANGED <<said, fds, ready>>
     \/ "socket" \in ready /\ peer.is # "open" /\ HangUp /\ UNCHANGED said

\* Mutant: the end of the connection is not the end of the relay.
RelayToConsoleOn ==
  /\ at = "relay socket" /\ UNCHANGED <<console, disk, processes, icmp>>
  /\ \/ "socket" \notin ready /\ at' = "relay console" /\ UNCHANGED <<said, fds, tcp>>
     \/ /\ "socket" \in ready
        /\ \E n \in Pieces(Available) :
             /\ at' = "relay console" /\ peer' = [peer EXCEPT !.taken = @ + n]
             /\ UNCHANGED <<said, fds, ready>>
     \/ /\ "socket" \in ready /\ Available = 0
        /\ at' = "relay console" /\ UNCHANGED <<said, fds, tcp>>

\* The socket is read first, and what was read is printed; its end, or an
\* error of the read, is the end of the relay.
RelayToConsole ==
  /\ at = "relay socket" /\ UNCHANGED <<console, disk, processes, icmp>>
  /\ \/ "socket" \notin ready /\ at' = "relay console" /\ UNCHANGED <<said, fds, tcp>>
     \/ /\ "socket" \in ready
        /\ \E n \in Pieces(Available) :
             \/ /\ at' = "relay console" /\ peer' = [peer EXCEPT !.taken = @ + n]
                /\ UNCHANGED <<said, fds, ready>>
             \/ HangUp /\ Say("failed")
     \/ /\ "socket" \in ready
        /\ \/ peer.is = "reset"
           \/ peer.is = "closed" /\ Available = 0
        /\ HangUp /\ UNCHANGED said

\* Then the console, where one read takes a line. A write to a peer that has
\* gone may fail.
RelayToSocket ==
  /\ at = "relay console" /\ UNCHANGED <<session, command, before, disk, processes, icmp>>
  /\ \/ "console" \notin ready /\ at' = "relay" /\ UNCHANGED <<said, typed, fds, tcp>>
     \/ /\ "console" \in ready /\ typed # <<>> /\ typed' = Tail(typed)
        /\ \/ Head(typed) = Eof /\ HangUp /\ UNCHANGED said
           \/ Head(typed) # Eof /\ at' = "relay" /\ UNCHANGED <<said, fds, tcp>>
           \/ Head(typed) # Eof /\ peer.is # "open" /\ HangUp /\ Say("failed")

-----------------------------------------------------------------------------
\* The other end of the connection.

PeerSends ==
  /\ peer.is = "open" /\ peer.sent < Decimal(peer.size)
  /\ peer' = [peer EXCEPT !.sent = @ + 1]
  /\ UNCHANGED <<at, said, console, fds, disk, ready, processes, icmp>>

\* It may stop early, as a server does that fails, and reset a connection that
\* it has closed when more comes.
PeerEnds ==
  /\ peer.is \in {"open", "closed"}
  /\ \E end \in {"closed", "reset"} \ {peer.is} : peer' = [peer EXCEPT !.is = end]
  /\ UNCHANGED <<at, said, console, fds, disk, ready, processes, icmp>>

-----------------------------------------------------------------------------
\* The steps that the shell takes once what they wait for is there.
Run ==
  \/ FetchConnect \/ FetchHeader \/ FetchOpen \/ FetchRead \/ FetchWrite \/ FetchFinish
  \/ CpOpen \/ CpRead \/ CpWrite \/ CpClose \/ Cat \/ Show \/ Touch \/ Unlink
  \/ RunClone \/ Exec \/ Wait
  \/ PingOpen \/ PingSend \/ PingTimeout \/ PingReceive \/ PingClose
  \/ NcConnect \/ NcListen \/ RelayPoll \/ RelayToConsole \/ RelayToSocket

Next ==
  \/ \E line \in session \cup {Data, Eof} : Type(line)
  \/ ReadLine \/ Run \/ NcAccept
  \/ \E p \in Pids : ProgramForks(p) \/ ProgramEnds(p)
  \/ Arrive("reply") \/ Arrive("other") \/ Lose
  \/ PeerSends \/ PeerEnds

Spec == Init /\ [][Next]_vars

\* The shell runs, peers end their connections and programs end.
FairSpec ==
  /\ Spec /\ WF_vars(Run) /\ WF_vars(PeerEnds)
  /\ \A p \in Pids : WF_vars(ProgramEnds(p))

-----------------------------------------------------------------------------
FileType == [of : Seq(0..9), size : Nat]
Notices == {"failed", "usage", "saved", "timeout", "invalid reply",
            "invalid Content-Length", "unknown command"}
Words == {<<m>> : m \in Notices} \cup {<<m, n>> : m \in {"exit", "signal", "replies"}, n \in 0..255}

TypeOK ==
  /\ said \subseteq Words
  /\ typed \in Seq(Lines) /\ Len(typed) <= MaxTyped
  /\ fds \subseteq {"socket", "output", "source", "raw", "listener"}
  /\ \A p \in Paths : files[p] = None \/ files[p] \in FileType
  /\ buffer \in 0..BufferSize /\ total \in Nat /\ expected \in 0..(Wrap - 1) \cup {None}
  /\ peer.taken <= peer.sent /\ peer.sent <= Decimal(peer.size)
  /\ \A p \in Pids : procs[p].is \in {"none", "forked", "running", "zombie"}
  /\ child \in Pids \cup {None} /\ (at = "wait" => child # None)
  /\ wire.pending \in 0..MaxPending /\ ping.seq \in 1..3

Done(name) == at = "prompt" /\ command.name = name

\* "saved" is printed only of a file that holds the whole body, when the
\* server gave a length that fits unsigned long; whenever a download fails,
\* wherever it does, what it wrote is gone (payload/transfer.c).
FetchAllOrNothing ==
  Done("fetch") =>
    IF <<"saved">> \in said
    THEN LET f == files[command.path]
         IN f # None /\ (expected # None /\ Decimal(f.of) < Wrap => Whole(f))
    ELSE files[command.path] \in {None, before[command.path]}

\* cp of a file to another one that prints no error has copied all of it
\* (payload/commands.c).
CopiedOrFailed ==
  Done("cp") /\ command.from # command.to /\ ~Failed => files[command.to] = before[command.from]

\* Back at the prompt every descriptor is closed, whichever way a command
\* ended: the shell is PID 1 and is never restarted.
DescriptorsClosed == at = "prompt" => fds = {}

\* The port of a connection is the number that was typed. Although the test
\* for overflow misses some values, none of those it misses is a port
\* (payload/util.c).
DialsWhatWasTyped == peer # NoPeer => peer.port = Decimal(command.port)

\* run prints how the program it started ended, on either width, while
\* adopted children of earlier programs end too (payload/transfer.c,
\* payload/syscall.c).
ReportsOwnProgram ==
  Done("run") =>
    /\ \A c \in 0..255 : <<"exit", c>> \in said => ended = [how |-> "exited", code |-> c]
    /\ \A s \in 0..255 : <<"signal", s>> \in said => ended.how # "exited" /\ ended.code = s

\* ping counts no more replies than have come, whatever else comes and
\* however late they are (payload/net.c).
CountsReplies == Done("ping") => ping.received <= ping.answered

\* When the relay of nc ends because the peer closed the connection, it has
\* read everything the peer sent (payload/net.c).
RelayDrains ==
  [][at = "relay socket" /\ at' = "prompt" /\ peer.is = "closed" /\ ~Failed'
       => peer.taken = peer.sent]_vars

\* Every command comes back to the prompt, except a listener that nobody
\* connects to: no lost reply, early end of a peer or end of a program that
\* it waits for is missed.
PromptReturns == at # "prompt" ~> at \in {"prompt", "accept"}
=============================================================================
