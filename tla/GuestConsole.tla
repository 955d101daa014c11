---------------------------- MODULE GuestConsole ----------------------------
(***************************************************************************)
(* The guest harness: Guest of scripts/test-packages.py with what boots a  *)
(* package and types at its console, and the two boots of a disk in        *)
(* scripts/distro_runtime.py, against a guest that is up, fails, hangs,    *)
(* prints what nobody asked for, restarts, and a QEMU that ends any time.  *)
(*                                                                         *)
(* Console output is a sequence of tokens <<what, number>>: the number is   *)
(* that of the command it is about, 0 for the others.  A read takes what    *)
(* has come; as the guest writes token by token, so does it arrive.        *)
(***************************************************************************)
EXTENDS Naturals, Sequences

CONSTANTS
  Suites,    \* the boots of a package, each with what it waits for and asks
  MaxNoise   \* bound on kernel messages of one boot that nobody asked for

\* How the harness knows that a command is through: the prompt, with a word that
\* must be in the output (prompt) or none (quiet, login); the prompt anywhere
\* (newline); a line of the command's own and the prompt (marker), or such lines
\* alone (event); or a line with its exit status.  A disk is asked to keep
\* something and for what it kept (install, write, package, token), by status.
\* A line may also be sent and not be waited for (unawaited).
Status == {"status", "install", "write", "package", "token"}
ByPrompt == {"prompt", "quiet", "login"}
Kinds == Status \cup ByPrompt \cup {"newline", "marker", "event", "unawaited", "ssh", "reboot"}

ASSUME SuiteAssumption ==
  /\ MaxNoise \in Nat /\ Suites # {}
  /\ \A s \in Suites :
       /\ s \in Seq([ready : {"prompt", "login", "ready"}, asks : Seq(Kinds)]) /\ s # <<>>
       /\ \A b \in 1..Len(s) : \A k \in 1..Len(s[b].asks) :
            s[b].asks[k] = "reboot" => k = Len(s[b].asks)

\* A bare prompt tells only where every earlier command has had its own prompt
\* read, and a disk is asked for what it kept in a boot that ends with a reboot.
Prompted == ByPrompt \cup {"marker"}

ASSUME OrderAssumption ==
  \A s \in Suites : \A b \in 1..Len(s) : \A k \in 1..Len(s[b].asks) :
    /\ s[b].asks[k] \in {"quiet", "login"} =>
         s[b].ready # "ready" /\ \A j \in 1..k : s[b].asks[j] \in Prompted
    /\ s[b].asks[k] \in {"package", "token"} => s[b].asks[Len(s[b].asks)] = "reboot"

VARIABLES
  suite, boot,  \* the boots of the package, and which of them is tested
  phase,        \* what the harness does
  step,         \* the command it is at, 0 before the guest is ready
  raw, offset,  \* what it has read of this boot, and how much before this command
  result,       \* whether the test passed, once it is over
  up,           \* QEMU and the guest in it
  input, tty, pipe,   \* commands on their way, output to come, and to be read
  noise,        \* messages so far that nobody asked for
  ran,          \* commands of this boot that the guest carried out with success
  restarted,    \* whether it restarted itself
  cache, disk   \* what was written to its file system, and what is on its disk

harness == <<suite, boot, phase, step, raw, offset, result>>
guest == <<up, input, tty, pipe, noise, ran, restarted, cache, disk>>
vars == <<harness, guest>>

Ended == {"halted", "died"}       \* QEMU exited with 0, or otherwise
Alive == {"booting", "shell", "restarting", "hung"}

Asks == suite[boot].asks
Kind(k) == Asks[k]
Prompt == <<"prompt", 0>>
Oops == <<"oops", 0>>
Restarting == <<"restarting", 0>>

Has(s, token) == \E i \in 1..Len(s) : s[i] = token
EndsWith(s, token) == s # <<>> /\ s[Len(s)] = token
Output == SubSeq(raw, offset + 1, Len(raw))
Says(what, k) == Has(Output, <<what, k>>)

Init ==
  /\ suite \in Suites /\ boot = 1 /\ phase = "start" /\ step = 0
  /\ raw = <<>> /\ offset = 0 /\ result = "none"
  /\ up = "off" /\ input = <<>> /\ tty = <<>> /\ pipe = <<>> /\ noise = 0
  /\ ran = {} /\ restarted = FALSE /\ cache = {} /\ disk = {}

-----------------------------------------------------------------------------
Popen ==
  /\ phase = "start" /\ phase' = "read"
  /\ up' = "booting" /\ tty' = <<>> /\ pipe' = <<>> /\ input' = <<>>
  /\ noise' = 0 /\ ran' = {} /\ restarted' = FALSE /\ cache' = disk
  /\ UNCHANGED <<suite, boot, step, raw, offset, result, disk>>

\* A raise ends the boot, and finally closes the guest.
Raise == phase' = "failed"

\* Mutant: a marker is found anywhere in a line, and so in the echo.
SatisfiedByEcho ==
  IF step = 0
  THEN IF suite[boot].ready = "ready" THEN Has(raw, <<"ready", 0>>) \/ Has(raw, <<"unready", 0>>)
       ELSE EndsWith(raw, <<suite[boot].ready, 0>>)
  ELSE \/ Kind(step) \in ByPrompt /\ EndsWith(Output, Prompt)
       \/ Kind(step) = "newline" /\ EndsWith(raw, Prompt)
       \/ Kind(step) = "marker" /\ Says("echo", step) /\ EndsWith(raw, Prompt)
       \/ Kind(step) = "event" /\ Says("echo", step)
       \/ Kind(step) \in Status /\ (Says("ok", step) \/ Says("bad", step))

\* wait: what it waits for.
Satisfied ==
  IF step = 0
  THEN IF suite[boot].ready = "ready" THEN Has(raw, <<"ready", 0>>) \/ Has(raw, <<"unready", 0>>)
       ELSE EndsWith(raw, <<suite[boot].ready, 0>>)
  ELSE \/ Kind(step) \in ByPrompt /\ EndsWith(Output, Prompt)
       \/ Kind(step) = "newline" /\ EndsWith(raw, Prompt)
       \/ Kind(step) = "marker" /\ Says("ok", step) /\ EndsWith(raw, Prompt)
       \/ Kind(step) = "event" /\ Says("ok", step)
       \/ Kind(step) \in Status /\ (Says("ok", step) \/ Says("bad", step))

\* And what it requires of the output then.
Accepted ==
  IF step = 0 THEN ~Has(raw, <<"unready", 0>>)
  ELSE /\ Kind(step) \in Status \cup {"prompt"} => Says("ok", step)
       /\ Kind(step) \in Status \cup ByPrompt => ~Says("bad", step)

\* What takes 2 or 90 seconds is measured, and may be found too short.
Timed == step > 0 /\ Kind(step) \in {"quiet", "event"}

After(k) == IF k < Len(Asks) THEN "send" ELSE "passed"

Proceed ==
  /\ phase = "read" /\ Satisfied
  /\ \/ Accepted /\ phase' = After(step) /\ step' = step + 1
     \/ (~Accepted \/ Timed) /\ Raise /\ UNCHANGED step
  /\ UNCHANGED <<suite, boot, raw, offset, result, guest>>

\* Only what comes after this is the command's; the pipe of a QEMU that has ended
\* is broken.
Send ==
  /\ phase = "send" /\ Kind(step) \notin {"ssh", "unawaited"} /\ offset' = Len(raw)
  /\ IF up \in Ended THEN Raise /\ UNCHANGED input
     ELSE phase' = "read" /\ input' = Append(input, step)
  /\ UNCHANGED <<suite, boot, step, raw, result, up, tty, pipe, noise, ran, restarted, cache, disk>>

\* The export of the proxy: the next command follows at once.
SendOnly ==
  /\ phase = "send" /\ Kind(step) = "unawaited"
  /\ IF up \in Ended THEN Raise /\ UNCHANGED <<input, step>>
     ELSE input' = Append(input, step) /\ phase' = After(step) /\ step' = step + 1
  /\ UNCHANGED <<suite, boot, raw, offset, result, up, tty, pipe, noise, ran, restarted, cache, disk>>

\* ssh to the guest, which answers or not, with a timeout of its own.
Ssh ==
  /\ phase = "send" /\ Kind(step) = "ssh"
  /\ \/ up = "shell" /\ ran' = ran \cup {step} /\ phase' = After(step) /\ step' = step + 1
     \/ Raise /\ UNCHANGED <<ran, step>>
  /\ UNCHANGED <<suite, boot, raw, offset, result, up, input, tty, pipe, noise, restarted, cache, disk>>

\* Kernel messages and lines of the guest that end a test.
FailureIn(s) ==
  Has(s, Oops) \/ \E k \in 1..Len(Asks) : Kind(k) \in {"marker", "event"} /\ Has(s, <<"bad", k>>)

Rebooting == step > 0 /\ Kind(step) = "reboot"

\* Guest.read takes what there is and looks for failures, and then at QEMU.
Read ==
  /\ phase = "read" /\ ~Satisfied
  /\ raw' = raw \o pipe /\ pipe' = <<>>
  /\ phase' = IF ~FailureIn(raw') THEN "poll" ELSE IF Rebooting THEN "caught" ELSE "failed"
  /\ UNCHANGED <<suite, boot, step, offset, result, up, input, tty, noise, ran, restarted, cache, disk>>

Poll ==
  /\ phase = "poll"
  /\ phase' = IF up \notin Ended THEN "read" ELSE IF Rebooting THEN "caught" ELSE "failed"
  /\ UNCHANGED <<suite, boot, step, raw, offset, result, guest>>

\* Mutant: any end of QEMU is a reboot.
CatchAnyEnd ==
  /\ phase = "caught" /\ raw' = raw \o pipe /\ pipe' = <<>>
  /\ phase' = IF up \in Ended THEN "passed" ELSE "failed"
  /\ UNCHANGED <<suite, boot, step, offset, result, up, input, tty, noise, ran, restarted, cache, disk>>

\* reboot expects read to raise: when QEMU has ended well, the rest of the
\* output must have the message of the kernel.
Catch ==
  /\ phase = "caught"
  /\ IF up = "halted" THEN raw' = raw \o pipe /\ pipe' = <<>> ELSE UNCHANGED <<raw, pipe>>
  /\ phase' = IF up = "halted" /\ Has(raw', Restarting) THEN "passed" ELSE "failed"
  /\ UNCHANGED <<suite, boot, step, offset, result, up, input, tty, noise, ran, restarted, cache, disk>>

\* The deadline of a wait has passed, which is looked at before the output is.
Timeout ==
  /\ phase = "read" /\ Raise
  /\ UNCHANGED <<suite, boot, step, raw, offset, result, guest>>

\* Mutant: only a boot that passed is closed.
CloseAfterPass ==
  /\ phase \in {"passed", "failed"}
  /\ up' = IF up \in Alive /\ phase = "passed" THEN "died" ELSE up
  /\ raw' = <<>> /\ offset' = 0 /\ step' = 0
  /\ IF phase = "passed" /\ boot < Len(suite)
     THEN boot' = boot + 1 /\ phase' = "start" /\ UNCHANGED result
     ELSE phase' = "over" /\ result' = phase /\ UNCHANGED boot
  /\ UNCHANGED <<suite, input, tty, pipe, noise, ran, restarted, cache, disk>>

\* Guest.close terminates or kills QEMU; the next boot follows one that passed.
Close ==
  /\ phase \in {"passed", "failed"}
  /\ up' = IF up \in Alive THEN "died" ELSE up
  /\ raw' = <<>> /\ offset' = 0 /\ step' = 0
  /\ IF phase = "passed" /\ boot < Len(suite)
     THEN boot' = boot + 1 /\ phase' = "start" /\ UNCHANGED result
     ELSE phase' = "over" /\ result' = phase /\ UNCHANGED boot
  /\ UNCHANGED <<suite, input, tty, pipe, noise, ran, restarted, cache, disk>>

-----------------------------------------------------------------------------
\* The guest is up, or its start failed and it says so.
Start ==
  /\ up = "booting" /\ up' = "shell"
  /\ tty' \in IF suite[boot].ready = "ready"
              THEN {<< <<"ready", 0>>, Prompt>>, << <<"unready", 0>> >>}
              ELSE {<< <<suite[boot].ready, 0>> >>}
  /\ UNCHANGED <<harness, input, pipe, noise, ran, restarted, cache, disk>>

\* What a command can come to: a disk keeps what it has.
Outcomes(k) ==
  IF Kind(k) = "package" THEN {IF "package" \in cache THEN "ok" ELSE "bad"}
  ELSE IF Kind(k) = "token" THEN {IF "token" \in cache THEN "ok" ELSE "bad"}
  ELSE IF Kind(k) \in {"login", "newline"} THEN {"ok"} ELSE {"ok", "bad"}

\* The console echoes the command, the shell runs it, and prompts.
Take ==
  /\ up = "shell" /\ tty = <<>> /\ input # <<>>
  /\ LET k == Head(input)
     IN /\ input' = Tail(input)
        /\ \E r \in Outcomes(k) :
             tty' = IF Kind(k) = "reboot" THEN << <<"echo", k>> >>
                    ELSE << <<"echo", k>>, <<r, k>>, Prompt>>
        /\ up' = IF Kind(k) = "reboot" THEN "restarting" ELSE up
  /\ UNCHANGED <<harness, pipe, noise, ran, restarted, cache, disk>>

\* A token leaves the guest; the result of a command comes when it has run.
Emit ==
  /\ up \in {"shell", "restarting"} /\ tty # <<>>
  /\ tty' = Tail(tty) /\ pipe' = Append(pipe, Head(tty))
  /\ IF Head(tty)[1] = "ok"
     THEN LET k == Head(tty)[2]
          IN /\ ran' = ran \cup {k}
             /\ cache' = cache \cup (IF Kind(k) = "install" THEN {"package"}
                                     ELSE IF Kind(k) = "write" THEN {"token"} ELSE {})
             /\ disk' = IF Kind(k) = "write" THEN cache' ELSE disk
     ELSE UNCHANGED <<ran, cache, disk>>
  /\ UNCHANGED <<harness, up, input, noise, restarted>>

\* The file systems are unmounted, and then the kernel says that it restarts.
Restart ==
  /\ up = "restarting" /\ tty = <<>> /\ ~restarted
  /\ disk' = cache /\ restarted' = TRUE /\ pipe' = Append(pipe, Restarting)
  /\ UNCHANGED <<harness, up, input, tty, noise, ran, cache>>

\* The reset ends QEMU, which runs with -no-reboot.
Reset ==
  /\ up = "restarting" /\ restarted /\ up' = "halted"
  /\ UNCHANGED <<harness, input, tty, pipe, noise, ran, restarted, cache, disk>>

\* A kernel message nobody asked for, which may be a failure's.
Mutter ==
  /\ up \in Alive /\ noise < MaxNoise /\ noise' = noise + 1
  /\ \E t \in {Oops, <<"noise", 0>>} : pipe' = Append(pipe, t)
  /\ UNCHANGED <<harness, up, input, tty, ran, restarted, cache, disk>>

Hang ==
  /\ up \in {"booting", "shell", "restarting"} /\ up' = "hung"
  /\ UNCHANGED <<harness, input, tty, pipe, noise, ran, restarted, cache, disk>>

\* QEMU is stopped, or crashes.
QemuEnds ==
  /\ up \in Alive /\ up' \in Ended
  /\ UNCHANGED <<harness, input, tty, pipe, noise, ran, restarted, cache, disk>>

Over == phase = "over" /\ up \notin Alive /\ UNCHANGED vars

Harness == Popen \/ Proceed \/ Send \/ SendOnly \/ Ssh \/ Read \/ Poll \/ Catch \/ Timeout \/ Close
Guest == Start \/ Take \/ Emit \/ Restart \/ Reset \/ Mutter \/ Hang \/ QemuEnds

Next == Harness \/ Guest \/ Over

Spec == Init /\ [][Next]_vars

\* The harness runs, and a deadline that has passed ends the loop.
FairSpec == Spec /\ WF_vars(Harness) /\ SF_vars(Timeout)
-----------------------------------------------------------------------------
\* The harness is never past a command that the guest has not carried out with
\* success in this boot, however the output was cut into pieces, whatever prompt
\* or message came late, and whichever of the two ended (scripts/test-packages.py
\* and scripts/distro_runtime.py).  The newline only asks for a prompt,
\* and of a line that it does not wait for the harness learns nothing.
PassedRan ==
  \A k \in 1..Len(Asks) :
    k < step /\ Kind(k) \notin {"newline", "unawaited"} => k \in ran

\* A boot of a disk passes only if the guest restarted by itself, and what it
\* was asked for after that had been on the disk (scripts/distro_runtime.py).
ActualReboot ==
  phase = "passed" =>
    \A k \in 1..Len(Asks) :
      /\ Kind(k) = "reboot" => restarted
      /\ Kind(k) \in {"package", "token"} => Kind(k) \in disk

\* Whatever the guest does or does not do, the test comes to an end, and leaves
\* no QEMU behind (Guest.wait, Guest.close).
Verdict == <>(phase = "over" /\ up \notin Alive)
=============================================================================
