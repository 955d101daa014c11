------------------------- MODULE GuestConsoleProofs -------------------------
(***************************************************************************)
(* That the harness believes the guest only what the guest has done, for   *)
(* every suite that OrderAssumption describes and any number of messages.   *)
(*                                                                         *)
(* A prompt does not say whose it is.  The invariant of the order (OrderInv)  *)
(* is that before a command is sent nothing is on its way that could be     *)
(* taken for its end, and that afterwards one prompt at most comes, behind    *)
(* the result.  The others say that what was read is true of the guest.     *)
(***************************************************************************)
EXTENDS GuestConsole, TLAPS

Words == {"prompt", "login", "ready", "unready", "echo", "ok", "bad", "oops", "noise", "restarting"}
Token == Words \X Nat
Boot == [ready : {"prompt", "login", "ready"}, asks : Seq(Kinds)]

LEMMA Tokens ==
  /\ Prompt \in Token /\ Oops \in Token /\ Restarting \in Token /\ <<"noise", 0>> \in Token
  /\ <<"ready", 0>> \in Token /\ <<"unready", 0>> \in Token /\ <<"login", 0>> \in Token
  /\ \A k \in Nat : <<"echo", k>> \in Token /\ <<"ok", k>> \in Token /\ <<"bad", k>> \in Token
BY DEF Token, Words, Prompt, Oops, Restarting

\* What the console is given at once.
LEMMA HasFew ==
  ASSUME NEW a, NEW b, NEW c, NEW t
  PROVE  /\ Has(<<a>>, t) <=> t = a
         /\ Has(<<a, b>>, t) <=> t \in {a, b}
         /\ Has(<<a, b, c>>, t) <=> t \in {a, b, c}
<1>1. Has(<<a>>, t) <=> t = a
  BY DEF Has
<1>2. Has(<<a, b>>, t) <=> t \in {a, b}
  <2>1. Len(<<a, b>>) = 2 /\ <<a, b>>[1] = a /\ <<a, b>>[2] = b /\ 1..2 = {1, 2}
    OBVIOUS
  <2> QED BY <2>1 DEF Has
<1>3. Has(<<a, b, c>>, t) <=> t \in {a, b, c}
  <2>1. /\ Len(<<a, b, c>>) = 3 /\ 1..3 = {1, 2, 3}
        /\ <<a, b, c>>[1] = a /\ <<a, b, c>>[2] = b /\ <<a, b, c>>[3] = c
    OBVIOUS
  <2> QED BY <2>1 DEF Has
<1> QED BY <1>1, <1>2, <1>3

LEMMA HasAppend ==
  ASSUME NEW s \in Seq(Token), NEW x \in Token, NEW t
  PROVE  Has(Append(s, x), t) <=> Has(s, t) \/ x = t
<1>1. /\ Len(Append(s, x)) = Len(s) + 1 /\ Append(s, x)[Len(s) + 1] = x /\ Len(s) \in Nat
      /\ \A i \in 1..Len(s) : Append(s, x)[i] = s[i]
  OBVIOUS
<1> QED BY <1>1 DEF Has

LEMMA HasConcat ==
  ASSUME NEW s \in Seq(Token), NEW u \in Seq(Token), NEW t
  PROVE  Has(s \o u, t) <=> Has(s, t) \/ Has(u, t)
<1>1. /\ Len(s \o u) = Len(s) + Len(u) /\ Len(s) \in Nat /\ Len(u) \in Nat
      /\ \A i \in 1..Len(s) : (s \o u)[i] = s[i]
      /\ \A i \in 1..Len(u) : (s \o u)[Len(s) + i] = u[i]
  OBVIOUS
<1>2. ASSUME Has(s \o u, t) PROVE Has(s, t) \/ Has(u, t)
  <2>1. PICK i \in 1..(Len(s) + Len(u)) : (s \o u)[i] = t
    BY <1>1, <1>2 DEF Has
  <2>2. CASE i \in 1..Len(s)
    BY <1>1, <2>1, <2>2 DEF Has
  <2>3. CASE i \notin 1..Len(s)
    <3> DEFINE j == i - Len(s)
    <3>1. j \in 1..Len(u) /\ i = Len(s) + j
      BY <1>1, <2>3
    <3>2. u[j] = t
      BY <1>1, <2>1, <3>1
    <3> QED BY <3>1, <3>2 DEF Has
  <2> QED BY <2>2, <2>3
<1>3. ASSUME Has(s, t) PROVE Has(s \o u, t)
  <2>1. PICK i \in 1..Len(s) : s[i] = t
    BY <1>3 DEF Has
  <2>2. i \in 1..Len(s \o u) /\ (s \o u)[i] = t
    BY <1>1, <2>1
  <2> QED BY <2>2 DEF Has
<1>4. ASSUME Has(u, t) PROVE Has(s \o u, t)
  <2>1. PICK i \in 1..Len(u) : u[i] = t
    BY <1>4 DEF Has
  <2>2. Len(s) + i \in 1..Len(s \o u) /\ (s \o u)[Len(s) + i] = t
    BY <1>1, <2>1
  <2> QED BY <2>2 DEF Has
<1> QED BY <1>2, <1>3, <1>4

LEMMA HasTail ==
  ASSUME NEW s \in Seq(Token), s # <<>>, NEW t
  PROVE  /\ Has(s, t) <=> Head(s) = t \/ Has(Tail(s), t)
         /\ Head(s) \in Token /\ Tail(s) \in Seq(Token)
<1>1. /\ Len(s) \in Nat \ {0} /\ Head(s) = s[1] /\ Tail(s) \in Seq(Token) /\ Len(Tail(s)) = Len(s) - 1
      /\ \A i \in 1..(Len(s) - 1) : Tail(s)[i] = s[i + 1]
  OBVIOUS
<1>2. ASSUME Has(s, t) PROVE Head(s) = t \/ Has(Tail(s), t)
  <2>1. PICK i \in 1..Len(s) : s[i] = t
    BY <1>2 DEF Has
  <2>2. CASE i = 1
    BY <1>1, <2>1, <2>2
  <2>3. CASE i # 1
    <3>1. i - 1 \in 1..(Len(s) - 1) /\ (i - 1) + 1 = i
      BY <1>1, <2>3
    <3>2. Tail(s)[i - 1] = t
      BY <1>1, <2>1, <3>1
    <3> QED BY <1>1, <3>1, <3>2 DEF Has
  <2> QED BY <2>2, <2>3
<1>3. ASSUME Has(Tail(s), t) PROVE Has(s, t)
  <2>1. PICK i \in 1..(Len(s) - 1) : Tail(s)[i] = t
    BY <1>1, <1>3 DEF Has
  <2>2. i + 1 \in 1..Len(s) /\ s[i + 1] = t
    BY <1>1, <2>1
  <2> QED BY <2>2 DEF Has
<1>4. Head(s) = t => Has(s, t)
  BY <1>1 DEF Has
<1>5. Head(s) \in Token
  BY <1>1
<1> QED BY <1>1, <1>2, <1>3, <1>4, <1>5

LEMMA HasEmpty == ASSUME NEW t PROVE ~Has(<<>>, t)
BY DEF Has

LEMMA HasEnd ==
  ASSUME NEW s \in Seq(Token), NEW t, EndsWith(s, t)
  PROVE  Has(s, t)
BY DEF EndsWith, Has

\* What a command has printed, after more output has been read.
LEMMA OutputGrows ==
  ASSUME NEW r \in Seq(Token), NEW u \in Seq(Token), NEW o \in 0..Len(r), NEW t
  PROVE  LET out == SubSeq(r, o + 1, Len(r))
             more == SubSeq(r \o u, o + 1, Len(r \o u))
         IN /\ Has(more, t) <=> Has(out, t) \/ Has(u, t)
            /\ Has(out, t) => Has(r, t)
            /\ out \in Seq(Token)
<1> DEFINE out == SubSeq(r, o + 1, Len(r))
           more == SubSeq(r \o u, o + 1, Len(r \o u))
<1>1. /\ Len(r) \in Nat /\ Len(u) \in Nat /\ Len(out) = Len(r) - o /\ out \in Seq(Token)
      /\ \A i \in 1..(Len(r) - o) : out[i] = r[o + i]
  OBVIOUS
<1>2. /\ Len(r \o u) = Len(r) + Len(u) /\ r \o u \in Seq(Token)
      /\ \A i \in 1..Len(r) : (r \o u)[i] = r[i]
      /\ \A i \in 1..Len(u) : (r \o u)[Len(r) + i] = u[i]
  OBVIOUS
<1>3. /\ Len(more) = Len(r) + Len(u) - o
      /\ \A i \in 1..(Len(r) + Len(u) - o) : more[i] = (r \o u)[o + i]
  BY <1>1, <1>2
<1>4. more \in Seq(Token) /\ out \o u \in Seq(Token) /\ Len(out \o u) = Len(more)
  BY <1>1, <1>2, <1>3
<1>5. ASSUME NEW i \in 1..Len(more) PROVE more[i] = (out \o u)[i]
  <2>1. CASE i \in 1..(Len(r) - o)
    BY <1>1, <1>2, <1>3, <2>1
  <2>2. CASE i \notin 1..(Len(r) - o)
    <3> DEFINE j == i - (Len(r) - o)
    <3>0. Len(r) - o \in Nat /\ i \in 1..(Len(r) + Len(u) - o) /\ i > Len(r) - o
      BY <1>1, <1>3, <2>2
    <3>1. j \in 1..Len(u) /\ i = Len(out) + j /\ o + i = Len(r) + j
      <4>1. j \in 1..Len(u)
        BY <3>0, <1>1
      <4>2. i = Len(out) + j
        <5>1. i \in Nat /\ Len(r) - o \in Nat /\ Len(out) = Len(r) - o
          BY <3>0, <1>1
        <5> HIDE DEF out
        <5> QED BY <5>1
      <4>3. o + i = Len(r) + j
        BY <3>0, <1>1
      <4> QED BY <4>1, <4>2, <4>3
    <3>2. more[i] = u[j]
      BY <1>2, <1>3, <3>1
    <3>3. (out \o u)[i] = u[j]
      BY <1>1, <3>1
    <3> QED BY <3>2, <3>3
  <2> QED BY <2>1, <2>2
<1>6. Has(more, t) <=> Has(out \o u, t)
  BY <1>4, <1>5 DEF Has
<1>7. Has(out, t) => Has(r, t)
  <2> SUFFICES ASSUME Has(out, t) PROVE Has(r, t)
    OBVIOUS
  <2>1. PICK i \in 1..(Len(r) - o) : out[i] = t
    BY <1>1 DEF Has
  <2>2. o + i \in 1..Len(r) /\ r[o + i] = t
    BY <1>1, <2>1
  <2> QED BY <2>2 DEF Has
<1> QED BY <1>1, <1>6, <1>7, HasConcat

-----------------------------------------------------------------------------
TypeInv ==
  /\ suite \in Suites /\ boot \in 1..Len(suite)
  /\ step \in 0..(Len(Asks) + 1)
  /\ raw \in Seq(Token) /\ tty \in Seq(Token) /\ pipe \in Seq(Token)
  /\ offset \in 0..Len(raw) /\ input \in Seq(Nat)

\* Where the harness is, and that it does not pass a reboot.
PlaceInv ==
  /\ phase = "start" => step = 0 /\ raw = <<>> /\ offset = 0
  /\ phase \in {"read", "poll"} => step <= Len(Asks)
  /\ phase = "send" => step \in 1..Len(Asks)
  /\ phase = "caught" => step \in 1..Len(Asks) /\ Kind(step) = "reboot"
  /\ \A k \in 1..Len(Asks) : k < step => Kind(k) # "reboot"

LEMMA BootShape ==
  ASSUME NEW s \in Suites, NEW b \in 1..Len(s)
  PROVE  /\ s \in Seq(Boot)
         /\ Len(s) \in Nat
         /\ s[b].ready \in {"prompt", "login", "ready"} /\ s[b].asks \in Seq(Kinds)
         /\ Len(s[b].asks) \in Nat
         /\ \A k \in 1..Len(s[b].asks) :
              s[b].asks[k] \in Kinds /\ (s[b].asks[k] = "reboot" => k = Len(s[b].asks))
<1>1. s \in Seq(Boot)
  BY SuiteAssumption DEF Boot
<1>2. s[b] \in Boot
  BY <1>1
<1>3. \A k \in 1..Len(s[b].asks) : s[b].asks[k] = "reboot" => k = Len(s[b].asks)
  BY SuiteAssumption
<1>4. s[b].ready \in {"prompt", "login", "ready"} /\ s[b].asks \in Seq(Kinds)
  BY <1>2 DEF Boot
<1>5. Len(s[b].asks) \in Nat /\ \A k \in 1..Len(s[b].asks) : s[b].asks[k] \in Kinds
  BY <1>4
<1>6. Len(s) \in Nat
  BY <1>1
<1> QED BY <1>1, <1>3, <1>4, <1>5, <1>6

LEMMA PlaceStart == Init => TypeInv /\ PlaceInv
<1> SUFFICES ASSUME Init PROVE TypeInv /\ PlaceInv
  OBVIOUS
<1>1. suite \in Suites /\ boot = 1
  BY DEF Init
<1>2. suite # <<>> /\ suite \in Seq(Boot)
  BY <1>1, SuiteAssumption DEF Boot
<1>3. boot \in 1..Len(suite)
  BY <1>1, <1>2
<1>4. Len(Asks) \in Nat
  BY <1>1, <1>3, BootShape DEF Asks
<1> QED BY <1>1, <1>3, <1>4 DEF Init, TypeInv, PlaceInv

\* What the guest leaves alone.
LEMMA GuestFrame ==
  Guest => /\ UNCHANGED harness
           /\ Asks' = Asks /\ \A k : Kind(k)' = Kind(k)
BY DEF Guest, Start, Take, Emit, Restart, Reset, Mutter, Hang, QemuEnds, harness, Asks, Kind

LEMMA PlaceByGuest == TypeInv /\ PlaceInv /\ Guest => TypeInv' /\ PlaceInv'
<1> SUFFICES ASSUME TypeInv, PlaceInv, Guest PROVE TypeInv' /\ PlaceInv'
  OBVIOUS
<1>1. UNCHANGED harness /\ Asks' = Asks /\ \A k : Kind(k)' = Kind(k)
  BY GuestFrame
<1>2. PlaceInv'
  BY <1>1 DEF PlaceInv, harness
<1>3. suite[boot].ready \in {"prompt", "login", "ready"}
  BY BootShape DEF TypeInv
<1>4. tty' \in Seq(Token) /\ pipe' \in Seq(Token) /\ input' \in Seq(Nat)
  <2>1. CASE Start
    <3>1. /\ <<"ready", 0>> \in Token /\ Prompt \in Token /\ <<"unready", 0>> \in Token
          /\ <<suite[boot].ready, 0>> \in Token
      BY <1>3, Tokens DEF Prompt
    <3>2. tty' \in {<< <<"ready", 0>>, Prompt>>, << <<"unready", 0>> >>, << <<suite[boot].ready, 0>> >>}
      BY <2>1 DEF Start
    <3>3. PICK a \in Token, b \in Token : tty' \in {<<a, b>>, <<a>>}
      BY <3>1, <3>2
    <3>4. tty' \in Seq(Token)
      <4>1. <<a>> \in Seq(Token) /\ <<a, b>> \in Seq(Token)
        OBVIOUS
      <4> QED BY <4>1, <3>3, Zenon
    <3> QED BY <2>1, <3>4 DEF Start, TypeInv
  <2>2. CASE Take
    <3>1. PICK r \in {"ok", "bad"} :
            tty' \in {<< <<"echo", Head(input)>> >>, << <<"echo", Head(input)>>, <<r, Head(input)>>, Prompt>>}
      BY <2>2 DEF Take, Outcomes
    <3>2. Head(input) \in Nat /\ Tail(input) \in Seq(Nat)
      BY <2>2 DEF Take, TypeInv
    <3>3. <<"echo", Head(input)>> \in Token /\ <<r, Head(input)>> \in Token /\ Prompt \in Token
      BY <3>2, Tokens
    <3>4. PICK a \in Token, b \in Token, c \in Token : tty' \in {<<a>>, <<a, b, c>>}
      BY <3>1, <3>3
    <3>5. tty' \in Seq(Token)
      <4>1. <<a>> \in Seq(Token) /\ <<a, b, c>> \in Seq(Token)
        OBVIOUS
      <4> QED BY <4>1, <3>4, Zenon
    <3> QED BY <2>2, <3>2, <3>5 DEF Take, TypeInv
  <2>3. CASE Emit
    BY <2>3, HasTail DEF Emit, TypeInv
  <2>4. CASE Restart
    BY <2>4, Tokens DEF Restart, TypeInv
  <2>5. CASE Mutter
    <3>1. PICK t \in {Oops, <<"noise", 0>>} : pipe' = Append(pipe, t)
      BY <2>5 DEF Mutter
    <3>2. t \in Token
      BY Tokens
    <3>3. pipe' \in Seq(Token)
      BY <3>1, <3>2 DEF TypeInv
    <3> QED BY <2>5, <3>3 DEF Mutter, TypeInv
  <2>6. CASE Reset \/ Hang \/ QemuEnds
    BY <2>6 DEF Reset, Hang, QemuEnds, TypeInv
  <2> QED BY <2>1, <2>2, <2>3, <2>4, <2>5, <2>6 DEF Guest
<1> QED BY <1>1, <1>2, <1>4 DEF TypeInv, harness

\* A command the harness waits for and takes for done is no reboot.
LEMMA NoRebootSatisfied ==
  ASSUME Satisfied, step # 0 PROVE Kind(step) # "reboot"
BY DEF Satisfied, ByPrompt, Status

LEMMA PlaceByHarness == TypeInv /\ PlaceInv /\ Harness => TypeInv' /\ PlaceInv'
<1> SUFFICES ASSUME TypeInv, PlaceInv, Harness PROVE TypeInv' /\ PlaceInv'
  OBVIOUS
<1>1. /\ Len(Asks) \in Nat /\ Len(suite) \in Nat /\ Len(raw) \in Nat
      /\ \A k \in 1..Len(Asks) : Kind(k) = "reboot" => k = Len(Asks)
  BY BootShape DEF TypeInv, Asks, Kind
<1>2. ASSUME UNCHANGED <<suite, boot>>
      PROVE  Asks' = Asks /\ \A k : Kind(k)' = Kind(k)
  BY <1>2 DEF Asks, Kind
<1>3. CASE Popen
  BY <1>2, <1>3 DEF Popen, TypeInv, PlaceInv
<1>4. CASE Proceed
  <2>1. step \in 0..Len(Asks)
    BY <1>1, <1>4 DEF Proceed, TypeInv, PlaceInv
  <2>2. CASE phase' = After(step) /\ step' = step + 1
    <3>1. Asks' = Asks /\ (\A k : Kind(k)' = Kind(k)) /\ phase' \in {"send", "passed"}
          /\ (phase' = "send" => step < Len(Asks))
      BY <1>2, <1>4, <2>2 DEF Proceed, After
    <3>2. step # 0 => Kind(step) # "reboot"
      BY <1>4, NoRebootSatisfied DEF Proceed
    <3>3. TypeInv'
      BY <1>1, <1>4, <2>1, <2>2, <3>1 DEF Proceed, TypeInv, guest
    <3>4. \A k \in 1..Len(Asks) : k < step + 1 => Kind(k) # "reboot"
      BY <1>1, <2>1, <3>2 DEF PlaceInv
    <3> QED BY <1>1, <2>1, <2>2, <3>1, <3>3, <3>4 DEF PlaceInv
  <2>3. CASE phase' = "failed" /\ UNCHANGED step
    BY <1>2, <1>4, <2>3 DEF Proceed, TypeInv, PlaceInv, guest
  <2> QED BY <1>4, <2>2, <2>3 DEF Proceed, Raise
<1>5. CASE Send
  <2>1. Asks' = Asks /\ \A k : Kind(k)' = Kind(k)
    BY <1>2, <1>5 DEF Send
  <2>2. Append(input, step) \in Seq(Nat)
    BY <1>1 DEF TypeInv
  <2>3. input' \in Seq(Nat)
    BY <1>5, <2>2 DEF Send, TypeInv
  <2>4. TypeInv'
    BY <1>1, <1>5, <2>1, <2>3 DEF Send, TypeInv
  <2>5. PlaceInv'
    BY <1>1, <1>5, <2>1 DEF Send, PlaceInv, Raise
  <2> QED BY <2>4, <2>5
<1>6. CASE Ssh
  <2>1. Asks' = Asks /\ (\A k : Kind(k)' = Kind(k)) /\ step \in 1..Len(Asks)
    BY <1>2, <1>6 DEF Ssh, PlaceInv
  <2>2. CASE phase' = After(step) /\ step' = step + 1
    <3>1. phase' \in {"send", "passed"} /\ (phase' = "send" => step < Len(Asks))
      BY <2>2 DEF After
    <3>2. TypeInv'
      BY <1>1, <1>6, <2>1, <2>2 DEF Ssh, TypeInv
    <3>3. \A k \in 1..Len(Asks) : k < step + 1 => Kind(k) # "reboot"
      BY <1>1, <1>6, <2>1 DEF PlaceInv, Ssh
    <3> QED BY <1>1, <2>1, <2>2, <3>1, <3>2, <3>3 DEF PlaceInv
  <2>3. CASE phase' = "failed" /\ UNCHANGED step
    BY <1>6, <2>1, <2>3 DEF Ssh, TypeInv, PlaceInv
  <2> QED BY <1>6, <2>2, <2>3 DEF Ssh, Raise
<1>12. CASE SendOnly
  <2>1. Asks' = Asks /\ (\A k : Kind(k)' = Kind(k)) /\ step \in 1..Len(Asks)
    BY <1>2, <1>12 DEF SendOnly, PlaceInv
  <2>2. CASE input' = Append(input, step) /\ phase' = After(step) /\ step' = step + 1
    <3>1. phase' \in {"send", "passed"} /\ (phase' = "send" => step < Len(Asks))
      BY <2>2 DEF After
    <3>2. input' \in Seq(Nat)
      BY <1>1, <2>1, <2>2 DEF TypeInv
    <3>3. TypeInv'
      BY <1>1, <1>12, <2>1, <2>2, <3>2 DEF SendOnly, TypeInv
    <3>4. \A k \in 1..Len(Asks) : k < step + 1 => Kind(k) # "reboot"
      BY <1>1, <1>12, <2>1 DEF PlaceInv, SendOnly
    <3> QED BY <1>1, <2>1, <2>2, <3>1, <3>3, <3>4 DEF PlaceInv
  <2>3. CASE phase' = "failed" /\ UNCHANGED <<input, step>>
    BY <1>12, <2>1, <2>3 DEF SendOnly, TypeInv, PlaceInv
  <2> QED BY <1>12, <2>2, <2>3 DEF SendOnly, Raise
<1>7. CASE Read
  <2>1. Asks' = Asks /\ \A k : Kind(k)' = Kind(k)
    BY <1>2, <1>7 DEF Read
  <2>2. raw' \in Seq(Token) /\ pipe' \in Seq(Token) /\ Len(raw') = Len(raw) + Len(pipe)
        /\ Len(pipe) \in Nat
    BY <1>7 DEF Read, TypeInv
  <2>3. TypeInv'
    BY <1>1, <1>7, <2>1, <2>2 DEF Read, TypeInv
  <2>4. PlaceInv'
    BY <1>1, <1>7, <2>1 DEF Read, PlaceInv, Rebooting, TypeInv
  <2> QED BY <2>3, <2>4
<1>8. CASE Poll
  BY <1>1, <1>2, <1>8 DEF Poll, TypeInv, PlaceInv, Rebooting, guest
<1>9. CASE Catch
  <2>1. Asks' = Asks /\ \A k : Kind(k)' = Kind(k)
    BY <1>2, <1>9 DEF Catch
  <2>2. raw' \in Seq(Token) /\ pipe' \in Seq(Token) /\ Len(raw') \in Nat /\ Len(raw) <= Len(raw')
    <3>1. CASE up = "halted"
      <4>1. raw' = raw \o pipe /\ pipe' = <<>>
        BY <1>9, <3>1 DEF Catch
      <4> QED BY <4>1 DEF TypeInv
    <3>2. CASE up # "halted"
      BY <1>1, <1>9, <3>2 DEF Catch, TypeInv
    <3> QED BY <3>1, <3>2
  <2>3. TypeInv'
    BY <1>1, <1>9, <2>1, <2>2 DEF Catch, TypeInv
  <2>4. PlaceInv'
    BY <1>1, <1>9, <2>1 DEF Catch, PlaceInv
  <2> QED BY <2>3, <2>4
<1>10. CASE Timeout
  BY <1>2, <1>10 DEF Timeout, TypeInv, PlaceInv, guest, Raise
<1>11. CASE Close
  <2>1. boot' \in 1..Len(suite) /\ suite' = suite
    BY <1>1, <1>11 DEF Close, TypeInv
  <2>2. Len(Asks') \in Nat
    BY <2>1, BootShape DEF TypeInv, Asks
  <2>3. TypeInv'
    BY <1>11, <2>1, <2>2 DEF Close, TypeInv
  <2> QED BY <1>11, <2>2, <2>3 DEF Close, PlaceInv
<1> QED BY <1>3, <1>4, <1>5, <1>6, <1>7, <1>8, <1>9, <1>10, <1>11, <1>12 DEF Harness

LEMMA PlaceCorrect == Spec => [](TypeInv /\ PlaceInv)
<1>1. TypeInv /\ PlaceInv /\ UNCHANGED vars => TypeInv' /\ PlaceInv'
  BY DEF TypeInv, PlaceInv, vars, harness, guest, Asks, Kind
<1>2. TypeInv /\ PlaceInv /\ [Next]_vars => TypeInv' /\ PlaceInv'
  BY <1>1, PlaceByGuest, PlaceByHarness DEF Next, Over
<1> QED BY <1>2, PlaceStart, PTL DEF Spec

-----------------------------------------------------------------------------
\* What has been read and what is still to be read of the guest is true of it.
WordInv ==
  /\ \A k \in Nat : Has(raw, <<"ok", k>>) \/ Has(pipe, <<"ok", k>>) => k \in ran
  /\ Has(raw, Restarting) \/ Has(pipe, Restarting) => restarted
  /\ ~Has(tty, Restarting)
  /\ restarted => cache = disk /\ tty = <<>> /\ up \notin {"shell", "booting"}

\* What the disk was asked for with success is there.
KeptInv ==
  phase # "start" =>
    \A k \in Nat : Kind(k) \in {"package", "token"} /\ (k \in ran \/ Has(tty, <<"ok", k>>))
                   => Kind(k) \in cache

GuestInv == TypeInv /\ PlaceInv /\ WordInv /\ KeptInv

LEMMA TokensDiffer ==
  /\ \A k : <<"ok", k>> \notin {Prompt, Oops, <<"noise", 0>>, Restarting, <<"ready", 0>>, <<"unready", 0>>, <<"login", 0>>}
  /\ \A k, j : <<"ok", k>> # <<"echo", j>> /\ <<"ok", k>> # <<"bad", j>> /\ (<<"ok", k>> = <<"ok", j>> <=> k = j)
  /\ Restarting \notin {Prompt, Oops, <<"noise", 0>>, <<"ready", 0>>, <<"unready", 0>>, <<"login", 0>>}
  /\ \A k : Restarting \notin {<<"echo", k>>, <<"ok", k>>, <<"bad", k>>}
BY DEF Prompt, Oops, Restarting

\* A token by its parts.
LEMMA TokenParts ==
  ASSUME NEW t \in Token
  PROVE  t = <<t[1], t[2]>> /\ t[2] \in Nat
BY DEF Token

LEMMA WordsByGuest == GuestInv /\ Guest => WordInv' /\ KeptInv'
<1> SUFFICES ASSUME GuestInv, Guest PROVE WordInv' /\ KeptInv'
  OBVIOUS
<1>1. /\ UNCHANGED harness /\ \A k : Kind(k)' = Kind(k)
      /\ raw' = raw /\ phase' = phase
  BY GuestFrame DEF harness
<1>2. raw \in Seq(Token) /\ tty \in Seq(Token) /\ pipe \in Seq(Token)
  BY DEF GuestInv, TypeInv
<1>3. CASE Start
  <2>1. suite[boot].ready \in {"prompt", "login", "ready"}
    BY BootShape DEF TypeInv, GuestInv
  <2>2. tty' \in {<< <<"ready", 0>>, Prompt>>, << <<"unready", 0>> >>, << <<suite[boot].ready, 0>> >>}
    BY <1>3 DEF Start
  <2>3. <<suite[boot].ready, 0>> \in {Prompt, <<"login", 0>>, <<"ready", 0>>}
    BY <2>1 DEF Prompt
  <2>4. \A t : Has(tty', t) => t \in {Prompt, <<"login", 0>>, <<"ready", 0>>, <<"unready", 0>>}
    <3>1. PICK a \in Token, b \in Token :
            /\ tty' \in {<<a, b>>, <<a>>}
            /\ {a, b} \subseteq {Prompt, <<"login", 0>>, <<"ready", 0>>, <<"unready", 0>>}
      BY <2>2, <2>3, Tokens
    <3>2. \A t : (Has(<<a>>, t) <=> t = a) /\ (Has(<<a, b>>, t) <=> t \in {a, b})
      BY HasFew, Zenon
    <3>3. \A t : Has(tty', t) => t \in {a, b}
      BY <3>1, <3>2, Zenon
    <3> QED BY <3>1, <3>3
  <2>5. ~restarted /\ ~restarted'
    BY <1>3 DEF Start, GuestInv, WordInv
  <2>6. WordInv'
    BY <1>1, <1>3, <2>4, <2>5, TokensDiffer DEF Start, GuestInv, WordInv
  <2>7. KeptInv'
    BY <1>1, <1>3, <2>4, TokensDiffer DEF Start, GuestInv, KeptInv
  <2> QED BY <2>6, <2>7
<1>4. CASE Take
  <2> DEFINE k == Head(input)
  <2>1. k \in Nat
    BY <1>4 DEF Take, GuestInv, TypeInv
  <2>2. PICK r \in Outcomes(k) : tty' \in {<< <<"echo", k>> >>, << <<"echo", k>>, <<r, k>>, Prompt>>}
    BY <1>4 DEF Take, Outcomes
  <2>3. r \in {"ok", "bad"} /\ (r = "ok" /\ Kind(k) \in {"package", "token"} => Kind(k) \in cache)
    BY <2>2 DEF Outcomes
  <2>4. <<"echo", k>> \in Token /\ <<r, k>> \in Token /\ Prompt \in Token
    BY <2>1, <2>3, Tokens
  <2>5. \A t : Has(tty', t) => t \in {<<"echo", k>>, <<r, k>>, Prompt}
    <3> DEFINE e == <<"echo", k>>
               a == <<r, k>>
    <3>1. e \in Token /\ a \in Token /\ Prompt \in Token /\ tty' \in {<<e>>, <<e, a, Prompt>>}
      BY <2>2, <2>4
    <3> HIDE DEF e, a
    <3>2. \A t : (Has(<<e>>, t) <=> t = e) /\ (Has(<<e, a, Prompt>>, t) <=> t \in {e, a, Prompt})
      BY HasFew, Zenon
    <3>3. \A t : Has(tty', t) => t \in {e, a, Prompt}
      BY <3>1, <3>2, Zenon
    <3> QED BY <3>3 DEF e, a
  <2>6. ~restarted /\ ~restarted'
    BY <1>4 DEF Take, GuestInv, WordInv
  <2>7. WordInv'
    <3>1. ~Has(tty', Restarting)
      BY <2>3, <2>5, TokensDiffer
    <3> QED BY <1>1, <1>4, <2>6, <3>1 DEF Take, GuestInv, WordInv
  <2>8. \A j : Has(tty', <<"ok", j>>) => j = k /\ r = "ok"
    BY <2>3, <2>5, TokensDiffer
  <2>9. KeptInv'
    BY <1>1, <1>4, <2>3, <2>8 DEF Take, GuestInv, KeptInv
  <2> QED BY <2>7, <2>9
<1>5. CASE Emit
  <2> DEFINE h == Head(tty)
  <2>1. /\ h \in Token /\ tty # <<>> /\ \A t : Has(tty, t) <=> h = t \/ Has(tty', t)
    BY <1>2, <1>5, HasTail DEF Emit
  <2>2. \A t : Has(pipe', t) <=> Has(pipe, t) \/ h = t
    BY <1>2, <1>5, <2>1, HasAppend DEF Emit
  <2>3. \A k : h = <<"ok", k>> => ran' = ran \cup {k}
    BY <1>5 DEF Emit
  <2>4. ran \subseteq ran' /\ cache \subseteq cache'
    BY <1>5 DEF Emit
  <2>5. ~restarted /\ restarted' = restarted
    BY <1>5, <2>1 DEF Emit, GuestInv, WordInv
  <2>6. WordInv'
    BY <1>1, <2>1, <2>2, <2>3, <2>4, <2>5 DEF GuestInv, WordInv
  <2>7. ASSUME NEW k \in Nat, k \in ran', k \notin ran PROVE h = <<"ok", k>>
    BY <1>5, <2>1, <2>7, TokenParts DEF Emit
  <2>8. KeptInv'
    BY <1>1, <2>1, <2>4, <2>7 DEF GuestInv, KeptInv
  <2> QED BY <2>6, <2>8
<1>6. CASE Restart
  <2>1. \A t : Has(pipe', t) <=> Has(pipe, t) \/ Restarting = t
    BY <1>2, <1>6, Tokens, HasAppend DEF Restart
  <2>2. WordInv'
    BY <1>1, <1>6, <2>1, TokensDiffer DEF Restart, GuestInv, WordInv
  <2>3. KeptInv'
    BY <1>1, <1>6 DEF Restart, GuestInv, KeptInv
  <2> QED BY <2>2, <2>3
<1>7. CASE Mutter
  <2>1. PICK n \in {Oops, <<"noise", 0>>} : pipe' = Append(pipe, n)
    BY <1>7 DEF Mutter
  <2>2. \A t : Has(pipe', t) <=> Has(pipe, t) \/ n = t
    <3>1. n \in Token
      BY Tokens
    <3> QED BY <1>2, <2>1, <3>1, HasAppend
  <2>3. WordInv'
    BY <1>1, <1>7, <2>2, TokensDiffer DEF Mutter, GuestInv, WordInv
  <2>4. KeptInv'
    BY <1>1, <1>7 DEF Mutter, GuestInv, KeptInv
  <2> QED BY <2>3, <2>4
<1>8. CASE Reset \/ Hang \/ QemuEnds
  <2>1. UNCHANGED <<pipe, tty, ran, restarted, cache, disk>> /\ up' \notin {"shell", "booting"}
    BY <1>8 DEF Reset, Hang, QemuEnds, Ended
  <2> QED BY <1>1, <2>1 DEF GuestInv, WordInv, KeptInv
<1> QED BY <1>3, <1>4, <1>5, <1>6, <1>7, <1>8 DEF Guest

LEMMA WordsByHarness == GuestInv /\ Harness => WordInv' /\ KeptInv'
<1> SUFFICES ASSUME GuestInv, Harness PROVE WordInv' /\ KeptInv'
  OBVIOUS
<1>1. raw \in Seq(Token) /\ pipe \in Seq(Token)
  BY DEF GuestInv, TypeInv
<1>2. CASE Popen
  <2>1. raw = <<>> /\ raw' = <<>> /\ pipe' = <<>> /\ tty' = <<>> /\ ran' = {} /\ restarted' = FALSE
    BY <1>2 DEF Popen, GuestInv, PlaceInv
  <2> QED BY <2>1, HasEmpty DEF WordInv, KeptInv
<1>3. CASE Ssh
  <2>1. /\ UNCHANGED <<suite, boot, raw, pipe, tty, restarted, cache, disk, up>>
        /\ ran' = ran \/ ran' = ran \cup {step}
        /\ Kind(step) = "ssh" /\ phase # "start"
    BY <1>3 DEF Ssh, Raise
  <2>2. \A k : Kind(k)' = Kind(k)
    BY <2>1 DEF Kind, Asks
  <2> QED BY <2>1, <2>2 DEF GuestInv, WordInv, KeptInv
<1>4. CASE Read \/ Catch
  <2>1. /\ UNCHANGED <<suite, boot, tty, restarted, cache, disk, up, ran>> /\ phase # "start"
        /\ (raw' = raw \o pipe /\ pipe' = <<>>) \/ UNCHANGED <<raw, pipe>>
    BY <1>4 DEF Read, Catch
  <2>2. \A k : Kind(k)' = Kind(k)
    BY <2>1 DEF Kind, Asks
  <2>3. \A t : Has(raw', t) \/ Has(pipe', t) <=> Has(raw, t) \/ Has(pipe, t)
    <3>1. CASE raw' = raw \o pipe /\ pipe' = <<>>
      BY <1>1, <3>1, HasConcat, HasEmpty
    <3>2. CASE UNCHANGED <<raw, pipe>>
      BY <3>2
    <3> QED BY <2>1, <3>1, <3>2
  <2> QED BY <2>1, <2>2, <2>3 DEF GuestInv, WordInv, KeptInv
<1>5. CASE Proceed \/ Send \/ SendOnly \/ Poll \/ Timeout
  <2>1. UNCHANGED <<suite, boot, raw, tty, pipe, restarted, cache, disk, up, ran>> /\ phase # "start"
    BY <1>5 DEF Proceed, Send, SendOnly, Poll, Timeout, guest
  <2>2. \A k : Kind(k)' = Kind(k)
    BY <2>1 DEF Kind, Asks
  <2> QED BY <2>1, <2>2 DEF GuestInv, WordInv, KeptInv
<1>6. CASE Close
  <2>1. /\ UNCHANGED <<tty, pipe, restarted, cache, disk, ran>> /\ raw' = <<>>
        /\ up' \in {up, "died"} /\ phase # "start"
        /\ phase' = "start" \/ UNCHANGED <<suite, boot>>
    BY <1>6 DEF Close
  <2>2. UNCHANGED <<suite, boot>> => \A k : Kind(k)' = Kind(k)
    BY DEF Kind, Asks
  <2> QED BY <2>1, <2>2, HasEmpty DEF GuestInv, WordInv, KeptInv
<1> QED BY <1>2, <1>3, <1>4, <1>5, <1>6 DEF Harness

-----------------------------------------------------------------------------
\* Every command so far has had its own prompt awaited, from the first on.
Prefix(k) == suite[boot].ready # "ready" /\ \A j \in 1..k : Kind(j) \in Prompted
Ready == <<suite[boot].ready, 0>>
Answered(s) == Has(s, <<"ok", step>>) \/ Has(s, <<"bad", step>>)

\* Before the guest is ready, nothing comes but that it is.
ReadyInv ==
  /\ input = <<>>
  /\ up = "booting" => tty = <<>>
  /\ tty # <<>> => tty = <<Ready>>
  /\ up = "booting" \/ tty # <<>> =>
       \A t \in {Ready, Prompt} : ~Has(raw, t) /\ ~Has(pipe, t)
  /\ Has(raw, Ready) => ~Has(pipe, Prompt)

\* Before a command is sent, nothing is on its way that could be taken for its end.
IdleInv == up # "booting" /\ input = <<>> /\ tty = <<>> /\ ~Has(pipe, Prompt)

\* After that there is one prompt at most, and it comes after the command's result.
AwaitInv ==
  /\ up # "booting"
  /\ input # <<>> => input = <<step>> /\ tty = <<>> /\ ~Has(Output, Prompt) /\ ~Has(pipe, Prompt)
  /\ tty # <<>> =>
       /\ input = <<>> /\ ~Has(Output, Prompt) /\ ~Has(pipe, Prompt)
       /\ \/ \E r \in {"ok", "bad"} :
               tty \in {<< <<"echo", step>>, <<r, step>>, Prompt>>, << <<r, step>>, Prompt>>}
          \/ tty = <<Prompt>> /\ (Answered(pipe) \/ Answered(Output))
  /\ Has(pipe, Prompt) => ~Has(Output, Prompt) /\ (Answered(pipe) \/ Answered(Output))
  /\ Has(Output, Prompt) => Answered(Output)

OrderInv ==
  /\ phase \in {"read", "poll"} /\ step = 0 /\ Prefix(0) => ReadyInv
  /\ phase = "send" /\ Prefix(step - 1) => IdleInv
  /\ phase \in {"read", "poll"} /\ step # 0 /\ Prefix(step) => AwaitInv

LEMMA OutputEnds ==
  ASSUME NEW r \in Seq(Token), NEW o \in 0..Len(r), NEW t, NEW p,
         Has(SubSeq(r, o + 1, Len(r)), t), EndsWith(r, p)
  PROVE  EndsWith(SubSeq(r, o + 1, Len(r)), p)
<1> DEFINE out == SubSeq(r, o + 1, Len(r))
<1>1. /\ Len(r) \in Nat /\ Len(out) = Len(r) - o /\ out \in Seq(Token)
      /\ \A i \in 1..(Len(r) - o) : out[i] = r[o + i]
  OBVIOUS
<1>2. Len(r) - o \in Nat \ {0}
  BY <1>1 DEF Has
<1>3. out[Len(r) - o] = r[o + (Len(r) - o)] /\ o + (Len(r) - o) = Len(r)
  BY <1>1, <1>2
<1>4. out # <<>>
  BY <1>1, <1>2
<1>5. out[Len(out)] = r[Len(r)]
  BY <1>1, <1>3
<1> QED BY <1>4, <1>5 DEF EndsWith

LEMMA OrderByGuest == GuestInv /\ OrderInv /\ Guest => OrderInv'
<1> SUFFICES ASSUME GuestInv, OrderInv, Guest PROVE OrderInv'
  OBVIOUS
<1>1. /\ UNCHANGED <<suite, boot, phase, step, raw, offset>>
      /\ (\A k : Kind(k)' = Kind(k)) /\ Ready' = Ready /\ Output' = Output
      /\ \A k : Prefix(k)' = Prefix(k)
  BY GuestFrame DEF harness, Ready, Output, Prefix
<1>2. raw \in Seq(Token) /\ tty \in Seq(Token) /\ pipe \in Seq(Token)
  BY DEF GuestInv, TypeInv
<1>3. ASSUME ReadyInv, Prefix(0), step = 0 PROVE ReadyInv'
  <2>1. suite[boot].ready \in {"prompt", "login"}
    BY <1>3, BootShape DEF TypeInv, GuestInv, Prefix
  <2>2. Ready \in {Prompt, <<"login", 0>>} /\ Ready \in Token
    BY <2>1, Tokens DEF Prompt, Ready
  <2>3. CASE Start
    <3>1. tty' = <<Ready>>
      BY <2>1, <2>3 DEF Start, Ready
    <3> QED BY <1>1, <1>3, <2>3, <3>1 DEF Start, ReadyInv
  <2>4. CASE Take
    BY <1>3, <2>4 DEF Take, ReadyInv
  <2>5. CASE Emit
    <3>1. tty = <<Ready>> /\ tty' = <<>> /\ Head(tty) = Ready
      <4>1. tty = <<Ready>> /\ tty' = Tail(tty)
        BY <1>3, <2>5 DEF Emit, ReadyInv
      <4>2. Tail(<<Ready>>) = <<>> /\ Head(<<Ready>>) = Ready
        OBVIOUS
      <4> QED BY <4>1, <4>2
    <3> QED BY <1>1, <1>3, <2>5, <3>1 DEF Emit, ReadyInv
  <2>6. CASE Restart \/ Mutter
    <3>1. PICK n \in {Restarting, Oops, <<"noise", 0>>} : pipe' = Append(pipe, n)
      BY <2>6 DEF Restart, Mutter
    <3>2. n \in Token /\ n # Ready /\ n # Prompt
      BY <2>2, Tokens DEF Restarting, Oops, Prompt
    <3>3. (Has(pipe', Ready) <=> Has(pipe, Ready)) /\ (Has(pipe', Prompt) <=> Has(pipe, Prompt))
      BY <1>2, <3>1, <3>2, HasAppend
    <3> QED BY <1>1, <1>3, <2>6, <3>3 DEF Restart, Mutter, ReadyInv
  <2>7. CASE Reset \/ Hang \/ QemuEnds
    <3>1. up' # "booting" /\ UNCHANGED <<input, tty, pipe>>
      BY <2>7 DEF Reset, Hang, QemuEnds, Ended
    <3> QED BY <1>1, <1>3, <3>1 DEF ReadyInv
  <2> QED BY <2>3, <2>4, <2>5, <2>6, <2>7 DEF Guest
<1>4. ASSUME IdleInv PROVE IdleInv'
  <2>1. CASE Start \/ Take \/ Emit
    BY <1>4, <2>1 DEF Start, Take, Emit, IdleInv
  <2>2. CASE Restart \/ Mutter
    <3>1. PICK n \in {Restarting, Oops, <<"noise", 0>>} : pipe' = Append(pipe, n)
      BY <2>2 DEF Restart, Mutter
    <3>2. n \in Token /\ n # Prompt
      BY Tokens DEF Restarting, Oops, Prompt
    <3>3. Has(pipe', Prompt) <=> Has(pipe, Prompt)
      BY <1>2, <3>1, <3>2, HasAppend
    <3> QED BY <1>4, <2>2, <3>3 DEF Restart, Mutter, IdleInv
  <2>3. CASE Reset \/ Hang \/ QemuEnds
    <3>1. up' # "booting" /\ UNCHANGED <<input, tty, pipe>>
      BY <2>3 DEF Reset, Hang, QemuEnds, Ended
    <3> QED BY <1>4, <3>1 DEF IdleInv
  <2> QED BY <2>1, <2>2, <2>3 DEF Guest
<1>5. ASSUME AwaitInv, Kind(step) \in Prompted, step \in Nat PROVE AwaitInv'
  <2>1. \A s : Answered(s)' <=> Has(s', <<"ok", step>>) \/ Has(s', <<"bad", step>>)
    BY <1>1 DEF Answered
  <2> DEFINE e == <<"echo", step>>
             a(r) == <<r, step>>
  <2>2. e \in Token /\ Prompt \in Token /\ (\A r \in {"ok", "bad"} : a(r) \in Token)
        /\ e # Prompt /\ (\A r \in {"ok", "bad"} : a(r) # Prompt)
    BY <1>5, Tokens, TokensDiffer DEF Prompt
  <2>3. CASE Start
    BY <1>5, <2>3 DEF Start, AwaitInv
  <2>4. CASE Take
    <3>1. input = <<step>> /\ input' = <<>> /\ Head(input) = step
      <4>1. input = <<step>> /\ input' = Tail(input)
        BY <1>5, <2>4 DEF Take, AwaitInv
      <4>2. Tail(<<step>>) = <<>> /\ Head(<<step>>) = step
        OBVIOUS
      <4> QED BY <4>1, <4>2
    <3>2. PICK r \in {"ok", "bad"} : tty' = <<e, a(r), Prompt>>
      BY <1>5, <2>4, <3>1 DEF Take, Outcomes, Prompted, ByPrompt
    <3>3. up' # "booting" /\ pipe' = pipe
      BY <1>5, <2>4, <3>1 DEF Take, Prompted, ByPrompt
    <3> QED BY <1>1, <1>5, <2>4, <3>1, <3>2, <3>3 DEF Take, AwaitInv
  <2>5. CASE Restart \/ Mutter
    <3>1. PICK n \in {Restarting, Oops, <<"noise", 0>>} : pipe' = Append(pipe, n)
      BY <2>5 DEF Restart, Mutter
    <3>2. n \in Token /\ n # Prompt /\ n # a("ok") /\ n # a("bad")
      BY Tokens DEF Restarting, Oops, Prompt
    <3>3. Has(pipe', Prompt) <=> Has(pipe, Prompt)
      BY <1>2, <3>1, <3>2, HasAppend
    <3>4. (Answered(pipe)' <=> Answered(pipe)) /\ (Answered(Output)' <=> Answered(Output))
      BY <1>1, <1>2, <3>1, <3>2, HasAppend DEF Answered
    <3> QED BY <1>1, <1>5, <2>5, <3>3, <3>4 DEF Restart, Mutter, AwaitInv
  <2>6. CASE Reset \/ Hang \/ QemuEnds
    <3>1. up' # "booting" /\ UNCHANGED <<input, tty, pipe>>
      BY <2>6 DEF Reset, Hang, QemuEnds, Ended
    <3>2. (Answered(pipe)' <=> Answered(pipe)) /\ (Answered(Output)' <=> Answered(Output))
      BY <1>1, <3>1 DEF Answered
    <3> QED BY <1>1, <1>5, <3>1, <3>2 DEF AwaitInv
  <2>7. CASE Emit
    <3> DEFINE h == Head(tty)
    <3>1. tty # <<>> /\ tty' = Tail(tty) /\ pipe' = Append(pipe, h) /\ up' = up /\ input' = <<>>
      BY <1>5, <2>7 DEF Emit, AwaitInv
    <3>2. h \in Token /\ \A t : Has(pipe', t) <=> Has(pipe, t) \/ h = t
      BY <1>2, <3>1, HasTail, HasAppend
    <3>3. ~Has(Output, Prompt) /\ ~Has(pipe, Prompt)
      BY <1>5, <3>1 DEF AwaitInv
    <3>4. Answered(pipe) => Answered(pipe)'
      BY <1>1, <3>2 DEF Answered
    <3>5. Answered(Output)' <=> Answered(Output)
      BY <1>1 DEF Answered
    <3>6. CASE \E r \in {"ok", "bad"} : tty = <<e, a(r), Prompt>>
      <4>1. PICK r \in {"ok", "bad"} : tty = <<e, a(r), Prompt>>
        BY <3>6
      <4>2. h = e /\ tty' = <<a(r), Prompt>>
        BY <3>1, <4>1
      <4>3. ~Has(pipe', Prompt)
        BY <2>2, <3>2, <3>3, <4>2
      <4> QED BY <1>1, <1>5, <3>1, <3>3, <4>2, <4>3 DEF AwaitInv
    <3>7. CASE \E r \in {"ok", "bad"} : tty = <<a(r), Prompt>>
      <4>1. PICK r \in {"ok", "bad"} : tty = <<a(r), Prompt>>
        BY <3>7
      <4>2. h = a(r) /\ tty' = <<Prompt>>
        BY <3>1, <4>1
      <4>3. ~Has(pipe', Prompt) /\ Answered(pipe)'
        BY <1>1, <2>2, <3>2, <3>3, <4>2 DEF Answered
      <4> QED BY <1>1, <1>5, <3>1, <3>3, <4>2, <4>3 DEF AwaitInv
    <3>8. CASE tty = <<Prompt>> /\ (Answered(pipe) \/ Answered(Output))
      <4>1. h = Prompt /\ tty' = <<>>
        BY <3>1, <3>8
      <4> QED BY <1>1, <1>5, <3>1, <3>3, <3>4, <3>5, <3>8, <4>1 DEF AwaitInv
    <3> QED BY <1>5, <3>1, <3>6, <3>7, <3>8 DEF AwaitInv
  <2> QED BY <2>3, <2>4, <2>5, <2>6, <2>7 DEF Guest
<1>6. step \in Nat /\ (phase \in {"read", "poll"} => step <= Len(Asks))
  BY BootShape DEF GuestInv, TypeInv, PlaceInv, Asks
<1>7. step # 0 /\ Prefix(step) => Kind(step) \in Prompted
  BY <1>6 DEF Prefix
<1> QED BY <1>1, <1>3, <1>4, <1>5, <1>6, <1>7 DEF OrderInv

\* A command that ends with its prompt is done only once this has been read.
LEMMA PromptRead ==
  ASSUME TypeInv, Satisfied, step # 0, Kind(step) \in Prompted
  PROVE  Has(Output, Prompt)
<1>1. Output \in Seq(Token)
  BY OutputGrows, HasEmpty DEF TypeInv, Output
<1>2. CASE Kind(step) \in ByPrompt /\ EndsWith(Output, Prompt)
  BY <1>1, <1>2, HasEnd
<1>3. CASE Says("ok", step) /\ EndsWith(raw, Prompt)
  <2>1. EndsWith(Output, Prompt)
    BY <1>3, OutputEnds DEF TypeInv, Says, Output
  <2> QED BY <1>1, <2>1, HasEnd
<1> QED BY <1>2, <1>3 DEF Satisfied, Prompted, ByPrompt, Status

LEMMA OrderByHarness == GuestInv /\ OrderInv /\ Harness => OrderInv'
<1> SUFFICES ASSUME GuestInv, OrderInv, Harness PROVE OrderInv'
  OBVIOUS
<1>1. /\ raw \in Seq(Token) /\ pipe \in Seq(Token) /\ offset \in 0..Len(raw)
      /\ step \in Nat /\ Len(Asks) \in Nat
  BY BootShape DEF GuestInv, TypeInv, Asks
<1>2. ASSUME UNCHANGED <<suite, boot>>
      PROVE  /\ Ready' = Ready /\ (\A k : Kind(k)' = Kind(k)) /\ \A k : Prefix(k)' <=> Prefix(k)
  BY <1>2 DEF Ready, Prefix, Kind, Asks
<1>3. CASE Popen
  <2>1. raw' = <<>> /\ step' = 0
    BY <1>3 DEF Popen, GuestInv, PlaceInv
  <2> QED BY <1>3, <2>1, HasEmpty DEF Popen, OrderInv, ReadyInv
<1>4. CASE Proceed
  <2>1. CASE phase' = "send" /\ step' = step + 1
    <3>1. /\ (Prefix(step - 1)' <=> Prefix(step))
          /\ UNCHANGED <<up, input, tty, pipe>> /\ phase = "read" /\ Satisfied
      BY <1>1, <1>2, <1>4, <2>1 DEF Proceed, guest
    <3>2. ASSUME Prefix(step), step = 0 PROVE IdleInv
      <4>1. suite[boot].ready # "ready"
        BY <3>2 DEF Prefix
      <4>2. Has(raw, Ready)
        BY <1>1, <3>1, <3>2, <4>1, HasEnd DEF Satisfied, Ready
      <4> QED BY <3>1, <3>2, <4>2 DEF OrderInv, ReadyInv, IdleInv
    <3>3. ASSUME Prefix(step), step # 0 PROVE IdleInv
      <4>1. Kind(step) \in Prompted
        BY <1>1, <3>3 DEF Prefix
      <4>2. Has(Output, Prompt)
        BY <3>1, <3>3, <4>1, PromptRead DEF GuestInv
      <4> QED BY <3>1, <3>3, <4>2 DEF OrderInv, AwaitInv, IdleInv
    <3> QED BY <2>1, <3>1, <3>2, <3>3 DEF OrderInv, IdleInv
  <2>2. CASE phase' \in {"passed", "failed"}
    BY <2>2 DEF OrderInv
  <2> QED BY <1>4, <2>1, <2>2 DEF Proceed, After, Raise
<1>5. CASE Send
  <2>1. CASE phase' = "read" /\ input' = Append(input, step)
    <3>1. /\ step' = step /\ raw' = raw /\ offset' = Len(raw) /\ UNCHANGED <<up, tty, pipe>>
          /\ phase = "send" /\ step # 0 /\ (Prefix(step)' <=> Prefix(step))
      BY <1>2, <1>5 DEF Send, GuestInv, PlaceInv
    <3>2. ASSUME Prefix(step) PROVE AwaitInv'
      <4>1. Prefix(step - 1)
        BY <1>1, <3>1, <3>2 DEF Prefix
      <4>2. IdleInv
        BY <3>1, <4>1 DEF OrderInv
      <4>3. input' = <<step>>
        BY <1>1, <2>1, <4>2 DEF IdleInv
      <4>4. Output' = <<>>
        BY <1>1, <3>1 DEF Output
      <4>5. ~Has(Output, Prompt)'
        BY <4>4, HasEmpty
      <4> QED BY <3>1, <4>2, <4>3, <4>5 DEF IdleInv, AwaitInv
    <3> QED BY <2>1, <3>1, <3>2 DEF OrderInv
  <2>2. CASE phase' = "failed"
    BY <2>2 DEF OrderInv
  <2> QED BY <1>5, <2>1, <2>2 DEF Send, Raise
<1>6. CASE Ssh \/ SendOnly
  <2>1. CASE phase' = "send" /\ step' = step + 1
    <3>1. /\ (Prefix(step - 1)' <=> Prefix(step))
          /\ Kind(step) \in {"ssh", "unawaited"} /\ step \in 1..step
      BY <1>1, <1>2, <1>6, <2>1 DEF Ssh, SendOnly, GuestInv, PlaceInv
    <3>2. ~Prefix(step)
      BY <3>1 DEF Prefix, Prompted, ByPrompt
    <3> QED BY <2>1, <3>1, <3>2 DEF OrderInv
  <2>2. CASE phase' \in {"passed", "failed"}
    BY <2>2 DEF OrderInv
  <2> QED BY <1>6, <2>1, <2>2 DEF Ssh, SendOnly, After, Raise
<1>7. CASE Read
  <2>1. /\ UNCHANGED <<suite, boot, step, offset, up, input, tty>> /\ phase = "read"
        /\ raw' = raw \o pipe /\ pipe' = <<>> /\ phase' \notin {"send", "read"}
    BY <1>7 DEF Read
  <2>2. \A t : Has(raw', t) <=> Has(raw, t) \/ Has(pipe, t)
    BY <1>1, <2>1, HasConcat
  <2>3. \A t : Has(Output', t) <=> Has(Output, t) \/ Has(pipe, t)
    BY <1>1, <2>1, OutputGrows DEF Output
  <2>4. \A t : ~Has(pipe', t)
    BY <2>1, HasEmpty
  <2>5. ASSUME ReadyInv PROVE ReadyInv'
    BY <1>2, <2>1, <2>2, <2>4, <2>5 DEF ReadyInv
  <2>6. Answered(Output)' <=> Answered(Output) \/ Answered(pipe)
    BY <2>1, <2>3 DEF Answered
  <2>7. ASSUME AwaitInv PROVE AwaitInv'
    BY <2>1, <2>3, <2>4, <2>6, <2>7 DEF AwaitInv
  <2> QED BY <1>2, <2>1, <2>5, <2>7 DEF OrderInv
<1>8. CASE Poll
  <2>1. UNCHANGED <<suite, boot, step, offset, up, input, tty, raw, pipe>> /\ phase = "poll" /\ phase' # "send"
    BY <1>8 DEF Poll, guest
  <2>2. Output' = Output /\ (\A s : Answered(s)' <=> Has(s', <<"ok", step>>) \/ Has(s', <<"bad", step>>))
    BY <2>1 DEF Output, Answered
  <2>3. (Answered(pipe)' <=> Answered(pipe)) /\ (Answered(Output)' <=> Answered(Output))
    BY <2>1, <2>2 DEF Answered
  <2>4. (ReadyInv => ReadyInv') /\ (AwaitInv => AwaitInv')
    BY <1>2, <2>1, <2>2, <2>3 DEF ReadyInv, AwaitInv
  <2> QED BY <1>2, <2>1, <2>4 DEF OrderInv
<1>9. CASE Catch \/ Timeout \/ Close
  <2>1. phase' \notin {"read", "poll", "send"}
    BY <1>9 DEF Catch, Timeout, Close, Raise
  <2> QED BY <2>1 DEF OrderInv
<1> QED BY <1>3, <1>4, <1>5, <1>6, <1>7, <1>8, <1>9 DEF Harness

-----------------------------------------------------------------------------
\* What a boot that passed has done.
PassInv ==
  phase = "passed" =>
    \A k \in 1..Len(Asks) : /\ k < step \/ Kind(k) = "reboot"
                            /\ Kind(k) = "reboot" => restarted

ConsoleInv == GuestInv /\ OrderInv /\ PassedRan /\ PassInv

\* A command that the harness takes for done was carried out.
LEMMA AcceptedRan ==
  ASSUME GuestInv, OrderInv, phase = "read", step # 0, Satisfied, Accepted, Kind(step) \notin {"newline", "unawaited"}
  PROVE  step \in ran
<1>1. step \in 1..Len(Asks) /\ Len(Asks) \in Nat /\ raw \in Seq(Token) /\ offset \in 0..Len(raw)
  BY BootShape DEF GuestInv, TypeInv, PlaceInv, Asks
<1>2. Kind(step) \in Kinds
  BY <1>1, BootShape DEF GuestInv, TypeInv, Asks, Kind
<1>3. CASE Says("ok", step)
  <2>1. Has(raw, <<"ok", step>>)
    BY <1>1, <1>3, OutputGrows DEF Says, Output
  <2> QED BY <1>1, <2>1 DEF GuestInv, WordInv
<1>4. CASE Kind(step) \in {"quiet", "login"}
  <2>1. suite \in Suites /\ boot \in 1..Len(suite) /\ step \in 1..Len(suite[boot].asks)
        /\ suite[boot].asks[step] \in {"quiet", "login"}
    BY <1>1, <1>4 DEF GuestInv, TypeInv, Asks, Kind
  <2>2. Prefix(step) /\ Kind(step) \in Prompted
    BY <1>1, <2>1, OrderAssumption DEF Prefix, Kind, Asks
  <2>3. Has(Output, Prompt)
    BY <2>2, PromptRead DEF GuestInv
  <2>4. Answered(Output)
    BY <2>2, <2>3 DEF OrderInv, AwaitInv
  <2>5. ~Says("bad", step)
    BY <1>4 DEF Accepted, ByPrompt
  <2> QED BY <1>3, <2>4, <2>5 DEF Answered, Says
<1> QED BY <1>2, <1>3, <1>4 DEF Satisfied, Accepted, Kinds, Status, ByPrompt

LEMMA PassStep == ConsoleInv /\ [Next]_vars => PassedRan' /\ PassInv'
<1> SUFFICES ASSUME ConsoleInv, [Next]_vars PROVE PassedRan' /\ PassInv'
  OBVIOUS
<1>1. /\ Len(Asks) \in Nat /\ step \in Nat
      /\ \A k \in 1..Len(Asks) : Kind(k) = "reboot" => k = Len(Asks)
  BY BootShape DEF ConsoleInv, GuestInv, TypeInv, Asks, Kind
<1>2. ASSUME UNCHANGED <<suite, boot>>
      PROVE  Asks' = Asks /\ \A k : Kind(k)' = Kind(k)
  BY <1>2 DEF Asks, Kind
<1>3. CASE Popen \/ Close
  <2>1. step' = 0 /\ phase' # "passed" /\ Len(Asks)' \in Nat
    <3>1. TypeInv'
      BY PlaceByHarness, <1>3 DEF ConsoleInv, GuestInv, Harness
    <3>2. Len(Asks)' \in Nat
      BY <3>1, BootShape DEF TypeInv, Asks
    <3>3. step' = 0 /\ phase' # "passed"
      BY <1>3 DEF Popen, Close, ConsoleInv, GuestInv, PlaceInv
    <3> QED BY <3>2, <3>3
  <2> QED BY <2>1 DEF PassedRan, PassInv
<1>4. CASE Proceed
  <2>1. UNCHANGED <<suite, boot, ran, restarted>> /\ phase = "read" /\ Satisfied
    BY <1>4 DEF Proceed, guest
  <2>2. step \in 0..Len(Asks)
    BY <1>1, <2>1 DEF ConsoleInv, GuestInv, PlaceInv
  <2>3. CASE Accepted /\ phase' = After(step) /\ step' = step + 1
    <3>1. PassedRan'
      BY <1>1, <1>2, <2>1, <2>2, <2>3, AcceptedRan DEF ConsoleInv, PassedRan
    <3>2. step # 0 => Kind(step) # "reboot"
      BY <2>1, NoRebootSatisfied
    <3>3. phase' = "passed" => step = Len(Asks)
      BY <1>1, <2>2, <2>3 DEF After
    <3>4. PassInv'
      BY <1>1, <1>2, <2>1, <2>3, <3>2, <3>3 DEF PassInv
    <3> QED BY <3>1, <3>4
  <2>4. CASE phase' = "failed" /\ UNCHANGED step
    BY <1>2, <2>1, <2>4 DEF ConsoleInv, PassedRan, PassInv
  <2> QED BY <1>4, <2>3, <2>4 DEF Proceed, Raise
<1>5. CASE Ssh
  <2>1. UNCHANGED <<suite, boot, restarted>> /\ step \in 1..Len(Asks) /\ Kind(step) = "ssh"
    BY <1>5 DEF Ssh, ConsoleInv, GuestInv, PlaceInv
  <2>2. CASE ran' = ran \cup {step} /\ phase' = After(step) /\ step' = step + 1
    <3>1. PassedRan'
      BY <1>1, <1>2, <2>1, <2>2 DEF ConsoleInv, PassedRan
    <3>2. phase' = "passed" => step = Len(Asks)
      BY <1>1, <2>1, <2>2 DEF After
    <3>3. PassInv'
      BY <1>1, <1>2, <2>1, <2>2, <3>2 DEF PassInv
    <3> QED BY <3>1, <3>3
  <2>3. CASE phase' = "failed" /\ UNCHANGED <<ran, step>>
    BY <1>2, <2>1, <2>3 DEF ConsoleInv, PassedRan, PassInv
  <2> QED BY <1>5, <2>2, <2>3 DEF Ssh, Raise
<1>10. CASE SendOnly
  <2>1. UNCHANGED <<suite, boot, ran, restarted>> /\ step \in 1..Len(Asks) /\ Kind(step) = "unawaited"
    BY <1>10 DEF SendOnly, ConsoleInv, GuestInv, PlaceInv
  <2>2. CASE phase' = After(step) /\ step' = step + 1
    <3>1. PassedRan'
      BY <1>1, <1>2, <2>1, <2>2 DEF ConsoleInv, PassedRan
    <3>2. phase' = "passed" => step = Len(Asks)
      BY <1>1, <2>1, <2>2 DEF After
    <3>3. PassInv'
      BY <1>1, <1>2, <2>1, <2>2, <3>2 DEF PassInv
    <3> QED BY <3>1, <3>3
  <2>3. CASE phase' = "failed" /\ UNCHANGED step
    BY <1>2, <2>1, <2>3 DEF ConsoleInv, PassedRan, PassInv
  <2> QED BY <1>10, <2>2, <2>3 DEF SendOnly, Raise
<1>6. CASE Catch
  <2>1. UNCHANGED <<suite, boot, step, ran, restarted>> /\ step \in 1..Len(Asks) /\ Kind(step) = "reboot"
    BY <1>6 DEF Catch, ConsoleInv, GuestInv, PlaceInv
  <2>2. PassedRan'
    BY <1>2, <2>1 DEF ConsoleInv, PassedRan
  <2>3. ASSUME phase' = "passed" PROVE restarted
    <3>1. raw' = raw \o pipe /\ Has(raw', Restarting)
      BY <1>6, <2>3 DEF Catch
    <3>2. Has(raw, Restarting) \/ Has(pipe, Restarting)
      BY <3>1, HasConcat DEF ConsoleInv, GuestInv, TypeInv
    <3> QED BY <3>2 DEF ConsoleInv, GuestInv, WordInv
  <2>4. \A k \in 1..Len(Asks) : k < step \/ Kind(k) = "reboot"
    BY <1>1, <2>1
  <2>5. PassInv'
    BY <1>2, <2>1, <2>3, <2>4 DEF PassInv
  <2> QED BY <2>2, <2>5
<1>7. CASE Send \/ Read \/ Poll \/ Timeout
  <2>1. UNCHANGED <<suite, boot, step, ran, restarted>> /\ phase' # "passed"
    BY <1>7 DEF Send, Read, Poll, Timeout, Raise, guest
  <2> QED BY <1>2, <2>1 DEF ConsoleInv, PassedRan, PassInv
<1>8. CASE Guest
  <2>1. UNCHANGED harness /\ ran \subseteq ran' /\ (restarted => restarted')
    BY <1>8, GuestFrame DEF Guest, Start, Take, Emit, Restart, Reset, Mutter, Hang, QemuEnds
  <2>2. UNCHANGED <<suite, boot, step, phase>>
    BY <2>1 DEF harness
  <2> QED BY <1>2, <2>1, <2>2 DEF ConsoleInv, PassedRan, PassInv
<1>9. CASE Over \/ UNCHANGED vars
  BY <1>2, <1>9 DEF Over, vars, harness, guest, ConsoleInv, PassedRan, PassInv
<1> QED BY <1>3, <1>4, <1>5, <1>6, <1>7, <1>8, <1>9, <1>10 DEF Next, Harness

LEMMA ConsoleStart == Init => ConsoleInv
<1> SUFFICES ASSUME Init PROVE ConsoleInv
  OBVIOUS
<1>1. TypeInv /\ PlaceInv
  BY PlaceStart
<1>2. WordInv /\ KeptInv
  BY HasEmpty DEF Init, WordInv, KeptInv
<1>3. Len(Asks) \in Nat
  BY <1>1, BootShape DEF TypeInv, Asks
<1>4. OrderInv /\ PassedRan /\ PassInv
  BY <1>3 DEF Init, OrderInv, PassedRan, PassInv
<1> QED BY <1>1, <1>2, <1>4 DEF ConsoleInv, GuestInv

LEMMA ConsoleStep == ConsoleInv /\ [Next]_vars => ConsoleInv'
<1> SUFFICES ASSUME ConsoleInv, [Next]_vars PROVE ConsoleInv'
  OBVIOUS
<1>1. PassedRan' /\ PassInv'
  BY PassStep
<1>2. CASE Guest
  BY <1>1, <1>2, PlaceByGuest, WordsByGuest, OrderByGuest DEF ConsoleInv, GuestInv
<1>3. CASE Harness
  BY <1>1, <1>3, PlaceByHarness, WordsByHarness, OrderByHarness DEF ConsoleInv, GuestInv
<1>4. CASE Over \/ UNCHANGED vars
  <2>1. UNCHANGED vars
    BY <1>4 DEF Over
  <2> QED BY <1>1, <2>1 DEF vars, harness, guest, ConsoleInv, GuestInv, TypeInv, PlaceInv, WordInv, KeptInv,
             OrderInv, ReadyInv, IdleInv, AwaitInv, Answered, Ready, Prefix, Output, Asks, Kind
<1> QED BY <1>2, <1>3, <1>4 DEF Next

\* The harness is never past a command that the guest has not carried out with
\* success, whatever the suite, the noise and the pieces the output comes in
\* (Guest.wait and the commands of scripts/test-packages.py, distro_runtime.py).
THEOREM CommandsRan == Spec => []PassedRan
<1>1. ConsoleInv => PassedRan
  BY DEF ConsoleInv
<1> QED BY <1>1, ConsoleStart, ConsoleStep, PTL DEF Spec

\* A boot of a disk passes only if the guest restarted by itself, and what it was
\* asked for had been on the disk (reboot and test of scripts/distro_runtime.py).
THEOREM RebootActual == Spec => []ActualReboot
<1>1. ASSUME ConsoleInv, phase = "passed", NEW k \in 1..Len(Asks)
      PROVE  /\ Kind(k) = "reboot" => restarted
             /\ Kind(k) \in {"package", "token"} => Kind(k) \in disk
  <2>1. Kind(k) = "reboot" => restarted
    BY <1>1 DEF ConsoleInv, PassInv
  <2>2. ASSUME Kind(k) \in {"package", "token"} PROVE Kind(k) \in disk
    <3>1. suite \in Suites /\ boot \in 1..Len(suite) /\ k \in 1..Len(suite[boot].asks)
          /\ suite[boot].asks[k] \in {"package", "token"} /\ Len(Asks) \in Nat /\ k \in Nat
      BY <1>1, <2>2, BootShape DEF ConsoleInv, GuestInv, TypeInv, Asks, Kind
    <3>2. Len(Asks) \in 1..Len(Asks) /\ Kind(Len(Asks)) = "reboot"
      BY <3>1, OrderAssumption DEF Asks, Kind
    <3>3. restarted /\ cache = disk
      BY <1>1, <3>2 DEF ConsoleInv, PassInv, GuestInv, WordInv
    <3>4. k < step /\ Kind(k) \notin {"newline", "unawaited"}
      BY <1>1, <2>2 DEF ConsoleInv, PassInv
    <3>5. k \in ran
      BY <1>1, <3>4 DEF ConsoleInv, PassedRan
    <3> QED BY <1>1, <2>2, <3>1, <3>3, <3>5 DEF ConsoleInv, GuestInv, KeptInv
  <2> QED BY <2>1, <2>2
<1>2. ConsoleInv => ActualReboot
  BY <1>1 DEF ActualReboot
<1> QED BY <1>2, ConsoleStart, ConsoleStep, PTL DEF Spec
=============================================================================
