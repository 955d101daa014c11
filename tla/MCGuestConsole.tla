--------------------------- MODULE MCGuestConsole ---------------------------
(* The boots of a package of each kind, with one command of every way in  *)
(* which the harness knows that a command is through.                     *)
EXTENDS GuestConsole

Tiny ==
  <<[ready |-> "prompt", asks |-> <<"prompt", "prompt">>],
    [ready |-> "prompt", asks |-> <<"prompt", "quiet">>]>>

Buildroot ==
  <<[ready |-> "login", asks |-> <<>>],
    [ready |-> "login", asks |-> <<"login", "marker", "prompt", "event">>],
    [ready |-> "prompt", asks |-> <<"marker", "prompt">>]>>

Disk ==
  <<[ready |-> "ready", asks |-> <<"newline", "status", "unawaited", "install", "write", "ssh", "reboot">>],
    [ready |-> "ready", asks |-> <<"newline", "token", "package", "ssh", "reboot">>]>>

Packages == {Tiny, Buildroot, Disk}
=============================================================================
