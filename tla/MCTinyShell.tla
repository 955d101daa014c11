---------------------------- MODULE MCTinyShell ----------------------------
(* Constants of the tiny shell's run. *)
EXTENDS TinyShell

CONSTANTS a, b

\* With Wrap = 128, 136 wraps to the port 8, and 150 wraps unnoticed to 22.
\* Commands that share nothing but the console are in sessions of their own.
MCSessions ==
  {{[name |-> "fetch", port |-> port, path |-> a] : port \in {<<8>>, <<1, 3, 6>>, <<1, 5, 0>>}}
     \cup {[name |-> "cp", from |-> a, to |-> t] : t \in {a, b}}
     \cup {[name |-> "cat", paths |-> <<a, b>>], [name |-> "touch", paths |-> <<b>>],
           [name |-> "rm", path |-> a]},
   {[name |-> "run", path |-> a], [name |-> "rm", path |-> a]},
   {[name |-> "ping"]},
   {[name |-> n, port |-> <<8>>] : n \in {"nc", "nc -l"}}}

MCSizes == {<<1>>, <<3>>}
MCLocalSize == <<2>>
MCEnds == {[how |-> "exited", code |-> 37], [how |-> "killed", code |-> 9], [how |-> "dumped", code |-> 11]}
=============================================================================
