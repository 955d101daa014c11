----------------------------- MODULE MCRelease -----------------------------
(* Instances of Release for TLC. *)
EXTENDS Release, TLC

CONSTANTS a, b, s, t, tiny, v1, v2

OneVariant == [f \in Presets |-> {tiny}]
SameVersion == [r \in 1..MaxRev |-> v1]
NewVersion == [r \in 1..MaxRev |-> IF r = 1 THEN v1 ELSE v2]

\* Where a goal can be.
Everywhere ==
  {"package"} \X {"next", "record", "supersede", "move", "replace", "report"}
    \cup {"test"} \X {"run"}
    \cup {"gate"} \X {"check", "sums", "notes", "ready", "confirm", "upload"}
NotReplacing == Everywhere \ {<<"package", "replace">>}
\* A build that fails, and where a kill leaves a package or a candidate half
\* written.
Publishing == {"package"} \X {"record", "move", "replace"} \cup {"gate"} \X {"notes", "ready"}
\* The disks are built and tested with release_common.py.
SharedInput == [v \in {tiny} |-> {t}]
ScriptInput == [v \in {tiny} |-> {s}]
=============================================================================
