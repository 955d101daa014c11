--------------------------- MODULE MCRootfsCache ---------------------------
(* Instances of RootfsCache for TLC. *)
EXTENDS RootfsCache, TLC

CONSTANTS g1, g2, o1, o2, f1, v1, v2, r1, r2

\* A config and one that adds a package: from one to the other the tree is
\* extended in place, back it has to be cleaned.
Growing == {[pkgs |-> {g1}, opt |-> o1], [pkgs |-> {g1, g2}, opt |-> o1]}
\* The package and its option.
WithSuboption == {[pkgs |-> {g1, g2}, opt |-> o1]}
Forked == {[pkgs |-> {g1}, opt |-> o1], [pkgs |-> {g2}, opt |-> o2]}

NoSuboptions == [g \in Packages |-> g]
\* g2 is an option of the package g1.
Suboption == [g \in Packages |-> g1]

OneBaseline == {[files |-> {f1}, bb |-> v1, rev |-> r1]}
\* A source or defconfig edit: the same config misses the cache.
NewRevision == OneBaseline \cup {[files |-> {f1}, bb |-> v1, rev |-> r2]}
\* An edit that also moves the BusyBox version.
BusyBoxBump == OneBaseline \cup {[files |-> {f1}, bb |-> v2, rev |-> r1]}

\* Everywhere but between the two halves of a clean and inside copytree.
SafeCrashPoints == Running \ {"clean objects", "fill"}
=============================================================================
