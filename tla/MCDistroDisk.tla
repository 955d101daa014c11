---------------------------- MODULE MCDistroDisk ----------------------------
(* Instances of DistroDisk for TLC. *)
EXTENDS DistroDisk, TLC

\* Two invocations are alike.
Alike == Permutations(Builders)
=============================================================================
