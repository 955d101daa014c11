---------------------------- MODULE KernelSource ----------------------------
(***************************************************************************)
(* Kernel sources: scripts/prepare-linux.py, run by the goal `linux` of    *)
(* every make that needs a kernel, in a source root the makes share.       *)
(*                                                                         *)
(* An archive is a sequence of pieces.  Names and files are kept apart: a  *)
(* rename gives a file another name, and a curl that has it open goes on   *)
(* writing to what has become the archive.  kernel.org publishes one       *)
(* checksum, that of the good archive.                                     *)
(***************************************************************************)
EXTENDS Naturals

CONSTANTS
  Makes,     \* places for an invocation of make: how many there can be at once
  Versions,  \* kernel versions
  Files,     \* the files there can be at once, whatever their names
  Pieces,    \* the number of pieces of an archive
  Worlds,    \* what may happen: makes in turn or not, a mirror that may err
  None

ASSUME SourceAssumption ==
  /\ Pieces \in Nat \ {0} /\ Files # {} /\ None \notin Files \cup {"good", "bad"}
  /\ \A w \in Worlds : w.serial \in BOOLEAN /\ w.honest \in BOOLEAN

VARIABLES
  world,    \* one of Worlds
  partial,  \* linux-<version>.tar.xz.partial: the file it names
  archive,  \* linux-<version>.tar.xz: the file it names
  data,     \* the pieces of each file: good, bad, or a hole
  target,   \* linux-<version>: the tree, extracted from good or bad content
  at,       \* location of each make
  version,  \* the version it prepares
  file,     \* the file it writes or reads
  pos,      \* the next piece of it
  seen      \* what it has read of it, is served, or has extracted

disk == <<partial, archive, data, target>>
own == <<version, file, pos, seen>>
source == <<world, disk, at, own>>

Index == 1..Pieces
Quality == {"good", "bad"}
Hollow == [i \in Index |-> None]

Over == {"prepared", "failed"}
Working == {"look", "archive", "download", "transfer", "hash", "tar"}

SourceInit ==
  /\ world \in Worlds
  /\ partial = [v \in Versions |-> None] /\ archive = [v \in Versions |-> None]
  /\ data = [f \in Files |-> Hollow] /\ target = [v \in Versions |-> None]
  /\ at = [m \in Makes |-> "idle"] /\ version = [m \in Makes |-> None]
  /\ file = [m \in Makes |-> None] /\ pos = [m \in Makes |-> 1] /\ seen = [m \in Makes |-> {}]

Served == IF world.honest THEN {"good"} ELSE Quality

Move(m, from, to) == at[m] = from /\ at' = [at EXCEPT ![m] = to]

\* The make is at the start of file f, or has none open.
Rewind(m, f, s) ==
  file' = [file EXCEPT ![m] = f] /\ pos' = [pos EXCEPT ![m] = 1] /\ seen' = [seen EXCEPT ![m] = s]

\* A file without a name that nobody has open is gone.
Free ==
  {f \in Files : /\ \A v \in Versions : f \notin {partial[v], archive[v]}
                 /\ \A m \in Makes : file[m] # f}

-----------------------------------------------------------------------------
\* make linux, with the version of the variables the make has read.
Prepare(m, v) ==
  /\ at[m] \in {"idle", "prepared"} /\ at' = [at EXCEPT ![m] = "look"]
  /\ world.serial => \A n \in Makes \ {m} : at[n] = "idle"
  /\ version' = [version EXCEPT ![m] = v]
  /\ UNCHANGED <<world, disk, file, pos, seen>>

\* A directory of that name is taken for the source; otherwise the checksum is
\* downloaded.
Look(m) ==
  /\ Move(m, "look", IF target[version[m]] # None THEN "prepared" ELSE "archive")
  /\ UNCHANGED <<world, disk, own>>

\* Mutant: an interrupted download counts as the archive.
FindPartial(m) ==
  /\ Move(m, "archive",
          IF archive[version[m]] # None \/ partial[version[m]] # None THEN "hash" ELSE "download")
  /\ archive' = IF archive[version[m]] = None
                THEN [archive EXCEPT ![version[m]] = partial[version[m]]] ELSE archive
  /\ Rewind(m, None, {})
  /\ UNCHANGED <<world, partial, data, target, version>>

FindArchive(m) ==
  /\ Move(m, "archive", IF archive[version[m]] # None THEN "hash" ELSE "download")
  /\ Rewind(m, None, {})
  /\ UNCHANGED <<world, disk, version>>

-----------------------------------------------------------------------------
\* The first data arrives: curl creates the file, or truncates the one there is.
OpenPartial(m) ==
  LET v == version[m]
      f == IF partial[v] = None THEN CHOOSE g \in Free : TRUE ELSE partial[v]
  IN /\ Move(m, "download", "transfer")
     /\ partial[v] = None => Free # {}
     /\ partial' = [partial EXCEPT ![v] = f]
     /\ data' = [data EXCEPT ![f] = Hollow]
     /\ \E q \in Served : Rewind(m, f, {q})
     /\ UNCHANGED <<world, archive, target, version>>

Transfer(m) ==
  /\ at[m] = "transfer" /\ pos[m] \in Index
  /\ \E q \in seen[m] : data' = [data EXCEPT ![file[m]] = [@ EXCEPT ![pos[m]] = q]]
  /\ pos' = [pos EXCEPT ![m] = @ + 1]
  /\ UNCHANGED <<world, partial, archive, target, at, version, file, seen>>

\* The connection breaks: curl truncates the file it has open and asks again.
Retry(m) ==
  /\ at[m] = "transfer" /\ pos[m] \in Index
  /\ data' = [data EXCEPT ![file[m]] = Hollow]
  /\ \E q \in Served : Rewind(m, file[m], {q})
  /\ UNCHANGED <<world, partial, archive, target, at, version>>

\* The rename replaces an archive, and fails when another make has renamed first.
Rename(m) ==
  LET v == version[m]
  IN /\ Move(m, "transfer", IF partial[v] = None THEN "failed" ELSE "hash") /\ pos[m] > Pieces
     /\ IF partial[v] = None THEN UNCHANGED <<archive, partial>>
        ELSE /\ archive' = [archive EXCEPT ![v] = partial[v]]
             /\ partial' = [partial EXCEPT ![v] = None]
     /\ Rewind(m, None, {})
     /\ UNCHANGED <<world, data, target, version>>

-----------------------------------------------------------------------------
\* The archive is opened by name, once to be hashed and once by tar.
OpenArchive(m) ==
  /\ at[m] \in {"hash", "tar"} /\ file[m] = None
  /\ Rewind(m, archive[version[m]], {})
  /\ UNCHANGED <<world, disk, at, version>>

ReadArchive(m) ==
  /\ at[m] \in {"hash", "tar"} /\ file[m] # None /\ pos[m] \in Index
  /\ seen' = [seen EXCEPT ![m] = @ \cup {data[file[m]][pos[m]]}]
  /\ pos' = [pos EXCEPT ![m] = @ + 1]
  /\ UNCHANGED <<world, disk, at, version, file>>

\* Mutant: the checksum is not compared.
UncheckedHash(m) ==
  /\ Move(m, "hash", "tar")
  /\ file[m] # None /\ pos[m] > Pieces
  /\ Rewind(m, None, {})
  /\ UNCHANGED <<world, disk, version>>

\* Another checksum is an error, and the archive stays where it is.
Hashed(m) ==
  /\ Move(m, "hash", IF seen[m] = {"good"} THEN "tar" ELSE "failed")
  /\ file[m] # None /\ pos[m] > Pieces
  /\ Rewind(m, None, {})
  /\ UNCHANGED <<world, disk, version>>

\* tar refuses what is not one whole archive; the tree is in a directory of its
\* own, with its record, until it is renamed, and the rename fails when another
\* make has put a tree in place.
Publish(m) ==
  LET v == version[m]
      whole == seen[m] \in {{q} : q \in Quality}
  IN /\ Move(m, "tar", IF whole /\ target[v] = None THEN "prepared" ELSE "failed")
     /\ file[m] # None /\ pos[m] > Pieces
     /\ IF whole /\ target[v] = None
        THEN \E q \in seen[m] : target' = [target EXCEPT ![v] = q]
        ELSE UNCHANGED target
     /\ Rewind(m, None, {})
     /\ UNCHANGED <<world, partial, archive, data, version>>

\* curl or tar fails, the checksum is not found, or the make is killed.
Stop(m) ==
  /\ at[m] \in Working /\ at' = [at EXCEPT ![m] = "failed"]
  /\ Rewind(m, None, {})
  /\ UNCHANGED <<world, disk, version>>

\* The make ends.
Leave(m) ==
  /\ at[m] \in Over /\ at' = [at EXCEPT ![m] = "idle"]
  /\ version' = [version EXCEPT ![m] = None]
  /\ UNCHANGED <<world, disk, file, pos, seen>>

PrepareStep(m) ==
  \/ Look(m) \/ FindArchive(m) \/ OpenPartial(m) \/ Transfer(m) \/ Retry(m)
  \/ Rename(m) \/ OpenArchive(m) \/ ReadArchive(m) \/ Hashed(m) \/ Publish(m) \/ Stop(m)

SourceNext ==
  \E m \in Makes : PrepareStep(m) \/ Leave(m) \/ \E v \in Versions : Prepare(m, v)

SourceSpec == SourceInit /\ [][SourceNext]_source

-----------------------------------------------------------------------------
\* A file has one name at most.
OneName ==
  \A v, w \in Versions :
    /\ partial[v] # None => partial[v] # archive[w] /\ (v # w => partial[v] # partial[w])
    /\ archive[v] # None /\ v # w => archive[v] # archive[w]

SourceTypeOK ==
  /\ world \in Worlds
  /\ partial \in [Versions -> Files \cup {None}] /\ archive \in [Versions -> Files \cup {None}]
  /\ data \in [Files -> [Index -> Quality \cup {None}]]
  /\ target \in [Versions -> Quality \cup {None}]
  /\ at \in [Makes -> {"idle"} \cup Working \cup Over]
  /\ version \in [Makes -> Versions \cup {None}] /\ file \in [Makes -> Files \cup {None}]
  /\ pos \in [Makes -> 1..(Pieces + 1)] /\ seen \in [Makes -> SUBSET (Quality \cup {None})]
  /\ OneName

\* The tree that stands under the name of a version is the published one when
\* makes run in turn, whatever the mirror serves, and when they overlap, if it
\* serves nothing else; and in turn, an archive that was put in place is whole,
\* wherever a make was killed, so that only what the mirror served can be refused
\* for good (scripts/prepare-linux.py).
SourceVerified ==
  /\ world.serial \/ world.honest => \A v \in Versions : target[v] \in {None, "good"}
  /\ world.serial =>
       \A v \in Versions : archive[v] # None => \A i \in Index : data[archive[v]][i] # None
=============================================================================
