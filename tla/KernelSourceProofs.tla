------------------------- MODULE KernelSourceProofs -------------------------
(***************************************************************************)
(* Proofs about KernelSource for any number of makes, versions, files and  *)
(* pieces.  SourceVerified has two reasons.  With an honest mirror nothing *)
(* but good pieces and holes can be anywhere.  In turn, one make at most   *)
(* is under way, so that the file it writes is the partial one and no      *)
(* archive, and what tar reads is what was hashed.                         *)
(***************************************************************************)
EXTENDS KernelSource, TLAPS

Clean == {"good", None}

\* Whatever makes do at once, only good pieces come from an honest mirror.
HonestInv ==
  world.honest =>
    /\ \A f \in Files : \A i \in Index : data[f][i] \in Clean
    /\ \A m \in Makes : seen[m] \subseteq Clean
    /\ \A v \in Versions : target[v] \in Clean

InTurn == \A m, n \in Makes : m # n => at[m] = "idle" \/ at[n] = "idle"

WholeArchives ==
  \A v \in Versions : archive[v] # None => \A i \in Index : data[archive[v]][i] # None

GoodTrees == \A v \in Versions : target[v] \in Clean

Transferring(m) ==
  at[m] = "transfer" =>
    /\ partial[version[m]] # None /\ file[m] = partial[version[m]] /\ seen[m] \subseteq Quality
    /\ \A i \in Index : i < pos[m] => data[file[m]][i] # None

Reading(m) ==
  at[m] \in {"hash", "tar"} =>
    /\ archive[version[m]] # None
    /\ file[m] # None => /\ file[m] = archive[version[m]]
                         /\ \A i \in Index : i < pos[m] => data[file[m]][i] \in seen[m]

\* What tar reads has been hashed.
Verified(m) ==
  at[m] = "tar" =>
    /\ seen[m] \subseteq {"good"}
    /\ \A i \in Index : data[archive[version[m]]][i] = "good"

UnderWay(m) == Transferring(m) /\ Reading(m) /\ Verified(m)

SerialInv ==
  world.serial => InTurn /\ WholeArchives /\ GoodTrees /\ \A m \in Makes : UnderWay(m)

\* A make that is through has found or made the tree.
PreparedInv ==
  \A m \in Makes : /\ at[m] # "idle" => version[m] \in Versions
                   /\ at[m] = "prepared" => target[version[m]] # None

SourceInv == SourceTypeOK /\ HonestInv /\ SerialInv /\ PreparedInv

Steps(m) == PrepareStep(m) \/ Leave(m) \/ \E v \in Versions : Prepare(m, v)

-----------------------------------------------------------------------------
LEMMA Constants ==
  /\ Pieces \in Nat \ {0} /\ None \notin Files /\ None # "good" /\ None # "bad"
  /\ \A w \in Worlds : w.serial \in BOOLEAN /\ w.honest \in BOOLEAN
BY SourceAssumption

LEMMA InvInit == SourceInit => SourceInv
<1> SUFFICES ASSUME SourceInit PROVE SourceInv
  OBVIOUS
<1>1. SourceTypeOK
  BY Constants DEF SourceInit, SourceTypeOK, OneName, Hollow, Index
<1>2. HonestInv
  BY DEF SourceInit, HonestInv, Clean, Hollow
<1>3. SerialInv
  BY DEF SourceInit, SerialInv, InTurn, WholeArchives, GoodTrees, Clean, UnderWay, Transferring, Reading, Verified
<1>4. PreparedInv
  BY DEF SourceInit, PreparedInv
<1> QED BY <1>1, <1>2, <1>3, <1>4 DEF SourceInv

\* A file that is chosen for a new name has none.
LEMMA FreeFile ==
  ASSUME Free # {}
  PROVE  LET f == CHOOSE g \in Free : TRUE
         IN f \in Files /\ \A v \in Versions : f # partial[v] /\ f # archive[v]
BY DEF Free

\* The file a download opens is a file, and no archive.
LEMMA Opened ==
  ASSUME SourceTypeOK, NEW v \in Versions, partial[v] = None => Free # {}
  PROVE  LET f == IF partial[v] = None THEN CHOOSE g \in Free : TRUE ELSE partial[v]
         IN /\ f \in Files /\ f # None
            /\ \A w \in Versions : f # archive[w] /\ (w # v => f # partial[w])
BY FreeFile, Constants DEF SourceTypeOK, OneName

-----------------------------------------------------------------------------
LEMMA TypeStep ==
  ASSUME SourceInv, NEW m \in Makes, Steps(m)
  PROVE  SourceTypeOK'
<1> USE Constants
<1>0. SourceTypeOK /\ (at[m] # "idle" => version[m] \in Versions)
  BY DEF SourceInv, PreparedInv
<1>1. ASSUME NEW v \in Versions, Prepare(m, v) PROVE SourceTypeOK'
  BY <1>0, <1>1 DEF Prepare, SourceTypeOK, OneName, disk, Working
<1>2. CASE Look(m)
  BY <1>0, <1>2 DEF Look, Move, SourceTypeOK, OneName, disk, own, Working, Over
<1>3. CASE FindArchive(m)
  BY <1>0, <1>3 DEF FindArchive, Move, Rewind, SourceTypeOK, OneName, disk, Working
<1>4. CASE OpenPartial(m)
  <2> DEFINE f == IF partial[version[m]] = None THEN CHOOSE g \in Free : TRUE ELSE partial[version[m]]
  <2>1. at[m] = "download" /\ version[m] \in Versions
    BY <1>0, <1>4 DEF OpenPartial, Move
  <2>2. f \in Files /\ \A w \in Versions : f # archive[w] /\ (w # version[m] => f # partial[w])
    BY <1>0, <1>4, <2>1, Opened DEF OpenPartial
  <2>3. PICK q \in Served : Rewind(m, f, {q})
    BY <1>4 DEF OpenPartial
  <2>4. q \in Quality
    BY DEF Served, Quality
  <2> HIDE DEF f
  <2>5. /\ partial' = [partial EXCEPT ![version[m]] = f] /\ data' = [data EXCEPT ![f] = Hollow]
        /\ at' = [at EXCEPT ![m] = "transfer"]
        /\ UNCHANGED <<world, archive, target, version>>
    BY <1>4 DEF OpenPartial, Move, f
  <2>6. OneName'
    BY <1>0, <2>1, <2>2, <2>5 DEF OneName, SourceTypeOK
  <2>7. data' \in [Files -> [Index -> Quality \cup {None}]]
    BY <1>0, <2>5 DEF SourceTypeOK, Hollow
  <2>8. pos' \in [Makes -> 1..(Pieces + 1)] /\ seen' \in [Makes -> SUBSET (Quality \cup {None})] /\ file' \in [Makes -> Files \cup {None}]
    BY <1>0, <2>2, <2>3, <2>4 DEF SourceTypeOK, Rewind
  <2> QED BY <1>0, <2>1, <2>2, <2>5, <2>6, <2>7, <2>8 DEF SourceTypeOK, Working
<1>5. CASE Transfer(m)
  <2>1. PICK q \in seen[m] : data' = [data EXCEPT ![file[m]] = [@ EXCEPT ![pos[m]] = q]]
    BY <1>5 DEF Transfer
  <2>2. q \in Quality \cup {None}
    BY <1>0, <2>1 DEF SourceTypeOK
  <2>3. data' \in [Files -> [Index -> Quality \cup {None}]]
    BY <1>0, <2>1, <2>2 DEF SourceTypeOK
  <2>4. pos' \in [Makes -> 1..(Pieces + 1)]
    BY <1>0, <1>5 DEF Transfer, SourceTypeOK, Index
  <2> QED BY <1>0, <1>5, <2>3, <2>4 DEF Transfer, SourceTypeOK, OneName
<1>6. CASE Retry(m)
  <2>1. PICK q \in Served : Rewind(m, file[m], {q})
    BY <1>6 DEF Retry
  <2>2. q \in Quality
    BY DEF Served, Quality
  <2>3. data' \in [Files -> [Index -> Quality \cup {None}]]
    BY <1>0, <1>6 DEF Retry, SourceTypeOK, Hollow
  <2>4. pos' \in [Makes -> 1..(Pieces + 1)] /\ seen' \in [Makes -> SUBSET (Quality \cup {None})] /\ file' \in [Makes -> Files \cup {None}]
    BY <1>0, <2>1, <2>2 DEF SourceTypeOK, Rewind
  <2> QED BY <1>0, <1>6, <2>3, <2>4 DEF Retry, SourceTypeOK, OneName
<1>7. CASE Rename(m)
  <2>1. at[m] = "transfer" /\ version[m] \in Versions
    BY <1>0, <1>7 DEF Rename, Move
  <2>2. /\ partial' \in [Versions -> Files \cup {None}] /\ archive' \in [Versions -> Files \cup {None}]
        /\ OneName'
    <3> DEFINE v == version[m]
    <3>1. CASE partial[v] = None
      BY <1>0, <1>7, <3>1 DEF Rename, SourceTypeOK, OneName
    <3>2. CASE partial[v] # None
      <4>1. archive' = [archive EXCEPT ![v] = partial[v]] /\ partial' = [partial EXCEPT ![v] = None]
        BY <1>7, <3>2 DEF Rename
      <4>2. partial \in [Versions -> Files \cup {None}] /\ archive \in [Versions -> Files \cup {None}] /\ v \in Versions /\ OneName
        BY <1>0, <2>1 DEF SourceTypeOK
      <4>3. \A w \in Versions : partial'[w] = (IF w = v THEN None ELSE partial[w])
                               /\ archive'[w] = (IF w = v THEN partial[v] ELSE archive[w])
        BY <4>1, <4>2
      <4>4. OneName'
        BY <3>2, <4>2, <4>3 DEF OneName
      <4> QED BY <4>1, <4>2, <4>4
    <3> QED BY <3>1, <3>2
  <2>3. at' \in [Makes -> {"idle"} \cup Working \cup Over]
    BY <1>0, <1>7 DEF Rename, Move, SourceTypeOK, Working, Over
  <2>4. pos' \in [Makes -> 1..(Pieces + 1)] /\ seen' \in [Makes -> SUBSET (Quality \cup {None})] /\ file' \in [Makes -> Files \cup {None}]
    BY <1>0, <1>7 DEF Rename, SourceTypeOK, Rewind
  <2> QED BY <1>0, <1>7, <2>2, <2>3, <2>4 DEF Rename, SourceTypeOK
<1>8. CASE OpenArchive(m)
  BY <1>0, <1>8 DEF OpenArchive, Rewind, SourceTypeOK, OneName, disk
<1>9. CASE ReadArchive(m)
  <2>1. file[m] \in Files /\ pos[m] \in Index
    BY <1>0, <1>9 DEF ReadArchive, SourceTypeOK
  <2>2. data[file[m]][pos[m]] \in Quality \cup {None}
    BY <1>0, <2>1 DEF SourceTypeOK
  <2>3. seen' \in [Makes -> SUBSET (Quality \cup {None})] /\ pos' \in [Makes -> 1..(Pieces + 1)]
    BY <1>0, <1>9, <2>1, <2>2 DEF ReadArchive, SourceTypeOK, Index
  <2> QED BY <1>0, <1>9, <2>3 DEF ReadArchive, SourceTypeOK, OneName, disk
<1>10. CASE Hashed(m)
  BY <1>0, <1>10 DEF Hashed, Move, Rewind, SourceTypeOK, OneName, disk, Working, Over
<1>11. CASE Publish(m)
  <2>1. target' \in [Versions -> Quality \cup {None}]
    BY <1>0, <1>11 DEF Publish, SourceTypeOK
  <2> QED BY <1>0, <1>11, <2>1 DEF Publish, Move, Rewind, SourceTypeOK, OneName, Working, Over
<1>12. CASE Stop(m)
  BY <1>0, <1>12 DEF Stop, Rewind, SourceTypeOK, OneName, disk, Working, Over
<1>13. CASE Leave(m)
  BY <1>0, <1>13 DEF Leave, SourceTypeOK, OneName, disk, Over
<1> QED BY <1>1, <1>2, <1>3, <1>4, <1>5, <1>6, <1>7, <1>8, <1>9, <1>10, <1>11, <1>12, <1>13 DEF Steps, PrepareStep

-----------------------------------------------------------------------------
LEMMA HonestStep ==
  ASSUME SourceInv, NEW m \in Makes, Steps(m)
  PROVE  HonestInv'
<1> USE Constants
<1>0. SourceTypeOK /\ HonestInv /\ (at[m] # "idle" => version[m] \in Versions)
  BY DEF SourceInv, PreparedInv
<1>1. world' = world
  BY DEF Steps, PrepareStep, Prepare, Look, FindArchive, OpenPartial, Transfer, Retry, Rename, OpenArchive,
         ReadArchive, Hashed, Publish, Stop, Leave
<1> SUFFICES ASSUME world.honest
             PROVE  /\ \A f \in Files : \A i \in Index : data'[f][i] \in Clean
                    /\ \A n \in Makes : seen'[n] \subseteq Clean
                    /\ \A v \in Versions : target'[v] \in Clean
  BY <1>1 DEF HonestInv
<1>2. /\ \A f \in Files : \A i \in Index : data[f][i] \in Clean
      /\ \A n \in Makes : seen[n] \subseteq Clean
      /\ \A v \in Versions : target[v] \in Clean
  BY <1>0 DEF HonestInv
<1>3. Served = {"good"} /\ {} \subseteq Clean /\ \A q \in Served : {q} \subseteq Clean
  BY DEF Served, Clean
<1>4. CASE OpenPartial(m)
  <2>1. PICK f, q : q \in Served /\ Rewind(m, f, {q}) /\ data' = [data EXCEPT ![f] = Hollow] /\ target' = target
    BY <1>4 DEF OpenPartial
  <2> QED BY <1>0, <1>2, <1>3, <2>1 DEF Rewind, SourceTypeOK, Hollow, Clean
<1>5. CASE Transfer(m)
  <2>1. PICK q \in seen[m] : data' = [data EXCEPT ![file[m]] = [@ EXCEPT ![pos[m]] = q]]
    BY <1>5 DEF Transfer
  <2>2. q \in Clean
    BY <1>2, <2>1
  <2> QED BY <1>0, <1>2, <1>5, <2>1, <2>2 DEF Transfer, SourceTypeOK
<1>6. CASE Retry(m)
  <2>1. PICK q \in Served : Rewind(m, file[m], {q})
    BY <1>6 DEF Retry
  <2> QED BY <1>0, <1>2, <1>3, <1>6, <2>1 DEF Retry, Rewind, SourceTypeOK, Hollow, Clean
<1>7. CASE ReadArchive(m)
  <2>1. file[m] \in Files /\ pos[m] \in Index
    BY <1>0, <1>7 DEF ReadArchive, SourceTypeOK
  <2> QED BY <1>0, <1>2, <1>7, <2>1 DEF ReadArchive, disk, SourceTypeOK
<1>8. CASE Publish(m)
  <2>1. \A n \in Makes : seen'[n] \subseteq Clean
    BY <1>0, <1>2, <1>3, <1>8 DEF Publish, Rewind, SourceTypeOK
  <2>2. \A v \in Versions : target'[v] \in Clean
    BY <1>0, <1>2, <1>8 DEF Publish, SourceTypeOK
  <2> QED BY <1>2, <1>8, <2>1, <2>2 DEF Publish
<1>9. CASE \/ Look(m) \/ FindArchive(m) \/ Rename(m) \/ OpenArchive(m) \/ Hashed(m) \/ Stop(m)
           \/ Leave(m) \/ \E v \in Versions : Prepare(m, v)
  <2>1. data' = data /\ target' = target
    BY <1>9 DEF Look, FindArchive, Rename, OpenArchive, Hashed, Stop, Leave, Prepare, disk
  <2>2. seen' = seen \/ seen' = [seen EXCEPT ![m] = {}]
    BY <1>9 DEF Look, FindArchive, Rename, OpenArchive, Hashed, Stop, Leave, Prepare, Rewind, own
  <2>3. \A n \in Makes : seen'[n] = seen[n] \/ seen'[n] = {}
    BY <1>0, <2>2 DEF SourceTypeOK
  <2> QED BY <1>2, <2>1, <2>3
<1> QED BY <1>4, <1>5, <1>6, <1>7, <1>8, <1>9 DEF Steps, PrepareStep

LEMMA PreparedStep ==
  ASSUME SourceInv, NEW m \in Makes, Steps(m)
  PROVE  PreparedInv'
<1> USE Constants
<1>0. SourceTypeOK /\ PreparedInv
  BY DEF SourceInv
<1>1. \A v \in Versions : target[v] # None => target'[v] # None
  <2>1. CASE Publish(m)
    BY <1>0, <2>1 DEF Publish, SourceTypeOK
  <2>2. CASE ~Publish(m)
    BY <2>2 DEF Steps, PrepareStep, Prepare, Look, FindArchive, OpenPartial, Transfer, Retry, Rename, OpenArchive,
                ReadArchive, Hashed, Stop, Leave, disk
  <2> QED BY <2>1, <2>2
<1>2. \A n \in Makes \ {m} : at'[n] = at[n] /\ version'[n] = version[n]
  BY <1>0 DEF Steps, PrepareStep, Prepare, Look, FindArchive, OpenPartial, Transfer, Retry, Rename, OpenArchive,
              ReadArchive, Hashed, Publish, Stop, Leave, Move, Rewind, own, disk, SourceTypeOK
<1>3. /\ at'[m] # "idle" => version'[m] \in Versions
      /\ at'[m] = "prepared" => target'[version'[m]] # None
  <2>1. CASE Leave(m) \/ \E v \in Versions : Prepare(m, v)
    BY <1>0, <2>1 DEF Prepare, Leave, SourceTypeOK
  <2>2. CASE PrepareStep(m)
    <3>1. version' = version /\ at[m] \in Working
      BY <2>2 DEF PrepareStep, Look, FindArchive, OpenPartial, Transfer, Retry, Rename, OpenArchive,
                  ReadArchive, Hashed, Publish, Stop, Move, Rewind, own, Working
    <3>2. version'[m] \in Versions
      BY <1>0, <3>1 DEF PreparedInv, Working
    <3>3. ASSUME at'[m] = "prepared" PROVE target'[version[m]] # None
      <4>1. CASE Look(m)
        BY <1>0, <1>1, <3>1, <3>2, <3>3, <4>1 DEF Look, Move, SourceTypeOK
      <4>2. CASE Publish(m)
        <5> DEFINE v == version[m]
                   whole == seen[m] \in {{q} : q \in Quality}
        <5>1. whole /\ target[v] = None
          BY <1>0, <3>3, <4>2 DEF Publish, Move, SourceTypeOK
        <5>2. PICK q \in seen[m] : target' = [target EXCEPT ![v] = q]
          BY <4>2, <5>1 DEF Publish
        <5>3. q # None
          BY <5>1, <5>2 DEF Quality
        <5> QED BY <1>0, <3>1, <3>2, <5>2, <5>3 DEF SourceTypeOK
      <4>3. CASE ~Look(m) /\ ~Publish(m)
        BY <1>0, <2>2, <3>1, <3>3, <4>3
           DEF PrepareStep, FindArchive, OpenPartial, Transfer, Retry, Rename, OpenArchive, ReadArchive,
               Hashed, Stop, Move, Working, SourceTypeOK
      <4> QED BY <4>1, <4>2, <4>3
    <3> QED BY <3>1, <3>2, <3>3
  <2> QED BY <2>1, <2>2 DEF Steps
<1>4. ASSUME NEW n \in Makes PROVE /\ at'[n] # "idle" => version'[n] \in Versions
                                   /\ at'[n] = "prepared" => target'[version'[n]] # None
  BY <1>0, <1>1, <1>2, <1>3 DEF PreparedInv
<1> QED BY <1>4 DEF PreparedInv

-----------------------------------------------------------------------------
\* Makes in turn: what holds of the one under way, and of what it leaves.
LEMMA Others ==
  ASSUME SourceInv, NEW m \in Makes, Steps(m), world.serial
  PROVE  /\ world' = world /\ InTurn' /\ \A n \in Makes \ {m} : at'[n] = "idle"
         /\ InTurn /\ WholeArchives /\ GoodTrees /\ UnderWay(m)
<1>0. SourceTypeOK /\ InTurn /\ WholeArchives /\ GoodTrees /\ UnderWay(m)
  BY DEF SourceInv, SerialInv
<1>1. \A n \in Makes \ {m} : at[n] = "idle"
  <2>1. CASE at[m] # "idle"
    BY <1>0, <2>1 DEF InTurn
  <2>2. CASE at[m] = "idle"
    BY <2>2 DEF Steps, PrepareStep, Prepare, Look, FindArchive, OpenPartial, Transfer, Retry, Rename, OpenArchive,
                ReadArchive, Hashed, Publish, Stop, Leave, Move, Working, Over
  <2> QED BY <2>1, <2>2
<1>2. world' = world /\ \A n \in Makes \ {m} : at'[n] = at[n]
  BY <1>0 DEF Steps, PrepareStep, Prepare, Look, FindArchive, OpenPartial, Transfer, Retry, Rename, OpenArchive,
              ReadArchive, Hashed, Publish, Stop, Leave, Move, disk, SourceTypeOK
<1> QED BY <1>0, <1>1, <1>2 DEF InTurn

LEMMA SerialStep ==
  ASSUME SourceInv, NEW m \in Makes, Steps(m)
  PROVE  SerialInv'
<1> USE Constants
<1>0. world' = world
  BY DEF Steps, PrepareStep, Prepare, Look, FindArchive, OpenPartial, Transfer, Retry, Rename, OpenArchive,
         ReadArchive, Hashed, Publish, Stop, Leave
<1> SUFFICES ASSUME world.serial PROVE SerialInv'
  BY <1>0 DEF SerialInv
<1>1. /\ InTurn' /\ \A n \in Makes \ {m} : at'[n] = "idle"
      /\ WholeArchives /\ GoodTrees /\ UnderWay(m)
  BY Others
<1>2. SourceTypeOK /\ (at[m] # "idle" => version[m] \in Versions)
  BY DEF SourceInv, PreparedInv
<1>3. \A n \in Makes \ {m} : UnderWay(n)'
  BY <1>1 DEF UnderWay, Transferring, Reading, Verified
<1> DEFINE v == version[m]
<1>4. SUFFICES WholeArchives' /\ GoodTrees' /\ UnderWay(m)'
  BY <1>1, <1>3 DEF SerialInv
<1>5. CASE Look(m) \/ Stop(m) \/ Leave(m) \/ \E w \in Versions : Prepare(m, w)
  <2>1. UNCHANGED disk /\ at'[m] \in {"look", "archive", "prepared", "failed", "idle"}
    BY <1>2, <1>5 DEF Look, Stop, Leave, Prepare, Move, SourceTypeOK
  <2> QED BY <1>1, <2>1 DEF WholeArchives, GoodTrees, UnderWay, Transferring, Reading, Verified, disk
<1>6. CASE FindArchive(m)
  <2>1. /\ UNCHANGED disk /\ version' = version /\ file'[m] = None
        /\ at'[m] = IF archive[v] # None THEN "hash" ELSE "download"
    BY <1>2, <1>6 DEF FindArchive, Move, Rewind, SourceTypeOK
  <2> QED BY <1>1, <2>1 DEF WholeArchives, GoodTrees, UnderWay, Transferring, Reading, Verified, disk
<1>7. CASE OpenPartial(m)
  <2> DEFINE f == IF partial[v] = None THEN CHOOSE g \in Free : TRUE ELSE partial[v]
  <2>1. v \in Versions
    BY <1>2, <1>7 DEF OpenPartial, Move
  <2>2. f \in Files /\ f # None /\ \A w \in Versions : f # archive[w]
    BY <1>2, <1>7, <2>1, Opened DEF OpenPartial
  <2>3. PICK q \in Served : Rewind(m, f, {q})
    BY <1>7 DEF OpenPartial
  <2> HIDE DEF f
  <2>4. /\ partial' = [partial EXCEPT ![v] = f] /\ data' = [data EXCEPT ![f] = Hollow]
        /\ at' = [at EXCEPT ![m] = "transfer"] /\ UNCHANGED <<archive, target, version>>
    BY <1>7 DEF OpenPartial, Move, f
  <2>5. WholeArchives' /\ GoodTrees'
    BY <1>1, <1>2, <2>2, <2>4 DEF WholeArchives, GoodTrees, SourceTypeOK
  <2>6. at'[m] = "transfer" /\ version'[m] = v /\ partial'[v] = f /\ file'[m] = f /\ pos'[m] = 1 /\ seen'[m] = {q}
    BY <1>2, <2>1, <2>3, <2>4 DEF Rewind, SourceTypeOK
  <2>7. UnderWay(m)'
    BY <2>2, <2>6 DEF UnderWay, Transferring, Reading, Verified, Served, Quality, Index
  <2> QED BY <2>5, <2>7
<1>8. CASE Transfer(m)
  <2>1. /\ v \in Versions /\ at[m] = "transfer" /\ partial[v] # None /\ file[m] = partial[v]
        /\ seen[m] \subseteq Quality /\ \A i \in Index : i < pos[m] => data[file[m]][i] # None
    BY <1>1, <1>2, <1>8 DEF Transfer, UnderWay, Transferring
  <2>2. file[m] \in Files /\ \A w \in Versions : file[m] # archive[w]
    BY <1>2, <2>1 DEF SourceTypeOK, OneName
  <2>3. PICK q \in seen[m] : data' = [data EXCEPT ![file[m]] = [@ EXCEPT ![pos[m]] = q]]
    BY <1>8 DEF Transfer
  <2>4. q # None
    BY <2>1, <2>3 DEF Quality
  <2>5. /\ \A g \in Files : g # file[m] => data'[g] = data[g]
        /\ \A i \in Index : data'[file[m]][i] = IF i = pos[m] THEN q ELSE data[file[m]][i]
    BY <1>2, <2>2, <2>3 DEF SourceTypeOK
  <2>6. WholeArchives' /\ GoodTrees'
    BY <1>1, <1>2, <1>8, <2>2, <2>5 DEF Transfer, WholeArchives, GoodTrees, SourceTypeOK
  <2>7. /\ pos'[m] = pos[m] + 1 /\ UNCHANGED <<at, version, file, partial, seen>> /\ pos[m] \in Nat
    BY <1>2, <1>8 DEF Transfer, SourceTypeOK, Index
  <2>8. \A i \in Index : i < pos'[m] => data'[file[m]][i] # None
    BY <2>1, <2>4, <2>5, <2>7 DEF Index
  <2>9. UnderWay(m)'
    BY <2>1, <2>7, <2>8 DEF UnderWay, Transferring, Reading, Verified
  <2> QED BY <2>6, <2>9
<1>9. CASE Retry(m)
  <2>1. v \in Versions /\ at[m] = "transfer" /\ partial[v] # None /\ file[m] = partial[v]
    BY <1>1, <1>2, <1>9 DEF Retry, UnderWay, Transferring
  <2>2. file[m] \in Files /\ \A w \in Versions : file[m] # archive[w]
    BY <1>2, <2>1 DEF SourceTypeOK, OneName
  <2>3. PICK q \in Served : Rewind(m, file[m], {q})
    BY <1>9 DEF Retry
  <2>4. WholeArchives' /\ GoodTrees'
    BY <1>1, <1>2, <1>9, <2>2 DEF Retry, WholeArchives, GoodTrees, SourceTypeOK
  <2>5. /\ UNCHANGED <<at, version, partial>> /\ file'[m] = file[m] /\ pos'[m] = 1 /\ seen'[m] = {q}
    BY <1>2, <1>9, <2>3 DEF Retry, Rewind, SourceTypeOK
  <2>6. UnderWay(m)'
    BY <2>1, <2>5 DEF UnderWay, Transferring, Reading, Verified, Served, Quality, Index
  <2> QED BY <2>4, <2>6
<1>10. CASE Rename(m)
  <2>1. /\ v \in Versions /\ partial[v] # None /\ file[m] = partial[v] /\ pos[m] > Pieces
        /\ \A i \in Index : i < pos[m] => data[file[m]][i] # None
    BY <1>1, <1>2, <1>10 DEF Rename, Move, UnderWay, Transferring
  <2>2. \A i \in Index : data[partial[v]][i] # None
    BY <1>2, <2>1 DEF Index, SourceTypeOK
  <2>3. /\ archive' = [archive EXCEPT ![v] = partial[v]] /\ UNCHANGED <<data, target, version>>
        /\ at'[m] = "hash" /\ file'[m] = None
    BY <1>2, <1>10, <2>1 DEF Rename, Move, Rewind, SourceTypeOK
  <2>4. WholeArchives' /\ GoodTrees'
    BY <1>1, <1>2, <2>2, <2>3 DEF WholeArchives, GoodTrees, SourceTypeOK
  <2>5. archive'[v] = partial[v]
    BY <1>2, <2>1, <2>3 DEF SourceTypeOK
  <2>6. UnderWay(m)'
    BY <2>1, <2>3, <2>5 DEF UnderWay, Transferring, Reading, Verified
  <2> QED BY <2>4, <2>6
<1>11. CASE OpenArchive(m)
  <2>1. /\ UNCHANGED <<disk, at, version>> /\ at[m] \in {"hash", "tar"}
        /\ file'[m] = archive[v] /\ pos'[m] = 1 /\ seen'[m] = {}
    BY <1>2, <1>11 DEF OpenArchive, Rewind, SourceTypeOK
  <2> QED BY <1>1, <2>1 DEF WholeArchives, GoodTrees, UnderWay, Transferring, Reading, Verified, disk, Index
<1>12. CASE ReadArchive(m)
  <2>1. /\ UNCHANGED <<disk, at, version, file>> /\ at[m] \in {"hash", "tar"} /\ file[m] # None
        /\ pos[m] \in Index /\ pos'[m] = pos[m] + 1 /\ seen'[m] = seen[m] \cup {data[file[m]][pos[m]]}
    BY <1>2, <1>12 DEF ReadArchive, SourceTypeOK
  <2>2. /\ archive[v] # None /\ file[m] = archive[v]
        /\ \A i \in Index : i < pos[m] => data[file[m]][i] \in seen[m]
    BY <1>1, <2>1 DEF UnderWay, Reading
  <2>3. \A i \in Index : i < pos'[m] => data[file[m]][i] \in seen'[m]
    BY <2>1, <2>2 DEF Index
  <2>4. at[m] = "tar" => seen'[m] \subseteq {"good"} /\ \A i \in Index : data[archive[v]][i] = "good"
    BY <1>1, <2>1, <2>2 DEF UnderWay, Verified
  <2> QED BY <1>1, <2>1, <2>2, <2>3, <2>4 DEF WholeArchives, GoodTrees, UnderWay, Transferring, Reading, Verified, disk
<1>13. CASE Hashed(m)
  <2>1. /\ UNCHANGED <<disk, version>> /\ at[m] = "hash" /\ file[m] # None /\ pos[m] > Pieces
        /\ at'[m] = (IF seen[m] = {"good"} THEN "tar" ELSE "failed") /\ file'[m] = None /\ seen'[m] = {}
    BY <1>2, <1>13 DEF Hashed, Move, Rewind, SourceTypeOK
  <2>2. /\ archive[v] # None /\ file[m] = archive[v]
        /\ \A i \in Index : i < pos[m] => data[file[m]][i] \in seen[m]
    BY <1>1, <2>1 DEF UnderWay, Reading
  <2>3. seen[m] = {"good"} => \A i \in Index : data[archive[v]][i] = "good"
    BY <1>2, <2>1, <2>2 DEF Index, SourceTypeOK
  <2> QED BY <1>1, <2>1, <2>2, <2>3 DEF WholeArchives, GoodTrees, UnderWay, Transferring, Reading, Verified, disk
<1>14. CASE Publish(m)
  <2>1. /\ UNCHANGED <<archive, data>> /\ at[m] = "tar" /\ at'[m] \in {"prepared", "failed"}
    BY <1>2, <1>14 DEF Publish, Move, SourceTypeOK
  <2>2. seen[m] \subseteq {"good"}
    BY <1>1, <2>1 DEF UnderWay, Verified
  <2>3. GoodTrees'
    BY <1>1, <1>2, <1>14, <2>2 DEF Publish, GoodTrees, SourceTypeOK, Clean
  <2> QED BY <1>1, <2>1, <2>3 DEF WholeArchives, UnderWay, Transferring, Reading, Verified
<1> QED BY <1>5, <1>6, <1>7, <1>8, <1>9, <1>10, <1>11, <1>12, <1>13, <1>14 DEF Steps, PrepareStep

-----------------------------------------------------------------------------
LEMMA InvStep ==
  ASSUME SourceInv, NEW m \in Makes, Steps(m)
  PROVE  SourceInv'
BY TypeStep, HonestStep, SerialStep, PreparedStep DEF SourceInv

LEMMA InvStutter ==
  ASSUME SourceInv, UNCHANGED source
  PROVE  SourceInv'
<1> USE DEF source, disk, own
<1>1. SourceTypeOK'
  BY DEF SourceInv, SourceTypeOK, OneName
<1>2. HonestInv'
  BY DEF SourceInv, HonestInv
<1>3. SerialInv'
  BY DEF SourceInv, SerialInv, InTurn, WholeArchives, GoodTrees, UnderWay, Transferring, Reading, Verified
<1>4. PreparedInv'
  BY DEF SourceInv, PreparedInv
<1> QED BY <1>1, <1>2, <1>3, <1>4 DEF SourceInv

LEMMA InvVerified == SourceInv => SourceVerified
BY DEF SourceInv, SerialInv, HonestInv, WholeArchives, GoodTrees, Clean, SourceVerified

\* Any number of makes, versions and pieces, in turn or at once, stopped
\* anywhere: names, files and makes are what they are taken for
\* (scripts/prepare-linux.py).
THEOREM SourceTyped == SourceSpec => []SourceTypeOK
<1>1. SourceInv /\ [SourceNext]_source => SourceInv'
  BY InvStep, InvStutter DEF SourceNext, Steps
<1>2. SourceInv => SourceTypeOK
  BY DEF SourceInv
<1> QED BY InvInit, <1>1, <1>2, PTL DEF SourceSpec

\* For any number of makes, versions and pieces: no tree from content that the
\* published checksum does not cover, makes in turn or an honest mirror, and in
\* turn no archive with a hole (scripts/prepare-linux.py).
THEOREM SourceCorrect == SourceSpec => []SourceVerified
<1>1. SourceInv /\ [SourceNext]_source => SourceInv'
  BY InvStep, InvStutter DEF SourceNext, Steps
<1> QED BY InvInit, InvVerified, <1>1, PTL DEF SourceSpec
=============================================================================
