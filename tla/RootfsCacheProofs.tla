------------------------- MODULE RootfsCacheProofs -------------------------
(***************************************************************************)
(* Proofs about RootfsCache, for every set of configs, baselines,          *)
(* processes and crash points.                                             *)
(***************************************************************************)
EXTENDS RootfsCache, TLAPS

\* Where a low-level make can be: only ensure-rootfs.py goes further.
MakerPoints == Resting \cup {"make", "install", "copy", "md5"}

\* A process knows its identity once it has the lock, and the config its make
\* was configured from once make runs.
LocalsOK ==
  \A p \in Procs :
    /\ p \in Ensurers /\ pc[p] \in Critical => ident[p] \in Ids
    /\ pc[p] = "install" => conf[p] \in Configs
    /\ p \notin Ensurers => pc[p] \in MakerPoints

TypeInv == TypeOK /\ LocalsOK

LEMMA TypeInit == Init => TypeInv
<1> SUFFICES ASSUME Init PROVE TypeInv
  OBVIOUS
<1> USE DataAssumption
<1>1. PICK c \in Configs \cup {None} :
        LET i == [cfg |-> c, base |-> base] IN
        /\ legacy = c
        /\ stamped = IF c = None THEN {} ELSE c.pkgs
        /\ target = IF c = None THEN {} ELSE Want(c)
        /\ overlay = IF c = None THEN {} ELSE base.files
        /\ bbdirs = IF c = None THEN {} ELSE {base.bb}
        /\ built = IF c = None THEN None ELSE Expected(i)
        /\ output = built
        /\ cache = [j \in Ids |->
             IF c # None /\ j = i
             THEN [dir |-> TRUE, req |-> TRUE, legacy |-> TRUE, img |-> built, sha |-> built]
             ELSE NoEntry]
  BY DEF Init
<1>2. base \in Baselines /\ cfgfile \in Configs
  BY DEF Init
<1>3. CASE c = None
  <2>1. cache \in [Ids -> Entry]
    BY <1>1, <1>3 DEF Entry, NoEntry
  <2>2. pc \in [Procs -> Resting \cup Running]
    BY DEF Init, Resting
  <2> QED
    BY <1>1, <1>2, <1>3, <2>1, <2>2
    DEF Init, TypeInv, TypeOK, LocalsOK, Blob, MakerPoints, Resting, Critical, Running, Ended
<1>4. CASE c # None
  <2>1. c \in Configs /\ c.pkgs \subseteq Packages /\ c.opt \in Options
    BY <1>1, <1>4
  <2>2. Want(c) \subseteq Packages \X Options
    BY <2>1 DEF Want
  <2>3. built \in Image
    BY <1>1, <1>2, <1>4, <2>2 DEF Expected, Image
  <2>4. cache \in [Ids -> Entry]
    BY <1>1, <1>4, <2>3 DEF Entry, NoEntry, Blob
  <2>5. pc \in [Procs -> Resting \cup Running]
    BY DEF Init, Resting
  <2>6. TypeOK
    BY <1>1, <1>2, <1>4, <2>1, <2>2, <2>3, <2>4, <2>5 DEF Init, TypeOK, Blob
  <2>7. LocalsOK
    BY DEF Init, LocalsOK, MakerPoints, Resting, Critical, Running, Ended
  <2> QED
    BY <2>6, <2>7 DEF TypeInv
<1> QED
  BY <1>3, <1>4


LEMMA BaselineTyped == ASSUME NEW b \in Baselines PROVE b.bb \in BusyBoxVersions
BY DataAssumption

LEMMA ConfigTyped == ASSUME NEW c \in Configs PROVE c.opt \in Options
BY DataAssumption

LEMMA TypeStep == TypeInv /\ [Next]_vars => TypeInv'
<1> SUFFICES ASSUME TypeInv, [Next]_vars PROVE TypeInv'
  OBVIOUS
<1> USE DataAssumption, ProcAssumption DEF TypeInv, TypeOK, LocalsOK, env, tree, locals, Goto, Exit,
    Procs, Critical, Running, Resting, Ended, MakerPoints, Entry, Blob
<1>0. CASE UNCHANGED vars
  BY <1>0 DEF vars
<1>1. ASSUME NEW c \in Configs, Configure(c) PROVE TypeInv'
  BY <1>1 DEF Configure
<1>2. ASSUME NEW b \in Baselines, EditBaseline(b) PROVE TypeInv'
  BY <1>2 DEF EditBaseline
<1>3. ASSUME NEW p \in Makers, StartMake(p) PROVE TypeInv'
  <2>1. p \in Procs /\ p \notin Ensurers /\ pc' = [pc EXCEPT ![p] = "make"]
    BY <1>3 DEF StartMake
  <2>2. UNCHANGED <<env, lock, cache, oldreq, stamp, legacy, output, outman, tree, locals>>
    BY <1>3 DEF StartMake
  <2>3. TypeOK'
    BY <2>1, <2>2
  <2>4. LocalsOK'
    BY <2>1, <2>2
  <2> QED
    BY <2>3, <2>4
<1>4. ASSUME NEW p \in Ensurers, Open(p) PROVE TypeInv'
  <2>1. p \in Procs /\ pc' = [pc EXCEPT ![p] = "lock"]
    BY <1>4 DEF Open
  <2>2. UNCHANGED <<env, lock, cache, oldreq, stamp, legacy, output, outman, tree, locals>>
    BY <1>4 DEF Open
  <2>3. TypeOK'
    BY <2>1, <2>2
  <2>4. LocalsOK'
    BY <2>1, <2>2
  <2> QED
    BY <2>3, <2>4
<1>5. ASSUME NEW p \in Ensurers, Acquire(p) PROVE TypeInv'
  BY <1>5 DEF Acquire, Ids
<1>6. ASSUME NEW p \in Ensurers, Supersede(p) PROVE TypeInv'
  <2>1. ident[p] \in Ids /\ ident[p].cfg \in Configs
    BY <1>6 DEF Supersede, Ids
  <2>2. cache' \in [Ids -> Entry]
    BY <1>6, <2>1 DEF Supersede, NoEntry
  <2>3. oldreq' \subseteq Configs
    BY <1>6, <2>1 DEF Supersede
  <2> QED
    BY <1>6, <2>2, <2>3 DEF Supersede
<1>7. ASSUME NEW p \in Ensurers, Hit(p) PROVE TypeInv'
  BY <1>7 DEF Hit, Certified
<1>8. ASSUME NEW p \in Ensurers, RejectEntry(p) PROVE TypeInv'
  BY <1>8 DEF RejectEntry
<1>9. ASSUME NEW p \in Ensurers, RestoreImage(p) PROVE TypeInv'
  BY <1>9 DEF RestoreImage
<1>10. ASSUME NEW p \in Ensurers, RestoreStamp(p) PROVE TypeInv'
  BY <1>10 DEF RestoreStamp, Ids
<1>11. ASSUME NEW p \in Ensurers, RestoreRecord(p) PROVE TypeInv'
  BY <1>11 DEF RestoreRecord, Ids
<1>12. ASSUME NEW p \in Ensurers, Decide(p) PROVE TypeInv'
  BY <1>12 DEF Decide
<1>13. ASSUME NEW p \in Ensurers, CleanTarget(p) PROVE TypeInv'
  BY <1>13 DEF CleanTarget
<1>14. ASSUME NEW p \in Ensurers, CleanObjects(p) PROVE TypeInv'
  BY <1>14 DEF CleanObjects
<1>15. ASSUME NEW p \in Ensurers, WriteStamp(p) PROVE TypeInv'
  BY <1>15 DEF WriteStamp, Ids
<1>16. ASSUME NEW p \in Ensurers, Verify(p) PROVE TypeInv'
  BY <1>16 DEF Verify
<1>17. ASSUME NEW p \in Ensurers, RejectBusyBox(p) PROVE TypeInv'
  BY <1>17 DEF RejectBusyBox
<1>18. ASSUME NEW p \in Ensurers, Stage(p) PROVE TypeInv'
  BY <1>18 DEF Stage
<1>19. ASSUME NEW p \in Ensurers, Publish(p) PROVE TypeInv'
  BY <1>19 DEF Publish, EmptyDir
<1>20. ASSUME NEW p \in Ensurers, RejectPublish(p) PROVE TypeInv'
  BY <1>20 DEF RejectPublish
<1>21. ASSUME NEW p \in Ensurers, NEW f \in EntryFiles, CopyEntry(p, f) PROVE TypeInv'
  <2>1. ident[p] \in Ids /\ p \in Procs
    BY <1>21 DEF CopyEntry
  <2>2. Filled(cache[ident[p]], f, staged[p], digest[p]) \in Entry
    BY <2>1 DEF Filled
  <2>3. cache' \in [Ids -> Entry]
    BY <1>21, <2>1, <2>2 DEF CopyEntry
  <2>4. left' \in [Procs -> SUBSET EntryFiles]
    BY <1>21, <2>1 DEF CopyEntry
  <2>5. pc' \in [Procs -> Resting \cup Running]
    BY <1>21, <2>1 DEF CopyEntry
  <2> QED
    BY <1>21, <2>1, <2>3, <2>4, <2>5 DEF CopyEntry
<1>22. ASSUME NEW p \in Ensurers, WriteRecord(p) PROVE TypeInv'
  BY <1>22 DEF WriteRecord, Ids
<1>23. ASSUME NEW p \in Procs, MakeConfig(p) PROVE TypeInv'
  <2>1. /\ pc[p] = "make" /\ pc' = [pc EXCEPT ![p] = "install"]
        /\ conf' = [conf EXCEPT ![p] = cfgfile] /\ bbdirs' = bbdirs \cup {base.bb}
        /\ UNCHANGED <<cfgfile, base, lock, cache, oldreq, stamp, legacy, output, outman, target,
                       overlay, stamped, built, ident, digest, staged, left>>
    BY <1>23 DEF MakeConfig
  <2>2. pc' \in [Procs -> Resting \cup Running] /\ conf' \in [Procs -> Configs \cup {None}]
    BY <2>1
  <2>3. bbdirs' \subseteq BusyBoxVersions
    <3>1. base.bb \in BusyBoxVersions
      BY BaselineTyped
    <3> QED
      BY <2>1, <3>1
  <2>4. TypeOK'
    BY <2>1, <2>2, <2>3
  <2>5. pc'[p] = "install" /\ conf'[p] \in Configs
    BY <2>1
  <2>6. \A q \in Procs \ {p} : pc'[q] = pc[q] /\ conf'[q] = conf[q]
    BY <2>1
  <2>7. LocalsOK'
    BY <2>1, <2>5, <2>6
  <2> QED
    BY <2>4, <2>7
<1>24. ASSUME NEW p \in Procs, MakeImage(p) PROVE TypeInv'
  BY <1>24 DEF MakeImage, Image
<1>25. ASSUME NEW p \in Procs, CopyImage(p) PROVE TypeInv'
  BY <1>25 DEF CopyImage
<1>26. ASSUME NEW p \in Procs, CopyFails(p) PROVE TypeInv'
  BY <1>26 DEF CopyFails
<1>27. ASSUME NEW p \in Procs, WriteLegacy(p) PROVE TypeInv'
  <2>1. CASE p \in Makers /\ Exit(p, "done")
    BY <1>27, <2>1 DEF WriteLegacy
  <2>2. CASE p \in Ensurers /\ Goto(p, "md5", "verify") /\ UNCHANGED <<lock, locals>>
    BY <1>27, <2>2 DEF WriteLegacy
  <2> QED
    BY <1>27, <2>1, <2>2 DEF WriteLegacy
<1>28. ASSUME NEW p \in Procs, NEW g \in Packages, Install(p, g) PROVE TypeInv'
  <2>1. conf[p].opt \in Options
    <3>1. conf[p] \in Configs
      BY <1>28 DEF Install
    <3> QED
      BY <3>1, ConfigTyped
  <2>2. Parts(conf[p], g) \subseteq Packages
    <3>1. conf[p] \in Configs
      BY <1>28 DEF Install
    <3> QED
      BY <3>1, ConfigTyped DEF Parts
  <2>3. /\ target' = target \cup (Parts(conf[p], g) \X {conf[p].opt})
        /\ stamped' = stamped \cup Parts(conf[p], g)
    BY <1>28 DEF Install
  <2>4. target' \subseteq Packages \X Options /\ stamped' \subseteq Packages
    BY <2>1, <2>2, <2>3
  <2>5. UNCHANGED <<cfgfile, base, lock, cache, oldreq, stamp, legacy, output, outman, overlay,
                   bbdirs, built, pc, ident, conf, digest, staged, left>>
    BY <1>28 DEF Install
  <2>6. TypeOK'
    BY <2>4, <2>5
  <2>7. LocalsOK'
    BY <2>5
  <2> QED
    BY <2>6, <2>7
<1>29. ASSUME NEW p \in Procs, Crash(p) PROVE TypeInv'
  <2>1. output' \in Blob \cup {None}
    BY <1>29 DEF Crash
  <2>2. pc[p] \in {"publish", "fill"} => p \in Ensurers /\ ident[p] \in Ids
    BY <1>29
  <2>3. pc[p] \in {"publish", "fill"} => ident[p].cfg \in Configs
    BY <2>2 DEF Ids
  <2>4. oldreq' \subseteq Configs
    <3>1. CASE pc[p] \in {"publish", "fill"}
      <4>1. oldreq' = oldreq \/ oldreq' = oldreq \cup {ident[p].cfg}
        BY <1>29, <3>1 DEF Crash
      <4>2. oldreq \subseteq Configs
        OBVIOUS
      <4>3. ident[p].cfg \in Configs
        BY <2>3, <3>1
      <4> HIDE DEF TypeInv, TypeOK, LocalsOK, Running, Resting, Ended
      <4> QED
        BY <4>1, <4>2, <4>3
    <3>2. CASE pc[p] \notin {"publish", "fill"}
      BY <1>29, <3>2 DEF Crash
    <3> QED
      BY <3>1, <3>2
  <2> QED
    BY <1>29, <2>1, <2>4 DEF Crash
<1> QED
  BY <1>0, <1>1, <1>2, <1>3, <1>4, <1>5, <1>6, <1>7, <1>8, <1>9, <1>10, <1>11, <1>12, <1>13, <1>14, <1>15, <1>16, <1>17, <1>18, <1>19, <1>20, <1>21, <1>22, <1>23, <1>24, <1>25, <1>26, <1>27, <1>28, <1>29 DEF Next, Ensure, Make

\* Every reachable state of every instance is well typed: an absent file, a torn
\* one and a local variable before its assignment are never used as a value.
THEOREM TypeCorrect == Spec => []TypeOK
<1>1. Spec => []TypeInv
  BY TypeInit, TypeStep, PTL DEF Spec
<1>2. TypeInv => TypeOK
  BY DEF TypeInv
<1> QED
  BY <1>1, <1>2, PTL

-----------------------------------------------------------------------------
\* Past the lock means holding it.
LockInv == \A p \in Ensurers : pc[p] \in Critical => lock = p

LEMMA LockStep == TypeInv /\ LockInv /\ [Next]_vars => LockInv'
<1> SUFFICES ASSUME TypeInv, LockInv, [Next]_vars PROVE LockInv'
  OBVIOUS
<1> USE ProcAssumption DEF LockInv, Goto, Exit, Procs, Critical, Running, Resting, Ended
<1>1. pc \in [Procs -> Resting \cup Running]
  BY DEF TypeInv, TypeOK
<1>0. CASE UNCHANGED vars
  BY <1>0 DEF vars
<1>2. ASSUME NEW c \in Configs, Configure(c) PROVE LockInv'
  BY <1>2 DEF Configure
<1>3. ASSUME NEW b \in Baselines, EditBaseline(b) PROVE LockInv'
  BY <1>3 DEF EditBaseline
<1>4. ASSUME NEW p \in Makers, StartMake(p) PROVE LockInv'
  BY <1>1, <1>4 DEF StartMake
<1>5. ASSUME NEW p \in Ensurers, Open(p) PROVE LockInv'
  BY <1>1, <1>5 DEF Open
<1>6. ASSUME NEW p \in Ensurers, Acquire(p) PROVE LockInv'
  BY <1>1, <1>6 DEF Acquire
<1>7. ASSUME NEW p \in Ensurers, Ensure(p) PROVE LockInv'
  <2>1. CASE Supersede(p)
    BY <1>1, <2>1 DEF Supersede
  <2>2. CASE Hit(p) \/ RejectEntry(p)
    BY <1>1, <2>2 DEF Hit, RejectEntry
  <2>3. CASE RestoreImage(p) \/ RestoreStamp(p) \/ RestoreRecord(p)
    BY <1>1, <2>3 DEF RestoreImage, RestoreStamp, RestoreRecord
  <2>4. CASE Decide(p) \/ CleanTarget(p) \/ CleanObjects(p) \/ WriteStamp(p)
    BY <1>1, <2>4 DEF Decide, CleanTarget, CleanObjects, WriteStamp
  <2>5. CASE Verify(p) \/ RejectBusyBox(p) \/ Stage(p)
    BY <1>1, <2>5 DEF Verify, RejectBusyBox, Stage
  <2>6. CASE Publish(p)
    BY <1>1, <2>6 DEF Publish
  <2>8. CASE RejectPublish(p)
    BY <1>1, <2>8 DEF RejectPublish
  <2>9. CASE WriteRecord(p)
    BY <1>1, <2>9 DEF WriteRecord
  <2>7. CASE \E f \in EntryFiles : CopyEntry(p, f)
    BY <1>1, <2>7 DEF CopyEntry
  <2> QED
    BY <1>7, <2>1, <2>2, <2>3, <2>4, <2>5, <2>6, <2>7, <2>8, <2>9 DEF Ensure
<1>8. ASSUME NEW p \in Procs, Make(p) PROVE LockInv'
  <2>1. CASE MakeConfig(p)
    BY <1>1, <2>1 DEF MakeConfig
  <2>4. CASE MakeImage(p)
    BY <1>1, <2>4 DEF MakeImage
  <2>5. CASE CopyImage(p)
    BY <1>1, <2>5 DEF CopyImage
  <2>6. CASE CopyFails(p)
    BY <1>1, <2>6 DEF CopyFails
  <2>2. CASE \E g \in Packages : Install(p, g)
    BY <1>1, <2>2 DEF Install
  <2>3. CASE WriteLegacy(p)
    BY <1>1, <2>3 DEF WriteLegacy
  <2> QED
    BY <1>8, <2>1, <2>2, <2>3, <2>4, <2>5, <2>6 DEF Make
<1>9. ASSUME NEW p \in Procs, Crash(p) PROVE LockInv'
  BY <1>1, <1>9 DEF Crash
<1> QED
  BY <1>0, <1>2, <1>3, <1>4, <1>5, <1>6, <1>7, <1>8, <1>9 DEF Next

\* The file lock of one XLEN admits one invocation at a time to the cache and
\* the tree, for any number of invocations, restarts and crashes.
THEOREM LockExcludes == Spec => []Exclusive
<1>1. Init => TypeInv /\ LockInv
  BY TypeInit DEF Init, LockInv, Critical, Running, Procs
<1>2. TypeInv /\ LockInv /\ [Next]_vars => (TypeInv /\ LockInv)'
  BY TypeStep, LockStep
<1>3. TypeInv /\ LockInv => Exclusive
  BY DEF LockInv, Exclusive
<1> QED
  BY <1>1, <1>2, <1>3, PTL DEF Spec

-----------------------------------------------------------------------------
(***************************************************************************)
(* Immutability of certified entries, which asks for no discipline.        *)
(***************************************************************************)

\* A directory that is not there certifies nothing, and a process that fills an
\* entry finds it without the files it has still to copy.
EntryInv ==
  /\ \A i \in Ids : ~cache[i].dir => cache[i].sha = None
  /\ \A p \in Ensurers : pc[p] = "fill" =>
       /\ "manifest" \in left[p] => cache[ident[p]].sha = None
       /\ "image" \in left[p] => cache[ident[p]].img = None

\* No process begins to fill an entry, and none that fills one has changed.
FillersKept ==
  \A q \in Ensurers : pc'[q] = "fill" =>
    pc[q] = "fill" /\ ident'[q] = ident[q] /\ left'[q] = left[q]

CacheKept == cache' = cache /\ FillersKept

\* The cache is written by three operations of ensure-rootfs.py alone.
CacheWrite(p) == Supersede(p) \/ Publish(p) \/ \E f \in EntryFiles : CopyEntry(p, f)

LEMMA CacheWriters ==
  ASSUME TypeInv, [Next]_vars
  PROVE  CacheKept \/ \E p \in Ensurers : CacheWrite(p)
<1> SUFFICES ASSUME \A p \in Ensurers : ~CacheWrite(p) PROVE CacheKept
  OBVIOUS
<1> USE ProcAssumption DEF CacheKept, FillersKept, Goto, Exit, Procs, locals
<1>1. /\ pc \in [Procs -> Resting \cup Running] /\ ident \in [Procs -> Ids \cup {None}]
      /\ left \in [Procs -> SUBSET EntryFiles]
  BY DEF TypeInv, TypeOK
<1>2. CASE UNCHANGED vars
  BY <1>2 DEF vars
<1>3. ASSUME NEW c \in Configs, Configure(c) PROVE CacheKept
  BY <1>3 DEF Configure
<1>4. ASSUME NEW b \in Baselines, EditBaseline(b) PROVE CacheKept
  BY <1>4 DEF EditBaseline
<1>5. ASSUME NEW p \in Makers, StartMake(p) PROVE CacheKept
  BY <1>1, <1>5 DEF StartMake
<1>6. ASSUME NEW p \in Ensurers, Open(p) \/ Acquire(p) PROVE CacheKept
  <2>1. CASE Open(p)
    BY <1>1, <2>1 DEF Open
  <2>2. CASE Acquire(p)
    BY <1>1, <2>2 DEF Acquire
  <2> QED
    BY <1>6, <2>1, <2>2
<1>7. ASSUME NEW p \in Ensurers, Ensure(p) PROVE CacheKept
  <2>1. CASE Hit(p) \/ RejectEntry(p)
    BY <1>1, <2>1 DEF Hit, RejectEntry
  <2>2. CASE RestoreImage(p) \/ RestoreStamp(p) \/ RestoreRecord(p)
    BY <1>1, <2>2 DEF RestoreImage, RestoreStamp, RestoreRecord
  <2>3. CASE Decide(p) \/ CleanTarget(p) \/ CleanObjects(p) \/ WriteStamp(p)
    BY <1>1, <2>3 DEF Decide, CleanTarget, CleanObjects, WriteStamp
  <2>4. CASE Verify(p) \/ RejectBusyBox(p) \/ Stage(p)
    BY <1>1, <2>4 DEF Verify, RejectBusyBox, Stage
  <2>5. CASE RejectPublish(p) \/ WriteRecord(p)
    BY <1>1, <2>5 DEF RejectPublish, WriteRecord
  <2>6. ~CacheWrite(p)
    OBVIOUS
  <2> QED
    BY <1>7, <2>1, <2>2, <2>3, <2>4, <2>5, <2>6 DEF Ensure, CacheWrite
<1>8. ASSUME NEW p \in Procs, Make(p) PROVE CacheKept
  <2>1. CASE MakeConfig(p) \/ MakeImage(p)
    BY <1>1, <2>1 DEF MakeConfig, MakeImage
  <2>2. CASE CopyImage(p) \/ CopyFails(p)
    BY <1>1, <2>2 DEF CopyImage, CopyFails
  <2>3. CASE \E g \in Packages : Install(p, g)
    BY <1>1, <2>3 DEF Install
  <2>4. CASE WriteLegacy(p)
    BY <1>1, <2>4 DEF WriteLegacy
  <2> QED
    BY <1>8, <2>1, <2>2, <2>3, <2>4 DEF Make
<1>9. ASSUME NEW p \in Procs, Crash(p) PROVE CacheKept
  BY <1>1, <1>9 DEF Crash
<1> QED
  BY <1>2, <1>3, <1>4, <1>5, <1>6, <1>7, <1>8, <1>9 DEF Next

\* A writer is the only process past the lock.
LEMMA WriterAlone ==
  ASSUME TypeInv, LockInv, NEW p \in Ensurers, CacheWrite(p)
  PROVE  /\ ident[p] \in Ids /\ ident'[p] = ident[p]
         /\ \A q \in Ensurers \ {p} : pc'[q] # "fill"
<1> USE DEF Goto
<1>1. pc \in [Procs -> Resting \cup Running] /\ p \in Procs
  BY DEF TypeInv, TypeOK, Procs
<1>2. pc[p] \in {"lookup", "publish", "fill"} /\ ident' = ident
  BY DEF CacheWrite, Supersede, Publish, CopyEntry, locals
<1>3. pc[p] \in Critical
  BY <1>2 DEF Critical, Running
<1>4. \A q \in Ensurers \ {p} : pc'[q] = pc[q]
  BY <1>1 DEF CacheWrite, Supersede, Publish, CopyEntry, Procs
<1>5. \A q \in Ensurers \ {p} : pc[q] \notin Critical
  BY <1>3 DEF LockInv
<1> QED
  BY <1>1, <1>2, <1>3, <1>4, <1>5 DEF TypeInv, LocalsOK, Critical, Running

LEMMA EntryStep == TypeInv /\ LockInv /\ EntryInv /\ [Next]_vars => EntryInv'
<1> SUFFICES ASSUME TypeInv, LockInv, EntryInv, [Next]_vars PROVE EntryInv'
  OBVIOUS
<1>1. CASE CacheKept
  BY <1>1 DEF CacheKept, FillersKept, EntryInv
<1>2. ASSUME NEW p \in Ensurers, CacheWrite(p) PROVE EntryInv'
  <2> DEFINE i == ident[p]
  <2>1. /\ i \in Ids /\ ident'[p] = i /\ p \in Procs
        /\ \A q \in Ensurers \ {p} : pc'[q] # "fill"
    BY <1>2, WriterAlone DEF Procs
  <2>2. /\ cache \in [Ids -> Entry] /\ left \in [Procs -> SUBSET EntryFiles]
        /\ pc \in [Procs -> Resting \cup Running]
    BY DEF TypeInv, TypeOK
  <2> HIDE DEF i
  <2>3. CASE Supersede(p)
    BY <2>1, <2>2, <2>3 DEF i, Supersede, EntryInv, NoEntry
  <2>4. CASE Publish(p)
    BY <2>1, <2>2, <2>4 DEF i, Publish, EntryInv, EmptyDir
  <2>5. ASSUME NEW f \in EntryFiles, CopyEntry(p, f) PROVE EntryInv'
    <3>1. /\ pc[p] = "fill" /\ f \in left[p]
          /\ cache'[i] = Filled(cache[i], f, staged[p], digest[p])
          /\ left'[p] = left[p] \ {f}
          /\ \A j \in Ids \ {i} : cache'[j] = cache[j]
      BY <2>1, <2>2, <2>5 DEF i, CopyEntry
    <3>2. cache'[i].dir
      BY <3>1 DEF Filled
    <3>3. \A j \in Ids : ~cache'[j].dir => cache'[j].sha = None
      BY <3>1, <3>2 DEF EntryInv
    <3>4. "manifest" \in left'[p] => cache'[i].sha = None
      BY <3>1 DEF i, Filled, EntryInv
    <3>5. "image" \in left'[p] => cache'[i].img = None
      BY <3>1 DEF i, Filled, EntryInv
    <3> QED
      BY <2>1, <3>3, <3>4, <3>5 DEF EntryInv
  <2> QED
    BY <1>2, <2>3, <2>4, <2>5 DEF CacheWrite
<1> QED
  BY <1>1, <1>2, CacheWriters

\* A step that changes an entry finds it uncertified: it is legacy, or absent,
\* or lacks the image or the manifest that is copied.
LEMMA EntryCertified ==
  ASSUME TypeInv, LockInv, EntryInv, [Next]_vars, NEW i \in Ids, Certified(i)
  PROVE  Certified(i)' /\ cache'[i].img = cache[i].img
<1> USE DEF Certified
<1>1. CASE CacheKept
  BY <1>1 DEF CacheKept
<1>2. ASSUME NEW p \in Ensurers, CacheWrite(p), i # ident[p]
      PROVE  cache'[i] = cache[i]
  <2>1. ident[p] \in Ids /\ cache \in [Ids -> Entry]
    BY <1>2, WriterAlone DEF TypeInv, TypeOK
  <2> QED
    BY <1>2, <2>1 DEF CacheWrite, Supersede, Publish, CopyEntry
<1>3. ASSUME NEW p \in Ensurers, CacheWrite(p), i = ident[p]
      PROVE  /\ ~cache'[i].legacy
             /\ cache'[i].img = cache[i].img /\ cache'[i].sha = cache[i].sha
  <2>1. ~Supersede(p)
    BY <1>3 DEF Supersede
  <2>2. ~Publish(p)
    BY <1>3 DEF Publish, EntryInv
  <2>3. PICK f \in EntryFiles : CopyEntry(p, f)
    BY <1>3, <2>1, <2>2 DEF CacheWrite
  <2>4. /\ pc[p] = "fill" /\ f \in left[p]
        /\ cache'[i] = Filled(cache[i], f, staged[p], digest[p])
    BY <1>3, <2>3 DEF CopyEntry, TypeInv, TypeOK
  <2>5. f # "manifest" /\ f # "image"
    BY <1>3, <2>4 DEF EntryInv
  <2> QED
    BY <2>4, <2>5 DEF Filled
<1> QED
  BY <1>1, <1>2, <1>3, CacheWriters

LEMMA EntryInit == Init => EntryInv
<1> SUFFICES ASSUME Init PROVE EntryInv
  OBVIOUS
<1>1. \A p \in Ensurers : pc[p] # "fill"
  BY DEF Init, Procs
<1>2. \A i \in Ids : ~cache[i].dir => cache[i].sha = None
  BY DEF Init, NoEntry
<1> QED
  BY <1>1, <1>2 DEF EntryInv

\* A certified entry is never removed, decertified or given another image, with
\* any number of invocations and low-level builds, killed anywhere and at once.
THEOREM EntriesImmutable == Spec => CertifiedStays
<1> DEFINE Inv == TypeInv /\ LockInv /\ EntryInv
<1>1. Init => Inv
  BY TypeInit, EntryInit DEF Init, LockInv, Critical, Running, Procs
<1>2. Inv /\ [Next]_vars => Inv'
  BY TypeStep, LockStep, EntryStep
<1>3. Inv /\ [Next]_vars =>
        [\A i \in Ids : Certified(i) => Certified(i)' /\ cache'[i].img = cache[i].img]_vars
  BY EntryCertified
<1> QED
  BY <1>1, <1>2, <1>3, PTL DEF Spec, CertifiedStays

-----------------------------------------------------------------------------
(***************************************************************************)
(* The content of the cache.  The documentation asks for configuration and *)
(* builds to be serialised.  A wrong rootfs can be certified after a       *)
(* low-level build, a clean interrupted half-way, the removal of an        *)
(* overlay file and the addition of a sub-option.  Without these, and for  *)
(* any number of processes, configs, revisions and crashes elsewhere:      *)
(***************************************************************************)
Discipline ==
  /\ Serialized
  /\ Makers = {}
  /\ "clean objects" \notin CrashPoints
  /\ \A b, d \in Baselines : b.files = d.files
  /\ \A g \in Packages : PartOf[g] = g

Restoring == {"restore", "restore stamp", "restore record"}
Exported == {"md5", "verify", "stage", "publish", "fill", "record"}
Building == {"make", "install", "copy"} \cup Exported

\* The tree holds packages of config c only, built with its options.
Inside(c) == target = stamped \X {c.opt} /\ stamped \subseteq c.pkgs

NoCleaner == \A p \in Ensurers : pc[p] # "clean objects"

TreeInv ==
  /\ stamp # None /\ NoCleaner => Inside(stamp)
  /\ stamp = None /\ NoCleaner /\ built # None =>
       legacy \in Configs /\ target = Want(legacy) /\ stamped = legacy.pkgs
  /\ \A b \in Baselines : overlay \subseteq b.files

CacheInv ==
  /\ \A i \in Ids :
       /\ cache[i].legacy => cache[i].dir
       /\ ~cache[i].legacy /\ cache[i].sha # None => cache[i].sha = Expected(i) /\ stamp # None
       /\ ~cache[i].legacy /\ cache[i].img # None => cache[i].img = Expected(i)
  /\ outman # None => outman.sha = Expected(outman.id)

\* What the process that holds the lock may rely on, location by location.
HolderInv(p) ==
  LET i == ident[p] IN
  /\ pc[p] \in Critical => i = [cfg |-> cfgfile, base |-> base]
  /\ pc[p] = "install" => conf[p] = cfgfile
  /\ pc[p] \in Restoring => Certified(i)
  /\ pc[p] = "clean objects" => target = {} /\ overlay = {} /\ built = None
  /\ pc[p] = "stamp" => Inside(i.cfg)
  /\ pc[p] \in Building => stamp = i.cfg
  /\ pc[p] = "copy" => built = Expected(i)
  /\ pc[p] \in Exported => output = Expected(i)
  /\ pc[p] \in {"stage", "publish", "fill"} => digest[p] = Expected(i)
  /\ pc[p] \in {"publish", "fill"} => staged[p] = Expected(i)
  /\ pc[p] = "fill" => ~cache[i].legacy /\ ("manifest" \notin left[p] => cache[i].sha = Expected(i))
  /\ pc[p] = "record" => cache[i].sha = Expected(i)

SoundInv == TypeInv /\ LockInv /\ TreeInv /\ CacheInv /\ (\A p \in Ensurers : HolderInv(p))

\* A process that is not past the lock relies on nothing.
LEMMA Outside ==
  ASSUME NEW p \in Ensurers, pc[p] \notin Critical
  PROVE  HolderInv(p)
BY DEF HolderInv, Critical, Running, Restoring, Building, Exported

\* Nor does a step that changes nothing a process sees change what it relies on.
LEMMA HolderKept ==
  ASSUME NEW q \in Ensurers, HolderInv(q),
         UNCHANGED <<cfgfile, base, cache, stamp, output, target, overlay, stamped, built>>,
         pc'[q] = pc[q], ident'[q] = ident[q], conf'[q] = conf[q],
         digest'[q] = digest[q], staged'[q] = staged[q], left'[q] = left[q]
  PROVE  HolderInv(q)'
<1>1. Certified(ident[q])' = Certified(ident[q]) /\ Inside(ident[q].cfg)' = Inside(ident[q].cfg)
  BY DEF Certified, Inside
<1>2. Expected(ident[q])' = Expected(ident[q])
  BY DEF Expected
<1> QED
  BY <1>1, <1>2, ZenonT(60) DEF HolderInv

\* Only one process is past the lock, so a step of that process leaves the
\* others outside.
LEMMA OthersOutside ==
  ASSUME TypeInv, LockInv, NEW p \in Ensurers, pc[p] \in Critical,
         NEW x, pc' = [pc EXCEPT ![p] = x]
  PROVE  /\ pc'[p] = x
         /\ \A q \in Ensurers \ {p} : pc'[q] = pc[q] /\ pc[q] \notin Critical
         /\ NoCleaner <=> pc[p] # "clean objects"
         /\ NoCleaner' <=> x # "clean objects"
<1>1. pc \in [Procs -> Resting \cup Running] /\ p \in Procs
  BY DEF TypeInv, TypeOK, Procs
<1>2. \A q \in Ensurers \ {p} : pc[q] \notin Critical
  BY DEF LockInv
<1>3. pc'[p] = x /\ \A q \in Ensurers \ {p} : pc'[q] = pc[q]
  BY <1>1 DEF Procs
<1>4. \A q \in Ensurers \ {p} : pc[q] # "clean objects"
  BY <1>2 DEF Critical, Running
<1> QED
  BY <1>2, <1>3, <1>4 DEF NoCleaner

\* Therefore only the process that steps, and the shared state, matter.
LEMMA HoldersStep ==
  ASSUME TypeInv, LockInv, NEW p \in Ensurers, pc[p] \in Critical,
         NEW x, pc' = [pc EXCEPT ![p] = x],
         HolderInv(p)'
  PROVE  \A q \in Ensurers : HolderInv(q)'
<1>1. \A q \in Ensurers \ {p} : pc'[q] \notin Critical
  BY OthersOutside
<1>2. ASSUME NEW q \in Ensurers, pc'[q] \notin Critical PROVE HolderInv(q)'
  BY <1>2 DEF HolderInv, Critical, Running, Restoring, Building, Exported
<1> QED
  BY <1>1, <1>2

LEMMA EmptyTree == ASSUME NEW o PROVE {} = {} \X {o}
OBVIOUS

LEMMA OneMorePackage ==
  ASSUME NEW S, NEW g, NEW o
  PROVE  (S \X {o}) \cup {<<g, o>>} = (S \cup {g}) \X {o}
OBVIOUS

\* The process past the lock decides alone whether a clean is in progress.
LEMMA Holder ==
  ASSUME LockInv, NEW p \in Ensurers, pc[p] \in Critical
  PROVE  NoCleaner <=> pc[p] # "clean objects"
BY DEF LockInv, NoCleaner, Critical, Running


\* Each step of the process past the lock preserves the three parts.
LEMMA HolderStep ==
  ASSUME Discipline, SoundInv, TypeInv', NEW p \in Ensurers, Ensure(p) \/ Make(p)
  PROVE  TreeInv' /\ CacheInv' /\ \A q \in Ensurers : HolderInv(q)'
<1> USE DataAssumption, ProcAssumption DEF env, tree, locals
<1>1. TypeInv /\ LockInv /\ TreeInv /\ CacheInv /\ HolderInv(p)
  BY DEF SoundInv
<1>2. /\ pc \in [Procs -> Resting \cup Running] /\ p \in Procs
      /\ pc[p] \in Critical => ident[p] \in Ids
      /\ stamp \in Configs \cup {None} /\ cache \in [Ids -> Entry]
      /\ digest \in [Procs -> Blob \cup {None}] /\ staged \in [Procs -> Blob \cup {None}]
      /\ ident \in [Procs -> Ids \cup {None}] /\ conf \in [Procs -> Configs \cup {None}]
      /\ left \in [Procs -> SUBSET EntryFiles]
      /\ p \notin Makers /\ base \in Baselines
      /\ pc[p] \in Critical => ident[p].cfg \in Configs
  BY <1>1 DEF TypeInv, TypeOK, LocalsOK, Procs, Discipline, Ids
<1>3. CASE Supersede(p)
  <2>1. pc[p] \in Critical /\ pc' = [pc EXCEPT ![p] = pc[p]]
    BY <1>2, <1>3 DEF Supersede, Goto, Exit, Critical, Running
  <2>2. /\ pc'[p] = pc[p] /\ ident[p] \in Ids
        /\ NoCleaner <=> pc[p] # "clean objects"
        /\ NoCleaner' <=> pc[p] # "clean objects"
    BY <1>1, <1>2, <2>1, OthersOutside
  <2>3. TreeInv'
    BY <1>1, <1>2, <1>3, <2>2 DEF Supersede, NoEntry, TreeInv, Inside, HolderInv, Restoring, Building, Exported, Critical, Running
  <2>4. CacheInv'
    BY <1>1, <1>2, <1>3, <2>2 DEF Supersede, NoEntry, CacheInv, HolderInv, Restoring, Building, Exported, Critical, Running
  <2>5. HolderInv(p)'
    BY <1>1, <1>2, <1>3, <2>2 DEF Supersede, NoEntry, HolderInv, Restoring, Building, Exported, Critical, Running, TreeInv, Inside, CacheInv, Certified
  <2> QED
    BY <1>1, <2>1, <2>3, <2>4, <2>5, HoldersStep
<1>4. CASE Hit(p)
  <2>1. pc[p] \in Critical /\ pc' = [pc EXCEPT ![p] = "restore"]
    BY <1>2, <1>4 DEF Hit, Goto, Exit, Critical, Running
  <2>2. /\ pc'[p] = "restore" /\ ident[p] \in Ids
        /\ NoCleaner <=> pc[p] # "clean objects"
        /\ NoCleaner' <=> "restore" # "clean objects"
    BY <1>1, <1>2, <2>1, OthersOutside
  <2>3. TreeInv'
    BY <1>1, <1>2, <1>4, <2>2 DEF Hit, Goto, TreeInv, Inside, HolderInv, Restoring, Building, Exported, Critical, Running
  <2>4. CacheInv'
    BY <1>1, <1>2, <1>4, <2>2 DEF Hit, Goto, CacheInv, HolderInv, Restoring, Building, Exported, Critical, Running
  <2>5. HolderInv(p)'
    BY <1>1, <1>2, <1>4, <2>2 DEF Hit, Goto, HolderInv, Restoring, Building, Exported, Critical, Running, TreeInv, Inside, CacheInv, Certified
  <2> QED
    BY <1>1, <2>1, <2>3, <2>4, <2>5, HoldersStep
<1>5. CASE RestoreImage(p)
  <2>1. pc[p] \in Critical /\ pc' = [pc EXCEPT ![p] = "restore stamp"]
    BY <1>2, <1>5 DEF RestoreImage, Goto, Exit, Critical, Running
  <2>2. /\ pc'[p] = "restore stamp" /\ ident[p] \in Ids
        /\ NoCleaner <=> pc[p] # "clean objects"
        /\ NoCleaner' <=> "restore stamp" # "clean objects"
    BY <1>1, <1>2, <2>1, OthersOutside
  <2>3. TreeInv'
    BY <1>1, <1>2, <1>5, <2>2 DEF RestoreImage, Goto, TreeInv, Inside, HolderInv, Restoring, Building, Exported, Critical, Running
  <2>4. CacheInv'
    BY <1>1, <1>2, <1>5, <2>2 DEF RestoreImage, Goto, CacheInv, HolderInv, Restoring, Building, Exported, Critical, Running
  <2>5. HolderInv(p)'
    BY <1>1, <1>2, <1>5, <2>2 DEF RestoreImage, Goto, HolderInv, Restoring, Building, Exported, Critical, Running, TreeInv, Inside, CacheInv, Certified
  <2> QED
    BY <1>1, <2>1, <2>3, <2>4, <2>5, HoldersStep
<1>6. CASE RestoreStamp(p)
  <2>1. pc[p] \in Critical /\ pc' = [pc EXCEPT ![p] = "restore record"]
    BY <1>2, <1>6 DEF RestoreStamp, Goto, Exit, Critical, Running
  <2>2. /\ pc'[p] = "restore record" /\ ident[p] \in Ids
        /\ NoCleaner <=> pc[p] # "clean objects"
        /\ NoCleaner' <=> "restore record" # "clean objects"
    BY <1>1, <1>2, <2>1, OthersOutside
  <2>3. TreeInv'
    <3>1. stamp # None
      BY <1>1, <2>2, <1>6, <2>2 DEF RestoreStamp, Goto, HolderInv, Restoring, CacheInv, Certified
    <3> QED
      BY <1>1, <1>2, <1>6, <2>2, <3>1 DEF RestoreStamp, Goto, TreeInv, Inside
  <2>4. CacheInv'
    BY <1>1, <1>2, <1>6, <2>2 DEF RestoreStamp, Goto, CacheInv, HolderInv, Restoring, Building, Exported, Critical, Running
  <2>5. HolderInv(p)'
    BY <1>1, <1>2, <1>6, <2>2 DEF RestoreStamp, Goto, HolderInv, Restoring, Building, Exported, Critical, Running, TreeInv, Inside, CacheInv, Certified
  <2> QED
    BY <1>1, <2>1, <2>3, <2>4, <2>5, HoldersStep
<1>7. CASE Decide(p) /\ SameConfig(ident[p].cfg)
  <2>1. pc[p] \in Critical /\ pc' = [pc EXCEPT ![p] = "stamp"]
    BY <1>2, <1>7 DEF Decide, Goto, Exit, Critical, Running
  <2>2. /\ pc'[p] = "stamp" /\ ident[p] \in Ids
        /\ NoCleaner <=> pc[p] # "clean objects"
        /\ NoCleaner' <=> "stamp" # "clean objects"
    BY <1>1, <1>2, <2>1, OthersOutside
  <2>3. TreeInv'
    BY <1>1, <1>2, <1>7, <2>2 DEF Decide, Goto, TreeInv, Inside, HolderInv, Restoring, Building, Exported, Critical, Running
  <2>4. CacheInv'
    BY <1>1, <1>2, <1>7, <2>2 DEF Decide, Goto, CacheInv, HolderInv, Restoring, Building, Exported, Critical, Running
  <2>5. HolderInv(p)'
    BY <1>1, <1>2, <1>7, <2>2 DEF Decide, Goto, HolderInv, Restoring, Building, Exported, Critical, Running, TreeInv, Inside, SameConfig, Extends, Want
  <2> QED
    BY <1>1, <2>1, <2>3, <2>4, <2>5, HoldersStep
<1>8. CASE Decide(p) /\ ~SameConfig(ident[p].cfg)
  <2>1. pc[p] \in Critical /\ pc' = [pc EXCEPT ![p] = "clean"]
    BY <1>2, <1>8 DEF Decide, Goto, Exit, Critical, Running
  <2>2. /\ pc'[p] = "clean" /\ ident[p] \in Ids
        /\ NoCleaner <=> pc[p] # "clean objects"
        /\ NoCleaner' <=> "clean" # "clean objects"
    BY <1>1, <1>2, <2>1, OthersOutside
  <2>3. TreeInv'
    BY <1>1, <1>2, <1>8, <2>2 DEF Decide, Goto, TreeInv, Inside, HolderInv, Restoring, Building, Exported, Critical, Running
  <2>4. CacheInv'
    BY <1>1, <1>2, <1>8, <2>2 DEF Decide, Goto, CacheInv, HolderInv, Restoring, Building, Exported, Critical, Running
  <2>5. HolderInv(p)'
    BY <1>1, <1>2, <1>8, <2>2 DEF Decide, Goto, HolderInv, Restoring, Building, Exported, Critical, Running, TreeInv, Inside, CacheInv, Certified
  <2> QED
    BY <1>1, <2>1, <2>3, <2>4, <2>5, HoldersStep
<1>9. CASE CleanTarget(p)
  <2>1. pc[p] \in Critical /\ pc' = [pc EXCEPT ![p] = "clean objects"]
    BY <1>2, <1>9 DEF CleanTarget, Goto, Exit, Critical, Running
  <2>2. /\ pc'[p] = "clean objects" /\ ident[p] \in Ids
        /\ NoCleaner <=> pc[p] # "clean objects"
        /\ NoCleaner' <=> "clean objects" # "clean objects"
    BY <1>1, <1>2, <2>1, OthersOutside
  <2>3. TreeInv'
    BY <1>1, <1>2, <1>9, <2>2 DEF CleanTarget, Goto, TreeInv, Inside, HolderInv, Restoring, Building, Exported, Critical, Running
  <2>4. CacheInv'
    BY <1>1, <1>2, <1>9, <2>2 DEF CleanTarget, Goto, CacheInv, HolderInv, Restoring, Building, Exported, Critical, Running
  <2>5. HolderInv(p)'
    BY <1>1, <1>2, <1>9, <2>2 DEF CleanTarget, Goto, HolderInv, Restoring, Building, Exported, Critical, Running, TreeInv, Inside, CacheInv, Certified
  <2> QED
    BY <1>1, <2>1, <2>3, <2>4, <2>5, HoldersStep
<1>10. CASE CleanObjects(p)
  <2>1. pc[p] \in Critical /\ pc' = [pc EXCEPT ![p] = "stamp"]
    BY <1>2, <1>10 DEF CleanObjects, Goto, Exit, Critical, Running
  <2>2. /\ pc'[p] = "stamp" /\ ident[p] \in Ids
        /\ NoCleaner <=> pc[p] # "clean objects"
        /\ NoCleaner' <=> "stamp" # "clean objects"
    BY <1>1, <1>2, <2>1, OthersOutside
  <2>3. TreeInv'
    BY <1>1, <1>2, <1>10, <2>2 DEF CleanObjects, Goto, TreeInv, Inside, HolderInv, Restoring, Building, Exported, Critical, Running
  <2>4. CacheInv'
    BY <1>1, <1>2, <1>10, <2>2 DEF CleanObjects, Goto, CacheInv, HolderInv, Restoring, Building, Exported, Critical, Running
  <2>5. HolderInv(p)'
    BY <1>1, <1>2, <1>10, <2>2 DEF CleanObjects, Goto, HolderInv, Restoring, Building, Exported, Critical, Running, TreeInv, Inside, CacheInv, Certified
  <2> QED
    BY <1>1, <2>1, <2>3, <2>4, <2>5, HoldersStep
<1>11. CASE WriteStamp(p)
  <2>1. pc[p] \in Critical /\ pc' = [pc EXCEPT ![p] = "make"]
    BY <1>2, <1>11 DEF WriteStamp, Goto, Exit, Critical, Running
  <2>2. /\ pc'[p] = "make" /\ ident[p] \in Ids
        /\ NoCleaner <=> pc[p] # "clean objects"
        /\ NoCleaner' <=> "make" # "clean objects"
    BY <1>1, <1>2, <2>1, OthersOutside
  <2>3. TreeInv'
    <3>1. stamp' = ident[p].cfg /\ Inside(ident[p].cfg) /\ stamp' # None
      BY <1>1, <1>2, <1>11 DEF WriteStamp, Goto, HolderInv, Critical, Running
    <3> QED
      BY <1>1, <1>2, <1>11, <2>2, <3>1 DEF WriteStamp, TreeInv, Inside
  <2>4. CacheInv'
    <3>1. stamp' # None
      BY <1>2, <1>11 DEF WriteStamp, Goto, Critical, Running
    <3> QED
      BY <1>1, <1>11, <3>1 DEF WriteStamp, CacheInv
  <2>5. HolderInv(p)'
    BY <1>1, <1>2, <1>11, <2>2 DEF WriteStamp, Goto, HolderInv, Restoring, Building, Exported, Critical, Running, TreeInv, Inside, CacheInv, Certified
  <2> QED
    BY <1>1, <2>1, <2>3, <2>4, <2>5, HoldersStep
<1>12. CASE MakeConfig(p)
  <2>1. pc[p] \in Critical /\ pc' = [pc EXCEPT ![p] = "install"]
    BY <1>2, <1>12 DEF MakeConfig, Goto, Exit, Critical, Running
  <2>2. /\ pc'[p] = "install" /\ ident[p] \in Ids
        /\ NoCleaner <=> pc[p] # "clean objects"
        /\ NoCleaner' <=> "install" # "clean objects"
    BY <1>1, <1>2, <2>1, OthersOutside
  <2>3. TreeInv'
    BY <1>1, <1>2, <1>12, <2>2 DEF MakeConfig, Goto, TreeInv, Inside, HolderInv, Restoring, Building, Exported, Critical, Running
  <2>4. CacheInv'
    BY <1>1, <1>2, <1>12, <2>2 DEF MakeConfig, Goto, CacheInv, HolderInv, Restoring, Building, Exported, Critical, Running
  <2>5. HolderInv(p)'
    BY <1>1, <1>2, <1>12, <2>2 DEF MakeConfig, Goto, HolderInv, Restoring, Building, Exported, Critical, Running, TreeInv, Inside, CacheInv, Certified
  <2> QED
    BY <1>1, <2>1, <2>3, <2>4, <2>5, HoldersStep
<1>13. ASSUME NEW g \in Packages, Install(p, g) PROVE TreeInv' /\ CacheInv' /\ \A q \in Ensurers : HolderInv(q)'
  <2>1. pc[p] \in Critical /\ pc' = [pc EXCEPT ![p] = "install"]
    BY <1>2, <1>13 DEF Install, Critical, Running
  <2>2. /\ pc'[p] = "install" /\ ident[p] \in Ids
        /\ NoCleaner <=> pc[p] # "clean objects"
        /\ NoCleaner' <=> "install" # "clean objects"
    BY <1>1, <1>2, <2>1, OthersOutside
  <2>3. TreeInv'
    <3>1. stamp = conf[p] /\ Inside(stamp) /\ stamp # None
      <4>1. pc[p] = "install" /\ pc[p] \in Building
        BY <1>13 DEF Install, Building
      <4>2. stamp = ident[p].cfg /\ ident[p].cfg = cfgfile /\ conf[p] = cfgfile
        BY <1>1, <2>1, <4>1 DEF HolderInv
      <4>3. stamp # None
        BY <1>2, <2>1, <4>2
      <4> QED
        BY <1>1, <2>2, <4>1, <4>2, <4>3 DEF TreeInv
    <3>2. target' = (stamped \X {stamp.opt}) \cup {<<g, stamp.opt>>} /\ stamped' = stamped \cup {g}
      <4>1. Parts(stamp, g) = {g}
        <5>1. stamp \in Configs /\ g \in stamp.pkgs
          BY <1>1, <1>13, <3>1 DEF Install, TypeInv, TypeOK
        <5>2. \A h \in stamp.pkgs : PartOf[h] = h
          BY <1>2, <5>1, ConfigTyped DEF Discipline
        <5> QED
          BY <5>1, <5>2 DEF Parts
      <4>2. {g} \X {stamp.opt} = {<<g, stamp.opt>>}
        OBVIOUS
      <4> QED
        BY <1>13, <3>1, <4>1, <4>2 DEF Install, Inside
    <3>3. target' = stamped' \X {stamp.opt}
      BY <3>2, OneMorePackage
    <3>4. stamped' \subseteq stamp.pkgs
      BY <1>13, <3>1, <3>2 DEF Install, Inside
    <3> QED
      BY <1>1, <1>13, <3>1, <3>3, <3>4 DEF Install, TreeInv, Inside
  <2>4. CacheInv'
    BY <1>1, <1>13 DEF Install, CacheInv
  <2>5. HolderInv(p)'
    BY <1>1, <1>2, <1>13, <2>2 DEF Install, HolderInv, Restoring, Building, Exported, Critical, Running
  <2> QED
    BY <1>1, <2>1, <2>3, <2>4, <2>5, HoldersStep
<1>14. CASE MakeImage(p)
  <2>6. /\ conf[p] = cfgfile /\ ident[p].cfg = cfgfile /\ ident[p].base = base /\ stamp = cfgfile
        /\ Inside(stamp) /\ overlay \subseteq base.files
    <3>1. pc[p] = "install" /\ pc[p] \in Critical
      BY <1>14 DEF MakeImage, Goto, Critical, Running
    <3>2. NoCleaner
      BY <1>1, <3>1, Holder
    <3> QED
      BY <1>1, <1>2, <3>1, <3>2 DEF HolderInv, TreeInv, Building
  <2>7. target = Want(ident[p].cfg) /\ overlay' = base.files
    <3>1. conf[p] \in Configs
      BY <1>1, <2>6 DEF TypeInv, TypeOK
    <3>2. \A h \in conf[p].pkgs : PartOf[h] = h
      BY <1>2, <3>1, ConfigTyped DEF Discipline
    <3>3. conf[p].pkgs \subseteq stamped
      BY <1>14, <3>2 DEF MakeImage
    <3> QED
      BY <1>14, <2>6, <3>3 DEF MakeImage, Inside, Want
  <2>1. pc[p] \in Critical /\ pc' = [pc EXCEPT ![p] = "copy"]
    BY <1>2, <1>14 DEF MakeImage, Goto, Exit, Critical, Running
  <2>2. /\ pc'[p] = "copy" /\ ident[p] \in Ids
        /\ NoCleaner <=> pc[p] # "clean objects"
        /\ NoCleaner' <=> "copy" # "clean objects"
    BY <1>1, <1>2, <2>1, OthersOutside
  <2>3. TreeInv'
    <3>1. \A b \in Baselines : overlay' \subseteq b.files
      BY <1>2, <2>7 DEF Discipline
    <3>2. stamp # None /\ UNCHANGED <<stamp, target, stamped>>
      BY <1>2, <1>14, <2>1, <2>6 DEF MakeImage
    <3> QED
      BY <2>6, <3>1, <3>2 DEF TreeInv, Inside
  <2>4. CacheInv'
    BY <1>1, <1>2, <1>14, <2>2 DEF MakeImage, Goto, CacheInv, HolderInv, Restoring, Building, Exported, Critical, Running
  <2>5. HolderInv(p)'
    <3>1. built' = Expected(ident[p])
      BY <1>14, <2>6, <2>7 DEF MakeImage, Expected
    <3> QED
      BY <1>1, <1>2, <1>14, <2>2, <3>1 DEF MakeImage, Goto, HolderInv, Restoring, Building, Exported, Critical, Running, Expected
  <2> QED
    BY <1>1, <2>1, <2>3, <2>4, <2>5, HoldersStep
<1>15. CASE CopyImage(p)
  <2>1. pc[p] \in Critical /\ pc' = [pc EXCEPT ![p] = "md5"]
    BY <1>2, <1>15 DEF CopyImage, Goto, Exit, Critical, Running
  <2>2. /\ pc'[p] = "md5" /\ ident[p] \in Ids
        /\ NoCleaner <=> pc[p] # "clean objects"
        /\ NoCleaner' <=> "md5" # "clean objects"
    BY <1>1, <1>2, <2>1, OthersOutside
  <2>3. TreeInv'
    BY <1>1, <1>2, <1>15, <2>2 DEF CopyImage, Goto, TreeInv, Inside, HolderInv, Restoring, Building, Exported, Critical, Running
  <2>4. CacheInv'
    BY <1>1, <1>2, <1>15, <2>2 DEF CopyImage, Goto, CacheInv, HolderInv, Restoring, Building, Exported, Critical, Running
  <2>5. HolderInv(p)'
    BY <1>1, <1>2, <1>15, <2>2 DEF CopyImage, Goto, HolderInv, Restoring, Building, Exported, Critical, Running, TreeInv, Inside, CacheInv, Certified
  <2> QED
    BY <1>1, <2>1, <2>3, <2>4, <2>5, HoldersStep
<1>16. CASE CopyFails(p)
  <2>1. pc[p] \in Critical /\ pc' = [pc EXCEPT ![p] = "stopped"]
    BY <1>2, <1>16 DEF CopyFails, Goto, Exit, Critical, Running
  <2>2. /\ pc'[p] = "stopped" /\ ident[p] \in Ids
        /\ NoCleaner <=> pc[p] # "clean objects"
        /\ NoCleaner' <=> "stopped" # "clean objects"
    BY <1>1, <1>2, <2>1, OthersOutside
  <2>3. TreeInv'
    BY <1>1, <1>2, <1>16, <2>2 DEF CopyFails, Exit, TreeInv, Inside, HolderInv, Restoring, Building, Exported, Critical, Running
  <2>4. CacheInv'
    BY <1>1, <1>2, <1>16, <2>2 DEF CopyFails, Exit, CacheInv, HolderInv, Restoring, Building, Exported, Critical, Running
  <2>5. HolderInv(p)'
    BY <1>1, <1>2, <1>16, <2>2 DEF CopyFails, Exit, HolderInv, Restoring, Building, Exported, Critical, Running, TreeInv, Inside, CacheInv, Certified
  <2> QED
    BY <1>1, <2>1, <2>3, <2>4, <2>5, HoldersStep
<1>17. CASE WriteLegacy(p)
  <2>1. pc[p] \in Critical /\ pc' = [pc EXCEPT ![p] = "verify"]
    BY <1>2, <1>17 DEF WriteLegacy, Goto, Exit, Critical, Running, Discipline
  <2>2. /\ pc'[p] = "verify" /\ ident[p] \in Ids
        /\ NoCleaner <=> pc[p] # "clean objects"
        /\ NoCleaner' <=> "verify" # "clean objects"
    BY <1>1, <1>2, <2>1, OthersOutside
  <2>3. TreeInv'
    <3>1. stamp # None
      BY <1>1, <1>2, <1>17 DEF WriteLegacy, HolderInv, Building, Exported, Critical, Running
    <3> QED
      BY <1>1, <1>2, <1>17, <2>2, <3>1 DEF WriteLegacy, TreeInv, Inside
  <2>4. CacheInv'
    BY <1>1, <1>2, <1>17, <2>2 DEF WriteLegacy, Goto, CacheInv, HolderInv, Restoring, Building, Exported, Critical, Running
  <2>5. HolderInv(p)'
    BY <1>1, <1>2, <1>17, <2>2 DEF WriteLegacy, Goto, HolderInv, Restoring, Building, Exported, Critical, Running, TreeInv, Inside, CacheInv, Certified
  <2> QED
    BY <1>1, <2>1, <2>3, <2>4, <2>5, HoldersStep
<1>18. CASE Verify(p)
  <2>1. pc[p] \in Critical /\ pc' = [pc EXCEPT ![p] = "stage"]
    BY <1>2, <1>18 DEF Verify, Goto, Exit, Critical, Running
  <2>2. /\ pc'[p] = "stage" /\ ident[p] \in Ids
        /\ NoCleaner <=> pc[p] # "clean objects"
        /\ NoCleaner' <=> "stage" # "clean objects"
    BY <1>1, <1>2, <2>1, OthersOutside
  <2>3. TreeInv'
    BY <1>1, <1>2, <1>18, <2>2 DEF Verify, Goto, TreeInv, Inside, HolderInv, Restoring, Building, Exported, Critical, Running
  <2>4. CacheInv'
    BY <1>1, <1>2, <1>18, <2>2 DEF Verify, Goto, CacheInv, HolderInv, Restoring, Building, Exported, Critical, Running
  <2>5. HolderInv(p)'
    BY <1>1, <1>2, <1>18, <2>2 DEF Verify, Goto, HolderInv, Restoring, Building, Exported, Critical, Running, TreeInv, Inside, CacheInv, Certified
  <2> QED
    BY <1>1, <2>1, <2>3, <2>4, <2>5, HoldersStep
<1>19. CASE Stage(p)
  <2>1. pc[p] \in Critical /\ pc' = [pc EXCEPT ![p] = "publish"]
    BY <1>2, <1>19 DEF Stage, Goto, Exit, Critical, Running
  <2>2. /\ pc'[p] = "publish" /\ ident[p] \in Ids
        /\ NoCleaner <=> pc[p] # "clean objects"
        /\ NoCleaner' <=> "publish" # "clean objects"
    BY <1>1, <1>2, <2>1, OthersOutside
  <2>3. TreeInv'
    BY <1>1, <1>2, <1>19, <2>2 DEF Stage, Goto, TreeInv, Inside, HolderInv, Restoring, Building, Exported, Critical, Running
  <2>4. CacheInv'
    BY <1>1, <1>2, <1>19, <2>2 DEF Stage, Goto, CacheInv, HolderInv, Restoring, Building, Exported, Critical, Running
  <2>5. HolderInv(p)'
    BY <1>1, <1>2, <1>19, <2>2 DEF Stage, Goto, HolderInv, Restoring, Building, Exported, Critical, Running, TreeInv, Inside, CacheInv, Certified
  <2> QED
    BY <1>1, <2>1, <2>3, <2>4, <2>5, HoldersStep
<1>20. CASE Publish(p)
  <2>1. pc[p] \in Critical /\ pc' = [pc EXCEPT ![p] = "fill"]
    BY <1>2, <1>20 DEF Publish, Goto, Exit, Critical, Running
  <2>2. /\ pc'[p] = "fill" /\ ident[p] \in Ids
        /\ NoCleaner <=> pc[p] # "clean objects"
        /\ NoCleaner' <=> "fill" # "clean objects"
    BY <1>1, <1>2, <2>1, OthersOutside
  <2>3. TreeInv'
    BY <1>1, <1>2, <1>20, <2>2 DEF Publish, Goto, EmptyDir, EntryFiles, TreeInv, Inside, HolderInv, Restoring, Building, Exported, Critical, Running
  <2>4. CacheInv'
    BY <1>1, <1>2, <1>20, <2>2 DEF Publish, Goto, EmptyDir, EntryFiles, CacheInv, HolderInv, Restoring, Building, Exported, Critical, Running
  <2>5. HolderInv(p)'
    BY <1>1, <1>2, <1>20, <2>2 DEF Publish, Goto, EmptyDir, EntryFiles, HolderInv, Restoring, Building, Exported, Critical, Running, TreeInv, Inside, CacheInv, Certified
  <2> QED
    BY <1>1, <2>1, <2>3, <2>4, <2>5, HoldersStep
<1>21. CASE RejectEntry(p)
  <2>1. pc[p] \in Critical /\ pc' = [pc EXCEPT ![p] = "integrity"]
    BY <1>2, <1>21 DEF RejectEntry, Goto, Exit, Critical, Running
  <2>2. /\ pc'[p] = "integrity" /\ ident[p] \in Ids
        /\ NoCleaner <=> pc[p] # "clean objects"
        /\ NoCleaner' <=> "integrity" # "clean objects"
    BY <1>1, <1>2, <2>1, OthersOutside
  <2>3. TreeInv'
    BY <1>1, <1>2, <1>21, <2>2 DEF RejectEntry, Exit, Resting, Ended, TreeInv, Inside, HolderInv, Restoring, Building, Exported, Critical, Running
  <2>4. CacheInv'
    BY <1>1, <1>2, <1>21, <2>2 DEF RejectEntry, Exit, Resting, Ended, CacheInv, HolderInv, Restoring, Building, Exported, Critical, Running
  <2>5. HolderInv(p)'
    BY <1>1, <1>2, <1>21, <2>2 DEF RejectEntry, Exit, Resting, Ended, HolderInv, Restoring, Building, Exported, Critical, Running, TreeInv, Inside, CacheInv, Certified
  <2> QED
    BY <1>1, <2>1, <2>3, <2>4, <2>5, HoldersStep
<1>22. CASE RejectBusyBox(p)
  <2>1. pc[p] \in Critical /\ pc' = [pc EXCEPT ![p] = "busybox"]
    BY <1>2, <1>22 DEF RejectBusyBox, Goto, Exit, Critical, Running
  <2>2. /\ pc'[p] = "busybox" /\ ident[p] \in Ids
        /\ NoCleaner <=> pc[p] # "clean objects"
        /\ NoCleaner' <=> "busybox" # "clean objects"
    BY <1>1, <1>2, <2>1, OthersOutside
  <2>3. TreeInv'
    BY <1>1, <1>2, <1>22, <2>2 DEF RejectBusyBox, Exit, Resting, Ended, TreeInv, Inside, HolderInv, Restoring, Building, Exported, Critical, Running
  <2>4. CacheInv'
    BY <1>1, <1>2, <1>22, <2>2 DEF RejectBusyBox, Exit, Resting, Ended, CacheInv, HolderInv, Restoring, Building, Exported, Critical, Running
  <2>5. HolderInv(p)'
    BY <1>1, <1>2, <1>22, <2>2 DEF RejectBusyBox, Exit, Resting, Ended, HolderInv, Restoring, Building, Exported, Critical, Running, TreeInv, Inside, CacheInv, Certified
  <2> QED
    BY <1>1, <2>1, <2>3, <2>4, <2>5, HoldersStep
<1>23. CASE RejectPublish(p)
  <2>1. pc[p] \in Critical /\ pc' = [pc EXCEPT ![p] = "exists"]
    BY <1>2, <1>23 DEF RejectPublish, Goto, Exit, Critical, Running
  <2>2. /\ pc'[p] = "exists" /\ ident[p] \in Ids
        /\ NoCleaner <=> pc[p] # "clean objects"
        /\ NoCleaner' <=> "exists" # "clean objects"
    BY <1>1, <1>2, <2>1, OthersOutside
  <2>3. TreeInv'
    BY <1>1, <1>2, <1>23, <2>2 DEF RejectPublish, Exit, Resting, Ended, TreeInv, Inside, HolderInv, Restoring, Building, Exported, Critical, Running
  <2>4. CacheInv'
    BY <1>1, <1>2, <1>23, <2>2 DEF RejectPublish, Exit, Resting, Ended, CacheInv, HolderInv, Restoring, Building, Exported, Critical, Running
  <2>5. HolderInv(p)'
    BY <1>1, <1>2, <1>23, <2>2 DEF RejectPublish, Exit, Resting, Ended, HolderInv, Restoring, Building, Exported, Critical, Running, TreeInv, Inside, CacheInv, Certified
  <2> QED
    BY <1>1, <2>1, <2>3, <2>4, <2>5, HoldersStep
<1>24. CASE RestoreRecord(p)
  <2>1. pc[p] \in Critical /\ pc' = [pc EXCEPT ![p] = "done"]
    BY <1>2, <1>24 DEF RestoreRecord, Goto, Exit, Critical, Running
  <2>2. /\ pc'[p] = "done" /\ ident[p] \in Ids
        /\ NoCleaner <=> pc[p] # "clean objects"
        /\ NoCleaner' <=> "done" # "clean objects"
    BY <1>1, <1>2, <2>1, OthersOutside
  <2>3. TreeInv'
    BY <1>1, <1>2, <1>24, <2>2 DEF RestoreRecord, Exit, TreeInv, Inside, HolderInv, Restoring, Building, Exported, Critical, Running
  <2>4. CacheInv'
    <3>1. cache[ident[p]].sha = Expected(ident[p])
      BY <1>1, <1>24, <2>2 DEF RestoreRecord, HolderInv, Restoring, Certified, CacheInv
    <3>2. outman' = [id |-> ident[p], sha |-> cache[ident[p]].sha] /\ UNCHANGED <<cache, stamp>>
      BY <1>24 DEF RestoreRecord
    <3> QED
      BY <1>1, <3>1, <3>2 DEF CacheInv
  <2>5. HolderInv(p)'
    BY <1>1, <1>2, <1>24, <2>2 DEF RestoreRecord, Exit, HolderInv, Restoring, Building, Exported, Critical, Running, TreeInv, Inside, CacheInv, Certified
  <2> QED
    BY <1>1, <2>1, <2>3, <2>4, <2>5, HoldersStep
<1>25. CASE WriteRecord(p)
  <2>1. pc[p] \in Critical /\ pc' = [pc EXCEPT ![p] = "done"]
    BY <1>2, <1>25 DEF WriteRecord, Goto, Exit, Critical, Running
  <2>2. /\ pc'[p] = "done" /\ ident[p] \in Ids
        /\ NoCleaner <=> pc[p] # "clean objects"
        /\ NoCleaner' <=> "done" # "clean objects"
    BY <1>1, <1>2, <2>1, OthersOutside
  <2>3. TreeInv'
    BY <1>1, <1>2, <1>25, <2>2 DEF WriteRecord, Exit, TreeInv, Inside, HolderInv, Restoring, Building, Exported, Critical, Running
  <2>4. CacheInv'
    BY <1>1, <1>2, <1>25, <2>2 DEF WriteRecord, Exit, CacheInv, HolderInv, Restoring, Building, Exported, Critical, Running
  <2>5. HolderInv(p)'
    BY <1>1, <1>2, <1>25, <2>2 DEF WriteRecord, Exit, HolderInv, Restoring, Building, Exported, Critical, Running, TreeInv, Inside, CacheInv, Certified
  <2> QED
    BY <1>1, <2>1, <2>3, <2>4, <2>5, HoldersStep
<1>26. ASSUME NEW f \in EntryFiles, CopyEntry(p, f) PROVE TreeInv' /\ CacheInv' /\ \A q \in Ensurers : HolderInv(q)'
  <2> DEFINE x == IF left[p] = {f} THEN "record" ELSE "fill"
  <2>1. pc[p] \in Critical /\ pc' = [pc EXCEPT ![p] = x]
    BY <1>2, <1>26 DEF CopyEntry, Critical, Running
  <2>2. /\ pc'[p] = x /\ ident[p] \in Ids
        /\ NoCleaner <=> pc[p] # "clean objects"
        /\ NoCleaner' <=> x # "clean objects"
    <3> HIDE DEF x
    <3> QED
      BY <1>1, <1>2, <2>1, OthersOutside
  <2>6. /\ pc[p] = "fill" /\ f \in left[p] /\ ~cache[ident[p]].legacy
        /\ staged[p] = Expected(ident[p]) /\ digest[p] = Expected(ident[p])
        /\ ident[p] \in Ids /\ stamp # None /\ output = Expected(ident[p])
    BY <1>1, <1>2, <1>26, <2>2 DEF CopyEntry, HolderInv, Restoring, Building, Exported, Critical, Running
  <2>7. cache'[ident[p]] = Filled(cache[ident[p]], f, staged[p], digest[p])
        /\ \A i \in Ids \ {ident[p]} : cache'[i] = cache[i]
    BY <1>2, <1>26, <2>6 DEF CopyEntry
  <2>3. TreeInv'
    BY <1>1, <1>26, <2>2, <2>6 DEF CopyEntry, TreeInv, Inside
  <2>4. CacheInv'
    <3>1. ASSUME NEW i \in Ids PROVE
            /\ cache'[i].legacy => cache'[i].dir
            /\ ~cache'[i].legacy /\ cache'[i].sha # None => cache'[i].sha = Expected(i)
            /\ ~cache'[i].legacy /\ cache'[i].img # None => cache'[i].img = Expected(i)
      BY <1>1, <2>6, <2>7 DEF Filled, CacheInv
    <3> QED
      BY <1>1, <1>26, <2>6, <3>1 DEF CopyEntry, CacheInv, Expected
  <2>5. HolderInv(p)'
    <3>1. /\ ~cache'[ident[p]].legacy
          /\ "manifest" \notin left'[p] => cache'[ident[p]].sha = Expected(ident[p])
      BY <1>1, <1>2, <1>26, <2>6, <2>7 DEF CopyEntry, Filled, HolderInv
    <3>2. x = "record" => left'[p] = {}
      BY <1>2, <1>26 DEF CopyEntry
    <3>3. x \in {"record", "fill"} /\ pc'[p] = x
      BY <2>2
    <3>4. UNCHANGED <<cfgfile, base, stamp, output, ident, conf, digest, staged>>
      BY <1>26 DEF CopyEntry
    <3>5. ident[p] = [cfg |-> cfgfile, base |-> base] /\ stamp = ident[p].cfg
      BY <1>1, <2>6 DEF HolderInv, Restoring, Building, Exported, Critical, Running
    <3> HIDE DEF x
    <3> QED
      BY <2>6, <3>1, <3>2, <3>3, <3>4, <3>5 DEF HolderInv, Restoring, Building, Exported, Expected
  <2> HIDE DEF x
  <2> QED
    BY <1>1, <2>1, <2>3, <2>4, <2>5, HoldersStep
<1> QED
  BY <1>3, <1>4, <1>5, <1>6, <1>7, <1>8, <1>9, <1>10, <1>11, <1>12, <1>13, <1>14, <1>15, <1>16, <1>17, <1>18, <1>19, <1>20, <1>21, <1>22, <1>23, <1>24, <1>25, <1>26 DEF Ensure, Make

LEMMA SoundInit == ASSUME Discipline, Init PROVE SoundInv
<1> USE DataAssumption
<1>1. TypeInv
  BY TypeInit
<1>2. \A p \in Procs : pc[p] = "idle"
  BY DEF Init
<1>3. LockInv /\ NoCleaner /\ \A p \in Ensurers : HolderInv(p)
  BY <1>2, Outside DEF LockInv, NoCleaner, Critical, Running, Procs
<1>4. PICK c \in Configs \cup {None} :
        LET i == [cfg |-> c, base |-> base] IN
        /\ legacy = c
        /\ stamped = IF c = None THEN {} ELSE c.pkgs
        /\ target = IF c = None THEN {} ELSE Want(c)
        /\ overlay = IF c = None THEN {} ELSE base.files
        /\ bbdirs = IF c = None THEN {} ELSE {base.bb}
        /\ built = IF c = None THEN None ELSE Expected(i)
        /\ output = built
        /\ cache = [j \in Ids |->
             IF c # None /\ j = i
             THEN [dir |-> TRUE, req |-> TRUE, legacy |-> TRUE, img |-> built, sha |-> built]
             ELSE NoEntry]
  BY DEF Init
<1>5. base \in Baselines /\ stamp = None /\ outman = None
  BY DEF Init
<1>6. CacheInv
  <2>1. \A i \in Ids : cache[i].legacy \/ cache[i] = NoEntry
    BY <1>4
  <2>2. \A i \in Ids : cache[i].legacy => cache[i].dir
    BY <1>4 DEF NoEntry
  <2> QED
    BY <1>5, <2>1, <2>2 DEF CacheInv, NoEntry
<1>7. TreeInv
  <2>1. \A b \in Baselines : overlay \subseteq b.files
    BY <1>4, <1>5 DEF Discipline
  <2>2. built # None => c # None
    BY <1>4
  <2> QED
    BY <1>4, <1>5, <2>1, <2>2 DEF TreeInv
<1> QED
  BY <1>1, <1>3, <1>6, <1>7 DEF SoundInv

\* Configuration and a new baseline wait until nothing runs; starting, taking
\* the lock and ending change nothing that the content of the cache rests on.
LEMMA SoundStep ==
  ASSUME Discipline, SoundInv, [Next]_vars
  PROVE  SoundInv'
<1> USE DataAssumption, ProcAssumption DEF env, tree, locals
<1>1. TypeInv /\ LockInv /\ TreeInv /\ CacheInv /\ \A p \in Ensurers : HolderInv(p)
  BY DEF SoundInv
<1>2. TypeInv' /\ LockInv'
  BY <1>1, TypeStep, LockStep
<1>3. SUFFICES TreeInv' /\ CacheInv' /\ \A p \in Ensurers : HolderInv(p)'
  BY <1>2 DEF SoundInv
<1>4. /\ pc \in [Procs -> Resting \cup Running] /\ Ensurers \subseteq Procs /\ Procs = Ensurers
      /\ ident \in [Procs -> Ids \cup {None}] /\ cfgfile \in Configs /\ base \in Baselines
  BY <1>1 DEF TypeInv, TypeOK, Procs, Discipline
<1>5. CASE UNCHANGED vars
  <2>1. TreeInv' /\ CacheInv'
    BY <1>1, <1>5 DEF vars, TreeInv, Inside, NoCleaner, CacheInv
  <2>2. ASSUME NEW p \in Ensurers PROVE HolderInv(p)'
    <3>1. HolderInv(p)
      BY <1>1
    <3> QED
      BY <1>5, <3>1, HolderKept DEF vars
  <2> QED
    BY <2>1, <2>2
<1>6. ASSUME Quiet, UNCHANGED <<pc, lock, cache, oldreq, stamp, legacy, output, outman, tree, locals>>
      PROVE  TreeInv' /\ CacheInv' /\ \A p \in Ensurers : HolderInv(p)'
  <2>1. TreeInv' /\ CacheInv'
    BY <1>1, <1>6 DEF TreeInv, Inside, NoCleaner, CacheInv
  <2>2. \A p \in Ensurers : pc'[p] \notin Critical
    BY <1>4, <1>6 DEF Quiet, Resting, Ended, Critical, Running
  <2>3. ASSUME NEW p \in Ensurers, pc'[p] \notin Critical PROVE HolderInv(p)'
    BY <2>3 DEF HolderInv, Critical, Running, Restoring, Building, Exported
  <2> QED
    BY <2>1, <2>2, <2>3
<1>7. CASE \E c \in Configs : Configure(c)
  BY <1>6, <1>7 DEF Configure, Discipline
<1>8. CASE \E b \in Baselines : EditBaseline(b)
  BY <1>6, <1>8 DEF EditBaseline, Discipline
<1>9. ASSUME NEW p \in Ensurers, Open(p)
      PROVE  TreeInv' /\ CacheInv' /\ \A q \in Ensurers : HolderInv(q)'
  <2>1. /\ pc[p] \in Resting /\ pc' = [pc EXCEPT ![p] = "lock"]
        /\ UNCHANGED <<env, lock, cache, oldreq, stamp, legacy, output, outman, tree, locals>>
    BY <1>9 DEF Open
  <2>2. NoCleaner <=> NoCleaner'
    BY <1>4, <2>1 DEF NoCleaner, Resting, Ended
  <2>3. TreeInv' /\ CacheInv'
    BY <1>1, <2>1, <2>2 DEF TreeInv, Inside, CacheInv
  <2>4. pc'[p] = "lock" /\ \A q \in Ensurers \ {p} : pc'[q] = pc[q]
    BY <1>4, <2>1
  <2>5. HolderInv(p)'
    BY <2>4 DEF HolderInv, Critical, Running, Restoring, Building, Exported
  <2>6. ASSUME NEW q \in Ensurers \ {p} PROVE HolderInv(q)'
    <3>1. HolderInv(q)
      BY <1>1
    <3> QED
      BY <2>1, <2>4, <3>1, HolderKept
  <2> QED
    BY <2>3, <2>5, <2>6
<1>10. ASSUME NEW p \in Ensurers, Acquire(p)
       PROVE  TreeInv' /\ CacheInv' /\ \A q \in Ensurers : HolderInv(q)'
  <2>1. /\ pc[p] = "lock" /\ pc' = [pc EXCEPT ![p] = "lookup"] /\ lock = None
        /\ ident' = [ident EXCEPT ![p] = [cfg |-> cfgfile, base |-> base]]
        /\ UNCHANGED <<env, cache, oldreq, stamp, legacy, output, outman, tree>>
    BY <1>10 DEF Acquire, Goto
  <2>2. \A q \in Ensurers : pc[q] \notin Critical
    BY <1>1, <2>1 DEF LockInv
  <2>3. NoCleaner <=> NoCleaner'
    BY <1>4, <2>1 DEF NoCleaner
  <2>4. TreeInv' /\ CacheInv'
    BY <1>1, <2>1, <2>3 DEF TreeInv, Inside, CacheInv
  <2>5. /\ pc'[p] = "lookup" /\ \A q \in Ensurers \ {p} : pc'[q] \notin Critical
        /\ ident'[p] = [cfg |-> cfgfile, base |-> base]
    BY <1>4, <2>1, <2>2
  <2>6. HolderInv(p)'
    BY <2>1, <2>5 DEF HolderInv, Restoring, Building, Exported
  <2>7. ASSUME NEW q \in Ensurers \ {p} PROVE HolderInv(q)'
    BY <2>5 DEF HolderInv, Critical, Running, Restoring, Building, Exported
  <2> QED
    BY <2>4, <2>6, <2>7
<1>11. CASE \E p \in Ensurers : Ensure(p)
  BY <1>2, <1>11, HolderStep
<1>12. CASE \E p \in Procs : Make(p)
  BY <1>2, <1>4, <1>12, HolderStep
<1>13. ASSUME NEW p \in Procs, Crash(p)
       PROVE  TreeInv' /\ CacheInv' /\ \A q \in Ensurers : HolderInv(q)'
  <2>1. /\ pc[p] \in Running /\ pc[p] # "clean objects" /\ pc' = [pc EXCEPT ![p] = "stopped"]
        /\ UNCHANGED <<env, cache, stamp, legacy, outman, tree>>
        /\ ident' = [ident EXCEPT ![p] = None] /\ conf' = [conf EXCEPT ![p] = None]
    BY <1>13 DEF Crash, Exit, Discipline
  <2>2. NoCleaner <=> NoCleaner'
    BY <1>4, <2>1 DEF NoCleaner
  <2>3. TreeInv' /\ CacheInv'
    BY <1>1, <2>1, <2>2 DEF TreeInv, Inside, CacheInv
  <2>4. pc'[p] = "stopped"
    BY <1>4, <2>1
  <2>5. HolderInv(p)'
    BY <2>4 DEF HolderInv, Critical, Running, Restoring, Building, Exported
  <2>6. ASSUME NEW q \in Ensurers \ {p} PROVE HolderInv(q)'
    <3>1. CASE pc[q] \in Critical
      <4>1. lock = q /\ pc[p] = "lock"
        BY <1>1, <1>4, <2>1, <2>6, <3>1 DEF LockInv, Critical
      <4>2. output' = output
        BY <1>13, <4>1 DEF Crash
      <4>3. /\ pc'[q] = pc[q] /\ ident'[q] = ident[q] /\ conf'[q] = conf[q]
            /\ digest'[q] = digest[q] /\ staged'[q] = staged[q] /\ left'[q] = left[q]
        BY <1>1, <1>4, <1>13 DEF Crash, Exit, TypeInv, TypeOK
      <4>4. HolderInv(q)
        BY <1>1
      <4> QED
        BY <2>1, <4>2, <4>3, <4>4, HolderKept
    <3>2. CASE pc[q] \notin Critical
      <4>1. pc'[q] \notin Critical
        BY <1>4, <2>1, <3>2
      <4> QED
        BY <4>1 DEF HolderInv, Critical, Running, Restoring, Building, Exported
    <3> QED
      BY <3>1, <3>2
  <2> QED
    BY <2>3, <2>5, <2>6
<1> QED
  BY <1>5, <1>7, <1>8, <1>9, <1>10, <1>11, <1>12, <1>13 DEF Next, Discipline

\* Whatever the cache certifies for an identity is the rootfs that identity
\* requests, under the serialisation docs/buildroot.md asks for, with any number
\* of invocations killed anywhere except between the two halves of a clean.
THEOREM CacheCorrect == ASSUME Discipline PROVE Spec => []CacheSound
<1>1. Init => SoundInv
  BY SoundInit
<1>2. SoundInv /\ [Next]_vars => SoundInv'
  BY SoundStep
<1>3. SoundInv => CacheSound
  BY DEF SoundInv, CacheInv, CacheSound, Certified
<1> QED
  BY <1>1, <1>2, <1>3, PTL DEF Spec

\* The manifest beside the root's output never describes another rootfs, even
\* when an interrupted restore has replaced only one of the two files.
THEOREM RecordCorrect == ASSUME Discipline PROVE Spec => []RecordTruthful
<1>1. Init => SoundInv
  BY SoundInit
<1>2. SoundInv /\ [Next]_vars => SoundInv'
  BY SoundStep
<1>3. SoundInv => RecordTruthful
  BY DEF SoundInv, CacheInv, RecordTruthful
<1> QED
  BY <1>1, <1>2, <1>3, PTL DEF Spec

\* The source stamp may be trusted to choose between extending and cleaning.
THEOREM StampCorrect == ASSUME Discipline PROVE Spec => []StampTrusted
<1>1. Init => SoundInv
  BY SoundInit
<1>2. SoundInv /\ [Next]_vars => SoundInv'
  BY SoundStep
<1>3. SoundInv => StampTrusted
  BY DEF SoundInv, TreeInv, NoCleaner, Inside, StampTrusted
<1> QED
  BY <1>1, <1>2, <1>3, PTL DEF Spec

-----------------------------------------------------------------------------
(***************************************************************************)
(* What an invocation delivers, and that the cache implements RootfsStore. *)
(***************************************************************************)

\* What the process past the lock may rely on besides HolderInv.
DeliverInv(p) ==
  LET i == ident[p] IN
  /\ pc[p] \in {"restore stamp", "restore record"} => output = Expected(i)
  /\ pc[p] = "fill" /\ "image" \notin left[p] => cache[i].img = Expected(i)
  /\ pc[p] = "record" => Certified(i)

Delivering == {"restore stamp", "restore record", "fill", "record"}

\* The manifest at the root is of a certified entry.
RecordCertified == outman # None => outman.id \in Ids /\ Certified(outman.id)

ProvideInv ==
  /\ RecordCertified
  /\ \A p \in Ensurers : DeliverInv(p)

StoreInv == SoundInv /\ EntryInv /\ ProvideInv

Recording(p) == RestoreRecord(p) \/ WriteRecord(p)

LEMMA ExpectedTyped == ASSUME NEW i \in Ids PROVE Expected(i) \in Image /\ Expected(i) # None
BY DataAssumption, ContentAssumption DEF Ids, Expected, Image, Want

\* A process that works is past the lock, and the others are not.
LEMMA Acting ==
  ASSUME TypeInv, LockInv, NEW p \in Ensurers, Ensure(p) \/ Make(p)
  PROVE  /\ pc[p] \in Critical /\ p \in Procs /\ ident[p] \in Ids
         /\ \A q \in Ensurers \ {p} : pc'[q] = pc[q] /\ pc[q] \notin Critical
<1> USE DEF Goto, Exit
<1>1. pc \in [Procs -> Resting \cup Running] /\ p \in Procs /\ Ensurers \subseteq Procs
  BY DEF TypeInv, TypeOK, Procs
<1>2. CASE Ensure(p)
  <2>1. pc[p] \in Critical
    BY <1>2 DEF Ensure, Supersede, Hit, RejectEntry, RestoreImage, RestoreStamp, RestoreRecord,
      Decide, CleanTarget, CleanObjects, WriteStamp, Verify, RejectBusyBox, Stage, Publish,
      RejectPublish, CopyEntry, WriteRecord, Critical, Running
  <2>2. \A q \in Ensurers \ {p} : pc'[q] = pc[q]
    <3>1. CASE Supersede(p) \/ Hit(p) \/ RejectEntry(p)
      BY <1>1, <3>1 DEF Supersede, Hit, RejectEntry
    <3>2. CASE RestoreImage(p) \/ RestoreStamp(p) \/ RestoreRecord(p)
      BY <1>1, <3>2 DEF RestoreImage, RestoreStamp, RestoreRecord
    <3>3. CASE Decide(p) \/ CleanTarget(p) \/ CleanObjects(p) \/ WriteStamp(p)
      BY <1>1, <3>3 DEF Decide, CleanTarget, CleanObjects, WriteStamp
    <3>4. CASE Verify(p) \/ RejectBusyBox(p) \/ Stage(p)
      BY <1>1, <3>4 DEF Verify, RejectBusyBox, Stage
    <3>5. CASE Publish(p) \/ RejectPublish(p) \/ WriteRecord(p)
      BY <1>1, <3>5 DEF Publish, RejectPublish, WriteRecord
    <3>6. CASE \E f \in EntryFiles : CopyEntry(p, f)
      BY <1>1, <3>6 DEF CopyEntry
    <3> QED
      BY <1>2, <3>1, <3>2, <3>3, <3>4, <3>5, <3>6 DEF Ensure
  <2> QED
    BY <1>1, <2>1, <2>2 DEF LockInv, TypeInv, LocalsOK
<1>3. CASE Make(p)
  <2>1. pc[p] \in Critical
    BY <1>3 DEF Make, MakeConfig, Install, MakeImage, CopyImage, CopyFails, WriteLegacy,
      Critical, Running
  <2>2. \A q \in Ensurers \ {p} : pc'[q] = pc[q]
    <3>1. CASE MakeConfig(p) \/ MakeImage(p) \/ CopyImage(p) \/ CopyFails(p)
      BY <1>1, <3>1 DEF MakeConfig, MakeImage, CopyImage, CopyFails
    <3>2. CASE (\E g \in Packages : Install(p, g)) \/ WriteLegacy(p)
      BY <1>1, <3>2 DEF Install, WriteLegacy
    <3> QED
      BY <1>3, <3>1, <3>2 DEF Make
  <2> QED
    BY <1>1, <2>1, <2>2 DEF LockInv, TypeInv, LocalsOK
<1> QED
  BY <1>2, <1>3

\* Only the two steps that write the manifest end an invocation with success.
LEMMA Recorders ==
  ASSUME Discipline, TypeInv, [Next]_vars, \A p \in Ensurers : ~Recording(p)
  PROVE  outman' = outman /\ \A q \in Ensurers : pc'[q] = "done" => pc[q] = "done"
<1> DEFINE Goal == outman' = outman /\ \A q \in Ensurers : pc'[q] = "done" => pc[q] = "done"
<1> USE ProcAssumption DEF Goto, Exit
<1>1. pc \in [Procs -> Resting \cup Running] /\ Procs = Ensurers /\ Makers = {}
  BY DEF TypeInv, TypeOK, Procs, Discipline
<1>2. CASE UNCHANGED vars
  BY <1>2 DEF vars
<1>3. CASE \E c \in Configs : Configure(c)
  BY <1>3 DEF Configure
<1>4. CASE \E b \in Baselines : EditBaseline(b)
  BY <1>4 DEF EditBaseline
<1>5. ASSUME NEW p \in Ensurers, Open(p) \/ Acquire(p) PROVE Goal
  BY <1>1, <1>5 DEF Open, Acquire
<1>6. ASSUME NEW p \in Ensurers, Ensure(p) PROVE Goal
  <2>1. CASE Supersede(p) \/ Hit(p) \/ RejectEntry(p)
    BY <1>1, <2>1 DEF Supersede, Hit, RejectEntry
  <2>2. CASE RestoreImage(p) \/ RestoreStamp(p)
    BY <1>1, <2>2 DEF RestoreImage, RestoreStamp
  <2>3. CASE Decide(p) \/ CleanTarget(p) \/ CleanObjects(p) \/ WriteStamp(p)
    BY <1>1, <2>3 DEF Decide, CleanTarget, CleanObjects, WriteStamp
  <2>4. CASE Verify(p) \/ RejectBusyBox(p) \/ Stage(p)
    BY <1>1, <2>4 DEF Verify, RejectBusyBox, Stage
  <2>5. CASE Publish(p) \/ RejectPublish(p)
    BY <1>1, <2>5 DEF Publish, RejectPublish
  <2>6. CASE \E f \in EntryFiles : CopyEntry(p, f)
    BY <1>1, <2>6 DEF CopyEntry
  <2> QED
    BY <1>6, <2>1, <2>2, <2>3, <2>4, <2>5, <2>6 DEF Ensure, Recording
<1>7. ASSUME NEW p \in Ensurers, Make(p) PROVE Goal
  <2>1. CASE MakeConfig(p) \/ MakeImage(p) \/ CopyImage(p) \/ CopyFails(p)
    BY <1>1, <2>1 DEF MakeConfig, MakeImage, CopyImage, CopyFails
  <2>2. CASE (\E g \in Packages : Install(p, g)) \/ WriteLegacy(p)
    BY <1>1, <2>2 DEF Install, WriteLegacy
  <2> QED
    BY <1>7, <2>1, <2>2 DEF Make
<1>8. ASSUME NEW p \in Ensurers, Crash(p) PROVE Goal
  BY <1>1, <1>8 DEF Crash
<1> QED
  BY <1>1, <1>2, <1>3, <1>4, <1>5, <1>6, <1>7, <1>8 DEF Next

LEMMA DeliverIdle ==
  ASSUME NEW q \in Ensurers, pc'[q] \notin Delivering
  PROVE  DeliverInv(q)'
BY DEF DeliverInv, Delivering

\* The step of the process that holds the lock.
LEMMA DeliverActing ==
  ASSUME SoundInv, SoundInv', ProvideInv, NEW p \in Ensurers, Ensure(p) \/ Make(p)
  PROVE  DeliverInv(p)'
<1> DEFINE i == ident[p]
<1> USE DEF Goto, Exit
<1>1. /\ pc \in [Procs -> Resting \cup Running] /\ p \in Procs /\ i \in Ids
      /\ cache \in [Ids -> Entry] /\ left \in [Procs -> SUBSET EntryFiles]
      /\ Expected(i) # None
    BY Acting, ExpectedTyped DEF SoundInv, TypeInv, TypeOK
<1>2. HolderInv(p) /\ HolderInv(p)' /\ DeliverInv(p) /\ CacheInv
  BY DEF SoundInv, ProvideInv
<1>3. CASE RestoreImage(p)
  <2>1. /\ pc[p] = "restore" /\ output' = cache[i].img /\ ident' = ident
        /\ pc'[p] = "restore stamp"
    BY <1>1, <1>3 DEF RestoreImage, locals
  <2>2. Certified(i)
    BY <1>2, <2>1 DEF HolderInv, Restoring
  <2>3. cache[i].img = Expected(i)
    BY <1>1, <1>2, <2>2 DEF Certified, CacheInv
  <2> QED
    BY <2>1, <2>3 DEF DeliverInv, Expected
<1>4. CASE RestoreStamp(p)
  <2>1. /\ pc[p] = "restore stamp" /\ output' = output /\ ident' = ident
        /\ pc'[p] = "restore record"
    BY <1>1, <1>4 DEF RestoreStamp, locals
  <2> QED
    BY <1>2, <2>1 DEF DeliverInv, Expected
<1>5. CASE Publish(p)
  <2>1. pc'[p] = "fill" /\ left'[p] = EntryFiles
    BY <1>1, <1>5 DEF Publish
  <2> QED
    BY <2>1 DEF DeliverInv, EntryFiles
<1>6. ASSUME NEW f \in EntryFiles, CopyEntry(p, f) PROVE DeliverInv(p)'
  <2>1. /\ pc[p] = "fill" /\ f \in left[p] /\ ident' = ident
        /\ cache'[i] = Filled(cache[i], f, staged[p], digest[p])
        /\ left'[p] = left[p] \ {f}
        /\ pc'[p] = IF left[p] = {f} THEN "record" ELSE "fill"
    BY <1>1, <1>6 DEF CopyEntry
  <2>2. staged[p] = Expected(i)
    BY <1>2, <2>1 DEF HolderInv
  <2>3. "image" \notin left'[p] => cache'[i].img = Expected(i)
    BY <1>2, <2>1, <2>2 DEF DeliverInv, Filled
  <2>4. pc'[p] = "record" => cache'[i].sha = Expected(i) /\ cache'[i].img = Expected(i)
    <3>1. pc'[p] = "record" => left'[p] = {}
      BY <2>1
    <3>2. pc'[p] = "record" => cache'[i].sha = Expected(i)
      BY <1>2, <2>1 DEF HolderInv, Expected
    <3> QED
      BY <2>3, <3>1, <3>2
  <2>5. ~cache'[i].legacy /\ pc'[p] \in {"record", "fill"}
    BY <2>1 DEF Filled
  <2> HIDE DEF i
  <2>6. ident'[p] = i /\ Expected(i)' = Expected(i)
    BY <2>1 DEF i, Expected
  <2> QED
    BY <1>1, <2>3, <2>4, <2>5, <2>6 DEF DeliverInv, Certified
<1>7. CASE Supersede(p) \/ Hit(p) \/ RejectEntry(p) \/ RestoreRecord(p)
  BY <1>1, <1>7, DeliverIdle DEF Supersede, Hit, RejectEntry, RestoreRecord, Delivering
<1>8. CASE Decide(p) \/ CleanTarget(p) \/ CleanObjects(p) \/ WriteStamp(p)
  BY <1>1, <1>8, DeliverIdle DEF Decide, CleanTarget, CleanObjects, WriteStamp, Delivering
<1>9. CASE Verify(p) \/ RejectBusyBox(p) \/ Stage(p) \/ RejectPublish(p) \/ WriteRecord(p)
  BY <1>1, <1>9, DeliverIdle DEF Verify, RejectBusyBox, Stage, RejectPublish, WriteRecord, Delivering
<1>10. CASE Make(p)
  <2>1. CASE MakeConfig(p) \/ MakeImage(p) \/ CopyImage(p) \/ CopyFails(p)
    BY <1>1, <2>1, DeliverIdle DEF MakeConfig, MakeImage, CopyImage, CopyFails, Delivering
  <2>2. CASE (\E g \in Packages : Install(p, g)) \/ WriteLegacy(p)
    BY <1>1, <2>2, DeliverIdle DEF Install, WriteLegacy, Delivering
  <2> QED
    BY <1>10, <2>1, <2>2 DEF Make
<1> QED
  BY <1>3, <1>4, <1>5, <1>6, <1>7, <1>8, <1>9, <1>10 DEF Ensure

LEMMA DeliverStep ==
  ASSUME Discipline, SoundInv, SoundInv', ProvideInv, [Next]_vars, NEW q \in Ensurers
  PROVE  DeliverInv(q)'
<1> USE DEF Goto, Exit
<1>1. /\ TypeInv /\ LockInv /\ DeliverInv(q) /\ q \in Procs /\ Procs = Ensurers
      /\ pc \in [Procs -> Resting \cup Running] /\ ident \in [Procs -> Ids \cup {None}]
      /\ left \in [Procs -> SUBSET EntryFiles]
  BY DEF SoundInv, ProvideInv, TypeInv, TypeOK, Procs, Discipline
<1>2. ASSUME output' = output, cache' = cache,
             pc'[q] = pc[q], ident'[q] = ident[q], left'[q] = left[q]
      PROVE  DeliverInv(q)'
  <2>1. Expected(ident[q])' = Expected(ident[q]) /\ Certified(ident[q])' = Certified(ident[q])
    BY <1>2 DEF Expected, Certified
  <2> QED
    BY <1>1, <1>2, <2>1 DEF DeliverInv
<1>3. CASE UNCHANGED vars
  BY <1>2, <1>3 DEF vars, locals
<1>4. CASE (\E c \in Configs : Configure(c)) \/ \E b \in Baselines : EditBaseline(b)
  BY <1>2, <1>4 DEF Configure, EditBaseline, locals
<1>5. ASSUME NEW p \in Ensurers, Open(p) PROVE DeliverInv(q)'
  <2>1. CASE p = q
    BY <1>1, <1>5, <2>1, DeliverIdle DEF Open, Delivering
  <2>2. CASE p # q
    BY <1>1, <1>2, <1>5, <2>2 DEF Open, locals
  <2> QED
    BY <2>1, <2>2
<1>6. ASSUME NEW p \in Ensurers, Acquire(p) PROVE DeliverInv(q)'
  <2>1. CASE p = q
    BY <1>1, <1>6, <2>1, DeliverIdle DEF Acquire, Delivering
  <2>2. CASE p # q
    BY <1>1, <1>2, <1>6, <2>2 DEF Acquire
  <2> QED
    BY <2>1, <2>2
<1>7. ASSUME NEW p \in Ensurers, Ensure(p) \/ Make(p) PROVE DeliverInv(q)'
  <2>1. CASE p = q
    BY <1>7, <2>1, DeliverActing
  <2>2. CASE p # q
    <3>1. pc'[q] \notin Critical
      BY <1>1, <1>7, <2>2, Acting
    <3> QED
      BY <3>1, DeliverIdle DEF Delivering, Critical, Running
  <2> QED
    BY <2>1, <2>2
<1>8. ASSUME NEW p \in Ensurers, Crash(p) PROVE DeliverInv(q)'
  <2>1. pc' = [pc EXCEPT ![p] = "stopped"] /\ pc[p] \in Running
    BY <1>8 DEF Crash
  <2>2. CASE p = q
    BY <1>1, <2>1, <2>2, DeliverIdle DEF Delivering
  <2>3. CASE p # q /\ pc[q] \notin Critical
    BY <1>1, <2>1, <2>3, DeliverIdle DEF Delivering, Critical, Running
  <2>4. CASE p # q /\ pc[q] \in Critical
    <3>1. pc[p] = "lock"
      BY <1>1, <2>1, <2>4 DEF LockInv, Critical
    <3> QED
      BY <1>1, <1>2, <1>8, <2>4, <3>1 DEF Crash
  <2> QED
    BY <2>2, <2>3, <2>4
<1> QED
  BY <1>1, <1>3, <1>4, <1>5, <1>6, <1>7, <1>8 DEF Next, Discipline

\* The step that writes the manifest, and what it finds at the root.
LEMMA RecordingStep ==
  ASSUME SoundInv, ProvideInv, NEW p \in Ensurers, Recording(p)
  PROVE  /\ ident[p] \in Ids /\ Certified(ident[p]) /\ cache' = cache
         /\ output' = output /\ output = Expected(ident[p])
         /\ outman' = [id |-> ident[p], sha |-> output]
         /\ \A q \in Ensurers \ {p} : pc'[q] = pc[q]
<1>1. pc[p] \in {"restore record", "record"} /\ (Ensure(p) \/ Make(p))
  BY DEF Recording, RestoreRecord, WriteRecord, Ensure
<1>2. ident[p] \in Ids /\ \A q \in Ensurers \ {p} : pc'[q] = pc[q]
  BY <1>1, Acting DEF SoundInv
<1>3. HolderInv(p) /\ DeliverInv(p) /\ CacheInv
  BY DEF SoundInv, ProvideInv
<1>4. Certified(ident[p]) /\ output = Expected(ident[p])
  BY <1>1, <1>3 DEF HolderInv, DeliverInv, Restoring, Exported
<1>5. cache[ident[p]].sha = Expected(ident[p])
  BY <1>2, <1>3, <1>4 DEF CacheInv, Certified
<1> QED
  BY <1>2, <1>4, <1>5 DEF Recording, RestoreRecord, WriteRecord

LEMMA StoreStep == ASSUME Discipline, StoreInv, [Next]_vars PROVE StoreInv'
<1>1. SoundInv /\ TypeInv /\ LockInv /\ EntryInv /\ ProvideInv
  BY DEF StoreInv, SoundInv
<1>2. SoundInv' /\ EntryInv'
  BY <1>1, SoundStep, EntryStep
<1>3. RecordCertified'
  <2>1. CASE outman' = outman
    <3>1. \A i \in Ids : Certified(i) => Certified(i)'
      BY <1>1, EntryCertified
    <3> QED
      BY <1>1, <2>1, <3>1 DEF ProvideInv, RecordCertified, Certified
  <2>2. ASSUME NEW p \in Ensurers, Recording(p) PROVE RecordCertified'
    <3>1. outman'.id = ident[p] /\ ident[p] \in Ids /\ Certified(ident[p]) /\ cache' = cache
      BY <1>1, <2>2, RecordingStep
    <3> QED
      BY <3>1 DEF RecordCertified, Certified
  <2> QED
    BY <1>1, <2>1, <2>2, Recorders
<1> QED
  BY <1>1, <1>2, <1>3, DeliverStep DEF StoreInv, ProvideInv

LEMMA StoreInit == ASSUME Discipline, Init PROVE StoreInv
<1>1. \A p \in Ensurers : pc[p] = "idle"
  BY DEF Init, Procs
<1>2. ProvideInv
  BY <1>1 DEF Init, ProvideInv, RecordCertified, DeliverInv
<1> QED
  BY <1>2, SoundInit, EntryInit DEF StoreInv

\* An invocation that succeeds leaves at the root the rootfs it was asked for,
\* and beside it the manifest that certifies it, for any number of invocations.
THEOREM DeliveryCorrect == ASSUME Discipline PROVE Spec => Delivered
<1>1. Init => StoreInv
  BY StoreInit
<1>2. StoreInv /\ [Next]_vars => StoreInv'
  BY StoreStep
<1>3. ASSUME StoreInv, [Next]_vars, NEW p \in Ensurers, pc[p] # "done", pc'[p] = "done"
      PROVE  output' = Expected(ident[p]) /\ outman' = [id |-> ident[p], sha |-> output']
  <2>1. SoundInv /\ ProvideInv /\ TypeInv
    BY <1>3 DEF StoreInv, SoundInv
  <2>2. PICK q \in Ensurers : Recording(q)
    BY <1>3, <2>1, Recorders
  <2>3. p = q
    BY <1>3, <2>1, <2>2, RecordingStep
  <2> QED
    BY <2>1, <2>2, <2>3, RecordingStep
<1>4. StoreInv /\ [Next]_vars =>
        [\A p \in Ensurers : pc[p] # "done" /\ pc'[p] = "done" =>
           output' = Expected(ident[p]) /\ outman' = [id |-> ident[p], sha |-> output']]_vars
  BY <1>3
<1> QED
  BY <1>1, <1>2, <1>4, PTL DEF Spec, Delivered

-----------------------------------------------------------------------------
\* The state of the abstract store, as Store is instantiated with.
StoreMap == [i \in Ids |-> IF Certified(i) THEN cache[i].img ELSE None]

Accepted == outman # None /\ outman.sha = output

RootMap == IF Accepted THEN [id |-> outman.id, img |-> output] ELSE None

\* A step that certifies nothing new puts a certified rootfs at the root, or
\* withdraws what was there.
LEMMA SameStore ==
  ASSUME StoreInv', \A i \in Ids : Certified(i)' = Certified(i),
         \A i \in Ids : Certified(i) => cache'[i].img = cache[i].img
  PROVE  Store!Next
<1>1. StoreMap' = StoreMap
  BY DEF StoreMap, Certified
<1>2. CASE ~Accepted'
  <2>1. RootMap' = None
    BY <1>2 DEF RootMap
  <2> QED
    BY <1>1, <2>1 DEF Store!Next, Store!Withdraw, StoreMap, RootMap, Accepted
<1>3. CASE Accepted'
  <2>0. PICK i \in Ids : i = outman'.id
    BY <1>3 DEF StoreInv, ProvideInv, RecordCertified, Accepted
  <2>1. Certified(i)
    BY <1>3, <2>0 DEF StoreInv, ProvideInv, RecordCertified, Accepted
  <2>2. output' = Expected(i) /\ cache'[i].img = Expected(i) /\ cache[i].img = Expected(i)
    BY <1>3, <2>0, <2>1 DEF StoreInv, SoundInv, CacheInv, Accepted, Certified, Expected
  <2>3. StoreMap[i] = Expected(i) /\ RootMap' = [id |-> i, img |-> Expected(i)]
    BY <1>3, <2>0, <2>1, <2>2 DEF StoreMap, RootMap, Accepted
  <2>4. Expected(i) # None
    BY ExpectedTyped
  <2>5. Store!Provide(i)
    BY <1>1, <2>3, <2>4 DEF Store!Provide, StoreMap, RootMap, Accepted
  <2> QED
    BY <2>5 DEF Store!Next
<1> QED
  BY <1>2, <1>3

\* Only copytree certifies an entry, the one it fills: the store publishes it,
\* and what is at the root does not change.
LEMMA NewEntry ==
  ASSUME StoreInv, StoreInv', [Next]_vars, NEW i \in Ids, ~Certified(i), Certified(i)'
  PROVE  Store!Next
<1>1. TypeInv /\ LockInv /\ EntryInv /\ cache \in [Ids -> Entry]
  BY DEF StoreInv, SoundInv, TypeInv, TypeOK
<1>2. ~CacheKept
  BY DEF CacheKept, Certified
<1>3. PICK p \in Ensurers : CacheWrite(p)
  BY <1>1, <1>2, CacheWriters
<1>4. ident[p] \in Ids
  BY <1>1, <1>3, WriterAlone
<1>5. cache' # [cache EXCEPT ![ident[p]] = NoEntry] /\ cache' # [cache EXCEPT ![ident[p]] = EmptyDir]
  BY <1>1, <1>4 DEF Certified, NoEntry, EmptyDir
<1>6. PICK f \in EntryFiles : CopyEntry(p, f)
  BY <1>3, <1>5 DEF CacheWrite, Supersede, Publish
<1>7. /\ \A j \in Ids \ {ident[p]} : cache'[j] = cache[j]
      /\ cache' \in [Ids -> Entry]
      /\ output' = output /\ outman' = outman
  BY <1>1, <1>4, <1>6 DEF CopyEntry, StoreInv, SoundInv, TypeInv, TypeOK
<1>8. \A j \in Ids \ {i} : cache'[j] = cache[j]
  BY <1>7 DEF Certified
<1>9. cache'[i].img = Expected(i)
  BY DEF StoreInv, SoundInv, CacheInv, Certified, Expected
<1>10. StoreMap[i] = None /\ StoreMap' = [StoreMap EXCEPT ![i] = Expected(i)]
  BY <1>8, <1>9 DEF StoreMap, Certified
<1>11. RootMap' = RootMap
  BY <1>7 DEF RootMap, Accepted
<1>12. Store!Publish(i)
  BY <1>10, <1>11 DEF Store!Publish, StoreMap, RootMap, Accepted
<1> QED
  BY <1>12 DEF Store!Next

\* The cache implements the abstract store: for package builds it is an
\* immutable map from identities to exactly what they request, whatever the
\* invocations do in between and wherever they are killed.
THEOREM CacheImplementsStore == ASSUME Discipline PROVE Spec => ImplementsStore
<1>1. Init => StoreInv
  BY StoreInit
<1>2. StoreInv /\ [Next]_vars => StoreInv'
  BY StoreStep
<1>3. Init => Store!Init
  <2> SUFFICES ASSUME Init PROVE Store!Init
    OBVIOUS
  <2>1. \A i \in Ids : ~Certified(i)
    BY DEF Init, Certified, NoEntry
  <2>2. outman = None
    BY DEF Init
  <2> QED
    BY <2>1, <2>2 DEF Store!Init
<1>4. ASSUME StoreInv, StoreInv', [Next]_vars PROVE Store!Next
  <2>1. TypeInv /\ LockInv /\ EntryInv
    BY <1>4 DEF StoreInv, SoundInv
  <2>2. \A i \in Ids : Certified(i) => Certified(i)' /\ cache'[i].img = cache[i].img
    BY <1>4, <2>1, EntryCertified
  <2>3. CASE \A i \in Ids : Certified(i)' => Certified(i)
    BY <1>4, <2>2, <2>3, SameStore DEF Certified
  <2>4. CASE \E i \in Ids : Certified(i)' /\ ~Certified(i)
    BY <1>4, <2>4, NewEntry
  <2> QED
    BY <2>3, <2>4
<1>5. StoreInv /\ StoreInv' /\ [Next]_vars => [Store!Next]_<<StoreMap, RootMap>>
  BY <1>4
<1> QED
  BY <1>1, <1>2, <1>3, <1>5, PTL DEF Spec, ImplementsStore, Store!Spec, StoreMap, RootMap, Accepted

-----------------------------------------------------------------------------
(***************************************************************************)
(* No invocation is refused, when none is killed while it fills an entry.  *)
(***************************************************************************)

\* Between the lookup that found no entry and the copytree that creates it.
Ahead == {"clean", "clean objects", "stamp", "make", "install", "copy", "md5",
          "verify", "stage", "publish"}

Filling(i) == \E p \in Ensurers : pc[p] = "fill" /\ ident[p] = i

\* An entry that is there is legacy, or certified, or being filled: nobody finds
\* half of one, and who builds one finds its place free.
WholeInv ==
  /\ \A i \in Ids : cache[i].legacy => cache[i].sha # None
  /\ \A i \in Ids : cache[i].dir /\ ~cache[i].legacy => Certified(i) \/ Filling(i)
  /\ \A p \in Ensurers : pc[p] \in Ahead => ~cache[ident[p]].dir
  /\ NeverRefused

LEMMA WholeInit == ASSUME Discipline, Init PROVE WholeInv
<1>1. \A p \in Procs : pc[p] = "idle"
  BY DEF Init
<1>2. PICK c \in Configs \cup {None} : LET i == [cfg |-> c, base |-> base] IN
        /\ built = IF c = None THEN None ELSE Expected(i)
        /\ cache = [j \in Ids |->
             IF c # None /\ j = i
             THEN [dir |-> TRUE, req |-> TRUE, legacy |-> TRUE, img |-> built, sha |-> built]
             ELSE NoEntry]
  BY DEF Init
<1>3. ASSUME NEW j \in Ids
      PROVE  (cache[j].legacy => cache[j].sha # None) /\ (cache[j].dir => cache[j].legacy)
  <2>1. CASE c # None /\ j = [cfg |-> c, base |-> base]
    <3>1. cache[j].legacy /\ cache[j].sha = built /\ built = Expected(j)
      BY <1>2, <2>1
    <3> QED
      BY <3>1, ExpectedTyped
  <2>2. CASE ~(c # None /\ j = [cfg |-> c, base |-> base])
    BY <1>2, <2>2 DEF NoEntry
  <2> QED
    BY <2>1, <2>2
<1> QED
  BY <1>1, <1>3 DEF WholeInv, NeverRefused, Ahead, Procs

\* A step that leaves the cache alone, of a process that fills nothing.
LEMMA WholeKept ==
  ASSUME Discipline, WholeInv, cache' = cache, NEW p \in Ensurers, pc[p] # "fill",
         \A q \in Ensurers \ {p} : pc'[q] = pc[q] /\ ident'[q] = ident[q],
         pc'[p] \in Ahead => ~cache[ident'[p]].dir,
         pc'[p] \notin {"integrity", "exists"}
  PROVE  WholeInv'
<1>1. ASSUME NEW i \in Ids, Filling(i) PROVE Filling(i)'
  BY <1>1 DEF Filling
<1>2. \A i \in Ids : Certified(i) => Certified(i)'
  BY DEF Certified
<1>3. \A i \in Ids : cache'[i].dir /\ ~cache'[i].legacy => Certified(i)' \/ Filling(i)'
  BY <1>1, <1>2 DEF WholeInv
<1>4. \A q \in Ensurers : pc'[q] \in Ahead => ~cache'[ident'[q]].dir
  BY DEF WholeInv
<1>5. NeverRefused'
  BY DEF WholeInv, NeverRefused, Procs, Discipline
<1> QED
  BY <1>3, <1>4, <1>5 DEF WholeInv

\* The step of the process that holds the lock.
LEMMA WholeActing ==
  ASSUME Discipline, StoreInv, StoreInv', WholeInv, NEW p \in Ensurers, Ensure(p) \/ Make(p)
  PROVE  WholeInv'
<1> USE DEF Goto, Exit
<1>0. PICK i \in Ids : i = ident[p]
  BY Acting DEF StoreInv, SoundInv
<1>1. /\ pc \in [Procs -> Resting \cup Running] /\ ident \in [Procs -> Ids \cup {None}]
      /\ p \in Procs /\ Procs = Ensurers /\ cache \in [Ids -> Entry]
      /\ left \in [Procs -> SUBSET EntryFiles]
  BY Acting DEF StoreInv, SoundInv, TypeInv, TypeOK, Procs, Discipline
<1>2. /\ \A q \in Ensurers \ {p} : pc'[q] = pc[q] /\ pc[q] \notin Critical
      /\ pc[p] \in Critical
  BY Acting DEF StoreInv, SoundInv
<1>3. \A q \in Ensurers \ {p} : pc'[q] # "fill" /\ pc'[q] \notin Ahead
  BY <1>2 DEF Critical, Running, Ahead
<1>4. EntryInv /\ HolderInv(p) /\ DeliverInv(p)'
  BY DEF StoreInv, SoundInv, ProvideInv
\* With no entry to certify, the lookup finds no directory, and no digest.
<1>5. pc[p] = "lookup" /\ ~cache[i].legacy /\ ~Certified(i) => ~cache[i].dir /\ cache[i].sha = None
  <2>1. pc[p] = "lookup" => ~Filling(i)
    BY <1>0, <1>2 DEF Filling, Critical, Running
  <2> QED
    BY <1>1, <1>4, <2>1 DEF WholeInv, EntryInv
<1>6. ASSUME cache' = cache, pc[p] # "fill", \A q \in Ensurers \ {p} : ident'[q] = ident[q],
             pc'[p] \in Ahead => ident'[p] = i /\ ~cache[i].dir,
             pc'[p] \notin {"integrity", "exists"}
      PROVE  WholeInv'
  BY <1>2, <1>6, WholeKept
\* A step that writes the entry at i alone.
<1>7. ASSUME \A j \in Ids \ {i} : cache'[j] = cache[j], pc'[p] \notin Ahead,
             pc'[p] \notin {"integrity", "exists"},
             cache'[i].legacy => cache'[i].sha # None,
             cache'[i].dir /\ ~cache'[i].legacy => Certified(i)' \/ Filling(i)'
      PROVE  WholeInv'
  <2>1. ASSUME NEW j \in Ids \ {i}, cache'[j].dir, ~cache'[j].legacy PROVE Certified(j)'
    <3>1. ~Filling(j)
      BY <1>0, <1>2, <2>1 DEF Filling, Critical, Running
    <3> QED
      BY <1>7, <2>1, <3>1 DEF WholeInv, Certified
  <2>2. \A j \in Ids : cache'[j].legacy => cache'[j].sha # None
    BY <1>7 DEF WholeInv
  <2>3. \A j \in Ids : cache'[j].dir /\ ~cache'[j].legacy => Certified(j)' \/ Filling(j)'
    BY <1>7, <2>1
  <2>4. NeverRefused'
    BY <1>1, <1>2, <1>7 DEF WholeInv, NeverRefused
  <2> QED
    BY <1>3, <1>7, <2>2, <2>3, <2>4 DEF WholeInv
<1>8. CASE Supersede(p)
  <2>1. /\ pc'[p] = "lookup" /\ cache'[i] = NoEntry
        /\ \A j \in Ids \ {i} : cache'[j] = cache[j]
    BY <1>0, <1>1, <1>8 DEF Supersede
  <2> QED
    BY <1>7, <2>1 DEF NoEntry, Ahead
<1>9. CASE Hit(p)
  BY <1>1, <1>6, <1>9 DEF Hit, locals, Ahead
<1>10. CASE RejectEntry(p)
  BY <1>0, <1>5, <1>10 DEF RejectEntry, Certified
<1>11. CASE RestoreImage(p) \/ RestoreStamp(p)
  BY <1>1, <1>6, <1>11 DEF RestoreImage, RestoreStamp, locals, Ahead
<1>12. CASE RestoreRecord(p) \/ WriteRecord(p)
  BY <1>1, <1>6, <1>12 DEF RestoreRecord, WriteRecord, Ahead
<1>13. CASE Decide(p)
  <2>1. pc[p] = "lookup" /\ cache[i].sha = None /\ cache' = cache /\ ident' = ident
        /\ pc'[p] \in {"stamp", "clean"}
    BY <1>0, <1>1, <1>13 DEF Decide, locals
  <2>2. ~cache[i].dir
    BY <1>1, <1>5, <2>1 DEF WholeInv, Certified
  <2> QED
    BY <1>0, <1>1, <1>6, <2>1, <2>2
<1>14. pc[p] \in Ahead => ~cache[i].dir
  BY <1>0 DEF WholeInv
<1>15. CASE CleanTarget(p) \/ CleanObjects(p) \/ WriteStamp(p)
  BY <1>0, <1>1, <1>6, <1>14, <1>15 DEF CleanTarget, CleanObjects, WriteStamp, locals, Ahead
<1>16. CASE Verify(p) \/ Stage(p)
  BY <1>0, <1>1, <1>6, <1>14, <1>16 DEF Verify, Stage, Ahead
<1>17. CASE RejectBusyBox(p)
  BY <1>1, <1>6, <1>17 DEF RejectBusyBox, Ahead
<1>18. CASE RejectPublish(p)
  BY <1>0, <1>14, <1>18 DEF RejectPublish, Ahead
<1>19. CASE Publish(p)
  <2>1. /\ pc'[p] = "fill" /\ ident'[p] = i /\ cache'[i] = EmptyDir
        /\ \A j \in Ids \ {i} : cache'[j] = cache[j]
    BY <1>0, <1>1, <1>19 DEF Publish
  <2>2. Filling(i)'
    BY <2>1 DEF Filling
  <2> QED
    BY <1>7, <2>1, <2>2 DEF EmptyDir, Ahead
<1>20. ASSUME NEW f \in EntryFiles, CopyEntry(p, f) PROVE WholeInv'
  <2>1. /\ ident'[p] = i /\ pc'[p] \in {"record", "fill"} /\ ~cache'[i].legacy
        /\ \A j \in Ids \ {i} : cache'[j] = cache[j]
    BY <1>0, <1>1, <1>20 DEF CopyEntry, Filled
  <2>2. pc'[p] = "record" => Certified(i)'
    BY <1>4, <2>1 DEF DeliverInv, Certified
  <2>3. pc'[p] = "fill" => Filling(i)'
    BY <2>1 DEF Filling
  <2> QED
    BY <1>7, <2>1, <2>2, <2>3 DEF Ahead
<1>21. CASE Make(p)
  <2>1. CASE MakeConfig(p)
    BY <1>0, <1>1, <1>6, <1>14, <2>1 DEF MakeConfig, Ahead
  <2>2. CASE \E g \in Packages : Install(p, g)
    BY <1>0, <1>1, <1>6, <1>14, <2>2 DEF Install, locals, Ahead
  <2>3. CASE MakeImage(p) \/ CopyImage(p)
    BY <1>0, <1>1, <1>6, <1>14, <2>3 DEF MakeImage, CopyImage, locals, Ahead
  <2>4. CASE CopyFails(p)
    BY <1>1, <1>6, <2>4 DEF CopyFails, Ahead
  <2>5. CASE WriteLegacy(p)
    BY <1>0, <1>1, <1>6, <1>14, <2>5 DEF WriteLegacy, locals, Ahead, Discipline
  <2> QED
    BY <1>21, <2>1, <2>2, <2>3, <2>4, <2>5 DEF Make
<1> QED
  BY <1>8, <1>9, <1>10, <1>11, <1>12, <1>13, <1>15, <1>16, <1>17, <1>18, <1>19, <1>20, <1>21
  DEF Ensure

LEMMA WholeStep ==
  ASSUME Discipline, "fill" \notin CrashPoints, StoreInv, StoreInv', WholeInv, [Next]_vars
  PROVE  WholeInv'
<1>1. /\ pc \in [Procs -> Resting \cup Running] /\ ident \in [Procs -> Ids \cup {None}]
      /\ Procs = Ensurers /\ Makers = {} /\ TypeInv /\ LockInv
  BY DEF StoreInv, SoundInv, TypeInv, TypeOK, Procs, Discipline
<1>2. ASSUME cache' = cache, pc' = pc, ident' = ident PROVE WholeInv'
  BY <1>2 DEF WholeInv, Certified, Filling, NeverRefused
<1>3. CASE UNCHANGED vars
  BY <1>2, <1>3 DEF vars, locals
<1>4. CASE (\E c \in Configs : Configure(c)) \/ \E b \in Baselines : EditBaseline(b)
  BY <1>2, <1>4 DEF Configure, EditBaseline, locals
<1>5. ASSUME NEW p \in Ensurers, Open(p) \/ Acquire(p) PROVE WholeInv'
  <2>1. cache' = cache /\ pc[p] # "fill" /\ pc'[p] \in {"lock", "lookup"}
    BY <1>1, <1>5 DEF Open, Acquire, Goto, Resting, Ended
  <2>2. \A q \in Ensurers \ {p} : pc'[q] = pc[q] /\ ident'[q] = ident[q]
    BY <1>1, <1>5 DEF Open, Acquire, Goto, locals
  <2> QED
    BY <2>1, <2>2, WholeKept DEF Ahead
<1>6. ASSUME NEW p \in Ensurers, Ensure(p) \/ Make(p) PROVE WholeInv'
  BY <1>6, WholeActing
<1>7. ASSUME NEW p \in Ensurers, Crash(p) PROVE WholeInv'
  <2>1. cache' = cache /\ pc[p] # "fill" /\ pc'[p] = "stopped"
    BY <1>1, <1>7 DEF Crash, Exit
  <2>2. \A q \in Ensurers \ {p} : pc'[q] = pc[q] /\ ident'[q] = ident[q]
    BY <1>1, <1>7 DEF Crash, Exit
  <2> QED
    BY <2>1, <2>2, WholeKept DEF Ahead
<1> QED
  BY <1>1, <1>3, <1>4, <1>5, <1>6, <1>7 DEF Next

\* No invocation is refused because of what an earlier one left in the cache,
\* unless that one was killed while copytree filled the entry.
THEOREM RefusedNever ==
  ASSUME Discipline, "fill" \notin CrashPoints PROVE Spec => []NeverRefused
<1>1. Init => StoreInv /\ WholeInv
  BY StoreInit, WholeInit
<1>2. StoreInv /\ WholeInv /\ [Next]_vars => (StoreInv /\ WholeInv)'
  BY StoreStep, WholeStep
<1>3. WholeInv => NeverRefused
  BY DEF WholeInv
<1> QED
  BY <1>1, <1>2, <1>3, PTL DEF Spec

=============================================================================
